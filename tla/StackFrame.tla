----------------------------- MODULE StackFrame -----------------------------
(***************************************************************************)
(* The stack frame of a compiled function (struct StackFrame in            *)
(* src/include/bkd_func.h).  The return address occupies the topmost       *)
(* doubleword; locals, spill slots and saved registers are pushed below    *)
(* it, and the outgoing stack arguments lie at the bottom, at sp.          *)
(* `offset' is the distance from the top of the frame to the lowest byte   *)
(* in use.                                                                 *)
(***************************************************************************)
EXTENDS Integers, Sequences

StackObjects == [offset : Nat, size : Nat]
Frames == [offset : Nat, locals : Seq(StackObjects), args : Nat]

RA == [offset |-> 8, size |-> 8]

EmptyFrame == [offset |-> 8, locals |-> <<>>, args |-> 0]

RoundUp(n, k) == IF (n % k) = 0 THEN n ELSE n + (k - (n % k))

(* A slip: no alignment.                                                   *)
UnalignedOffset(offset, size) == offset

(* The two `if's of StackFrame::push.                                      *)
AlignedOffset(offset, size) ==
  LET eight == IF size >= 8 THEN RoundUp(offset, 8) ELSE offset
  IN  IF size >= 16 THEN RoundUp(eight, 16) ELSE eight

(* A slip: an object recorded where the one before it ends.                *)
PushAtTop(frame, size) ==
  LET offset == AlignedOffset(frame.offset, size)
  IN  [frame EXCEPT !.offset = offset + size,
                    !.locals = Append(@, [offset |-> offset, size |-> size])]

Push(frame, size) ==
  LET offset == AlignedOffset(frame.offset, size) + size
  IN  [frame EXCEPT !.offset = offset,
                    !.locals = Append(@, [offset |-> offset, size |-> size])]

(* A slip: the number of locals after the push instead of before.          *)
PushedIndexAfter(frame) == Len(frame.locals) + 2

(* The index StackFrame::push returns, counted from 1 here.                *)
PushedIndex(frame) == Len(frame.locals) + 1

SpillArgs(frame, spilled) ==
  [frame EXCEPT !.args = IF @ < spilled THEN spilled ELSE @]

FrameSize(frame) == RoundUp(RoundUp(frame.offset, 8) + frame.args * 8, 16)

(* Func::translate: the distance from sp.  Argument areas count from 0.    *)
LocalAddress(frame, index) == FrameSize(frame) - frame.locals[index].offset
ParentArgAddress(frame, index) == FrameSize(frame) + index * 8
ChildArgAddress(index) == index * 8
RAAddress(frame) == FrameSize(frame) - RA.offset
-----------------------------------------------------------------------------
(* A frame as pushes leave it: the objects lie one below the other, in the *)
(* order they were pushed in, below ra, whole doublewords aligned.         *)
Stacked(frame) ==
  /\ frame.offset >= 8
  /\ \A i \in DOMAIN frame.locals :
       /\ frame.locals[i].size > 0
       /\ frame.locals[i].offset - frame.locals[i].size >= 8
       /\ frame.locals[i].offset <= frame.offset
       /\ frame.locals[i].size % 8 = 0 => frame.locals[i].offset % 8 = 0
       /\ \A j \in DOMAIN frame.locals :
            i < j => frame.locals[i].offset <= frame.locals[j].offset - frame.locals[j].size
=============================================================================
