----------------------------- MODULE FrameLayout -----------------------------
(***************************************************************************)
(* How the frame of module StackFrame is used while a function is          *)
(* compiled: convert_alloca_instr pushes local variables, spill and        *)
(* add_saved_register push doublewords, and convert_call_instr reserves    *)
(* the area for the arguments that do not fit in registers.  Addresses are *)
(* only computed when all of this is over; the properties below hold at    *)
(* every moment, so also then.                                             *)
(***************************************************************************)
EXTENDS StackFrame

CONSTANTS
  Sizes,       \* the sizes of local variables, in bytes
  StackArgs,   \* how many arguments a call may pass on the stack
  MaxLocals    \* bounds the number of pushes; not in the code

ASSUME SizesAssumption ==
  /\ Sizes \subseteq Nat \ {0}
  /\ StackArgs \subseteq Nat
  /\ MaxLocals \in Nat

VARIABLE frame

Init == frame = EmptyFrame

(* convert_alloca_instr: a bool occupies a word.                           *)
VariableSize(size) == IF size = 1 THEN 4 ELSE size

Alloca ==
  /\ Len(frame.locals) < MaxLocals
  /\ \E size \in Sizes : frame' = Push(frame, VariableSize(size))

PushDoubleword ==
  /\ Len(frame.locals) < MaxLocals
  /\ frame' = Push(frame, 8)

CallWithStackArgs == \E spilled \in StackArgs : frame' = SpillArgs(frame, spilled)

Next == Alloca \/ PushDoubleword \/ CallWithStackArgs

Spec == Init /\ [][Next]_frame
-----------------------------------------------------------------------------
TypeOK == frame \in Frames

Object(i) == frame.locals[i]

(* The bytes from a on that an object of the given size occupies and those *)
(* of an object at b have nothing in common.                               *)
Apart(a, size, b, other) == a + size <= b \/ b + other <= a

(* No byte of the frame belongs to two of: the outgoing arguments, the     *)
(* local variables and slots, the return address.  The alignment of a      *)
(* later object never lets it slide into an earlier one.                   *)
NoByteShared ==
  \A i \in DOMAIN frame.locals :
    /\ ChildArgAddress(frame.args) <= LocalAddress(frame, i)
    /\ LocalAddress(frame, i) + Object(i).size <= RAAddress(frame)
    /\ \A j \in DOMAIN frame.locals \ {i} :
         Apart(LocalAddress(frame, i), Object(i).size, LocalAddress(frame, j), Object(j).size)

(* sp stays aligned to 16 bytes, and what is accessed by doublewords (ra,  *)
(* slots, arguments, variables of whole doublewords) to 8.                 *)
Aligned ==
  /\ FrameSize(frame) % 16 = 0
  /\ RAAddress(frame) % 8 = 0
  /\ \A i \in DOMAIN frame.locals :
       Object(i).size % 8 = 0 => LocalAddress(frame, i) % 8 = 0
=============================================================================
