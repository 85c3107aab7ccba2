------------------------- MODULE FrameLayout_proofs -------------------------
(***************************************************************************)
(* The layout of the frame is sound for variables of every size.           *)
(***************************************************************************)
EXTENDS FrameLayout, Lemmas

IInv == TypeOK /\ Stacked(frame)

LEMMA PushStep ==
  ASSUME IInv, NEW size \in Nat \ {0}, frame' = Push(frame, size)
  PROVE  IInv'
BY PushStacks DEF IInv, TypeOK

LEMMA NextInv == IInv /\ [Next]_frame => IInv'
<1> SUFFICES ASSUME IInv, [Next]_frame
             PROVE  IInv'
  OBVIOUS
<1>1. CASE Alloca
  <2>1. PICK size \in Sizes : frame' = Push(frame, VariableSize(size))
    BY <1>1 DEF Alloca
  <2>2. VariableSize(size) \in Nat \ {0}
    BY SizesAssumption DEF VariableSize
  <2> QED
    BY <2>1, <2>2, PushStep
<1>2. CASE PushDoubleword
  BY <1>2, PushStep DEF PushDoubleword
<1>3. CASE CallWithStackArgs
  <2>1. PICK spilled \in StackArgs : frame' = SpillArgs(frame, spilled)
    BY <1>3 DEF CallWithStackArgs
  <2>2. /\ frame'.offset = frame.offset /\ frame'.locals = frame.locals
        /\ frame' \in Frames
    BY <2>1, SizesAssumption DEF SpillArgs, IInv, TypeOK, Frames
  <2> QED
    BY <2>2 DEF IInv, TypeOK, Stacked
<1>4. CASE UNCHANGED frame
  BY <1>4 DEF IInv, TypeOK, Stacked
<1> QED
  BY <1>1, <1>2, <1>3, <1>4 DEF Next

LEMMA InitInv == Init => IInv
BY EmptyFrameStacked DEF Init, IInv, TypeOK

LEMMA Invariance == Spec => []IInv
BY InitInv, NextInv, PTL DEF Spec

(* The size of the frame covers everything in it.                          *)
LEMMA SizeOfFrame ==
  ASSUME TypeOK
  PROVE  /\ FrameSize(frame) \in Nat
         /\ FrameSize(frame) % 16 = 0
         /\ FrameSize(frame) >= frame.offset + frame.args * 8
<1> DEFINE top == RoundUp(frame.offset, 8)
<1>1. frame.offset \in Nat /\ frame.args \in Nat
  BY DEF TypeOK, Frames
<1>2. top \in Nat /\ top >= frame.offset
  BY <1>1, RoundUpTo
<1> HIDE DEF top
<1>3. top + frame.args * 8 \in Nat
  BY <1>1, <1>2
<1>4. FrameSize(frame) = RoundUp(top + frame.args * 8, 16)
  BY DEF FrameSize, top
<1> QED
  BY <1>1, <1>2, <1>3, <1>4, RoundUpTo

(* The frame stays well formed.                                            *)
THEOREM TypeCorrect == Spec => []TypeOK
<1>1. IInv => TypeOK
  BY DEF IInv
<1> QED
  BY <1>1, Invariance, PTL

(* No two objects of a frame ever share a byte, whatever their sizes and   *)
(* the order they were pushed in, and none reaches into the return address *)
(* or the outgoing arguments.                                              *)
THEOREM LayoutSound == Spec => []NoByteShared
<1>1. IInv => NoByteShared
  <2> SUFFICES ASSUME IInv, NEW i \in DOMAIN frame.locals
               PROVE  /\ ChildArgAddress(frame.args) <= LocalAddress(frame, i)
                      /\ LocalAddress(frame, i) + frame.locals[i].size <= RAAddress(frame)
                      /\ \A j \in DOMAIN frame.locals \ {i} :
                           Apart(LocalAddress(frame, i), frame.locals[i].size,
                                 LocalAddress(frame, j), frame.locals[j].size)
    BY DEF NoByteShared, Object
  <2>1. /\ FrameSize(frame) \in Nat
        /\ FrameSize(frame) >= frame.offset + frame.args * 8
    BY SizeOfFrame DEF IInv
  <2>2. /\ frame.offset \in Nat /\ frame.args \in Nat
        /\ \A j \in DOMAIN frame.locals : /\ j \in Nat
                                          /\ frame.locals[j].offset \in Nat
                                          /\ frame.locals[j].size \in Nat
    BY FrameFacts DEF IInv, TypeOK
  <2>3. \A j \in DOMAIN frame.locals :
          LocalAddress(frame, j) = FrameSize(frame) - frame.locals[j].offset
    BY DEF LocalAddress
  <2>4. ChildArgAddress(frame.args) = frame.args * 8
    BY DEF ChildArgAddress
  <2>5. RAAddress(frame) = FrameSize(frame) - 8
    BY DEF RAAddress, RA
  <2>6. ASSUME NEW j \in DOMAIN frame.locals \ {i}
        PROVE  Apart(LocalAddress(frame, i), frame.locals[i].size,
                     LocalAddress(frame, j), frame.locals[j].size)
    <3>1. i < j \/ j < i
      BY <2>2
    <3> QED
      BY <2>1, <2>2, <2>3, <3>1 DEF IInv, Stacked, Apart
  <2> QED
    BY <2>1, <2>2, <2>3, <2>4, <2>5, <2>6 DEF IInv, Stacked
<1> QED
  BY <1>1, Invariance, PTL

(* sp and every doubleword in the frame are aligned.                       *)
THEOREM AlwaysAligned == Spec => []Aligned
<1>1. IInv => Aligned
  <2> SUFFICES ASSUME IInv
               PROVE  Aligned
    OBVIOUS
  <2>1. FrameSize(frame) \in Nat /\ FrameSize(frame) % 16 = 0
    BY SizeOfFrame DEF IInv
  <2>2. RAAddress(frame) % 8 = 0
    BY <2>1 DEF RAAddress, RA
  <2>3. ASSUME NEW i \in DOMAIN frame.locals, frame.locals[i].size % 8 = 0
        PROVE  LocalAddress(frame, i) % 8 = 0
    <3>1. frame.locals[i].offset \in Nat /\ frame.locals[i].offset % 8 = 0
      BY <2>3, FrameFacts DEF IInv, TypeOK, Stacked
    <3>2. LocalAddress(frame, i) = FrameSize(frame) - frame.locals[i].offset
      BY DEF LocalAddress
    <3>3. FrameSize(frame) % 8 = 0
      BY <2>1
    <3>4. \A m, n \in Nat : m % 8 = 0 /\ n % 8 = 0 => (m - n) % 8 = 0
      OBVIOUS
    <3> QED
      BY <2>1, <3>1, <3>2, <3>3, <3>4
  <2> QED
    BY <2>1, <2>2, <2>3 DEF Aligned, Object
<1> QED
  BY <1>1, Invariance, PTL
=============================================================================
