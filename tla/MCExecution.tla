----------------------------- MODULE MCExecution -----------------------------
(***************************************************************************)
(* Functions of four blocks, the prolog, a loop, what follows it and the   *)
(* epilog, or of five, with a tail call instead of the loop, compiled for  *)
(* a machine with two integer registers and one for floats, and then run.  *)
(* They keep up to three integers and three floats alive, call, compare    *)
(* and copy, so that operands are spilled in most of them.                 *)
(***************************************************************************)
EXTENDS Execution

CONSTANTS a0, fa0, s0, t1, t2, ft1, ft2, ft0, x, y, ra

v0 == 0
v1 == 1
v2 == 2
f3 == 3
f4 == 4
f5 == 5
f6 == 6

MCVirtual == {v0, v1, v2, f3, f4, f5, f6}
MCPhysical == {a0, fa0, s0, t1, t2, ft1, ft2, ft0}
MCFloat == {f3, f4, f5, f6, fa0, ft1, ft2, ft0}
MCREG_ALLOC == <<a0, s0, fa0>>
MCIntTemps == <<t1, t2, ft0>>
MCFloatTemps == <<ft1, ft2, ft0>>
MCLocalFrames == {[offset |-> 12, locals |-> <<[offset |-> 12, size |-> 4]>>, args |-> 0]}

Define(o) == Instr(<<o>>, <<>>, NoLabel, FALSE)
Copy(o, p) == Instr(<<o>>, <<p>>, NoLabel, TRUE)
Convert(o, p) == Instr(<<o>>, <<p>>, NoLabel, FALSE)
Binary(o, p, q) == Instr(<<o>>, <<p, q>>, NoLabel, FALSE)
FusedMultiplyAdd(o, p, q, r) == Instr(<<o>>, <<p, q, r>>, NoLabel, FALSE)
Branch(p, l) == Instr(<<>>, <<p>>, l, FALSE)
Jump(l) == Instr(<<>>, <<>>, l, FALSE)
Call(arguments) == Instr(<<a0, fa0, t1, t2, ft1, ft2, ft0>>, arguments, NoLabel, FALSE)
Return == Instr(<<>>, <<a0>>, NoLabel, FALSE)

PrologTail ==
  <<Copy(v0, a0), Define(v1), Define(v2), Convert(f3, v0), Convert(f4, v1), Copy(f5, fa0),
    Jump(2)>>

(* What a loop may do, in one or two steps: call, compute with fused       *)
(* floats, compare (which writes its result register twice); then come the *)
(* copies for the phis of the next iteration.                              *)
Work ==
  {<<Copy(a0, v0), Call(<<a0>>), Copy(v2, a0)>>,
   <<FusedMultiplyAdd(f6, f3, f4, f5), Copy(f5, f6), Convert(v2, f6)>>,
   <<Binary(v2, v0, v1), Convert(v2, v2)>>}

Phis == {<<Copy(v0, v2), Copy(v1, v0)>>, <<Copy(v1, v2), Convert(f4, v2)>>}

Loops == {first \o second \o phis \o <<Branch(v2, 2), Jump(3)>> :
            first \in Work, second \in Work, phis \in Phis}

Looping ==
  {<<NewBlock(PrologTail, 0), NewBlock(loop, 1), NewBlock(<<Copy(a0, v1), Jump(4)>>, 0),
     NewBlock(<<Return>>, 0)>> : loop \in Loops}

(* The function calls itself with what the phis would copy, or returns.    *)
TailCalling ==
  {<<NewBlock(PrologTail, 0), NewBlock(first \o second \o <<Branch(v2, 4), Jump(3)>>, 0),
     NewBlock(<<Copy(a0, v2), Copy(fa0, f5), Call(<<a0, fa0>>)>>, 0),
     NewBlock(<<Copy(a0, v1), Jump(5)>>, 0), NewBlock(<<Return>>, 0)>> :
       first \in Work, second \in Work}

MCFunctions == Looping \cup TailCalling

MCValue == {x, y}
=============================================================================
