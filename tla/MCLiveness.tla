----------------------------- MODULE MCLiveness -----------------------------
(***************************************************************************)
(* Liveness on every function of three blocks built from a few body shapes *)
(* and every way of leaving a block.  Block 1 is the prolog, which nothing *)
(* jumps to; blocks 2 and 3 may form loops, and one of them may be out of  *)
(* reach.                                                                  *)
(***************************************************************************)
EXTENDS Liveness

CONSTANTS a0

v0 == 0
v1 == 1

MCVirtual == {v0, v1}
MCPhysical == {a0}
MCREG_ALLOC == <<a0>>
MCTemps == <<>>

Define(o) == Instr(<<o>>, <<>>, NoLabel, FALSE)
Copy(o, p) == Instr(<<o>>, <<p>>, NoLabel, TRUE)
Add(o, p, q) == Instr(<<o>>, <<p, q>>, NoLabel, FALSE)
Branch(p, l) == Instr(<<>>, <<p, p>>, l, FALSE)
Jump(l) == Instr(<<>>, <<>>, l, FALSE)
Call == Instr(<<a0>>, <<a0>>, NoLabel, FALSE)
Return == Instr(<<>>, <<a0>>, NoLabel, FALSE)

Prolog == <<Copy(v0, a0), Define(v1)>>

Bodies ==
  {<<Add(v0, v0, v1)>>,
   <<Copy(v1, v0)>>,
   <<Copy(a0, v0), Call>>,
   <<Define(v1), Add(v1, v1, v1)>>,
   <<Copy(v1, a0), Copy(a0, v1)>>}

Exits ==
  {<<Return>>, <<Jump(2)>>, <<Jump(3)>>,
   <<Branch(v0, 2), Jump(3)>>, <<Branch(v1, 3), Jump(2)>>}

(* The prolog writes both virtual operands, so that every read is reached *)
(* by a write, as it is in code selected from SSA form.                    *)
MCFunctions ==
  {<<NewBlock(Prolog \o e[1], 0), NewBlock(b2 \o e[2], 0), NewBlock(b3 \o e[3], 0)>> :
     b2 \in Bodies, b3 \in Bodies, e \in Exits \X Exits \X Exits}
=============================================================================
