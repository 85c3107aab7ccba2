------------------------------ MODULE MCWeights ------------------------------
(***************************************************************************)
(* One integer register and two operands that need it in a loop.  v0 is    *)
(* read before the loop and carried through it for the return, v1 is       *)
(* recomputed and read in every iteration.                                 *)
(***************************************************************************)
EXTENDS Func

CONSTANTS a0, s0, t1, t2, ft0, ft1, ft2

v0 == 0
v1 == 1

MCVirtual == {v0, v1}
MCPhysical == {a0, s0, t1, t2, ft0, ft1, ft2}
MCFloat == {ft0, ft1, ft2}
MCREG_ALLOC == <<s0>>
MCIntTemps == <<t1, t2, ft0>>
MCFloatTemps == <<ft1, ft2, ft0>>
MCLocalFrames == {EmptyFrame}

Entry == <<Instr(<<v0>>, <<a0>>, NoLabel, TRUE), Instr(<<>>, <<>>, 2, FALSE)>>

Loop == <<Instr(<<v1>>, <<>>, NoLabel, FALSE),
          Instr(<<>>, <<v1, v1>>, NoLabel, FALSE),
          Instr(<<>>, <<v1, v1>>, 2, FALSE),
          Instr(<<>>, <<>>, 3, FALSE)>>

Exit == <<Instr(<<a0>>, <<v0>>, NoLabel, TRUE), Instr(<<>>, <<a0>>, NoLabel, FALSE)>>

MCFunctions == {<<NewBlock(Entry, 0), NewBlock(Loop, 1), NewBlock(Exit, 0)>>}
=============================================================================
