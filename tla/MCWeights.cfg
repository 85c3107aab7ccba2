SPECIFICATION Spec
CONSTANTS
  a0 = a0
  s0 = s0
  t1 = t1
  t2 = t2
  ft0 = ft0
  ft1 = ft1
  ft2 = ft2
  Virtual <- MCVirtual
  Physical <- MCPhysical
  Float <- MCFloat
  REG_ALLOC <- MCREG_ALLOC
  CalleeSaved = {s0}
  IntTemps <- MCIntTemps
  FloatTemps <- MCFloatTemps
  Functions <- MCFunctions
  LocalFrames <- MCLocalFrames
PROPERTY LighterLoses
CHECK_DEADLOCK FALSE
