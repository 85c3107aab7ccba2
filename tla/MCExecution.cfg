SPECIFICATION ExecutionSpec
CONSTANTS
  a0 = a0
  fa0 = fa0
  s0 = s0
  t1 = t1
  t2 = t2
  ft1 = ft1
  ft2 = ft2
  ft0 = ft0
  x = x
  y = y
  ra = ra
  Virtual <- MCVirtual
  Physical <- MCPhysical
  Float <- MCFloat
  REG_ALLOC <- MCREG_ALLOC
  CalleeSaved = {s0}
  IntTemps <- MCIntTemps
  FloatTemps <- MCFloatTemps
  Functions <- MCFunctions
  LocalFrames <- MCLocalFrames
  Value <- MCValue
  ReturnAddress = ra
INVARIANT CallerStateRestored
PROPERTY CompiledCodeImplementsSource
CHECK_DEADLOCK FALSE
