SPECIFICATION FairSpec
CONSTANTS
  a0 = a0
  Virtual <- MCVirtual
  Physical <- MCPhysical
  Float = {}
  REG_ALLOC <- MCREG_ALLOC
  CalleeSaved = {}
  IntTemps <- MCTemps
  FloatTemps <- MCTemps
  Functions <- MCFunctions
INVARIANTS
  TypeOK
  PendingCoversChanges
  AnalysisIsLiveness
  InterferenceCovered
  RangesCoverMentions
  ReadyForAllocation
PROPERTY
  AnalysisTerminates
CHECK_DEADLOCK FALSE
