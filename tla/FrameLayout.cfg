SPECIFICATION Spec
CONSTANTS
  Sizes = {1, 4, 12, 16, 20, 40}
  StackArgs = {1, 3}
  MaxLocals = 4
INVARIANTS
  NoByteShared
  Aligned
