SPECIFICATION Spec
CONSTANTS
  IntBits = 12
  MaxFuel = 200
  MaxVisits = 300
  Stages = 6
  Programs <- Listed
  Inputs <- MCInputs
PROPERTY
  MeaningKept
CHECK_DEADLOCK FALSE
