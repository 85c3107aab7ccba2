SPECIFICATION Spec
CONSTANTS
  IntBits = 12
  MaxFuel = 200
  MaxVisits = 300
  Stages = 7
  Programs <- Swapped
  Inputs <- MCInputs
PROPERTY
  CodeMeaningKept
CHECK_DEADLOCK FALSE
