SPECIFICATION Spec
CONSTANTS
  IntBits = 12
  MaxFuel = 200
  MaxVisits = 300
  Stages = 7
  Programs <- MCPrograms
  Inputs <- MCInputs
INVARIANTS
  NoCrash
  DefinitionsDominate
PROPERTY
  MeaningKept
  CodeMeaningKept
CHECK_DEADLOCK FALSE
