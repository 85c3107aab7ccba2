SPECIFICATION Spec
CONSTANTS
  IntBits = 8
  MaxFuel = 60
  MaxVisits = 300
  Stages = 5
  Programs <- MCPrograms
  Inputs <- MCInputs
INVARIANTS
  Accepted
  NoCrash
  PhisComplete
  UseListsAgree
  DefinitionsDominate
PROPERTY
  MeaningKept
  Terminates
CHECK_DEADLOCK FALSE
