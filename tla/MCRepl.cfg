SPECIFICATION ReplSpec
CONSTANTS
  Name <- MCName
  Programs <- MCPrograms
  Lines <- MCLines
  LineLength = 3
  MaxInputs = 3
INVARIANTS
  ReplTypeOK
  ModuleWhole
PROPERTIES
  LineLeavesNothing
  DefinitionsSurvive
  LinesAreOver
