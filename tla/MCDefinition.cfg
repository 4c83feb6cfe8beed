SPECIFICATION ReplSpec
CONSTANTS
  Name <- MCName
  Programs <- MCPrograms
  Lines <- MCDefinition
  LineLength = 3
  MaxInputs = 3
INVARIANT
  DefinitionsAreLines
