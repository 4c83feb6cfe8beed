SPECIFICATION GenSpec
CONSTANTS
  Name <- MCName
  Programs <- MCPrograms
  LineLength = 3
  MaxInputs = 1
INVARIANTS
  GenTypeOK
  SymbolsExist
  BuilderRestored
  CallsAsResolved
  StorageAsResolved
  ReturnsLast
  SuiteCompiles
PROPERTY
  SlotsNotShared
