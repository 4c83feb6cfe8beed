SPECIFICATION Spec
CONSTANTS
  Name <- MCName
  Programs <- MCPrograms
  LineLength = 3
  MaxInputs = 1
INVARIANTS
  TypeOK
  ResolvedAsScoped
  ErrorsDeserved
  InScope
  PassesRestore
