SPECIFICATION Spec
CONSTANTS
  Name <- MCName
  Programs <- MCInputs
  LineLength = 3
  MaxInputs = 3
INVARIANTS
  ParentsPrecede
  KeywordsIntact
  ScopesAnnotated
  ReferencesHold
PROPERTY
  DeclarationsStay
