SPECIFICATION Spec
CONSTANTS
  Names <- MCNames
  TypeNames <- MCTypeNames
  Numerals <- MCNumerals
  MaxParts = 4
  Programs <- MCPrograms
INVARIANTS
  ParserTypeOK
  NothingLost
  KeptInOrder
  QuietMeansWhole
  OperatorsNest
PROPERTIES
  ActionsFindNodes
  Framed
  Terminates
CHECK_DEADLOCK FALSE
