SPECIFICATION Spec
CONSTANTS
  Names <- MCNames
  TypeNames <- MCTypeNames
  Numerals <- MCNumerals
  MaxParts = 4
  Programs <- MCPathCut
INVARIANTS
  LeftoversRead
CHECK_DEADLOCK FALSE
