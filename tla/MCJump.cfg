SPECIFICATION Spec
CONSTANTS
  Names <- MCNames
  TypeNames <- MCTypeNames
  Numerals <- MCNumerals
  MaxParts = 4
  Programs <- MCReturn
INVARIANTS
  JumpFindsKeyword
CHECK_DEADLOCK FALSE
