SPECIFICATION Spec
CONSTANTS
  Names <- MCNames
  TypeNames <- MCTypeNames
  Numerals <- MCNumerals
  MaxParts = 4
  Programs <- MCElseIf
INVARIANTS
  BranchesKept
CHECK_DEADLOCK FALSE
