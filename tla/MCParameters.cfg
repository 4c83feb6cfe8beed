SPECIFICATION Spec
CONSTANTS
  Name <- MCName
  Programs <- MCParameters
  LineLength = 3
  MaxInputs = 1
INVARIANT
  ParametersAreLocal
