SPECIFICATION ReplSpec
CONSTANTS
  Name <- MCName
  Programs <- MCPrograms
  Lines <- MCStale
  LineLength = 3
  MaxInputs = 3
INVARIANT
  RunsOwnCode
