SPECIFICATION Spec
CONSTANTS
  A = A
  B = B
  NoFile = NoFile
  Truncated = Truncated
  MaxRuns = 3
  Sources <- MCSources
  Paths <- MCPaths
  Requests <- MCRequests
INVARIANTS
  CompileInv
  StatusTells
  StopLeavesAssembly
PROPERTIES
  ExecutablesSafe
  AssemblySafe
  Implements
CHECK_DEADLOCK FALSE
