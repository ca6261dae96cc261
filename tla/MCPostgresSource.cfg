SPECIFICATION Spec
CONSTANTS
  e1 = e1
  e3 = e3
  e2 = e2
  b1 = b1
  Nothing = Nothing
  Executions <- MCExecutions
  Backends <- MCBackends
CHECK_DEADLOCK FALSE
INVARIANTS
  CancelTargetsOwnBackend
  SettledLeavesNothing
PROPERTIES
  ImplementsStatementExecutor
  AbortEndsStatement
