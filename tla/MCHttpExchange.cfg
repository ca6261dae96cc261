SPECIFICATION Spec
CONSTANTS
  warehouse = warehouse
  r1 = r1
  r2 = r2
  Requests <- MCRequests
  Bodies <- MCBodies
  Registered <- MCRegistered
  Plugins <- MCPlugins
  Needs <- MCNeeds
  Codes <- MCCodes
  UnusableNames = {""}
  MaxParameterDepth = 2
  Graphs <- MCGraphs
CHECK_DEADLOCK FALSE
INVARIANTS
  PreparedOnce
  AbortHasACause
  SameAsLocal
  ParametersAreChecked
PROPERTY
  BothSidesEnd
