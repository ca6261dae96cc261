SPECIFICATION Spec
CONSTANTS
  p1 = p1
  p2 = p2
  Policies <- MCPolicies
  Transforms = 2
CHECK_DEADLOCK FALSE
INVARIANTS
  TypeOK
  FailsClosed
  FirstRefusalDecides
  PolicyAbortMeansAborted
  NothingLeftBehind
PROPERTIES
  KeepsPromise
  StoppedEnds
