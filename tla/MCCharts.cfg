SPECIFICATION Spec
CONSTANTS
  Null = Null
  Undefined = Undefined
  Boolean = Boolean
  Other = Other
  NonEmpty = {"a", "b", "c", "g", "lost"}
  Registered = {"line", "bar", "area", "scatter", "pie", "map"}
  Indices <- MCIndices
  Cases <- MCCases
CHECK_DEADLOCK FALSE
INVARIANTS
  PreparedIsDrawable
  EveryRowIsDrawnOnce
  AxisInDatasetOrder
  InspectListsTheReferences
