SPECIFICATION Spec
CONSTANTS
  Null = Null
  Undefined = Undefined
  wordA = wordA
  wordB = wordB
  Words <- MCWords
  Names <- MCNames
  Types = {"number", "string", "boolean", "array"}
  Expressions <- MCExpressions
  MaxExpressionDepth = 2
  Values = {1, 2}
  MaxTransforms = 2
  Manifests <- MCManifests
  Results <- MCResults
  MaxRows = 3
CHECK_DEADLOCK FALSE
INVARIANT NamesAreDistinct
