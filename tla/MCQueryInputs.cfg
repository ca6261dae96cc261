SPECIFICATION Spec
CONSTANTS
  ParameterNames <- MCParameterNames
  BindingNames <- MCBindingNames
  Values <- MCValues
  Specs <- MCSpecs
  Inputs <- MCInputs
CHECK_DEADLOCK FALSE
INVARIANTS
  StagesAgree
  SentAsDeclared
