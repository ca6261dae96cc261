SPECIFICATION Spec
CONSTANTS
  NoPlugin = NoPlugin
  Plugins = {1, 2, 3}
  Callers = {1, 2, 3}
  MaxUses = 3
CONSTRAINT InTurn
CHECK_DEADLOCK FALSE
INVARIANT GuardedByEveryPolicy
