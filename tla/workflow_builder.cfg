SPECIFICATION Spec
CONSTANTS
  Id = {a, b, c, none}
  EmptyId = none
  MaxTasks = 3
  MaxDeps = 2
INVARIANTS TypeOK Verdict
PROPERTY BuildReturns
