SPECIFICATION Spec
CONSTANTS
  N = 2
  Graphs <- NoDeps
  MaxParallel = 1
  Outcomes = {"Completed"}
  FaultClaims = {"Uncertain"}
  Interrupt <- MCInterrupt
  HasBudget = FALSE
INVARIANT SerialWhenOnePermit
