SPECIFICATION Spec
CONSTANTS
  N = 3
  Graphs <- FewGraphs
  MaxParallel = 2
  Outcomes = {"Completed", "ApprovalPending", "Panicked"}
  FaultClaims = {"Uncertain"}
  Interrupt <- MCInterrupt
  HasBudget = TRUE
PROPERTIES StoppedReturns ReturnsIfBodiesDo
