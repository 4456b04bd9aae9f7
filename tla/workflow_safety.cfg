SPECIFICATION Spec
CONSTANTS
  N = 3
  Graphs <- AllGraphs
  MaxParallel = 2
  Outcomes = {"Completed", "Failed", "ApprovalPending", "TimedOut", "Panicked"}
  FaultClaims = {"NoEffect", "Uncertain"}
  Interrupt <- MCInterrupt
  HasBudget = TRUE
INVARIANTS TypeOK Accounting NoOrphanBody FailuresExplained NoEffectIsTrue AtMostOneLateStart ReportTruthful
PROPERTY ImplementsTaskGraph
