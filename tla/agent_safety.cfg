SPECIFICATION Spec
CONSTANTS
  Tool = {"read", "write"}
  Idempotent = {"read"}
  MaxTurns = 2
  MaxCalls = 2
  MaxAttempts = 3
  Ceiling = 2
  HasTimeout = TRUE
  Reported = {"Unavailable", "Failed", "ApprovalPending"}
INVARIANTS RetriesHarmless NoEffectRecordIsTrue HaltIsLast RootOfStreak OutcomeKeepsApproval
PROPERTY CancelEndsTask
