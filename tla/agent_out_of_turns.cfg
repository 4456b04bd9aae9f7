SPECIFICATION Spec
CONSTANTS
  Tool = {"read", "write"}
  Idempotent = {"read"}
  MaxTurns = 1
  MaxCalls = 2
  MaxAttempts = 3
  Ceiling = 2
  HasTimeout = TRUE
  Reported = {"Unavailable", "Failed", "ApprovalPending"}
INVARIANT OutOfTurnsClaimsNoCertainty
