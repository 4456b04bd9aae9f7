SPECIFICATION Spec
CONSTANTS
  Budget = 45
  SystemWords = 6
  GoalWords = 3
  TextWords = {0, 6}
  CallWords = {3}
  OutputWords = {1, 12}
  MaxCalls = 2
  MaxTurns = 3
INVARIANTS WindowIsTail LongestTailSent RequestsAnswered
