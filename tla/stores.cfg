SPECIFICATION Spec
CONSTANTS
  c1 = c1
  c2 = c2
  c3 = c3
  p1 = p1
  p2 = p2
  Client = {c1, c2, c3}
  Process = {p1, p2}
  Home <- MCHome
  Workloads <- MCWorkloads
  MaxNow = 1
  PageSize = 2
INVARIANTS TypeOK NoLostUpdate OneUpdatePerVersion ActiveRunsOfOneProcess ConversationOrder RedecidedOnlyFromStaleCopy PagesComplete
SYMMETRY SameProcess
CHECK_DEADLOCK FALSE
