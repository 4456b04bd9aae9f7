SPECIFICATION Spec
CONSTANTS
  c1 = c1
  c2 = c2
  Client = {c1, c2}
  Loop = loop
  Plans <- MCPlans
  Capacity = 1
  Buffer = 1
INVARIANTS TypeOK PulseFeed AnswersInOrder GatedEffects
PROPERTIES Served
CHECK_DEADLOCK FALSE
