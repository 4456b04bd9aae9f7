SPECIFICATION Spec
CONSTANTS
  Waiter = {w1, w2, w3}
  Canceller = {c1, c2}
INVARIANT NoLostWakeup
PROPERTY CancelReachesWaiters
CHECK_DEADLOCK FALSE
