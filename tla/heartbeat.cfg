SPECIFICATION Spec
CONSTANTS
  t1 = t1
  t2 = t2
  gateway = gateway
  daemon = daemon
  gatewayLoop = gatewayLoop
  request = request
  daemonLoop = daemonLoop
  Task = {t1, t2}
  Engine <- MCEngine
  Pulse <- MCPulse
  Host <- MCHost
  Requested <- MCRequested
  Awaiting = {t1, t2}
  Wrap = 2
  MaxFaults = 1
INVARIANTS SoleHolder AtMostOnce CountedOnce
PROPERTY EveryTaskFinished
