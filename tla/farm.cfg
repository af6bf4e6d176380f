SPECIFICATION FarmFairSpec
CONSTANTS
  h1 = h1
  h2 = h2
  p1 = p1
  Holders = {h1, h2}
  Processes = {p1}
  ProcOf <- OneProcess
  NoHolder = NoHolder
  TTL = 4
  Timeouts = {1}
  ConnectTimeout = 1
  KillAfter = 1
  ClientGrace = 2
  Latency = 1
INVARIANT NoStrayAfterAnswer
PROPERTIES ImplementsLock CoverageIsKept CommandsLeaveBoard ExecReturns
