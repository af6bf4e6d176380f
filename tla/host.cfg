SPECIFICATION HostSpec
CONSTANTS
  h1 = h1
  h2 = h2
  h3 = h3
  p1 = p1
  p2 = p2
  p3 = p3
  Holders = {h1, h2, h3}
  Processes = {p1, p2, p3}
  ProcOf <- OwnProcess
  NoHolder = NoHolder
  TTL = 3
  m0 = m0
  m1 = m1
  PowerModes = {m0, m1}
  Current = Current
  NoMode = NoMode
  Plans <- OneOrTwoModes
  Schedule <- LoadAndCool
  Window = 2
  MinSamples = 2
  Overhead = 1
  Shell = sh
  Children = {c1, c2}
  Deadline = 2
  KillGrace = 1
INVARIANTS NoGhostLease SurvivalIsEarned AnomalyIsPlaced EnvelopesAreTrue ModeIsRestored TreeIsKilled
PROPERTIES SecureIsStable CrashFreesBoard RetryWins SoakEnds RunReturns
