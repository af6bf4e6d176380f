SPECIFICATION Spec
CONSTANTS
  h1 = h1
  h2 = h2
  h3 = h3
  p1 = p1
  p2 = p2
  p3 = p3
  Holders = {h1, h2}
  Processes = {p1, p2}
  ProcOf <- OwnProcess
  NoHolder = NoHolder
  TTL = 3
INVARIANTS MutualExclusion
