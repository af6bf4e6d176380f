SPECIFICATION SessionSpec
CONSTANTS
  Costs = {1, 2}
  MaxCost = 2
  Halt = 2
  MaxTurns = 4
  AuditTurns = 3
  MaxLag = 2
  Sessions = {s1, s2, s3}
  Spends = {2, 4}
  Audits = {0, 2}
  Rates = {2, 8}
  Window = 2
  MinSamples = 1
  MaxFailures = 3
  MaxDrafts = 2
  MaxTasks = 4
  Tools = {"restart", "write", "remove"}
  Calls = {c1, c2}
  MaxWrites = 2
INVARIANTS GateFailsClosed
CHECK_DEADLOCK FALSE
