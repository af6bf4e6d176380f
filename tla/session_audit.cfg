SPECIFICATION Spec
CONSTANTS
  Costs = {1, 2}
  MaxCost = 2
  Halt = 2
  MaxTurns = 4
  AuditTurns = 3
  MaxLag = 2
INVARIANTS SuccessMeansAudited
