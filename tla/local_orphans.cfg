SPECIFICATION RunSpec
CONSTANTS
  Shell = sh
  Children = {c1, c2}
  Deadline = 2
  KillGrace = 1
INVARIANTS NoOrphans
