SPECIFICATION StoresSpec
CONSTANTS
  Procs = {p1, p2}
  Machine <- Plain
  Keys = {"local", "a", "b"}
  Cap = 2
  MaxEdits = 3
  Names = {f1, f2}
  Replayers = {r1, r2}
  MaxCaptures = 2
  Docs <- Sheets
  Chips = {"orin", "xavier"}
  Clients = {c1, c2}
  Stacks <- Lines
  MaxText = 2
  MaxSends = 4
  MaxClaims = 3
  Themes = {"thermal"}
  Starting = {s1, s2}
  Parts = {"SKILL.md", "notes"}
  MaxTurns = 4
  Looks = {"diff", "test"}
  MaxChange = 2
  MaxDrops = 1
INVARIANTS FilesAreTrue DetectionIsSound ReplaysAreTrue ServerIsTrue PacksAreTrue CockpitIsTrue
PROPERTIES DesktopSettles
CHECK_DEADLOCK FALSE
