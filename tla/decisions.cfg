SPECIFICATION DecisionsSpec
CONSTANTS
  b1 = b1
  b2 = b2
  Bisects = {b1, b2}
  Newest = 3
SYMMETRY Interchangeable
INVARIANTS IntakeIsSafe KnowledgeIsSound VerdictsAreEarned ExitTellsVerdict BoundaryIsProbed AnswerIsTrue ProbesAreFew BranchComesBack
