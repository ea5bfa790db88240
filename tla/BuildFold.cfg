SPECIFICATION FoldSpec
CONSTANT Members = {a, b}
CHECK_DEADLOCK FALSE
INVARIANTS
  FactsAgree
  PhaseDiffersOnlyForOrphans
  QuestionsFollowTheMember
