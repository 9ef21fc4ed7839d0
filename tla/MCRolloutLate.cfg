SPECIFICATION Spec
CONSTANTS
  Own = Own
  Other = Other
  None = None
  Subagent = Subagent
  HomeDir = HomeDir
  WorkDir = WorkDir
  ModelA = ModelA
  ModelB = ModelB
  PathA = PathA
  Lines <- RolloutLines
  Born <- OwnBorn
  Named = FALSE
  Listings = {None, Own}
  LateReplay = TRUE
  MaxLines = 5
INVARIANTS
  CountedAreTheOwned
CHECK_DEADLOCK FALSE
