SPECIFICATION BoundedSpec
CONSTANTS
  Homes = {h1, h2}
  NoHome = NoHome
  MaxScans = 4
SYMMETRY HomeSymmetry
INVARIANTS
  ReadableState
  ProjectionMatchesRows
  RevisionsNameOneStep
PROPERTIES
  FollowupIsHandedOver
  PromiseKept
CHECK_DEADLOCK FALSE
