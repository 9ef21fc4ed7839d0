SPECIFICATION FairSpec
CONSTANTS
  Homes = {h1}
  NoHome = NoHome
  Requesters = {r1}
  Stoppers = {x1, x2}
  Nobody = Nobody
  Capacity = 1
  MaxTicks = 0
  MaxBusy = 1
  MaxInternal = 0
  MaxCrashes = 1
PROPERTIES
  RequestIsAnswered
  ShutdownIsAnswered
  ScanEnds
  FollowupIsResolved
CHECK_DEADLOCK FALSE
