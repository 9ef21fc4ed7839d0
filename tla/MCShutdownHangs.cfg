SPECIFICATION FairSpec
CONSTANTS
  Homes = {h1}
  NoHome = NoHome
  Requesters = {}
  Stoppers = {x1}
  Nobody = Nobody
  Capacity = 1
  MaxTicks = 0
  MaxBusy = 1
  MaxInternal = 1
  MaxCrashes = 0
PROPERTIES
  ShutdownIsAnswered
CHECK_DEADLOCK FALSE
