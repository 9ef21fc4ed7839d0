SPECIFICATION Spec
CONSTANTS
  Homes = {h1, h2}
  NoHome = NoHome
  Requesters = {r1}
  Stoppers = {x1}
  Nobody = Nobody
  Capacity = 1
  MaxTicks = 1
  MaxBusy = 1
  MaxInternal = 1
  MaxCrashes = 1
INVARIANTS
  AcceptedRequestIsServedLater
  ActiveScanIsAttended
  QueuedFollowupIsScheduled
  StoreCallsAreLegal
CHECK_DEADLOCK FALSE
