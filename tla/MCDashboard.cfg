CONSTANTS
  h1 = h1
  today = today
  week = week
  Homes <- MCHomes
  NoHome = NoHome
  Scopes <- TwoScopes
  MaxData = 1
  MaxStatus = 6
  MaxBreaks = 1
  MaxPipe = 1
  MaxScans = 2
  MaxClicks = 1
  Waiting = Waiting
  NoAsk = NoAsk
  Failure = Failure
SPECIFICATION DashSpec
SYMMETRY ScopeSymmetry
INVARIANTS
  RefreshEndsWithTheScan
  RunningIsAttended
CHECK_DEADLOCK FALSE
