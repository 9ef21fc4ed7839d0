CONSTANTS
  today = today
  week = week
  Scopes <- TwoScopes
  Sessions <- MCSessions
  WindowPages = 2
  MaxData = 2
  MaxStatus = 0
  MaxBreaks = 1
  MaxPipe = 1
  MaxClicks = 2
  Waiting = Waiting
  NoAsk = NoAsk
  Failure = Failure
SPECIFICATION LiveViewSpec
INVARIANTS
  RowsAreOfTheSnapshot
  TableSettles
PROPERTIES
  FeedCatchesUp
CHECK_DEADLOCK FALSE
