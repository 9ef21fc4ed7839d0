CONSTANTS
  timer = timer
  first = first
  second = second
  Timer = timer
  Clients <- TwoClients
  Current = 1
  Releases = {1, 2}
  MaxChecks = 2
  MaxDrops = 0
  Bodies <- MCBodies
  MaxTokens = 3
  MaxMishaps = 1
  MaxLives = 1
SPECIFICATION FairUpdates
PROPERTIES EveryCheckReturns
CHECK_DEADLOCK FALSE
