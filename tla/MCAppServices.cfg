CONSTANTS
  timer = timer
  first = first
  second = second
  Timer = timer
  Clients <- TwoClients
  Current = 1
  Releases = {1, 2}
  MaxChecks = 2
  MaxDrops = 1
  Bodies <- MCBodies
  MaxTokens = 3
  MaxMishaps = 1
  MaxLives = 2
SPECIFICATION MCSpec
INVARIANTS OneCheckAtATime CredentialKept PageKeepsAsking
CHECK_DEADLOCK FALSE
