SPECIFICATION Spec
CONSTANTS
  Sources = {1, 2}
  Threads = {1, 2}
  ThreadOf <- OwnThreads
  MaxRaw = 5
  MaxGen = 2
  MaxParser = 2
  InitialRaw <- TwoLines
  RewriteRaws <- ShorterRaws
  Bad <- NoBad
  MaxChanges = 2
  MaxFaults = 2
INVARIANT CarryKeepsTailProof
