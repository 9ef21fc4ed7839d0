SPECIFICATION LedgerSpec
CONSTANTS
  Threads = {1, 2, 3}
  NoThread = NoThread
  NoRow = NoRow
  Keep = Keep
  Clear = Clear
  MaxDepth = 3
  Tree <- MCTree
  Edges <- MCEdges
  StateRows <- MCStateRows
  Evidence <- MCEvidence
  Left <- MCLeft
  MaxChanges = 2
  NoCount = NoCount
  Lines <- MCLines
  Programs <- MCPrograms
  MaxInt64 = 20
  Active = 1
  Ranges <- MCRanges
  Filters <- MCFilters
  MaxFaults = 1
INVARIANTS
  ChartsAddUp
  PatchesFit
  OwnAncestry
  ViewsOfASessionAgree
CHECK_DEADLOCK FALSE
