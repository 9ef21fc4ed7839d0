SPECIFICATION TokenSpec
CONSTANTS
  Models = {m1, m2}
  Ids = {t1}
  None = None
  UnknownModel = UnknownModel
  Mixed = Mixed
  Amounts <- Skewed
  MaxTokens = 4
  MaxLines = 7
  MaxBatch = 2
  MaxOdd = 1
  ReusedIds = FALSE
  BadPrefix = FALSE
INVARIANT
  EveryBatchCommits
CHECK_DEADLOCK FALSE
