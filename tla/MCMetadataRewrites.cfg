SPECIFICATION Spec
CONSTANTS
  SessionPaths = {1}
  ArchivedPaths = {3}
  Inodes = {i1, i2}
  NoInode = NoInode
  t1 = t1
  t2 = t2
  Threads = {t1, t2}
  NoThread = NoThread
  Sources = {1, 2}
  MaxSize = 3
  MaxChanges = 3
  Kinds = {"replace", "rewrite", "grow"}
  Owner <- MCOwner
  Foreign <- MCForeign
  Candidate <- NoCandidates
  MaxVersion = 1
  MaxFaults = 0
PROPERTIES
  EventuallyCurrentOrBroken
