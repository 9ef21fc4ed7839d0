SPECIFICATION Spec
CONSTANTS
  SessionPaths = {1}
  ArchivedPaths = {3}
  Inodes = {i1, i2}
  NoInode = NoInode
  t1 = t1
  t2 = t2
  Threads = {t1, t2}
  NoThread = NoThread
  Sources = {s1, s2}
  MaxSize = 3
  MaxChanges = 3
  Kinds = {"replace", "remove", "restore", "rename", "cover", "rewrite", "grow", "reuse"}
  Owner <- MCOwner
  Foreign <- MCForeign
  Candidate <- NamedPath
  MaxVersion = 2
  MaxFaults = 1
SYMMETRY SourceSymmetry
INVARIANTS
  FactIsOfOneContent
  CleanRoundIsCurrent
PROPERTIES
  NewGenerationIsNewContent
  ThreadAdvancesTogether
