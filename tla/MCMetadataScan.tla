---------------------------- MODULE MCMetadataScan ----------------------------
(* Instances of MetadataScan. *)
EXTENDS MetadataScan, TLC

CONSTANTS t1, t2

\* The first contents belong to t1, the third to t2.
MCOwner == [tag \in 1..MaxChanges |-> IF tag = 3 THEN t2 ELSE t1]

\* The second line of the second content is replayed from a foreign thread.
MCForeign == [tag \in 1..MaxChanges |-> IF tag = 2 THEN 2 ELSE 0]

NoCandidates == [p \in Paths |-> NoThread]

\* The last path carries the name of t2.
NamedPath == [p \in Paths |-> IF p \in ArchivedPaths THEN t2 ELSE NoThread]

SourceSymmetry == Permutations(Sources) \union Permutations(Inodes)
==============================================================================
