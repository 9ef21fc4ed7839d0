-------------------------- MODULE MetadataScanProofs --------------------------
(***************************************************************************)
(* What holds of the metadata rounds for every set of paths, files,        *)
(* threads and source ids and every bound: a round calls the registry only *)
(* as RegistrySpec allows, so what is proved of the registry holds while   *)
(* files change, rounds fail and builds are replaced; and what a fact is   *)
(* read from, what a clean round has caught up with, and when a file       *)
(* starts a new generation.                                                *)
(*                                                                         *)
(* The invariants are stacked: IInv types a round; Pure, on top of it,     *)
(* keeps contents apart; Lines and Progress follow what is read and left   *)
(* to read; Origins remembers which files a row has seen.                  *)
(***************************************************************************)
EXTENDS MetadataScan, TLAPS

------------------------------------------------------------------------------
(* The registry alone, whatever is observed, rebuilt and committed.           *)

\* The inductive invariant: matching by identity is unambiguous only while no
\* two rows have one identity, and the latest generation of several rows exists
\* only because generations are numbers.
Distinct == RegistryTypeOK /\ RowsAreDistinct

------------------------------------------------------------------------------
(* How a batch is matched (plan_observations). *)

\* A registered row has the columns of Row.
LEMMA RowType ==
  ASSUME RegistryTypeOK, NEW s \in Registered
  PROVE  sources[s] \in Row /\ s \in Sources
BY DEF RegistryTypeOK, Registered

\* While identities are distinct, "the latest generation with o's identity" is
\* every row with o's identity.
LEMMA IdentifiedIsSameFile ==
  ASSUME Distinct, NEW o
  PROVE  Identified(o) = SameFile(o)
<1>1. ASSUME NEW r \in SameFile(o), NEW s \in SameFile(o)
      PROVE  sources[r].gen <= sources[s].gen
  <2>1. r \in Registered /\ s \in Registered /\ sources[r].inode = sources[s].inode
    BY <1>1 DEF SameFile
  <2>2. r = s
    BY <2>1 DEF Distinct, RowsAreDistinct
  <2>3. sources[r].gen \in Nat
    BY <2>1, RowType DEF Distinct, Row
  <2> QED BY <2>2, <2>3
<1> QED BY <1>1 DEF Identified

\* An observation goes to at most one source.
LEMMA MatchedOnce ==
  ASSUME Distinct, NEW B, NEW o, NEW r \in Match(B, o), NEW s \in Match(B, o)
  PROVE  r = s /\ s \in Registered
BY IdentifiedIsSameFile DEF Distinct, RowsAreDistinct, Match, SameFile, AtPath

\* A source gets at most one observation of a legal batch.
LEMMA ClaimedOnce ==
  ASSUME Distinct, NEW B, LegalBatch(B), NEW a \in B, NEW b \in B,
         NEW s, s \in Match(B, a), s \in Match(B, b)
  PROVE  a = b
<1>1. CASE SameFile(a) # {} /\ SameFile(b) # {}
  BY <1>1, IdentifiedIsSameFile DEF Match, SameFile, LegalBatch
<1>2. CASE SameFile(a) = {} /\ SameFile(b) = {}
  BY <1>2 DEF Match, AtPath, LegalBatch
<1>3. CASE SameFile(a) # {} /\ SameFile(b) = {}
  BY <1>3 DEF Match, ClaimedByIdentity
<1>4. CASE SameFile(a) = {} /\ SameFile(b) # {}
  BY <1>4 DEF Match, ClaimedByIdentity
<1> QED BY <1>1, <1>2, <1>3, <1>4

\* A source that no observation went to keeps a place that no observation names.
LEMMA KeptIsClear ==
  ASSUME Distinct, NEW B, ~ Occupied(B), NEW o \in B,
         NEW u \in Registered, u \notin Claimed(B)
  PROVE  sources[u].inode # o.inode /\ sources[u].path # o.path
<1>1. sources[u].inode # o.inode
  <2>1. SUFFICES ASSUME sources[u].inode = o.inode PROVE FALSE
    OBVIOUS
  <2>2. u \in Match(B, o)
    BY <2>1, IdentifiedIsSameFile DEF Match, SameFile
  <2> QED BY <2>2 DEF Claimed
<1>2. sources[u].path # o.path
  <2>1. SUFFICES ASSUME sources[u].path = o.path PROVE FALSE
    OBVIOUS
  <2>2. u \in AtPath(o)
    BY <2>1 DEF AtPath
  <2>3. CASE SameFile(o) = {}
    <3>1. u \in ClaimedByIdentity(B)
      BY <2>2, <2>3 DEF Match, Claimed
    <3>2. PICK a \in B : u \in Identified(a)
      BY <3>1 DEF ClaimedByIdentity
    <3>3. u \in Match(B, a)
      BY <3>2 DEF Match, Identified
    <3> QED BY <3>3 DEF Claimed
  <2>4. CASE SameFile(o) # {}
    <3>1. PICK s : s \in SameFile(o)
      BY <2>4
    <3>2. s \in Match(B, o) /\ s \in Registered
      BY <3>1, IdentifiedIsSameFile DEF Match, SameFile
    <3>3. sources[s].path = o.path
      BY <2>2, <3>2 DEF Occupied
    <3>4. s = u
      BY <2>1, <3>2, <3>3 DEF Distinct, RowsAreDistinct
    <3> QED BY <3>2, <3>4 DEF Claimed
  <2> QED BY <2>3, <2>4
<1> QED BY <1>1, <1>2

------------------------------------------------------------------------------
(* What becomes of a row. *)

\* What BindingHasFact and ProgressHasFact say of one row.
Sound(r) ==
  /\ r.thread = r.fact.thread
  /\ r.thread # NoThread => r.fact.gen = r.gen
  /\ r.cp.offset > 0 =>
       /\ r.fact.gen = r.gen
       /\ r.fact.version = r.cp.version
       /\ r.fact.through = r.cp.offset
       /\ r.thread # NoThread

LEMMA NoFactType == NoFact \in Fact
BY DEF NoFact, Fact

LEMMA ResetRow ==
  ASSUME NEW r \in Row
  PROVE  /\ ResetCheckpoint(r) \in Row
         /\ ResetCheckpoint(r).path = r.path /\ ResetCheckpoint(r).inode = r.inode
         /\ ResetCheckpoint(r).thread = r.thread /\ ResetCheckpoint(r).fact = r.fact
         /\ ResetCheckpoint(r).gen = r.gen /\ ResetCheckpoint(r).cp.offset = 0
BY DEF ResetCheckpoint, Row, Checkpoint, NoGuard

LEMMA SeenRow ==
  ASSUME NEW r \in Row, NEW o \in Observation
  PROVE  /\ Seen(r, o) \in Row
         /\ Seen(r, o).path = o.path /\ Seen(r, o).inode = o.inode
         /\ Seen(r, o).thread = r.thread /\ Seen(r, o).fact = r.fact
         /\ Seen(r, o).gen = r.gen /\ Seen(r, o).cp = r.cp
BY DEF Seen, Row, Observation

LEMMA RenewedRow ==
  ASSUME NEW r \in Row
  PROVE  /\ Renewed(r) \in Row
         /\ Renewed(r).path = r.path /\ Renewed(r).inode = r.inode
         /\ Sound(Renewed(r))
<1> DEFINE q == ResetCheckpoint(r)
<1>1. q \in Row /\ q.path = r.path /\ q.inode = r.inode /\ q.cp.offset = 0
  BY ResetRow
<1>2. Renewed(r) = [q EXCEPT !.gen = @ + 1, !.thread = NoThread, !.fact = NoFact]
  BY DEF Renewed
<1> HIDE DEF q
<1>3. Renewed(r) \in Row /\ Renewed(r).path = q.path /\ Renewed(r).inode = q.inode
  <2> DEFINE g == q.gen + 1
  <2>1. g \in Nat
    BY <1>1 DEF Row
  <2>2. Renewed(r) = [q EXCEPT !.gen = g, !.thread = NoThread, !.fact = NoFact]
    BY <1>2
  <2> HIDE DEF g
  <2> QED BY <1>1, <2>1, <2>2, NoFactType DEF Row
<1>4. Renewed(r).thread = NoThread /\ Renewed(r).fact = NoFact /\ Renewed(r).cp = q.cp
  BY <1>1, <1>2 DEF Row
<1> QED BY <1>1, <1>3, <1>4 DEF Sound, NoFact

LEMMA UpdatedRow ==
  ASSUME NEW r \in Row, NEW o \in Observation
  PROVE  /\ Updated(r, o) \in Row
         /\ Updated(r, o).path = o.path /\ Updated(r, o).inode = o.inode
         /\ Sound(r) => Sound(Updated(r, o))
<1>1. CASE GenerationChanged(r, o)
  BY <1>1, SeenRow, RenewedRow DEF Updated
<1>2. CASE ~ GenerationChanged(r, o)
  BY <1>2, SeenRow DEF Updated, Sound
<1> QED BY <1>1, <1>2

LEMMA CreatedRow ==
  ASSUME NEW o \in Observation
  PROVE  /\ Created(o) \in Row
         /\ Created(o).path = o.path /\ Created(o).inode = o.inode
         /\ Sound(Created(o))
BY NoFactType DEF Created, Row, Checkpoint, Observation, NoGuard, Sound, NoFact

LEMMA UnseenRow ==
  ASSUME NEW r \in Row, NEW silent
  PROVE  /\ Unseen(r, silent) \in Row
         /\ Unseen(r, silent).path = r.path /\ Unseen(r, silent).inode = r.inode
         /\ Sound(r) => Sound(Unseen(r, silent))
BY DEF Unseen, Row, Sound

------------------------------------------------------------------------------
(* Every transaction keeps the rows typed and distinct, and each row sound. *)

AllSound == \A s \in Registered : Sound(sources[s])

\* The observation that made row s of the next state, if there is one.
From(B, ids, s) == {o \in B : s \in Match(B, o) \/ (o \in Unmatched(B) /\ ids[o] = s)}

\* RecordObservations, with the ids of the new rows named.
RecordAs(B, silent, ids) ==
  /\ ids \in [Unmatched(B) -> Sources \ Registered]
  /\ \A a, b \in Unmatched(B) : ids[a] = ids[b] => a = b
  /\ sources' =
       [s \in Registered \union {ids[o] : o \in Unmatched(B)} |->
          IF s \notin Registered
            THEN Created(CHOOSE o \in Unmatched(B) : ids[o] = s)
          ELSE IF s \in Claimed(B)
            THEN Updated(sources[s], CHOOSE o \in B : s \in Match(B, o))
          ELSE Unseen(sources[s], silent)]

LEMMA RecordNamesIds ==
  ASSUME NEW B, NEW silent, RecordObservations(B, silent)
  PROVE  ~ Occupied(B) /\ \E ids : RecordAs(B, silent, ids)
BY DEF RecordObservations, RecordAs

\* A row of the next state is the one of its observation, or the old one.
LEMMA RecordedRow ==
  ASSUME Distinct, NEW B \in SUBSET Observation, LegalBatch(B), NEW silent, NEW ids,
         RecordAs(B, silent, ids), NEW s \in Registered'
  PROVE  /\ s \in Sources
         /\ sources'[s] \in Row
         /\ AllSound => Sound(sources'[s])
         /\ \A o \in From(B, ids, s) : sources'[s].path = o.path /\ sources'[s].inode = o.inode
         /\ From(B, ids, s) = {} =>
              /\ s \in Registered /\ s \notin Claimed(B)
              /\ sources'[s].path = sources[s].path /\ sources'[s].inode = sources[s].inode
<1>1. CASE s \notin Registered
  <2>1. PICK o \in Unmatched(B) : ids[o] = s
    BY <1>1 DEF RecordAs, Registered
  <2>2. sources'[s] = Created(o)
    BY <1>1, <2>1 DEF RecordAs, Registered
  <2>3. o \in Observation /\ o \in B
    BY <2>1 DEF Unmatched
  <2>4. From(B, ids, s) = {o}
    BY <1>1, <2>1, <2>3, MatchedOnce DEF From, RecordAs, Registered
  <2>5. s \in Sources
    BY <2>1 DEF RecordAs
  <2> QED BY <2>2, <2>3, <2>4, <2>5, CreatedRow
<1>2. CASE s \in Registered /\ s \in Claimed(B)
  <2>1. PICK o \in B : s \in Match(B, o)
    BY <1>2 DEF Claimed
  <2>2. (CHOOSE x \in B : s \in Match(B, x)) = o
    BY <2>1, ClaimedOnce
  <2>3. sources'[s] = Updated(sources[s], o)
    BY <1>2, <2>2 DEF RecordAs, Registered
  <2>4. From(B, ids, s) = {o}
    BY <1>2, <2>1, ClaimedOnce DEF From, RecordAs
  <2>5. sources[s] \in Row /\ s \in Sources
    BY <1>2, RowType DEF Distinct
  <2>6. AllSound => Sound(sources[s])
    BY <1>2 DEF AllSound
  <2> QED BY <2>3, <2>4, <2>5, <2>6, UpdatedRow
<1>3. CASE s \in Registered /\ s \notin Claimed(B)
  <2>1. sources'[s] = Unseen(sources[s], silent)
    BY <1>3 DEF RecordAs, Registered
  <2>2. From(B, ids, s) = {}
    BY <1>3 DEF From, RecordAs, Claimed
  <2>3. sources[s] \in Row /\ s \in Sources
    BY <1>3, RowType DEF Distinct
  <2>4. AllSound => Sound(sources[s])
    BY <1>3 DEF AllSound
  <2> QED BY <1>3, <2>1, <2>2, <2>3, <2>4, UnseenRow
<1> QED BY <1>1, <1>2, <1>3

\* Recording a legal batch keeps the invariant (record_source_observations).
LEMMA RecordKeeps ==
  ASSUME Distinct, NEW B \in SUBSET Observation, LegalBatch(B), NEW silent,
         RecordObservations(B, silent)
  PROVE  Distinct' /\ (AllSound => AllSound')
<1>1. ~ Occupied(B)
  BY RecordNamesIds
<1>2. PICK ids : RecordAs(B, silent, ids)
  BY RecordNamesIds
<1>3. RegistryTypeOK'
  <2>1. sources' = [s \in Registered' |-> sources'[s]]
    BY <1>2 DEF RecordAs, Registered
  <2> QED BY <1>2, <2>1, RecordedRow DEF RegistryTypeOK
<1>4. AllSound => AllSound'
  BY <1>2, RecordedRow DEF AllSound
<1>5. RowsAreDistinct'
  <2>1. SUFFICES ASSUME NEW r \in Registered', NEW s \in Registered',
                        sources'[r].path = sources'[s].path \/ sources'[r].inode = sources'[s].inode
                 PROVE  r = s
    BY DEF RowsAreDistinct
  <2>2. ASSUME NEW x \in Registered', NEW y \in Registered', From(B, ids, x) = {},
               From(B, ids, y) # {}
        PROVE  sources'[x].path # sources'[y].path /\ sources'[x].inode # sources'[y].inode
    <3>1. PICK o : o \in From(B, ids, y)
      BY <2>2
    <3>2. sources'[y].path = o.path /\ sources'[y].inode = o.inode /\ o \in B
      BY <1>2, <3>1, RecordedRow DEF From
    <3>3. /\ x \in Registered /\ x \notin Claimed(B)
          /\ sources'[x].path = sources[x].path /\ sources'[x].inode = sources[x].inode
      BY <1>2, <2>2, RecordedRow
    <3> QED BY <1>1, <3>2, <3>3, KeptIsClear
  <2>3. CASE From(B, ids, r) = {} /\ From(B, ids, s) = {}
    BY <1>2, <2>1, <2>3, RecordedRow DEF Distinct, RowsAreDistinct
  <2>4. CASE From(B, ids, r) # {} /\ From(B, ids, s) # {}
    <3>1. PICK a \in From(B, ids, r), b \in From(B, ids, s) : TRUE
      BY <2>4
    <3>2. a.path = b.path \/ a.inode = b.inode
      BY <1>2, <2>1, <3>1, RecordedRow
    <3>3. a = b /\ a \in B
      BY <3>1, <3>2 DEF LegalBatch, From
    <3>4. CASE a \in Unmatched(B)
      <4>1. Match(B, a) = {}
        BY <3>4 DEF Unmatched
      <4>2. ids[a] = r /\ ids[a] = s
        BY <3>1, <3>3, <4>1 DEF From
      <4> QED BY <4>2
    <3>5. CASE a \notin Unmatched(B)
      <4>1. r \in Match(B, a) /\ s \in Match(B, a)
        BY <3>1, <3>3, <3>5 DEF From
      <4> QED BY <4>1, MatchedOnce
    <3> QED BY <3>4, <3>5
  <2> QED BY <2>1, <2>2, <2>3, <2>4
<1> QED BY <1>3, <1>4, <1>5 DEF Distinct

\* A rebuild moves no row and takes its progress away (require_checkpoint_rebuild).
LEMMA RebuildKeeps ==
  ASSUME Distinct, NEW S, RequireRebuild(S)
  PROVE  Distinct' /\ (AllSound => AllSound')
<1>1. ASSUME NEW s \in Registered'
      PROVE  /\ s \in Registered
             /\ sources'[s] \in Row
             /\ AllSound => Sound(sources'[s])
             /\ sources'[s].path = sources[s].path /\ sources'[s].inode = sources[s].inode
  <2>1. s \in Registered /\ sources[s] \in Row
    BY <1>1, RowType DEF RequireRebuild, Registered, Distinct
  <2>2. sources'[s] = IF s \in S THEN ResetCheckpoint(sources[s]) ELSE sources[s]
    BY <2>1 DEF RequireRebuild
  <2>3. AllSound => Sound(sources[s])
    BY <2>1 DEF AllSound
  <2>4. Sound(sources[s]) => Sound(ResetCheckpoint(sources[s]))
    BY <2>1, ResetRow DEF Sound
  <2> QED BY <2>1, <2>2, <2>3, <2>4, ResetRow
<1>2. RegistryTypeOK'
  <2>1. sources' = [s \in Registered' |-> sources'[s]]
    BY DEF RequireRebuild, Registered
  <2> QED BY <1>1, <2>1, RowType DEF RegistryTypeOK, Distinct
<1> QED BY <1>1, <1>2 DEF Distinct, RowsAreDistinct, AllSound

\* A group commit moves no row and writes binding, fact and checkpoint of each of
\* its sources together (commit_group).
LEMMA CommitKeeps ==
  ASSUME Distinct, NEW t \in Threads, NEW D \in SUBSET Sources,
         NEW commits \in [D -> [gen : Nat, previous : Threads \union {NoThread},
                                fact : Fact, cp : Checkpoint]],
         CommitGroup(t, commits)
  PROVE  Distinct' /\ (AllSound => AllSound')
<1>1. ASSUME NEW s \in Registered'
      PROVE  /\ s \in Registered
             /\ sources'[s] \in Row
             /\ AllSound => Sound(sources'[s])
             /\ sources'[s].path = sources[s].path /\ sources'[s].inode = sources[s].inode
  <2>1. s \in Registered /\ sources[s] \in Row
    BY <1>1, RowType DEF CommitGroup, Registered, Distinct
  <2>2. CASE s \notin D
    <3>1. sources'[s] = sources[s]
      BY <2>1, <2>2 DEF CommitGroup
    <3> QED BY <2>1, <3>1 DEF AllSound
  <2>3. CASE s \in D
    <3> DEFINE r == sources[s]
               c == commits[s]
    <3>1. sources'[s] = [r EXCEPT !.thread = t, !.fact = c.fact, !.cp = c.cp]
      BY <2>1, <2>3 DEF CommitGroup
    <3>2. c.fact \in Fact /\ c.cp \in Checkpoint
      BY <2>3
    <3>3. LegalCommit(r, t, c)
      BY <2>3 DEF CommitGroup, LegalGroup
    <3>4. r \in Row
      BY <2>1
    <3> HIDE DEF r, c
    <3>5. /\ sources'[s] \in Row
          /\ sources'[s].path = r.path /\ sources'[s].inode = r.inode
          /\ sources'[s].thread = t /\ sources'[s].fact = c.fact /\ sources'[s].cp = c.cp
          /\ sources'[s].gen = r.gen
      BY <3>1, <3>2, <3>4 DEF Row
    <3>6. t # NoThread
      BY NamesAssumption
    <3>7. Sound(sources'[s])
      BY <3>3, <3>5, <3>6 DEF Sound, LegalCommit
    <3> QED BY <2>1, <3>5, <3>7 DEF r
  <2> QED BY <2>2, <2>3
<1>2. RegistryTypeOK'
  <2>1. sources' = [s \in Registered' |-> sources'[s]]
    BY DEF CommitGroup, Registered
  <2> QED BY <1>1, <2>1, RowType DEF RegistryTypeOK, Distinct
<1> QED BY <1>1, <1>2 DEF Distinct, RowsAreDistinct, AllSound

LEMMA RegistryStep ==
  ASSUME Distinct, [RegistryNext]_sources
  PROVE  Distinct' /\ (AllSound => AllSound')
<1>1. CASE UNCHANGED sources
  BY <1>1 DEF Distinct, RegistryTypeOK, RowsAreDistinct, AllSound, Registered
<1>2. ASSUME NEW B \in SUBSET Observation, NEW silent \in SUBSET Areas,
             LegalBatch(B), RecordObservations(B, silent)
      PROVE  Distinct' /\ (AllSound => AllSound')
  BY <1>2, RecordKeeps
<1>3. ASSUME NEW S \in SUBSET Sources, RequireRebuild(S)
      PROVE  Distinct' /\ (AllSound => AllSound')
  BY <1>3, RebuildKeeps
<1>4. ASSUME NEW t \in Threads, NEW D \in SUBSET Sources,
             NEW commits \in [D -> [gen : Nat, previous : Threads \union {NoThread},
                                    fact : Fact, cp : Checkpoint]],
             CommitGroup(t, commits)
      PROVE  Distinct' /\ (AllSound => AllSound')
  BY <1>4, CommitKeeps
<1> QED BY <1>1, <1>2, <1>3, <1>4 DEF RegistryNext

LEMMA RegistryInit ==
  ASSUME InitRegistry
  PROVE  Distinct /\ AllSound
<1>1. Registered = {} /\ sources \in [Registered -> Row]
  BY DEF InitRegistry, Registered
<1> QED BY <1>1 DEF Distinct, RegistryTypeOK, RowsAreDistinct, AllSound

------------------------------------------------------------------------------
(* Theorems. *)

LEMMA Invariant == RegistrySpec => [](Distinct /\ AllSound)
<1>1. InitRegistry => Distinct /\ AllSound
  BY RegistryInit
<1>2. (Distinct /\ AllSound) /\ [RegistryNext]_sources => (Distinct /\ AllSound)'
  BY RegistryStep
<1> QED BY <1>1, <1>2, PTL DEF RegistrySpec

\* Every row the registry ever holds has the declared column types.
THEOREM RegistryTypeCorrect == RegistrySpec => []RegistryTypeOK
<1>1. Distinct => RegistryTypeOK
  BY DEF Distinct
<1> QED BY <1>1, Invariant, PTL

\* Whatever moves, swaps and replacements the observed batches contain, no two
\* sources ever share a path or a physical identity (plan_observations).
THEOREM RowsStayDistinct == RegistrySpec => []RowsAreDistinct
<1>1. Distinct => RowsAreDistinct
  BY DEF Distinct
<1> QED BY <1>1, Invariant, PTL

\* A bound source always has a fact of its current generation that names the
\* thread it is bound to.
THEOREM BindingStaysBacked == RegistrySpec => []BindingHasFact
<1>1. AllSound => BindingHasFact
  BY DEF AllSound, Sound, BindingHasFact
<1> QED BY <1>1, Invariant, PTL

\* Progress in a file never outlives the fact it was made with.
THEOREM ProgressStaysBacked == RegistrySpec => []ProgressHasFact
<1>1. AllSound => ProgressHasFact
  BY DEF AllSound, Sound, ProgressHasFact
<1> QED BY <1>1, Invariant, PTL

------------------------------------------------------------------------------
(* The inductive invariant. *)

\* A file at a path has been written: its tag names a content.
FilesOK ==
  /\ FilesTypeOK
  /\ \A p \in Paths : dir[p] # NoInode => disk[dir[p]].tag # 0

\* Discovery observes a path once, when it looks at it.
FoundOK ==
  /\ pc = "idle" => found = {}
  /\ found \subseteq Observation
  /\ \A o \in found : o.path \notin todo
  /\ \A a, b \in found : a.path = b.path => a = b

\* The round works on rows it loaded from the registry.
LoadedOK ==
  /\ pc \in {"idle", "discover", "load"} => loaded = Nothing
  /\ DOMAIN loaded \subseteq Registered
  /\ loaded \in [DOMAIN loaded -> Row]
  /\ queue \subseteq DOMAIN loaded

\* The open file is one of the queue, and is open while it is read.
OpenFile == [source : queue, tag : Nat, before : Nat, mtime : Nat, read : SUBSET Nat, through : Nat]

CurOK ==
  /\ cur = Closed \/ cur \in OpenFile
  /\ pc \in {"read", "check"} => cur \in OpenFile

ParsedOK ==
  /\ DOMAIN parsed \subseteq DOMAIN loaded
  /\ parsed \in [DOMAIN parsed -> Results]

RestOK ==
  /\ version \in 1..MaxVersion
  /\ pc \in PCs
  /\ todo \subseteq Paths
  /\ unread \subseteq Areas
  /\ pending \subseteq Threads
  /\ hard \in BOOLEAN /\ refused \in BOOLEAN
  /\ faults \in 0..MaxFaults

RoundOK == FoundOK /\ LoadedOK /\ CurOK /\ ParsedOK /\ RestOK

IInv == FilesOK /\ Distinct /\ RoundOK

------------------------------------------------------------------------------
(* The calls of a round are legal. *)

\* Discovery names a path and, after deduplication, a physical identity once.
LEMMA DeduplicatedIsLegal ==
  ASSUME FoundOK
  PROVE  Deduplicated \in SUBSET Observation /\ LegalBatch(Deduplicated)
<1>1. Deduplicated \subseteq found
  BY DEF Deduplicated
<1>2. ASSUME NEW a \in Deduplicated, NEW b \in Deduplicated, a.inode = b.inode
      PROVE  a = b
  <2>1. a \in found /\ b \in found /\ a.path <= b.path /\ b.path <= a.path
    BY <1>2 DEF Deduplicated
  <2>2. a.path \in Nat /\ b.path \in Nat
    BY <2>1, NamesAssumption DEF FoundOK, Observation, Paths
  <2>3. a.path = b.path
    BY <2>1, <2>2
  <2> QED BY <2>1, <2>3 DEF FoundOK
<1>3. ASSUME NEW a \in Deduplicated, NEW b \in Deduplicated, a.path = b.path
      PROVE  a = b
  BY <1>1, <1>3 DEF FoundOK
<1> QED BY <1>1, <1>2, <1>3 DEF LegalBatch, FoundOK

\* What a round knows of a source is a fact.
LEMMA KnownFactType ==
  ASSUME LoadedOK, ParsedOK, NEW s \in DOMAIN loaded
  PROVE  KnownFact(s) \in Fact
<1>1. loaded[s].fact \in Fact
  BY DEF LoadedOK, Row
<1>2. s \in DOMAIN parsed => parsed[s].fact \in Fact
  BY DEF ParsedOK, Results
<1> QED BY <1>1, <1>2, NoFactType DEF KnownFact

\* The commit of a source whose fact names a thread has the types of a commit.
LEMMA CommitForType ==
  ASSUME LoadedOK, ParsedOK, RestOK, NEW s \in DOMAIN loaded, KnownFact(s).thread # NoThread
  PROVE  CommitFor(s) \in [gen : Nat, previous : Threads \union {NoThread},
                           fact : Fact, cp : Checkpoint]
<1>1. loaded[s] \in Row
  BY DEF LoadedOK
<1>2. KnownFact(s) \in Fact
  BY KnownFactType
<1>3. loaded[s].gen \in Nat /\ loaded[s].thread \in Threads \union {NoThread}
      /\ loaded[s].cp \in Checkpoint
  BY <1>1 DEF Row
<1>4. version \in Nat
  BY BoundsAssumption DEF RestOK
<1>5. ASSUME ~ Skipped(loaded[s])
      PROVE  [version |-> version, offset |-> KnownFact(s).through,
              guard |-> parsed[s].guard, status |-> "ready"] \in Checkpoint
  <2>1. s \in DOMAIN parsed
    BY <1>5 DEF KnownFact, NoFact
  <2>2. parsed[s].guard \in Nat
    BY <2>1 DEF ParsedOK, Results
  <2>3. KnownFact(s).through \in Nat
    BY <1>2 DEF Fact
  <2> QED BY <1>4, <2>2, <2>3 DEF Checkpoint
<1> QED BY <1>2, <1>3, <1>5 DEF CommitFor

\* A group commit of a round is one that the registry is asked for.
LEMMA GroupIsCall ==
  ASSUME Distinct, LoadedOK, ParsedOK, RestOK, NEW t \in Threads,
         CommitGroup(t, GroupCommits(t))
  PROVE  RegistryNext
<1>1. Members(t) \in SUBSET Sources
  BY DEF Members, LoadedOK, Distinct, RegistryTypeOK
<1>2. ASSUME NEW s \in Members(t)
      PROVE  GroupCommits(t)[s] \in [gen : Nat, previous : Threads \union {NoThread},
                                     fact : Fact, cp : Checkpoint]
  <2>1. s \in DOMAIN loaded
    BY <1>2 DEF Members
  <2>2. GroupCommits(t)[s] = CommitFor(s)
    BY <1>2 DEF GroupCommits
  <2>3. GroupCommits(t)[s].fact.thread = t
    BY <1>2 DEF CommitGroup, LegalGroup, LegalCommit, GroupCommits
  <2>4. KnownFact(s).thread = t
    BY <2>2, <2>3 DEF CommitFor
  <2>5. t # NoThread
    BY NamesAssumption
  <2> QED BY <2>1, <2>2, <2>4, <2>5, CommitForType
<1>3. GroupCommits(t) \in [Members(t) -> [gen : Nat, previous : Threads \union {NoThread},
                                          fact : Fact, cp : Checkpoint]]
  BY <1>2 DEF GroupCommits
<1> QED BY <1>1, <1>3 DEF RegistryNext

\* Rebuilds are required of sources that were parsed.
LEMMA RebuildIsCall ==
  ASSUME Distinct, LoadedOK, ParsedOK, RequireRebuild(RebuildNeeded)
  PROVE  RegistryNext
<1>1. RebuildNeeded \in SUBSET Sources
  BY DEF RebuildNeeded, LoadedOK, ParsedOK, Distinct, RegistryTypeOK
<1> QED BY <1>1 DEF RegistryNext

\* Observations are recorded as discovery made them.
LEMMA RecordIsCall ==
  ASSUME FoundOK, RestOK, RecordObservations(Deduplicated, unread)
  PROVE  RegistryNext
<1>1. unread \in SUBSET Areas
  BY DEF RestOK
<1> QED BY <1>1, DeduplicatedIsLegal DEF RegistryNext

\* No call forgets a source.
LEMMA RegisteredGrows ==
  ASSUME [RegistryNext]_sources
  PROVE  Registered \subseteq Registered'
<1>1. CASE UNCHANGED sources
  BY <1>1 DEF Registered
<1>2. ASSUME NEW B, NEW u, RecordObservations(B, u)
      PROVE  Registered \subseteq Registered'
  BY <1>2 DEF RecordObservations, Registered
<1>3. ASSUME NEW S, RequireRebuild(S)
      PROVE  Registered \subseteq Registered'
  BY <1>3 DEF RequireRebuild, Registered
<1>4. ASSUME NEW t, NEW commits, CommitGroup(t, commits)
      PROVE  Registered \subseteq Registered'
  BY <1>4 DEF CommitGroup, Registered
<1> QED BY <1>1, <1>2, <1>3, <1>4 DEF RegistryNext

\* Every step of the rounds is a call of the registry, or none.
LEMMA StepIsCall ==
  ASSUME IInv, [Next]_vars
  PROVE  [RegistryNext]_sources
<1>1. CASE Record
  BY <1>1, RecordIsCall DEF Record, IInv, RoundOK
<1>2. CASE Resolve
  BY <1>2, RebuildIsCall DEF Resolve, IInv, RoundOK
<1>3. CASE ResolveFails
  BY <1>3, RebuildIsCall DEF ResolveFails, IInv, RoundOK
<1>4. CASE CancelParsing
  BY <1>4, RebuildIsCall DEF CancelParsing, IInv, RoundOK
<1>5. ASSUME NEW t \in Threads, Commit(t)
      PROVE  RegistryNext
  BY <1>5, GroupIsCall DEF Commit, IInv, RoundOK
<1>6. CASE UNCHANGED vars
  BY <1>6 DEF vars
<1>7. CASE StartRound \/ RecordFails \/ Load \/ LoadFails \/ Open \/ Read \/ Check
  BY <1>7 DEF StartRound, RecordFails, Load, LoadFails, Open, Read, Check
<1>8. CASE (\E p \in Paths : Look(p) \/ LookFails(p)) \/ (\E t \in Threads : CommitFails(t))
           \/ EndCommits \/ FinishRound
  BY <1>8 DEF Look, LookFails, CommitFails, EndCommits, FinishRound
<1>9. CASE Abandon \/ (\E v \in 1..MaxVersion : Install(v)) \/ ChangeFiles
  BY <1>9 DEF Abandon, Install, ChangeFiles
<1> QED BY <1>1, <1>2, <1>3, <1>4, <1>5, <1>6, <1>7, <1>8, <1>9 DEF Next, RoundStep

------------------------------------------------------------------------------
(* The files stay typed, whatever other programs do. *)

LEMMA WriteKeeps ==
  ASSUME FilesOK, NEW i \in Inodes, NEW tag \in 1..MaxChanges, NEW n \in 0..MaxSize,
         clock' \in 1..MaxChanges, Write(i, tag, n)
  PROVE  /\ disk' \in [Inodes -> [tag : 0..MaxChanges, size : 0..MaxSize, mtime : 0..MaxChanges]]
         /\ disk'[i].tag # 0
         /\ \A j \in Inodes : disk[j].tag # 0 => disk'[j].tag # 0
<1>1. [tag |-> tag, size |-> n, mtime |-> clock']
        \in [tag : 0..MaxChanges, size : 0..MaxSize, mtime : 0..MaxChanges]
  BY BoundsAssumption
<1> QED BY <1>1, BoundsAssumption DEF FilesOK, FilesTypeOK, Write

LEMMA TickType ==
  ASSUME FilesOK, Tick
  PROVE  clock' \in 1..MaxChanges /\ clock' \in 0..MaxChanges
BY BoundsAssumption DEF FilesOK, FilesTypeOK, Tick

LEMMA FilesStep ==
  ASSUME FilesOK, ChangeFiles
  PROVE  FilesOK'
<1>1. ASSUME NEW i \in Inodes, NEW p \in Paths, NEW n \in 0..MaxSize, Create(i, p, n)
      PROVE  FilesOK'
  BY <1>1, WriteKeeps, TickType, NamesAssumption DEF Create, Put, FilesOK, FilesTypeOK
<1>2. ASSUME NEW p \in Paths, NEW n \in 0..MaxSize, Append(p, n)
      PROVE  FilesOK'
  <2>1. dir[p] \in Inodes /\ disk[dir[p]].tag \in 1..MaxChanges
    BY <1>2, BoundsAssumption DEF Append, FilesOK, FilesTypeOK
  <2> QED BY <1>2, <2>1, WriteKeeps, TickType DEF Append, FilesOK, FilesTypeOK
<1>3. ASSUME NEW p \in Paths, NEW n \in 0..MaxSize, Rewrite(p, n)
      PROVE  FilesOK'
  <2>1. dir[p] \in Inodes
    BY <1>3 DEF Rewrite, FilesOK, FilesTypeOK
  <2> QED BY <1>3, <2>1, WriteKeeps, TickType DEF Rewrite, FilesOK, FilesTypeOK
<1>4. ASSUME NEW p \in Paths, Remove(p)
      PROVE  FilesOK'
  BY <1>4, TickType DEF Remove, FilesOK, FilesTypeOK
<1>5. ASSUME NEW i \in Inodes, NEW p \in Paths, Restore(i, p)
      PROVE  FilesOK'
  BY <1>5, TickType DEF Restore, Put, FilesOK, FilesTypeOK
<1>6. ASSUME NEW q \in Paths, NEW p \in Paths, Rename(q, p)
      PROVE  FilesOK'
  BY <1>6, TickType DEF Rename, FilesOK, FilesTypeOK
<1> QED BY <1>1, <1>2, <1>3, <1>4, <1>5, <1>6 DEF ChangeFiles

LEMMA StepKeepsFiles ==
  ASSUME FilesOK, [Next]_vars
  PROVE  FilesOK'
<1>1. CASE ChangeFiles
  BY <1>1, FilesStep
<1>2. CASE UNCHANGED files
  BY <1>2 DEF files, FilesOK, FilesTypeOK
<1>3. CASE RoundStep
  <2>1. UNCHANGED files
    BY <1>3 DEF RoundStep, StartRound, Look, LookFails, Record, RecordFails, Load, LoadFails,
       Open, Read, Check, Resolve, ResolveFails, Commit, CommitFails, EndCommits, FinishRound
  <2> QED BY <1>2, <2>1
<1>4. CASE Abandon \/ CancelParsing \/ (\E v \in 1..MaxVersion : Install(v)) \/ UNCHANGED vars
  BY <1>2, <1>4 DEF Abandon, CancelParsing, Install, vars
<1> QED BY <1>1, <1>3, <1>4 DEF Next
------------------------------------------------------------------------------
(* The round stays typed. *)

LEMMA FaultType ==
  ASSUME RestOK, Fault \/ UNCHANGED faults
  PROVE  faults' \in 0..MaxFaults
BY BoundsAssumption DEF RestOK, Fault

\* A round that ends leaves nothing behind.
LEMMA EndRoundKeeps ==
  ASSUME RestOK, EndRound, faults' \in 0..MaxFaults
  PROVE  RoundOK'
<1>1. FoundOK'
  BY DEF EndRound, FoundOK
<1>2. LoadedOK'
  BY DEF EndRound, LoadedOK, Nothing
<1>3. CurOK' /\ ParsedOK'
  BY DEF EndRound, CurOK, ParsedOK, Nothing
<1>4. RestOK'
  BY DEF EndRound, RestOK, PCs
<1> QED BY <1>1, <1>2, <1>3, <1>4 DEF RoundOK

LEMMA FailureType == ASSUME NEW error \in {"changed", "guard", "lost"}
                     PROVE  Failure(error) \in Results
BY NoFactType DEF Failure, Results, NoGuard

\* A source that was opened or not, it leaves the queue with its result.
LEMMA FinishKeeps ==
  ASSUME LoadedOK, CurOK, ParsedOK, pc \in {"parse", "check"}, NEW s \in queue, NEW result \in Results,
         Finish(s, result), UNCHANGED loaded, Registered \subseteq Registered'
  PROVE  LoadedOK' /\ CurOK' /\ ParsedOK'
<1>1. LoadedOK'
  BY DEF LoadedOK, Finish
<1>2. CurOK'
  BY DEF CurOK, Finish
<1>3. ParsedOK'
  BY DEF ParsedOK, LoadedOK, Finish
<1> QED BY <1>1, <1>2, <1>3

LEMMA FinishRest ==
  ASSUME RestOK, NEW s, NEW result \in Results, Finish(s, result),
         UNCHANGED <<version, todo, unread, pending, refused, faults>>
  PROVE  RestOK'
BY DEF RestOK, Finish, PCs, Results

\* The row a round loaded names a start offset in its file.
LEMMA StartOffsetType ==
  ASSUME NEW r \in Row
  PROVE  StartOffset(r) \in Nat
BY DEF StartOffset, Row, Checkpoint

LEMMA CompleteType ==
  ASSUME NEW n \in Nat
  PROVE  Complete(n) \in Nat
BY DEF Complete

\* The verdict of the parser on a written content.
LEMMA ParseType ==
  ASSUME RestOK, cur \in OpenFile, NEW r \in Row, NEW tag \in 1..MaxChanges, NEW end \in Nat
  PROVE  Parse(r, tag, end) \in Results
<1> DEFINE resumed  == StartOffset(r) > 0
           external == Candidate[r.path]
           owner    == IF resumed THEN r.thread
                       ELSE IF external # NoThread THEN external
                       ELSE IF end > 0 THEN Owner[tag]
                       ELSE NoThread
           replayed == resumed /\ r.fact.state = "replayed"
           foreign  == owner # NoThread /\ ForeignIn(tag, owner, StartOffset(r), end)
           rebuild  == resumed /\ ((external # NoThread /\ external # owner) \/ (foreign /\ ~ replayed))
           state    == IF replayed \/ foreign THEN "replayed" ELSE "owning"
           read     == cur.read \union (IF resumed THEN r.fact.read ELSE {})
           fact     == IF rebuild \/ owner = NoThread THEN NoFact
                       ELSE [gen |-> r.gen, version |-> version, through |-> end, thread |-> owner,
                             state |-> state, read |-> read]
           guard    == IF end = 0 THEN NoGuard ELSE tag
<1>1. owner \in Threads \union {NoThread}
  BY ContentsAssumption DEF Row
<1>2. read \in SUBSET Nat
  BY DEF OpenFile, Row, Fact
<1>3. state \in {"owning", "replayed"}
  OBVIOUS
<1>4. version \in Nat /\ r.gen \in Nat
  BY BoundsAssumption DEF RestOK, Row
<1>5. guard \in Nat
  BY BoundsAssumption DEF NoGuard
<1>6. rebuild \in BOOLEAN
  OBVIOUS
<1>7. Parse(r, tag, end) = [error |-> "none", rebuild |-> rebuild, guard |-> guard, fact |-> fact]
  BY DEF Parse
<1> HIDE DEF owner, read, state, guard, rebuild
<1>8. fact \in Fact
  BY <1>1, <1>2, <1>3, <1>4, NoFactType DEF Fact
<1> HIDE DEF fact
<1> QED BY <1>5, <1>6, <1>7, <1>8 DEF Results

LEMMA LookKeeps ==
  ASSUME IInv, NEW p \in Paths, Look(p)
  PROVE  RoundOK'
<1>1. FoundOK'
  <2>1. CASE dir[p] = NoInode
    BY <2>1 DEF Look, IInv, RoundOK, FoundOK
  <2>2. CASE dir[p] # NoInode
    <3>1. dir[p] \in Inodes
      BY <2>2 DEF IInv, FilesOK, FilesTypeOK
    <3>2. disk[dir[p]].size \in Nat /\ disk[dir[p]].mtime \in Nat
      BY <3>1, BoundsAssumption DEF IInv, FilesOK, FilesTypeOK
    <3>3. Observe(p) \in Observation /\ Observe(p).path = p
      BY <3>1, <3>2 DEF Observe, Observation
    <3>4. found' = found \union {Observe(p)} /\ todo' = todo \ {p} /\ p \in todo
          /\ pc' = "discover"
      BY <2>2 DEF Look, NextEntries
    <3>5. FoundOK
      BY DEF IInv, RoundOK
    <3> HIDE DEF Observe
    <3> QED BY <3>3, <3>4, <3>5 DEF FoundOK
  <2> QED BY <2>1, <2>2
<1>2. LoadedOK' /\ CurOK' /\ ParsedOK'
  BY DEF Look, IInv, RoundOK, LoadedOK, CurOK, OpenFile, ParsedOK, Registered
<1>3. RestOK'
  BY DEF Look, IInv, RoundOK, RestOK
<1> QED BY <1>1, <1>2, <1>3 DEF RoundOK

LEMMA LookFailsKeeps ==
  ASSUME IInv, NEW p \in Paths, LookFails(p)
  PROVE  RoundOK'
<1>1. FoundOK'
  BY DEF LookFails, IInv, RoundOK, FoundOK
<1>2. LoadedOK' /\ CurOK' /\ ParsedOK'
  BY DEF LookFails, IInv, RoundOK, LoadedOK, CurOK, OpenFile, ParsedOK, Registered
<1>3. RestOK'
  <2>1. Area(p) \in Areas
    BY DEF Area, Areas
  <2> QED BY <2>1, FaultType DEF LookFails, IInv, RoundOK, RestOK
<1> QED BY <1>1, <1>2, <1>3 DEF RoundOK

LEMMA LoadKeeps ==
  ASSUME IInv, Load
  PROVE  RoundOK'
<1>1. FoundOK'
  BY DEF Load, IInv, RoundOK, FoundOK
<1>2. LoadedOK'
  <2>1. ObservedSources \subseteq Registered /\ Registered' = Registered
    BY DEF ObservedSources, Load, Registered
  <2>2. \A s \in Registered : sources[s] \in Row
    BY RowType DEF IInv, Distinct
  <2>3. pc' = "parse"
    BY DEF Load
  <2>4. loaded' = [s \in ObservedSources |-> sources[s]] /\ queue' \subseteq ObservedSources
    BY DEF Load
  <2> QED BY <2>1, <2>2, <2>3, <2>4 DEF LoadedOK
<1>3. CurOK'
  <2>1. pc = "load" /\ pc' = "parse" /\ cur' = cur
    BY DEF Load
  <2>2. queue = {}
    BY <2>1 DEF IInv, RoundOK, LoadedOK, Nothing
  <2>3. cur = Closed
    BY <2>2 DEF IInv, RoundOK, CurOK, OpenFile
  <2> QED BY <2>1, <2>3 DEF CurOK
<1>4. ParsedOK'
  <2>1. DOMAIN parsed = {}
    BY DEF Load, IInv, RoundOK, LoadedOK, ParsedOK, Nothing
  <2> QED BY <2>1 DEF Load, IInv, RoundOK, ParsedOK
<1>5. RestOK'
  BY DEF Load, IInv, RoundOK, RestOK, PCs
<1> QED BY <1>1, <1>2, <1>3, <1>4, <1>5 DEF RoundOK

LEMMA OpenKeeps ==
  ASSUME IInv, Open
  PROVE  RoundOK'
<1>1. PICK s \in NextSources :
        IF OpenError(loaded[s]) # "none" THEN Finish(s, Failure(OpenError(loaded[s])))
        ELSE /\ cur' = [source |-> s, tag |-> disk[loaded[s].inode].tag,
                        before |-> disk[loaded[s].inode].size,
                        mtime |-> disk[loaded[s].inode].mtime, read |-> {}, through |-> 0]
             /\ pc' = "read"
             /\ UNCHANGED <<queue, parsed, hard>>
  BY DEF Open
<1>2. s \in queue
  BY DEF NextSources
<1>3. FoundOK'
  BY <1>1 DEF Open, Finish, IInv, RoundOK, FoundOK
<1>4. CASE OpenError(loaded[s]) # "none"
  <2>1. OpenError(loaded[s]) \in {"changed", "guard", "lost"}
    BY <1>4 DEF OpenError
  <2>2. Failure(OpenError(loaded[s])) \in Results
    BY <2>1, FailureType
  <2>3. Finish(s, Failure(OpenError(loaded[s])))
    BY <1>1, <1>4
  <2>4. LoadedOK' /\ CurOK' /\ ParsedOK'
    BY <1>2, <2>2, <2>3, FinishKeeps DEF Open, IInv, RoundOK, Registered
  <2>5. RestOK'
    BY <2>2, <2>3, FinishRest DEF Open, IInv, RoundOK
  <2> QED BY <1>3, <2>4, <2>5 DEF RoundOK
<1>5. CASE OpenError(loaded[s]) = "none"
  <2>1. cur' = [source |-> s, tag |-> disk[loaded[s].inode].tag,
                before |-> disk[loaded[s].inode].size,
                mtime |-> disk[loaded[s].inode].mtime, read |-> {}, through |-> 0]
        /\ pc' = "read" /\ UNCHANGED <<queue, parsed, hard>>
    BY <1>1, <1>5
  <2>2. loaded[s].inode \in Inodes
    BY <1>2 DEF IInv, RoundOK, LoadedOK, Row
  <2>3. disk[loaded[s].inode].tag \in Nat /\ disk[loaded[s].inode].size \in Nat
        /\ disk[loaded[s].inode].mtime \in Nat
    BY <2>2, BoundsAssumption DEF IInv, FilesOK, FilesTypeOK
  <2>4. cur' \in OpenFile'
    BY <1>2, <2>1, <2>3 DEF OpenFile
  <2>5. LoadedOK' /\ CurOK' /\ ParsedOK'
    BY <2>1, <2>4 DEF Open, IInv, RoundOK, LoadedOK, CurOK, ParsedOK, Registered
  <2>6. RestOK'
    BY <2>1 DEF Open, IInv, RoundOK, RestOK, PCs
  <2> QED BY <1>3, <2>5, <2>6 DEF RoundOK
<1> QED BY <1>4, <1>5

LEMMA ReadKeeps ==
  ASSUME IInv, Read
  PROVE  RoundOK'
<1> DEFINE r     == loaded[cur.source]
           tag   == disk[r.inode].tag
           end   == Complete(Smaller(r.size, disk[r.inode].size))
           start == StartOffset(r)
           lines == IF end > start THEN {tag} ELSE {}
           upto  == IF end > start THEN end ELSE start
<1>1. cur \in OpenFile
  BY DEF Read, IInv, RoundOK, CurOK
<1>2. r \in Row
  BY <1>1 DEF IInv, RoundOK, LoadedOK, OpenFile
<1>3. disk[r.inode].tag \in Nat /\ disk[r.inode].size \in Nat
  BY <1>2, BoundsAssumption DEF Row, IInv, FilesOK, FilesTypeOK
<1>4. start \in Nat
  BY <1>2, StartOffsetType
<1>5. end \in Nat
  <2>1. Smaller(r.size, disk[r.inode].size) \in Nat
    BY <1>2, <1>3 DEF Smaller, Row
  <2> QED BY <2>1, CompleteType
<1>6. cur' = [cur EXCEPT !.read = lines, !.through = upto] /\ pc' = "check"
  BY DEF Read
<1>7. lines \in SUBSET Nat /\ upto \in Nat
  <2>1. upto \in Nat
    BY <1>4, <1>5
  <2>2. lines \in SUBSET Nat
    BY <1>3
  <2> QED BY <2>1, <2>2
<1> HIDE DEF lines, upto
<1>8. cur' \in OpenFile'
  BY <1>1, <1>6, <1>7, ZenonT(40) DEF OpenFile, Read
<1>9. FoundOK' /\ LoadedOK' /\ CurOK' /\ ParsedOK'
  BY <1>6, <1>8 DEF Read, IInv, RoundOK, FoundOK, LoadedOK, CurOK, ParsedOK, Registered
<1>10. RestOK'
  BY <1>6 DEF Read, IInv, RoundOK, RestOK, PCs
<1> QED BY <1>9, <1>10 DEF RoundOK

LEMMA CheckKeeps ==
  ASSUME IInv, Check
  PROVE  RoundOK'
<1> DEFINE s == cur.source
           r == loaded[s]
           result == IF Changed(r) THEN Failure("changed")
                     ELSE Parse(r, disk[r.inode].tag, cur.through)
<1>1. cur \in OpenFile /\ pc = "check"
  BY DEF Check, IInv, RoundOK, CurOK
<1>2. r \in Row /\ s \in queue
  BY <1>1 DEF IInv, RoundOK, LoadedOK, OpenFile
<1>3. result \in Results
  <2>1. CASE Changed(r)
    BY <2>1, FailureType
  <2>2. CASE ~ Changed(r)
    <3>1. dir[r.path] = r.inode /\ r.path \in Paths /\ r.inode \in Inodes
      BY <1>2, <2>2 DEF Changed, Row
    <3>2. disk[r.inode].tag \in 1..MaxChanges
      BY <3>1, NamesAssumption, BoundsAssumption DEF IInv, FilesOK, FilesTypeOK
    <3>3. cur.through \in Nat
      BY <1>1 DEF OpenFile
    <3> QED BY <1>1, <1>2, <2>2, <3>2, <3>3, ParseType DEF IInv, RoundOK
  <2> QED BY <2>1, <2>2
<1>4. Finish(s, result)
  BY DEF Check
<1> HIDE DEF result, s
<1>5. LoadedOK' /\ CurOK' /\ ParsedOK'
  BY <1>1, <1>2, <1>3, <1>4, FinishKeeps DEF Check, IInv, RoundOK, Registered
<1>6. RestOK'
  BY <1>3, <1>4, FinishRest, SMTT(30) DEF Check, IInv, RoundOK
<1>7. FoundOK'
  BY <1>4, ZenonT(40) DEF Check, Finish, IInv, RoundOK, FoundOK
<1> QED BY <1>5, <1>6, <1>7 DEF RoundOK

\* A registry call between two steps disturbs nothing the round holds.
LEMMA CallKeeps ==
  ASSUME IInv, Registered \subseteq Registered', pc' \in PCs \ {"idle", "discover", "read", "check"},
         pc' = "load" => loaded = Nothing,
         pending' \subseteq Threads, refused' \in BOOLEAN, faults' \in 0..MaxFaults,
         UNCHANGED <<version, todo, found, unread, loaded, queue, cur, parsed, hard>>
  PROVE  RoundOK'
<1>1. FoundOK' /\ ParsedOK'
  BY DEF IInv, RoundOK, FoundOK, ParsedOK
<1>2. LoadedOK'
  BY DEF IInv, RoundOK, LoadedOK
<1>3. CurOK'
  BY DEF IInv, RoundOK, CurOK, OpenFile
<1>4. RestOK'
  BY DEF IInv, RoundOK, RestOK
<1> QED BY <1>1, <1>2, <1>3, <1>4 DEF RoundOK

\* Each step of a round, each interruption and each change of the files.
LEMMA StepKeepsRound ==
  ASSUME IInv, [Next]_vars
  PROVE  RoundOK'
<1>1. Registered \subseteq Registered'
  BY StepIsCall, RegisteredGrows
<1>2. RestOK /\ LoadedOK
  BY DEF IInv, RoundOK
<1>3. CASE StartRound
  <2>1. FoundOK' /\ LoadedOK' /\ CurOK' /\ ParsedOK'
    BY <1>3 DEF StartRound, IInv, RoundOK, FoundOK, LoadedOK, CurOK, OpenFile, ParsedOK, Registered
  <2> QED BY <1>3, <2>1 DEF StartRound, IInv, RoundOK, RestOK, PCs
<1>4. ASSUME NEW p \in Paths, Look(p) \/ LookFails(p)
      PROVE  RoundOK'
  BY <1>4, LookKeeps, LookFailsKeeps
<1>5. CASE Record
  <2>1. pc' = "load" /\ loaded = Nothing
    BY <1>2, <1>5 DEF Record, LoadedOK
  <2> QED BY <1>1, <1>2, <1>5, <2>1, CallKeeps DEF Record, RestOK, PCs
<1>6. CASE RecordFails \/ LoadFails \/ ResolveFails \/ FinishRound \/ Abandon \/ CancelParsing
  <2>1. EndRound
    BY <1>6 DEF RecordFails, LoadFails, ResolveFails, FinishRound, Abandon, CancelParsing
  <2>2. Fault \/ UNCHANGED faults
    BY <1>6 DEF RecordFails, LoadFails, ResolveFails, FinishRound, Abandon, CancelParsing
  <2> QED BY <1>2, <2>1, <2>2, FaultType, EndRoundKeeps
<1>7. CASE Load \/ Open \/ Read \/ Check
  BY <1>7, LoadKeeps, OpenKeeps, ReadKeeps, CheckKeeps
<1>8. CASE Resolve
  BY <1>1, <1>2, <1>8, CallKeeps DEF Resolve, CompleteGroups, RestOK, PCs
<1>9. ASSUME NEW t \in Threads, Commit(t)
      PROVE  RoundOK'
  BY <1>1, <1>2, <1>9, CallKeeps DEF Commit, RestOK, PCs
<1>10. ASSUME NEW t \in Threads, CommitFails(t)
       PROVE  RoundOK'
  <2>1. faults' \in 0..MaxFaults
    BY <1>2, <1>10, FaultType DEF CommitFails
  <2>2. pc' = "commit" /\ pending' \subseteq Threads /\ refused' = TRUE
        /\ UNCHANGED <<version, todo, found, unread, loaded, queue, cur, parsed, hard>>
    BY <1>2, <1>10 DEF CommitFails, RestOK
  <2> QED BY <1>1, <2>1, <2>2, CallKeeps DEF PCs
<1>11. CASE EndCommits
  <2>1. CASE refused
    BY <1>2, <1>11, <2>1, FaultType, EndRoundKeeps DEF EndCommits
  <2>2. CASE ~ refused
    BY <1>1, <1>2, <1>11, <2>2, CallKeeps DEF EndCommits, RestOK, PCs
  <2> QED BY <2>1, <2>2
<1>12. ASSUME NEW v \in 1..MaxVersion, Install(v)
       PROVE  RoundOK'
  <2>1. FoundOK' /\ LoadedOK' /\ CurOK' /\ ParsedOK'
    BY <1>12 DEF Install, round, IInv, RoundOK, FoundOK, LoadedOK, CurOK, OpenFile, ParsedOK, Registered
  <2> QED BY <1>12, <2>1 DEF Install, round, IInv, RoundOK, RestOK
<1>13. CASE ChangeFiles \/ UNCHANGED vars
  <2>1. UNCHANGED <<sources, version, round, faults>>
    BY <1>13 DEF ChangeFiles, vars
  <2>2. FoundOK' /\ LoadedOK' /\ CurOK' /\ ParsedOK'
    BY <2>1 DEF round, IInv, RoundOK, FoundOK, LoadedOK, CurOK, OpenFile, ParsedOK, Registered
  <2> QED BY <2>1, <2>2 DEF round, IInv, RoundOK, RestOK
<1> QED BY <1>3, <1>4, <1>5, <1>6, <1>7, <1>8, <1>9, <1>10, <1>11, <1>12, <1>13 DEF Next, RoundStep

LEMMA InitKeeps ==
  ASSUME Init
  PROVE  IInv
<1>1. FilesOK
  BY BoundsAssumption DEF Init, InitFiles, FilesOK, FilesTypeOK
<1>2. Distinct
  BY RegistryInit DEF Init
<1>3. FoundOK /\ LoadedOK /\ CurOK /\ ParsedOK
  BY DEF Init, FoundOK, LoadedOK, CurOK, ParsedOK, Nothing
<1>4. RestOK
  <2>1. version \in 1..MaxVersion /\ faults \in 0..MaxFaults
    BY BoundsAssumption DEF Init
  <2> QED BY <2>1 DEF Init, RestOK, PCs
<1> QED BY <1>1, <1>2, <1>3, <1>4 DEF IInv, RoundOK

LEMMA NextKeeps ==
  ASSUME IInv, [Next]_vars
  PROVE  IInv'
<1>1. FilesOK'
  BY StepKeepsFiles DEF IInv
<1>2. Distinct'
  BY StepIsCall, RegistryStep DEF IInv
<1> QED BY <1>1, <1>2, StepKeepsRound DEF IInv

------------------------------------------------------------------------------
(* A round implements the registry, and keeps what holds of it. *)

LEMMA RoundInvariant == Spec => []IInv
<1> QED BY InitKeeps, NextKeeps, PTL DEF Spec

\* Every variable keeps its type while rounds run, fail and are interrupted and
\* files change: no error path leaves a half-built round behind.
THEOREM RoundTypeCorrect == Spec => []TypeOK
<1>1. IInv => TypeOK
  BY DEF IInv, FilesOK, Distinct, RoundOK, FoundOK, LoadedOK, CurOK, OpenFile, ParsedOK, RestOK, TypeOK
<1> QED BY <1>1, RoundInvariant, PTL

\* A metadata round uses the registry only by its transactions and only with
\* legal arguments: one observation per path and per physical file, rebuilds of
\* registered sources, commits of the columns' types (run_round_with_report).
THEOREM RoundsImplementRegistry == Spec => RegistrySpec
<1>1. Init => InitRegistry
  BY DEF Init
<1>2. IInv /\ [Next]_vars => [RegistryNext]_sources
  BY StepIsCall
<1> QED BY <1>1, <1>2, RoundInvariant, PTL DEF Spec, RegistrySpec

\* So no round ever registers one file twice, or two files at one path.
THEOREM RoundsKeepRowsDistinct == Spec => []RowsAreDistinct
BY RoundsImplementRegistry, RowsStayDistinct, PTL

\* No round leaves a source bound without a fact of its current generation.
THEOREM RoundsKeepBindings == Spec => []BindingHasFact
BY RoundsImplementRegistry, BindingStaysBacked, PTL

\* No round leaves progress in a file without the fact it was made with.
THEOREM RoundsKeepProgress == Spec => []ProgressHasFact
BY RoundsImplementRegistry, ProgressStaysBacked, PTL

------------------------------------------------------------------------------
(* One content: the guard, and the checks around the read in read_chunk_bounded. *)

\* Tags and mtimes are the numbers of past changes, so the next one is fresh.
Dated == \A i \in Inodes : disk[i].tag <= clock /\ disk[i].mtime <= clock

\* A fact about something was read from one content, the one of the guard while
\* the guard is there.
OneContent(fact) == fact.through > 0 => \E tag \in 1..MaxChanges : fact.read = {tag}
Guarded(fact, cp) == fact.through > 0 /\ cp.status = "ready" => fact.read = {cp.guard}
RowPure(r) == OneContent(r.fact) /\ Guarded(r.fact, r.cp)

RowsPure   == \A s \in Registered : RowPure(sources[s])
LoadedPure == \A s \in DOMAIN loaded : RowPure(loaded[s])

ResultPure(result) ==
  result.fact.through > 0 =>
    \E tag \in 1..MaxChanges : result.fact.read = {tag} /\ result.guard = tag

ParsedPure == \A s \in DOMAIN parsed : ResultPure(parsed[s])

\* What is known of the open file.  If it is not the content it was when it was
\* opened, the checks after the read will say so.
Reading ==
  LET r == loaded[cur.source]
      content == disk[r.inode] IN
  pc \in {"read", "check"} =>
    /\ cur.tag \in 1..MaxChanges /\ cur.tag <= content.tag /\ cur.mtime <= clock
    /\ content.tag # cur.tag =>
         content.size < r.size \/ (content.size = cur.before /\ content.mtime # cur.mtime)
    /\ StartOffset(r) > 0 => r.cp.guard = cur.tag
    /\ pc = "check" =>
         \/ cur.read = {} /\ cur.through = StartOffset(r)
         \/ \E x \in Nat : cur.read = {x} /\ cur.tag <= x /\ x <= content.tag

Pure == Dated /\ RowsPure /\ LoadedPure /\ ParsedPure /\ Reading

------------------------------------------------------------------------------
(* The files. *)

\* A change gives what it writes a new mtime, and the old tag or a new one.
LEMMA ChangesAreDated ==
  ASSUME FilesOK, ChangeFiles
  PROVE  /\ clock' = clock + 1 /\ clock' \in 1..MaxChanges /\ clock \in Nat
         /\ \A i \in Inodes :
              \/ disk'[i] = disk[i]
              \/ /\ disk'[i].mtime = clock'
                 /\ disk'[i].tag = disk[i].tag \/ disk'[i].tag = clock'
<1>1. ASSUME NEW i, NEW tag, NEW n, Write(i, tag, n), NEW j \in Inodes
      PROVE  disk'[j] = disk[j] \/ (j = i /\ disk'[j].mtime = clock' /\ disk'[j].tag = tag)
  BY <1>1 DEF Write, FilesOK, FilesTypeOK
<1>2. Tick
  BY DEF ChangeFiles, Create, Append, Rewrite, Remove, Restore, Rename
<1>3. \A j \in Inodes :
        \/ disk'[j] = disk[j]
        \/ disk'[j].mtime = clock' /\ (disk'[j].tag = disk[j].tag \/ disk'[j].tag = clock')
  <2>1. ASSUME NEW i, NEW p, NEW n, Create(i, p, n)
        PROVE  \A j \in Inodes :
                 \/ disk'[j] = disk[j]
                 \/ disk'[j].mtime = clock' /\ disk'[j].tag = clock'
    BY <1>1, <2>1 DEF Create
  <2>2. ASSUME NEW p, NEW n, Append(p, n)
        PROVE  \A j \in Inodes :
                 \/ disk'[j] = disk[j]
                 \/ disk'[j].mtime = clock' /\ disk'[j].tag = disk[j].tag
    BY <1>1, <2>2 DEF Append
  <2>3. ASSUME NEW p, NEW n, Rewrite(p, n)
        PROVE  \A j \in Inodes :
                 \/ disk'[j] = disk[j]
                 \/ disk'[j].mtime = clock' /\ disk'[j].tag = clock'
    BY <1>1, <2>3 DEF Rewrite
  <2> QED BY <2>1, <2>2, <2>3 DEF ChangeFiles, Remove, Restore, Rename
<1> QED BY <1>2, <1>3, TickType DEF Tick, FilesOK, FilesTypeOK

\* Numbers of the files, for arithmetic.
LEMMA ContentType ==
  ASSUME FilesOK, NEW i \in Inodes
  PROVE  /\ disk[i].tag \in Nat /\ disk[i].size \in Nat /\ disk[i].mtime \in Nat
         /\ clock \in Nat /\ clock <= MaxChanges
BY BoundsAssumption DEF FilesOK, FilesTypeOK

LEMMA DatedStays ==
  ASSUME FilesOK, FilesOK', Dated, ChangeFiles
  PROVE  Dated'
<1>1. ASSUME NEW i \in Inodes
      PROVE  disk'[i].tag <= clock' /\ disk'[i].mtime <= clock'
  BY ChangesAreDated, ContentType DEF Dated
<1> QED BY <1>1 DEF Dated

\* A file that changes under the round changes so that the round will notice.
LEMMA ReadingStays ==
  ASSUME IInv, Dated, Reading, ChangeFiles
  PROVE  Reading'
<1> SUFFICES ASSUME pc \in {"read", "check"}
             PROVE  Reading'
  BY DEF ChangeFiles, round, Reading
<1> DEFINE r == loaded[cur.source]
           i == r.inode
<1>1. UNCHANGED <<pc, cur, loaded, version>>
  BY DEF ChangeFiles, round
<1>2. cur \in OpenFile
  BY DEF IInv, RoundOK, CurOK
<1>3. r \in Row /\ i \in Inodes
  BY <1>2 DEF IInv, RoundOK, LoadedOK, OpenFile, Row
<1>4. /\ cur.tag \in 1..MaxChanges /\ cur.tag <= disk[i].tag /\ cur.mtime <= clock
      /\ disk[i].tag # cur.tag =>
           disk[i].size < r.size \/ (disk[i].size = cur.before /\ disk[i].mtime # cur.mtime)
      /\ StartOffset(r) > 0 => r.cp.guard = cur.tag
      /\ pc = "check" =>
           \/ cur.read = {} /\ cur.through = StartOffset(r)
           \/ \E x \in Nat : cur.read = {x} /\ cur.tag <= x /\ x <= disk[i].tag
  BY DEF Reading
<1>5. cur.tag \in Nat /\ cur.mtime \in Nat
  BY <1>2 DEF OpenFile
<1>6. disk[i].tag \in Nat /\ disk[i].tag <= clock /\ clock \in Nat
  BY <1>3, ContentType DEF Dated, IInv
<1>7. /\ clock' = clock + 1
      /\ \/ disk'[i] = disk[i]
         \/ disk'[i].mtime = clock' /\ (disk'[i].tag = disk[i].tag \/ disk'[i].tag = clock')
  BY <1>3, ChangesAreDated DEF IInv
<1>8. disk[i].tag <= disk'[i].tag /\ disk'[i].tag \in Nat
  BY <1>6, <1>7
<1>9. disk'[i].tag # cur.tag => disk'[i].size < r.size \/ disk'[i].size = cur.before
  <2>1. Held(i)
    BY <1>4 DEF Held, Closed
  <2>2. WholeRewrites(i)
    BY <1>3 DEF ChangeFiles
  <2> QED BY <2>1, <2>2 DEF WholeRewrites
<1>10. disk'[i].tag # cur.tag =>
         disk'[i].size < r.size \/ (disk'[i].size = cur.before /\ disk'[i].mtime # cur.mtime)
  BY <1>4, <1>5, <1>6, <1>7, <1>9
<1>11. cur.tag <= disk'[i].tag /\ cur.mtime <= clock'
  BY <1>4, <1>5, <1>6, <1>7, <1>8
<1>12. pc = "check" =>
         \/ cur.read = {} /\ cur.through = StartOffset(r)
         \/ \E x \in Nat : cur.read = {x} /\ cur.tag <= x /\ x <= disk'[i].tag
  BY <1>4, <1>6, <1>8
<1>13. (StartOffset(r))' = StartOffset(r)
  BY <1>1 DEF StartOffset, Resumable, MatchingFact
<1> HIDE DEF i
<1>14. r' = r /\ i' = i
  BY <1>1 DEF i
<1> QED BY <1>1, <1>4, <1>10, <1>11, <1>12, <1>13, <1>14 DEF Reading, i
------------------------------------------------------------------------------
(* The registry. *)

\* What a round commits for a source is as pure as what it read.
LEMMA CommitForPure ==
  ASSUME LoadedPure, ParsedPure, NEW s \in DOMAIN loaded
  PROVE  OneContent(CommitFor(s).fact) /\ Guarded(CommitFor(s).fact, CommitFor(s).cp)
<1>1. CommitFor(s).fact = KnownFact(s)
  BY DEF CommitFor
<1>2. CASE Skipped(loaded[s])
  <2>1. CommitFor(s).cp = loaded[s].cp /\ KnownFact(s) = loaded[s].fact
    BY <1>2 DEF CommitFor, KnownFact
  <2> QED BY <1>1, <2>1 DEF LoadedPure, RowPure
<1>3. CASE ~ Skipped(loaded[s]) /\ s \in DOMAIN parsed
  <2>1. CommitFor(s).cp.guard = parsed[s].guard /\ KnownFact(s) = parsed[s].fact
    BY <1>3 DEF CommitFor, KnownFact
  <2> QED BY <1>1, <1>3, <2>1 DEF ParsedPure, ResultPure, OneContent, Guarded
<1>4. CASE ~ Skipped(loaded[s]) /\ s \notin DOMAIN parsed
  <2>1. KnownFact(s).through = 0
    BY <1>4 DEF KnownFact, NoFact
  <2> QED BY <1>1, <2>1 DEF OneContent, Guarded
<1> QED BY <1>2, <1>3, <1>4

LEMMA CommitStaysPure ==
  ASSUME Distinct, RowsPure, LoadedPure, ParsedPure, NEW t \in Threads,
         CommitGroup(t, GroupCommits(t))
  PROVE  RowsPure'
<1>1. ASSUME NEW s \in Registered'
      PROVE  RowPure(sources'[s])
  <2>1. s \in Registered
    BY DEF CommitGroup, Registered
  <2>2. sources[s] \in Row
    BY <2>1, RowType DEF Distinct
  <2>3. CASE s \in Members(t)
    <3> DEFINE c == CommitFor(s)
    <3>1. GroupCommits(t)[s] = c /\ s \in DOMAIN GroupCommits(t)
      BY <2>3 DEF GroupCommits
    <3>2. OneContent(c.fact) /\ Guarded(c.fact, c.cp)
      BY <2>3, CommitForPure DEF Members
    <3> HIDE DEF c
    <3>3. sources'[s] = [sources[s] EXCEPT !.thread = t, !.fact = c.fact, !.cp = c.cp]
      BY <2>1, <3>1 DEF CommitGroup
    <3>4. sources'[s].fact = c.fact /\ sources'[s].cp = c.cp
      BY <2>2, <3>3 DEF Row
    <3> QED BY <3>2, <3>4 DEF RowPure
  <2>4. CASE s \notin Members(t)
    <3>1. sources'[s] = sources[s]
      BY <2>1, <2>4 DEF CommitGroup, GroupCommits
    <3> QED BY <2>1, <3>1 DEF RowsPure
  <2> QED BY <2>3, <2>4
<1> QED BY <1>1 DEF RowsPure

LEMMA RebuildStaysPure ==
  ASSUME Distinct, RowsPure, NEW S, RequireRebuild(S)
  PROVE  RowsPure'
<1>1. ASSUME NEW s \in Registered'
      PROVE  RowPure(sources'[s])
  <2>1. s \in Registered
    BY DEF RequireRebuild, Registered
  <2>2. sources[s] \in Row /\ RowPure(sources[s])
    BY <2>1, RowType DEF Distinct, RowsPure
  <2>3. sources'[s] = ResetCheckpoint(sources[s]) \/ sources'[s] = sources[s]
    BY <2>1 DEF RequireRebuild
  <2>4. /\ ResetCheckpoint(sources[s]).fact = sources[s].fact
        /\ ResetCheckpoint(sources[s]).cp.status = "rebuild_required"
    BY <2>2 DEF ResetCheckpoint, Row, Checkpoint
  <2>5. RowPure(ResetCheckpoint(sources[s]))
    BY <2>2, <2>4 DEF RowPure, Guarded
  <2> QED BY <2>2, <2>3, <2>5
<1> QED BY <1>1 DEF RowsPure

\* A row that is updated keeps its fact with its checkpoint, or loses the fact.
LEMMA UpdatedPure ==
  ASSUME NEW r \in Row, RowPure(r), NEW o
  PROVE  RowPure(Updated(r, o))
<1>1. Seen(r, o).fact = r.fact /\ Seen(r, o).cp = r.cp
  BY DEF Seen, Row
<1>2. Renewed(Seen(r, o)).fact.through = 0
  <2> DEFINE q == Seen(r, o)
             g == ResetCheckpoint(q).gen + 1
  <2>1. "fact" \in DOMAIN q
    BY DEF Seen, Row
  <2>2. "fact" \in DOMAIN ResetCheckpoint(q)
    BY <2>1 DEF ResetCheckpoint
  <2> HIDE DEF q
  <2>3. Renewed(q) = [ResetCheckpoint(q) EXCEPT !.gen = g, !.thread = NoThread, !.fact = NoFact]
    BY DEF Renewed
  <2> HIDE DEF g
  <2>4. Renewed(q).fact = NoFact
    BY <2>2, <2>3
  <2> QED BY <2>4 DEF NoFact, q
<1>3. CASE GenerationChanged(r, o)
  BY <1>2, <1>3 DEF Updated, RowPure, OneContent, Guarded
<1>4. CASE ~ GenerationChanged(r, o)
  BY <1>1, <1>4 DEF Updated, RowPure
<1> QED BY <1>3, <1>4

LEMMA RecordStaysPure ==
  ASSUME Distinct, RowsPure, NEW B, NEW u, RecordObservations(B, u)
  PROVE  RowsPure'
<1>1. PICK ids : RecordAs(B, u, ids)
  BY RecordNamesIds
<1>2. ASSUME NEW s \in Registered'
      PROVE  RowPure(sources'[s])
  <2>1. CASE s \notin Registered
    <3>1. sources'[s].fact.through = 0
      BY <1>1, <2>1 DEF RecordAs, Registered, Created, NoFact
    <3> QED BY <3>1 DEF RowPure, OneContent, Guarded
  <2>2. CASE s \in Registered
    <3>1. sources[s] \in Row /\ RowPure(sources[s])
      BY <2>2, RowType DEF Distinct, RowsPure
    <3>2. (\E o : sources'[s] = Updated(sources[s], o)) \/ sources'[s] = Unseen(sources[s], u)
      BY <1>1, <2>2 DEF RecordAs, Registered
    <3>3. Unseen(sources[s], u).fact = sources[s].fact /\ Unseen(sources[s], u).cp = sources[s].cp
      BY <3>1 DEF Unseen, Row
    <3>4. RowPure(Unseen(sources[s], u))
      BY <3>1, <3>3 DEF RowPure
    <3> QED BY <3>1, <3>2, <3>4, UpdatedPure
  <2> QED BY <2>1, <2>2
<1> QED BY <1>2 DEF RowsPure

------------------------------------------------------------------------------
(* The round. *)

\* A resumed file goes on from a fact about the content its guard is of.
LEMMA ResumedFact ==
  ASSUME NEW r \in Row, RowPure(r), StartOffset(r) > 0
  PROVE  Resumable(r) /\ r.fact.read = {r.cp.guard}
<1>1. Resumable(r)
  BY DEF StartOffset
<1>2. r.cp.status = "ready" /\ r.fact.through > 0
  BY <1>1 DEF Resumable, MatchingFact
<1> QED BY <1>1, <1>2 DEF RowPure, Guarded

\* If the checks after the read pass, the file is what it was when it was opened.
LEMMA CheckedContent ==
  ASSUME IInv, Reading, pc = "check", ~ Changed(loaded[cur.source])
  PROVE  /\ disk[loaded[cur.source].inode].tag = cur.tag
         /\ cur.tag \in 1..MaxChanges
         /\ \/ cur.read = {} /\ cur.through = StartOffset(loaded[cur.source])
            \/ cur.read = {cur.tag}
<1> DEFINE r == loaded[cur.source]
<1>1. cur \in OpenFile
  BY DEF IInv, RoundOK, CurOK
<1>2. r \in Row /\ r.inode \in Inodes
  BY <1>1 DEF IInv, RoundOK, LoadedOK, OpenFile, Row
<1>3. disk[r.inode].size \in Nat /\ r.size \in Nat /\ cur.tag \in Nat
  BY <1>1, <1>2, ContentType DEF IInv, Row, OpenFile
<1>4. disk[r.inode].tag = cur.tag
  BY <1>3 DEF Reading, Changed
<1>5. ASSUME NEW x \in Nat, cur.tag <= x, x <= disk[r.inode].tag
      PROVE  x = cur.tag
  BY <1>3, <1>4, <1>5
<1> QED BY <1>4, <1>5 DEF Reading

LEMMA CheckStaysPure ==
  ASSUME IInv, LoadedPure, ParsedPure, Reading, Check
  PROVE  ParsedPure'
<1> DEFINE r == loaded[cur.source]
           tag == disk[r.inode].tag
           result == IF Changed(r) THEN Failure("changed") ELSE Parse(r, tag, cur.through)
<1>1. pc = "check" /\ cur \in OpenFile
  BY DEF Check, IInv, RoundOK, CurOK
<1>2. r \in Row /\ RowPure(r)
  BY <1>1, SMTT(30) DEF IInv, RoundOK, LoadedOK, OpenFile, LoadedPure
<1>3. ResultPure(result)
  <2>1. CASE Changed(r)
    BY <2>1 DEF Failure, NoFact, ResultPure
  <2>2. CASE ~ Changed(r) /\ result.fact.through > 0
    <3>1. result = Parse(r, tag, cur.through)
      BY <2>2
    <3>2. tag = cur.tag /\ cur.tag \in 1..MaxChanges
          /\ ((cur.read = {} /\ cur.through = StartOffset(r)) \/ cur.read = {cur.tag})
      BY <1>1, <2>2, CheckedContent, SMTT(30)
    <3> HIDE DEF result, tag
    <3>3. /\ result.fact.through = cur.through
          /\ result.fact.read = cur.read \union (IF StartOffset(r) > 0 THEN r.fact.read ELSE {})
          /\ result.guard = IF cur.through = 0 THEN NoGuard ELSE tag
      <4>1. result.fact # NoFact
        BY <2>2 DEF NoFact
      <4> QED BY <3>1, <4>1 DEF Parse
    <3>4. StartOffset(r) > 0 => r.fact.read = {cur.tag}
      BY <1>1, <1>2, ResumedFact DEF Reading
    <3>5. StartOffset(r) \in Nat
      BY <1>2, StartOffsetType
    <3>6. result.fact.read = {cur.tag} /\ result.guard = cur.tag
      BY <2>2, <3>2, <3>3, <3>4, <3>5
    <3> QED BY <3>2, <3>6 DEF ResultPure
  <2> QED BY <2>1, <2>2 DEF ResultPure
<1>4. parsed' = [x \in DOMAIN parsed \union {cur.source} |->
                   IF x = cur.source THEN result ELSE parsed[x]]
  BY DEF Check, Finish
<1> HIDE DEF result
<1> QED BY <1>3, <1>4 DEF ParsedPure

LEMMA OpenStaysPure ==
  ASSUME IInv, Dated, LoadedPure, ParsedPure, Open
  PROVE  ParsedPure' /\ Reading'
<1>1. PICK s \in NextSources :
        IF OpenError(loaded[s]) # "none" THEN Finish(s, Failure(OpenError(loaded[s])))
        ELSE /\ cur' = [source |-> s, tag |-> disk[loaded[s].inode].tag,
                        before |-> disk[loaded[s].inode].size,
                        mtime |-> disk[loaded[s].inode].mtime, read |-> {}, through |-> 0]
             /\ pc' = "read"
             /\ UNCHANGED <<queue, parsed, hard>>
  BY DEF Open
<1>2. CASE OpenError(loaded[s]) # "none"
  <2>1. ResultPure(Failure(OpenError(loaded[s])))
    BY DEF Failure, NoFact, ResultPure
  <2>2. ParsedPure'
    BY <1>1, <1>2, <2>1 DEF Finish, ParsedPure
  <2>3. pc' = "parse"
    BY <1>1, <1>2 DEF Finish
  <2> QED BY <2>2, <2>3 DEF Reading
<1>3. CASE OpenError(loaded[s]) = "none"
  <2> DEFINE r == loaded[s]
             content == disk[r.inode]
  <2>1. r \in Row /\ r.inode \in Inodes
    BY DEF NextSources, IInv, RoundOK, LoadedOK, Row
  <2>2. dir[r.path] = r.inode /\ (StartOffset(r) > 0 => content.tag = r.cp.guard)
    BY <1>3 DEF OpenError
  <2>3. content.tag \in 1..MaxChanges /\ content.mtime <= clock
    <3>1. r.path \in Paths
      BY <2>1 DEF Row
    <3> QED BY <2>1, <2>2, <3>1, NamesAssumption, BoundsAssumption
            DEF Dated, IInv, FilesOK, FilesTypeOK
  <2>4. cur' = [source |-> s, tag |-> content.tag, before |-> content.size,
                mtime |-> content.mtime, read |-> {}, through |-> 0]
        /\ pc' = "read" /\ UNCHANGED <<queue, parsed, hard>>
    BY <1>1, <1>3
  <2>5. loaded'[cur'.source] = r /\ UNCHANGED <<disk, clock, loaded, version>>
    BY <2>4 DEF Open, files
  <2>6. (StartOffset(r))' = StartOffset(r)
    BY <2>4, <2>5 DEF StartOffset, Resumable, MatchingFact
  <2>7. ParsedPure'
    BY <2>4 DEF ParsedPure
  <2>8. Reading'
    BY <2>2, <2>3, <2>4, <2>5 DEF Reading, StartOffset, Resumable, MatchingFact
  <2> QED BY <2>7, <2>8
<1> QED BY <1>2, <1>3

LEMMA ReadStaysPure ==
  ASSUME IInv, Reading, Read
  PROVE  Reading'
<1> DEFINE r     == loaded[cur.source]
           tag   == disk[r.inode].tag
           end   == Complete(Smaller(r.size, disk[r.inode].size))
           start == StartOffset(r)
           lines == IF end > start THEN {tag} ELSE {}
           upto  == IF end > start THEN end ELSE start
<1>1. cur \in OpenFile /\ pc = "read"
  BY DEF Read, IInv, RoundOK, CurOK
<1>2. r \in Row /\ r.inode \in Inodes
  BY <1>1 DEF IInv, RoundOK, LoadedOK, OpenFile, Row
<1>3. tag \in Nat
  BY <1>2, ContentType DEF IInv
<1>4. cur' = [cur EXCEPT !.read = lines, !.through = upto] /\ pc' = "check"
  BY DEF Read
<1>5. \/ lines = {} /\ upto = start
      \/ lines = {tag}
  OBVIOUS
<1>6. cur.tag <= tag
  BY <1>1 DEF Reading
<1> HIDE DEF lines, upto
<1>7. /\ cur'.source = cur.source /\ cur'.tag = cur.tag /\ cur'.before = cur.before
      /\ cur'.mtime = cur.mtime /\ cur'.read = lines /\ cur'.through = upto
  BY <1>1, <1>4 DEF OpenFile
<1>8. UNCHANGED <<disk, clock, loaded, version>>
  BY DEF Read, files
<1>9. \/ cur'.read = {} /\ cur'.through = start
      \/ \E x \in Nat : cur'.read = {x} /\ cur.tag <= x /\ x <= tag
  BY <1>3, <1>5, <1>6, <1>7
<1>10. (StartOffset(loaded[cur.source]))' = start
  BY <1>7, <1>8 DEF StartOffset, Resumable, MatchingFact
<1> QED BY <1>1, <1>7, <1>8, <1>9, <1>10 DEF Reading
LEMMA EndRoundPure ==
  ASSUME EndRound
  PROVE  LoadedPure' /\ ParsedPure' /\ Reading'
BY DEF EndRound, Nothing, LoadedPure, ParsedPure, Reading

\* Every step keeps the rows pure.
LEMMA RowsStayPure ==
  ASSUME IInv, Pure, [Next]_vars
  PROVE  RowsPure'
<1>1. CASE UNCHANGED sources
  BY <1>1 DEF Pure, RowsPure, Registered
<1>2. CASE Record
  BY <1>2, RecordStaysPure DEF Record, IInv, Pure
<1>3. CASE Resolve \/ ResolveFails \/ CancelParsing
  <2>1. RequireRebuild(RebuildNeeded) \/ UNCHANGED sources
    BY <1>3 DEF Resolve, ResolveFails, CancelParsing
  <2> QED BY <1>1, <2>1, RebuildStaysPure DEF IInv, Pure
<1>4. ASSUME NEW t \in Threads, Commit(t)
      PROVE  RowsPure'
  BY <1>4, CommitStaysPure DEF Commit, IInv, Pure
<1>5. CASE StartRound \/ RecordFails \/ Load \/ LoadFails \/ Open \/ Read \/ Check
           \/ (\E p \in Paths : Look(p) \/ LookFails(p)) \/ (\E t \in Threads : CommitFails(t))
           \/ EndCommits \/ FinishRound
  BY <1>1, <1>5 DEF StartRound, RecordFails, Load, LoadFails, Open, Read, Check, Look, LookFails,
     CommitFails, EndCommits, FinishRound
<1>6. CASE Abandon \/ (\E v \in 1..MaxVersion : Install(v)) \/ ChangeFiles \/ UNCHANGED vars
  BY <1>1, <1>6 DEF Abandon, Install, ChangeFiles, vars
<1> QED BY <1>2, <1>3, <1>4, <1>5, <1>6 DEF Next, RoundStep

\* Every step keeps what the round holds pure.
LEMMA RoundStaysPure ==
  ASSUME IInv, Pure, [Next]_vars
  PROVE  LoadedPure' /\ ParsedPure' /\ Reading'
<1>1. CASE Load
  <2>1. LoadedPure'
    BY <1>1 DEF Load, ObservedSources, Pure, RowsPure, LoadedPure
  <2> QED BY <1>1, <2>1 DEF Load, Pure, ParsedPure, Reading
<1>2. CASE Open
  BY <1>2, OpenStaysPure DEF Open, Pure, LoadedPure
<1>3. CASE Read
  BY <1>3, ReadStaysPure, SMTT(30) DEF Read, Pure, LoadedPure, ParsedPure
<1>4. CASE Check
  <2>1. ParsedPure'
    BY <1>4, CheckStaysPure DEF Pure
  <2> QED BY <1>4, <2>1 DEF Check, Finish, Pure, LoadedPure, Reading
<1>5. CASE RecordFails \/ LoadFails \/ ResolveFails \/ FinishRound \/ Abandon \/ CancelParsing
  BY <1>5, EndRoundPure DEF RecordFails, LoadFails, ResolveFails, FinishRound, Abandon, CancelParsing
<1>6. ASSUME UNCHANGED <<loaded, parsed>>, pc' \notin {"read", "check"}
      PROVE  LoadedPure' /\ ParsedPure' /\ Reading'
  BY <1>6 DEF Pure, LoadedPure, ParsedPure, Reading
<1>7. CASE StartRound \/ (\E p \in Paths : Look(p) \/ LookFails(p)) \/ Record \/ Resolve
           \/ (\E t \in Threads : Commit(t) \/ CommitFails(t))
  BY <1>6, <1>7 DEF StartRound, Look, LookFails, Record, Resolve, Commit, CommitFails
<1>8. CASE EndCommits
  BY <1>6, <1>8, EndRoundPure DEF EndCommits
<1>9. CASE \E v \in 1..MaxVersion : Install(v)
  BY <1>6, <1>9 DEF Install, round
<1>10. CASE ChangeFiles
  <2>1. Reading'
    BY <1>10, ReadingStays DEF Pure
  <2> QED BY <1>10, <2>1 DEF ChangeFiles, round, Pure, LoadedPure, ParsedPure
<1>11. CASE UNCHANGED vars
  BY <1>11 DEF vars, files, round, Pure, LoadedPure, ParsedPure, Reading, StartOffset, Resumable,
     MatchingFact
<1> QED BY <1>1, <1>2, <1>3, <1>4, <1>5, <1>7, <1>8, <1>9, <1>10, <1>11 DEF Next, RoundStep

LEMMA DatesStay ==
  ASSUME IInv, Pure, [Next]_vars
  PROVE  Dated'
<1>1. CASE ChangeFiles
  BY <1>1, StepKeepsFiles, DatedStays DEF IInv, Pure
<1>2. CASE UNCHANGED files
  BY <1>2 DEF files, Pure, Dated
<1>3. CASE RoundStep
  BY <1>2, <1>3 DEF RoundStep, StartRound, Look, LookFails, Record, RecordFails, Load, LoadFails,
     Open, Read, Check, Resolve, ResolveFails, Commit, CommitFails, EndCommits, FinishRound
<1>4. CASE Abandon \/ CancelParsing \/ (\E v \in 1..MaxVersion : Install(v)) \/ UNCHANGED vars
  BY <1>2, <1>4 DEF Abandon, CancelParsing, Install, vars
<1> QED BY <1>1, <1>3, <1>4 DEF Next

LEMMA InitPure ==
  ASSUME Init
  PROVE  Pure
<1>1. Dated
  BY DEF Init, InitFiles, Dated
<1>2. RowsPure
  BY DEF Init, InitRegistry, RowsPure, Registered
<1>3. LoadedPure /\ ParsedPure /\ Reading
  BY DEF Init, Nothing, LoadedPure, ParsedPure, Reading
<1> QED BY <1>1, <1>2, <1>3 DEF Pure

------------------------------------------------------------------------------
(* No fact mixes two contents of a file. *)

LEMMA FactsInvariant == Spec => [](IInv /\ Pure)
<1>1. IInv /\ Pure /\ [Next]_vars => (IInv /\ Pure)'
  BY NextKeeps, DatesStay, RowsStayPure, RoundStaysPure DEF Pure
<1>2. Init => IInv /\ Pure
  BY InitKeeps, InitPure
<1> QED BY <1>1, <1>2, PTL DEF Spec

\* No sequence of appends, overwrites, moves, replacements, crashes and upgrades
\* makes a fact out of lines of two contents, or leaves a ready checkpoint whose
\* guard is not of the content its fact was read from (read_chunk_bounded,
\* verify_guard, resolve).
THEOREM FactsStayPure == Spec => []FactIsOfOneContent
<1>1. Pure => FactIsOfOneContent
  BY DEF Pure, RowsPure, RowPure, OneContent, Guarded, FactIsOfOneContent
<1> QED BY <1>1, FactsInvariant, PTL

------------------------------------------------------------------------------
(* How one row moves in one step. *)

LEMMA UpdatedFields ==
  ASSUME NEW r \in Row, NEW o \in Observation
  PROVE  LET u == Updated(r, o)
         IN  /\ u.path = o.path /\ u.inode = o.inode /\ u.size = o.size /\ u.mtime = o.mtime
             /\ GenerationChanged(r, o) => u.fact = NoFact
             /\ ~ GenerationChanged(r, o) => u.fact = r.fact /\ u.gen = r.gen
<1> DEFINE q == Seen(r, o)
<1>1. /\ q \in Row /\ q.path = o.path /\ q.inode = o.inode /\ q.size = o.size /\ q.mtime = o.mtime
      /\ q.fact = r.fact /\ q.gen = r.gen
  BY SeenRow DEF Seen, Row
<1> HIDE DEF q
<1> DEFINE z == ResetCheckpoint(q)
<1>2. /\ z \in Row /\ z.path = q.path /\ z.inode = q.inode /\ z.size = q.size /\ z.mtime = q.mtime
  BY <1>1, ResetRow DEF ResetCheckpoint, Row
<1> HIDE DEF z
<1> DEFINE g == z.gen + 1
<1>3. Renewed(q) = [z EXCEPT !.gen = g, !.thread = NoThread, !.fact = NoFact]
  BY DEF Renewed, z
<1> HIDE DEF g
<1>4. /\ Renewed(q).path = z.path /\ Renewed(q).inode = z.inode /\ Renewed(q).size = z.size
      /\ Renewed(q).mtime = z.mtime /\ Renewed(q).fact = NoFact
  BY <1>2, <1>3 DEF Row
<1> QED BY <1>1, <1>2, <1>4 DEF Updated, q

LEMMA UnseenFields ==
  ASSUME NEW r \in Row, NEW u
  PROVE  LET q == Unseen(r, u)
         IN  /\ q.path = r.path /\ q.inode = r.inode /\ q.size = r.size /\ q.mtime = r.mtime
             /\ q.fact = r.fact /\ q.gen = r.gen
             /\ u = {} => q.status = "missing"
BY DEF Unseen, Row

LEMMA ResetFields ==
  ASSUME NEW r \in Row
  PROVE  LET q == ResetCheckpoint(r)
         IN  /\ q.path = r.path /\ q.inode = r.inode /\ q.size = r.size /\ q.mtime = r.mtime
             /\ q.fact = r.fact /\ q.gen = r.gen /\ q.thread = r.thread /\ q.status = r.status
BY DEF ResetCheckpoint, Row

\* The row that a commit leaves.
Bound(r, t, c) == [r EXCEPT !.thread = t, !.fact = c.fact, !.cp = c.cp]

LEMMA BoundFields ==
  ASSUME NEW r \in Row, NEW t, NEW c
  PROVE  LET q == Bound(r, t, c)
         IN  /\ q.path = r.path /\ q.inode = r.inode /\ q.size = r.size /\ q.mtime = r.mtime
             /\ q.gen = r.gen /\ q.status = r.status
             /\ q.thread = t /\ q.fact = c.fact /\ q.cp = c.cp
BY DEF Bound, Row

Recorded(s) ==
  \/ s \notin Registered /\ \E o \in Deduplicated : sources'[s] = Created(o)
  \/ /\ s \in Registered
     /\ \E o \in Deduplicated : s \in Match(Deduplicated, o) /\ sources'[s] = Updated(sources[s], o)
  \/ s \in Registered /\ sources'[s] = Unseen(sources[s], unread)

LEMMA RecordedAs ==
  ASSUME IInv, Record, NEW s \in Registered'
  PROVE  Recorded(s)
<1> DEFINE B == Deduplicated
<1>1. PICK ids : RecordAs(B, unread, ids)
  BY RecordNamesIds DEF Record
<1>2. LegalBatch(B) /\ B \in SUBSET Observation
  BY DeduplicatedIsLegal DEF IInv, RoundOK
<1>3. CASE s \notin Registered
  <2>1. PICK o \in Unmatched(B) : ids[o] = s
    BY <1>1, <1>3 DEF RecordAs, Registered
  <2>2. sources'[s] = Created(o) /\ o \in B
    BY <1>1, <1>3, <2>1 DEF RecordAs, Registered, Unmatched
  <2> QED BY <1>3, <2>2 DEF Recorded
<1>4. CASE s \in Registered /\ s \in Claimed(B)
  <2>1. PICK o \in B : s \in Match(B, o)
    BY <1>4 DEF Claimed
  <2>2. (CHOOSE x \in B : s \in Match(B, x)) = o
    BY <1>2, <2>1, ClaimedOnce DEF IInv
  <2>3. sources'[s] = Updated(sources[s], o)
    BY <1>1, <1>4, <2>2 DEF RecordAs, Registered
  <2> QED BY <1>4, <2>1, <2>3 DEF Recorded
<1>5. CASE s \in Registered /\ s \notin Claimed(B)
  BY <1>1, <1>5 DEF RecordAs, Registered, Recorded
<1> QED BY <1>3, <1>4, <1>5

Rebuilt(s) == sources'[s] = ResetCheckpoint(sources[s]) /\ (Resolve \/ EndRound)

Committed(s, t) ==
  /\ Commit(t) /\ s \in Members(t)
  /\ LegalCommit(sources[s], t, CommitFor(s))
  /\ sources'[s] = Bound(sources[s], t, CommitFor(s))

LEMMA CommittedAs ==
  ASSUME NEW t \in Threads, Commit(t), NEW s \in Registered'
  PROVE  s \in Registered /\ (Committed(s, t) \/ (s \notin Members(t) /\ sources'[s] = sources[s]))
<1>1. CommitGroup(t, GroupCommits(t))
  BY DEF Commit
<1>2. s \in Registered
  BY <1>1 DEF CommitGroup, Registered
<1>3. CASE s \in Members(t)
  <2>1. s \in DOMAIN GroupCommits(t) /\ GroupCommits(t)[s] = CommitFor(s)
    BY <1>3 DEF GroupCommits
  <2>2. LegalCommit(sources[s], t, CommitFor(s))
    BY <1>1, <2>1 DEF CommitGroup, LegalGroup
  <2>3. sources'[s] = Bound(sources[s], t, CommitFor(s))
    BY <1>1, <1>2, <2>1 DEF CommitGroup, Bound
  <2> QED BY <1>2, <1>3, <2>2, <2>3 DEF Committed
<1>4. CASE s \notin Members(t)
  BY <1>1, <1>2, <1>4 DEF CommitGroup, GroupCommits
<1> QED BY <1>2, <1>3, <1>4

\* Every step keeps a row or moves it in one of four ways.
LEMMA RowStep ==
  ASSUME IInv, [Next]_vars, NEW s \in Registered'
  PROVE  \/ s \in Registered /\ sources'[s] = sources[s]
         \/ Record /\ Recorded(s)
         \/ s \in Registered /\ Rebuilt(s)
         \/ s \in Registered /\ \E t \in Threads : Committed(s, t)
<1>1. CASE UNCHANGED sources
  BY <1>1 DEF Registered
<1>2. CASE Record
  BY <1>2, RecordedAs
<1>3. CASE Resolve \/ ResolveFails \/ CancelParsing
  <2>1. UNCHANGED sources \/ (RequireRebuild(RebuildNeeded) /\ (Resolve \/ EndRound))
    BY <1>3 DEF Resolve, ResolveFails, CancelParsing
  <2>2. CASE RequireRebuild(RebuildNeeded) /\ (Resolve \/ EndRound)
    BY <2>2 DEF RequireRebuild, Registered, Rebuilt
  <2> QED BY <1>1, <2>1, <2>2
<1>4. ASSUME NEW t \in Threads, Commit(t)
      PROVE  s \in Registered /\ (sources'[s] = sources[s] \/ Committed(s, t))
  BY <1>4, CommittedAs
<1>5. CASE StartRound \/ RecordFails \/ Load \/ LoadFails \/ Open \/ Read \/ Check
           \/ (\E p \in Paths : Look(p) \/ LookFails(p)) \/ (\E t \in Threads : CommitFails(t))
           \/ EndCommits \/ FinishRound
  BY <1>1, <1>5 DEF StartRound, RecordFails, Load, LoadFails, Open, Read, Check, Look, LookFails,
     CommitFails, EndCommits, FinishRound
<1>6. CASE Abandon \/ (\E v \in 1..MaxVersion : Install(v)) \/ ChangeFiles \/ UNCHANGED vars
  BY <1>1, <1>6 DEF Abandon, Install, ChangeFiles, vars
<1> QED BY <1>2, <1>3, <1>4, <1>5, <1>6 DEF Next, RoundStep

------------------------------------------------------------------------------
(* What a round reads of a file: whole lines, to the end of what it planned. *)

Whole(n) == Complete(n) = n

LEMMA CompleteWhole ==
  ASSUME NEW n \in Nat
  PROVE  Complete(n) \in Nat /\ Complete(n) <= n /\ Whole(Complete(n))
BY DEF Complete, Whole

LEMMA WholeBelow ==
  ASSUME NEW m \in Nat, NEW n \in Nat, m <= n, Whole(m)
  PROVE  m <= Complete(n)
BY DEF Complete, Whole

RowsWhole   == \A s \in Registered : Whole(sources[s].fact.through)
LoadedWhole == \A s \in DOMAIN loaded : Whole(loaded[s].fact.through) /\ Loadable(loaded[s])

\* A fact the round found out itself is of this build and goes to the last line planned.
ResultWhole(r, fact) ==
  fact # NoFact =>
    /\ fact.version = version
    /\ fact.through = Complete(r.size)
    /\ fact.thread \in Threads

ParsedWhole == \A s \in DOMAIN parsed : ResultWhole(loaded[s], parsed[s].fact)

\* While the open file has the content it was opened with, it holds all that was
\* planned, and reading it went to the last line of that.
ReadWhole ==
  LET r == loaded[cur.source]
      content == disk[r.inode] IN
  pc \in {"read", "check"} /\ content.tag = cur.tag =>
    /\ content.size >= r.size
    /\ pc = "check" => cur.through = Complete(r.size)

Lines == RowsWhole /\ LoadedWhole /\ ParsedWhole /\ ReadWhole

\* What the round knows of a source that it skips or has read.
LEMMA SkippedFact ==
  ASSUME LoadedOK, RestOK, LoadedWhole, NEW s \in DOMAIN loaded, Skipped(loaded[s])
  PROVE  /\ loaded[s].fact # NoFact /\ loaded[s].fact.version = version
         /\ loaded[s].fact.through = Complete(loaded[s].size)
         /\ loaded[s].fact.thread \in Threads /\ loaded[s].thread = loaded[s].fact.thread
         /\ loaded[s].cp.version = version /\ loaded[s].cp.status = "ready"
         /\ loaded[s].cp.offset = Complete(loaded[s].size)
<1> DEFINE r == loaded[s]
<1>1. r \in Row /\ Whole(r.fact.through)
  BY DEF LoadedOK, LoadedWhole
<1>2. /\ r.cp.version = version /\ r.cp.status = "ready" /\ r.cp.offset = r.size
      /\ r.fact.version = version /\ r.fact.through = r.size /\ r.fact.thread = r.thread
      /\ r.thread # NoThread
  BY DEF Skipped, Resumable, MatchingFact
<1>3. r.thread \in Threads /\ r.fact # NoFact
  BY <1>1, <1>2 DEF Row, NoFact
<1> QED BY <1>1, <1>2, <1>3 DEF Whole

LEMMA KnownWhole ==
  ASSUME LoadedOK, RestOK, LoadedWhole, ParsedWhole, NEW s \in DOMAIN loaded, KnownFact(s) # NoFact
  PROVE  /\ KnownFact(s).version = version
         /\ KnownFact(s).through = Complete(loaded[s].size)
         /\ KnownFact(s).thread \in Threads
         /\ CommitFor(s).fact = KnownFact(s)
         /\ CommitFor(s).cp.version = version /\ CommitFor(s).cp.status = "ready"
         /\ CommitFor(s).cp.offset = Complete(loaded[s].size)
<1>1. CASE Skipped(loaded[s])
  <2>1. KnownFact(s) = loaded[s].fact /\ CommitFor(s).fact = KnownFact(s) /\ CommitFor(s).cp = loaded[s].cp
    BY <1>1 DEF KnownFact, CommitFor
  <2> QED BY <1>1, <2>1, SkippedFact
<1>2. CASE ~ Skipped(loaded[s])
  <2>1. s \in DOMAIN parsed /\ KnownFact(s) = parsed[s].fact
    BY <1>2 DEF KnownFact
  <2>2. CommitFor(s).fact = KnownFact(s) /\ CommitFor(s).cp.version = version
        /\ CommitFor(s).cp.status = "ready" /\ CommitFor(s).cp.offset = KnownFact(s).through
    BY <1>2 DEF CommitFor
  <2> QED BY <2>1, <2>2 DEF ParsedWhole, ResultWhole
<1> QED BY <1>1, <1>2

LEMMA CommittedWhole ==
  ASSUME IInv, LoadedWhole, ParsedWhole, NEW s \in DOMAIN loaded
  PROVE  Whole(CommitFor(s).fact.through)
<1>1. CASE KnownFact(s) = NoFact
  BY <1>1 DEF CommitFor, NoFact, Whole, Complete
<1>2. CASE KnownFact(s) # NoFact
  <2>1. loaded[s].size \in Nat
    BY DEF IInv, RoundOK, LoadedOK, Row
  <2> QED BY <1>2, <2>1, KnownWhole, CompleteWhole DEF IInv, RoundOK
<1> QED BY <1>1, <1>2

LEMMA RowsStayWhole ==
  ASSUME IInv, Lines, [Next]_vars
  PROVE  RowsWhole'
<1>1. ASSUME NEW s \in Registered'
      PROVE  Whole(sources'[s].fact.through)
  <2>1. s \in Registered => sources[s] \in Row /\ Whole(sources[s].fact.through)
    BY RowType DEF IInv, Distinct, Lines, RowsWhole
  <2>2. Whole(NoFact.through)
    BY DEF NoFact, Whole, Complete
  <2>3. CASE Record /\ Recorded(s)
    <3>1. Deduplicated \subseteq Observation
      BY DeduplicatedIsLegal DEF IInv, RoundOK
    <3>2. CASE s \notin Registered
      <4>1. PICK o \in Deduplicated : sources'[s] = Created(o)
        BY <2>3, <3>2 DEF Recorded
      <4> QED BY <2>2, <4>1 DEF Created
    <3>3. ASSUME NEW o \in Deduplicated, s \in Registered, sources'[s] = Updated(sources[s], o)
          PROVE  Whole(sources'[s].fact.through)
      BY <2>1, <2>2, <3>1, <3>3, UpdatedFields
    <3>4. CASE s \in Registered /\ sources'[s] = Unseen(sources[s], unread)
      BY <2>1, <3>4, UnseenFields
    <3> QED BY <2>3, <3>2, <3>3, <3>4 DEF Recorded
  <2>4. CASE s \in Registered /\ Rebuilt(s)
    BY <2>1, <2>4, ResetFields DEF Rebuilt
  <2>5. ASSUME NEW t \in Threads, s \in Registered, Committed(s, t)
        PROVE  Whole(sources'[s].fact.through)
    <3>1. s \in DOMAIN loaded /\ sources'[s] = Bound(sources[s], t, CommitFor(s))
      BY <2>5 DEF Committed, Members
    <3>2. sources'[s].fact = CommitFor(s).fact
      BY <2>1, <2>5, <3>1, BoundFields
    <3> QED BY <3>1, <3>2, CommittedWhole DEF Lines
  <2> QED BY <2>1, <2>3, <2>4, <2>5, RowStep
<1> QED BY <1>1 DEF RowsWhole

LEMMA LoadedStaysWhole ==
  ASSUME IInv, Lines, [Next]_vars
  PROVE  LoadedWhole'
<1>1. CASE Load
  BY <1>1 DEF Load, ObservedSources, Lines, RowsWhole, LoadedWhole
<1>2. CASE EndRound
  BY <1>2 DEF EndRound, Nothing, LoadedWhole
<1>3. CASE UNCHANGED loaded
  BY <1>3 DEF Lines, LoadedWhole
<1>4. \/ Load \/ EndRound \/ UNCHANGED loaded
  BY DEF Next, RoundStep, StartRound, Look, LookFails, Record, RecordFails, Load, LoadFails, Open,
     Read, Check, Resolve, ResolveFails, Commit, CommitFails, EndCommits, FinishRound, Abandon,
     CancelParsing, Install, ChangeFiles, round, vars
<1> QED BY <1>1, <1>2, <1>3, <1>4
\* Only a plan, a file that was opened or read, the end of the round and another
\* build change what the round holds.
LEMMA MemoryStep ==
  ASSUME IInv, [Next]_vars
  PROVE  \/ Load \/ Open \/ Check \/ EndRound
         \/ loaded = Nothing /\ UNCHANGED <<loaded, parsed, pc>>
         \/ UNCHANGED <<version, loaded, parsed>>
<1>1. CASE RoundStep
  BY <1>1 DEF RoundStep, StartRound, Look, LookFails, Record, RecordFails, LoadFails, Read,
     Resolve, ResolveFails, Commit, CommitFails, EndCommits, FinishRound
<1>2. ASSUME NEW v \in 1..MaxVersion, Install(v)
      PROVE  loaded = Nothing /\ UNCHANGED <<loaded, parsed, pc>>
  BY <1>2 DEF Install, round, IInv, RoundOK, LoadedOK
<1>3. CASE Abandon \/ CancelParsing \/ ChangeFiles \/ UNCHANGED vars
  BY <1>3 DEF Abandon, CancelParsing, ChangeFiles, round, vars
<1> QED BY <1>1, <1>2, <1>3 DEF Next

\* The verdict of the parser, as far as the round's end relies on it.
LEMMA ParseWhole ==
  ASSUME RestOK, NEW r \in Row, NEW tag \in 1..MaxChanges, NEW end, end = Complete(r.size)
  PROVE  ResultWhole(r, Parse(r, tag, end).fact)
<1> DEFINE resumed  == StartOffset(r) > 0
           external == Candidate[r.path]
           owner    == IF resumed THEN r.thread
                       ELSE IF external # NoThread THEN external
                       ELSE IF end > 0 THEN Owner[tag]
                       ELSE NoThread
           fact     == Parse(r, tag, end).fact
<1>1. owner \in Threads \union {NoThread}
  BY ContentsAssumption DEF Row
<1>2. fact # NoFact => /\ owner # NoThread
                       /\ fact.version = version /\ fact.through = end /\ fact.thread = owner
  BY DEF Parse
<1> HIDE DEF owner, fact
<1>3. ResultWhole(r, fact)
  BY <1>1, <1>2 DEF ResultWhole
<1> QED BY <1>3 DEF fact

LEMMA CheckStaysWhole ==
  ASSUME IInv, Pure, Lines, Check
  PROVE  ParsedWhole'
<1> DEFINE s == cur.source
           r == loaded[s]
           result == IF Changed(r) THEN Failure("changed")
                     ELSE Parse(r, disk[r.inode].tag, cur.through)
<1>1. pc = "check" /\ cur \in OpenFile
  BY DEF Check, IInv, RoundOK, CurOK
<1>2. r \in Row /\ s \in DOMAIN loaded /\ RestOK
  BY <1>1 DEF IInv, RoundOK, LoadedOK, OpenFile
<1>3. ResultWhole(r, result.fact)
  <2>1. CASE Changed(r)
    BY <2>1 DEF Failure, ResultWhole
  <2>2. CASE ~ Changed(r)
    <3>1. disk[r.inode].tag = cur.tag /\ cur.tag \in 1..MaxChanges
      BY <1>1, <2>2, CheckedContent DEF Pure
    <3>2. cur.through = Complete(r.size)
      BY <1>1, <3>1 DEF Lines, ReadWhole
    <3> HIDE DEF r, s
    <3>3. result = Parse(r, disk[r.inode].tag, cur.through)
      BY <2>2
    <3> HIDE DEF result
    <3> QED BY <1>2, <3>1, <3>2, <3>3, ParseWhole
  <2> QED BY <2>1, <2>2
<1>4. /\ parsed' = [x \in DOMAIN parsed \union {s} |-> IF x = s THEN result ELSE parsed[x]]
      /\ UNCHANGED <<loaded, version>>
  BY DEF Check, Finish
<1> HIDE DEF result, s
<1> QED BY <1>3, <1>4 DEF Lines, ParsedWhole, ResultWhole

LEMMA ParsedStaysWhole ==
  ASSUME IInv, Pure, Lines, [Next]_vars
  PROVE  ParsedWhole'
<1>1. CASE Load
  <2>1. DOMAIN parsed = {}
    BY <1>1 DEF Load, IInv, RoundOK, LoadedOK, ParsedOK, Nothing
  <2> QED BY <1>1, <2>1 DEF Load, ParsedWhole
<1>2. CASE Open
  <2>1. PICK s \in NextSources :
          Finish(s, Failure(OpenError(loaded[s]))) \/ UNCHANGED parsed
    BY <1>2 DEF Open
  <2>2. Failure(OpenError(loaded[s])).fact = NoFact
    BY DEF Failure
  <2>3. UNCHANGED <<version, loaded>>
    BY <1>2 DEF Open
  <2> QED BY <2>1, <2>2, <2>3 DEF Finish, Lines, ParsedWhole, ResultWhole
<1>3. CASE Check
  BY <1>3, CheckStaysWhole
<1>4. CASE EndRound
  BY <1>4 DEF EndRound, Nothing, ParsedWhole
<1>5. CASE loaded = Nothing /\ UNCHANGED <<loaded, parsed, pc>>
  BY <1>5 DEF Nothing, IInv, RoundOK, ParsedOK, ParsedWhole
<1>6. CASE UNCHANGED <<version, loaded, parsed>>
  BY <1>6 DEF Lines, ParsedWhole, ResultWhole
<1> QED BY <1>1, <1>2, <1>3, <1>4, <1>5, <1>6, MemoryStep

\* A file keeps its content only by growing.
LEMMA ChangesGrow ==
  ASSUME FilesOK, ChangeFiles, NEW j \in Inodes
  PROVE  \/ disk'[j] = disk[j]
         \/ /\ disk'[j].mtime = clock'
            /\ \/ disk'[j].tag = clock'
               \/ disk'[j].tag = disk[j].tag /\ disk'[j].size > disk[j].size
<1>1. ASSUME NEW i, NEW tag, NEW n, Write(i, tag, n)
      PROVE  \/ disk'[j] = disk[j]
             \/ j = i /\ disk'[j].mtime = clock' /\ disk'[j].tag = tag /\ disk'[j].size = n
  BY <1>1 DEF Write, FilesOK, FilesTypeOK
<1>2. ASSUME NEW i, NEW p, NEW n, Create(i, p, n)
      PROVE  disk'[j] = disk[j] \/ (disk'[j].mtime = clock' /\ disk'[j].tag = clock')
  BY <1>1, <1>2 DEF Create
<1>3. ASSUME NEW p, NEW n, Append(p, n)
      PROVE  \/ disk'[j] = disk[j]
             \/ disk'[j].mtime = clock' /\ disk'[j].tag = disk[j].tag /\ disk'[j].size > disk[j].size
  BY <1>1, <1>3 DEF Append
<1>4. ASSUME NEW p, NEW n, Rewrite(p, n)
      PROVE  disk'[j] = disk[j] \/ (disk'[j].mtime = clock' /\ disk'[j].tag = clock')
  BY <1>1, <1>4 DEF Rewrite
<1> QED BY <1>2, <1>3, <1>4 DEF ChangeFiles, Remove, Restore, Rename

LEMMA ReadStaysWhole ==
  ASSUME IInv, Pure, Lines, [Next]_vars
  PROVE  ReadWhole'
<1> DEFINE r == loaded[cur.source]
           content == disk[r.inode]
<1>1. CASE Open
  <2>1. PICK s \in NextSources :
          IF OpenError(loaded[s]) # "none" THEN Finish(s, Failure(OpenError(loaded[s])))
          ELSE /\ cur' = [source |-> s, tag |-> disk[loaded[s].inode].tag,
                          before |-> disk[loaded[s].inode].size,
                          mtime |-> disk[loaded[s].inode].mtime, read |-> {}, through |-> 0]
               /\ pc' = "read"
               /\ UNCHANGED <<queue, parsed, hard>>
    BY <1>1 DEF Open
  <2>2. loaded[s] \in Row /\ disk[loaded[s].inode].size \in Nat
    BY ContentType DEF NextSources, IInv, RoundOK, LoadedOK, Row
  <2>3. CASE OpenError(loaded[s]) # "none"
    BY <2>1, <2>3 DEF Finish, ReadWhole
  <2>4. CASE OpenError(loaded[s]) = "none"
    <3>1. disk[loaded[s].inode].size >= loaded[s].size
      BY <2>2, <2>4 DEF OpenError, Row
    <3>2. cur'.source = s /\ pc' = "read" /\ UNCHANGED <<loaded, disk>>
      BY <1>1, <2>1, <2>4 DEF Open, files
    <3> QED BY <3>1, <3>2 DEF ReadWhole
  <2> QED BY <2>3, <2>4
<1>2. CASE Read
  <2> DEFINE end   == Complete(Smaller(r.size, content.size))
             start == StartOffset(r)
             lines == IF end > start THEN {content.tag} ELSE {}
             upto  == IF end > start THEN end ELSE start
  <2>1. cur \in OpenFile /\ pc = "read"
    BY <1>2 DEF Read, IInv, RoundOK, CurOK
  <2>2. r \in Row /\ cur.source \in DOMAIN loaded /\ content.size \in Nat
    BY <2>1, ContentType DEF IInv, RoundOK, LoadedOK, OpenFile, Row
  <2>3. cur' = [cur EXCEPT !.read = lines, !.through = upto] /\ pc' = "check"
        /\ UNCHANGED <<loaded, disk>>
    BY <1>2 DEF Read, files
  <2> HIDE DEF lines
  <2>4. content.tag = cur.tag => content.size >= r.size /\ upto = Complete(r.size)
    <3>1. SUFFICES ASSUME content.tag = cur.tag
                   PROVE  content.size >= r.size /\ upto = Complete(r.size)
      OBVIOUS
    <3>2. content.size >= r.size
      BY <2>1, <3>1 DEF Lines, ReadWhole
    <3>3. r.size \in Nat
      BY <2>2 DEF Row
    <3>4. end = Complete(r.size)
      BY <2>2, <3>2, <3>3 DEF Smaller
    <3>5. start \in Nat /\ start <= r.size /\ Whole(start)
      <4>1. CASE Resumable(r)
        <5>1. start = r.cp.offset /\ r.fact.through = r.cp.offset
          BY <4>1 DEF StartOffset, Resumable, MatchingFact
        <5> QED BY <2>2, <5>1, StartOffsetType DEF Lines, LoadedWhole, Loadable
      <4>2. CASE ~ Resumable(r)
        BY <3>3, <4>2 DEF StartOffset, Whole, Complete
      <4> QED BY <4>1, <4>2
    <3>6. start <= Complete(r.size) /\ Complete(r.size) \in Nat
      BY <3>3, <3>5, WholeBelow, CompleteWhole
    <3> HIDE DEF start, end
    <3> QED BY <3>2, <3>4, <3>5, <3>6
  <2> HIDE DEF upto
  <2>5. cur'.source = cur.source /\ cur'.tag = cur.tag /\ cur'.through = upto
    BY <2>1, <2>3 DEF OpenFile
  <2> QED BY <2>3, <2>4, <2>5 DEF ReadWhole
<1>3. CASE ChangeFiles
  <2> SUFFICES ASSUME pc \in {"read", "check"}, (content.tag = cur.tag)'
               PROVE  content'.size >= r.size /\ (pc = "check" => cur.through = Complete(r.size))
    BY <1>3 DEF ChangeFiles, round, ReadWhole
  <2>1. cur \in OpenFile /\ UNCHANGED <<cur, loaded>>
    BY <1>3 DEF ChangeFiles, round, IInv, RoundOK, CurOK
  <2>2. r \in Row /\ r.inode \in Inodes
    BY <2>1 DEF IInv, RoundOK, LoadedOK, OpenFile, Row
  <2> HIDE DEF r
  <2>3. content.size \in Nat /\ content.tag \in Nat /\ clock \in Nat /\ r.size \in Nat
    BY <2>2, ContentType DEF IInv, Row
  <2>4. r' = r /\ content' = disk'[r.inode]
    BY <2>1 DEF r
  <2>5. cur.tag \in Nat /\ cur.tag <= content.tag /\ content.tag <= clock /\ clock' = clock + 1
    BY <1>3, <2>1, <2>2, ChangesAreDated DEF Pure, Reading, Dated, OpenFile, IInv, r
  <2>6. disk'[r.inode] = content \/ (disk'[r.inode].tag = content.tag /\ disk'[r.inode].size > content.size)
    BY <1>3, <2>1, <2>2, <2>3, <2>4, <2>5, ChangesGrow DEF IInv
  <2>7. content.tag = cur.tag /\ disk'[r.inode].size \in Nat
    BY <1>3, <2>1, <2>2, <2>4, <2>6, FilesStep DEF IInv, FilesOK, FilesTypeOK
  <2>8. content.size >= r.size /\ (pc = "check" => cur.through = Complete(r.size))
    BY <2>7 DEF Lines, ReadWhole, r
  <2> QED BY <2>3, <2>4, <2>6, <2>7, <2>8
<1>4. CASE pc' \notin {"read", "check"}
  BY <1>4 DEF ReadWhole
<1>5. CASE UNCHANGED <<pc, cur, loaded, disk>>
  BY <1>5 DEF Lines, ReadWhole
<1>6. \/ Open \/ Read \/ ChangeFiles \/ pc' \notin {"read", "check"}
      \/ UNCHANGED <<pc, cur, loaded, disk>>
  BY DEF Next, RoundStep, StartRound, Look, LookFails, Record, RecordFails, Load, LoadFails,
     Check, Finish, Resolve, ResolveFails, Commit, CommitFails, EndCommits, FinishRound, Abandon,
     CancelParsing, Install, EndRound, round, vars, files
<1> QED BY <1>1, <1>2, <1>3, <1>4, <1>5, <1>6

LEMMA LinesStay ==
  ASSUME IInv, Pure, Lines, [Next]_vars
  PROVE  Lines'
BY RowsStayWhole, LoadedStaysWhole, ParsedStaysWhole, ReadStaysWhole DEF Lines
------------------------------------------------------------------------------
(* Nothing that was found is left out: what a round plans, and what it has committed. *)

Planned  == pc \in {"parse", "read", "check", "commit", "usage"}
Settling == pc \in {"commit", "usage"}

\* With both areas read, every source that is present was observed, and loaded.
Accounted ==
  unread = {} =>
    \A s \in Registered : sources[s].status = "present" =>
      /\ pc = "load" => s \in ObservedSources
      /\ Planned => s \in DOMAIN loaded

\* A loaded source is as it was loaded, until its own group is committed.
Agrees ==
  Planned =>
    \A s \in DOMAIN loaded :
      /\ sources[s].size = loaded[s].size /\ sources[s].gen = loaded[s].gen
      /\ sources[s].inode = loaded[s].inode
      /\ \/ sources[s].thread = loaded[s].thread
         \/ Settling /\ sources[s].thread = GroupOf(s) /\ GroupOf(s) \notin pending

\* Every error is remembered; every loaded source is skipped, to be read, or read.
Remembered == ~ hard => unread = {} /\ \A s \in DOMAIN parsed : parsed[s].fact # NoFact

Planful ==
  /\ Planned => \A s \in DOMAIN loaded : s \in queue \/ Skipped(loaded[s]) \/ s \in DOMAIN parsed
  /\ Settling => queue = {}

\* What is still to be committed are complete groups.
Pending ==
  /\ pending # {} => pc = "commit"
  /\ pending \subseteq CompleteGroups
  /\ pc = "usage" => ~ refused

Delivered(s) ==
  /\ MatchingFact(sources[s])
  /\ sources[s].fact.version = version
  /\ sources[s].fact.through = Complete(loaded[s].size)

\* A source of a clean round is committed, or will be, or its thread is contested.
Settled ==
  Settling /\ ~ hard /\ ~ refused =>
    \A s \in DOMAIN loaded :
      Contested(GroupOf(s)) \/ GroupOf(s) \in pending \/ Delivered(s)

Progress == Accounted /\ Agrees /\ Remembered /\ Planful /\ Pending /\ Settled

\* What a round knows depends on what it holds.
LEMMA SameMemory ==
  ASSUME UNCHANGED <<version, loaded, parsed>>
  PROVE  /\ \A s : KnownFact(s)' = KnownFact(s) /\ GroupOf(s)' = GroupOf(s)
         /\ \A t : Contested(t)' = Contested(t) /\ Members(t)' = Members(t)
         /\ unread' = unread => CompleteGroups' = CompleteGroups
<1>1. \A s : KnownFact(s)' = KnownFact(s)
  BY DEF KnownFact, Skipped, Resumable, MatchingFact
<1>2. \A s : GroupOf(s)' = GroupOf(s)
  BY <1>1 DEF GroupOf
<1>3. \A s : SourceComplete(s)' = SourceComplete(s)
  BY <1>1 DEF SourceComplete
<1>4. \A t : Contested(t)' = Contested(t) /\ Members(t)' = Members(t)
  BY <1>2, <1>3 DEF Contested, Members
<1> QED BY <1>1, <1>2, <1>3, <1>4 DEF CompleteGroups

\* A round that ends, or another that has not begun to plan, has nothing to keep.
LEMMA EndRoundProgress ==
  ASSUME EndRound
  PROVE  Progress'
BY DEF EndRound, Nothing, Progress, Accounted, Agrees, Remembered, Planful, Pending, Settled, Planned,
   Settling, CompleteGroups

\* The observations account for every present source.
LEMMA RecordAccounts ==
  ASSUME IInv, Progress, Record
  PROVE  Progress'
<1>1. pc' = "load" /\ UNCHANGED <<found, unread, loaded, queue, parsed, pending, hard, refused, version>>
  BY DEF Record
<1>2. ASSUME unread = {}, NEW s \in Registered', sources'[s].status = "present"
      PROVE  \E o \in Deduplicated : o.path = sources'[s].path
  <2>1. Recorded(s)
    BY RecordedAs
  <2>2. Deduplicated \subseteq Observation
    BY DeduplicatedIsLegal DEF IInv, RoundOK
  <2>3. s \in Registered => sources[s] \in Row
    BY RowType DEF IInv, Distinct
  <2>4. CASE s \notin Registered
    <3>1. PICK o \in Deduplicated : sources'[s] = Created(o)
      BY <2>1, <2>4 DEF Recorded
    <3>2. sources'[s].path = o.path
      BY <3>1 DEF Created
    <3> QED BY <3>2
  <2>5. CASE s \in Registered /\ sources'[s] = Unseen(sources[s], unread)
    BY <1>2, <2>3, <2>5, UnseenFields
  <2>6. ASSUME NEW o \in Deduplicated, s \in Registered, sources'[s] = Updated(sources[s], o)
        PROVE  o.path = sources'[s].path
    BY <2>2, <2>3, <2>6, UpdatedFields
  <2> QED BY <2>1, <2>4, <2>5, <2>6 DEF Recorded
<1>3. Deduplicated' = Deduplicated
  BY <1>1 DEF Deduplicated
<1>4. Accounted'
  <2>1. ASSUME unread' = {}, NEW s \in Registered', sources'[s].status = "present"
        PROVE  s \in ObservedSources'
    BY <1>1, <1>2, <1>3, <2>1 DEF ObservedSources
  <2> QED BY <1>1, <2>1 DEF Accounted, Planned
<1>5. pending = {} /\ Remembered'
  BY <1>1 DEF Progress, Pending, Record, Remembered
<1> QED BY <1>1, <1>4, <1>5 DEF Progress, Agrees, Planful, Pending, Settled, Planned, Settling

LEMMA LoadProgress ==
  ASSUME IInv, Progress, Load
  PROVE  Progress'
<1>1. /\ pc = "load" /\ pc' = "parse"
      /\ loaded' = [s \in ObservedSources |-> sources[s]]
      /\ queue' = {s \in ObservedSources : ~ Skipped(sources[s])}
      /\ UNCHANGED <<sources, version, found, unread, parsed, pending, hard, refused>>
  BY DEF Load
<1>2. DOMAIN loaded' = ObservedSources /\ Registered' = Registered
  BY <1>1 DEF Registered
<1>3. Accounted'
  BY <1>1, <1>2 DEF Progress, Accounted
<1>4. Agrees'
  BY <1>1 DEF Agrees
<1>5. Planful'
  <2>1. ASSUME NEW s \in ObservedSources
        PROVE  Skipped(loaded[s])' = Skipped(sources[s])
    BY <1>1 DEF Skipped, Resumable, MatchingFact
  <2> QED BY <1>1, <2>1 DEF Planful, Settling
<1>6. pending = {} /\ Remembered'
  BY <1>1 DEF Progress, Pending, Remembered
<1> QED BY <1>1, <1>3, <1>4, <1>5, <1>6 DEF Progress, Pending, Settled, Settling

\* Reading a file changes only what the round knows of it.
LEMMA FinishProgress ==
  ASSUME IInv, Progress, pc \in {"parse", "check"}, NEW s, NEW result, Finish(s, result),
         UNCHANGED <<sources, version, unread, loaded, pending, refused>>
  PROVE  Progress'
<1>1. /\ parsed' = [x \in DOMAIN parsed \union {s} |-> IF x = s THEN result ELSE parsed[x]]
      /\ queue' = queue \ {s} /\ pc' = "parse"
      /\ hard' = (hard \/ result.error # "none" \/ result.rebuild \/ result.fact = NoFact)
  BY DEF Finish
<1>2. Planned /\ Planned' /\ ~ Settling /\ ~ Settling' /\ pc # "load" /\ pc' # "load"
  BY <1>1 DEF Planned, Settling
<1>3. Accounted'
  BY <1>2 DEF Progress, Accounted, Registered
<1>4. Agrees'
  BY <1>2 DEF Progress, Agrees
<1>5. Planful'
  <2>1. ASSUME NEW x \in DOMAIN loaded
        PROVE  Skipped(loaded[x])' = Skipped(loaded[x])
    BY DEF Skipped, Resumable, MatchingFact
  <2> QED BY <1>1, <1>2, <2>1 DEF Progress, Planful
<1>6. Remembered'
  BY <1>1 DEF Progress, Remembered
<1>7. pending = {}
  BY <1>1 DEF Progress, Pending
<1> QED BY <1>1, <1>2, <1>3, <1>4, <1>5, <1>6, <1>7 DEF Progress, Pending, Settled

\* A clean round knows a fact of every source it loaded.
LEMMA EverythingKnown ==
  ASSUME IInv, Lines, Progress, Planned, queue = {}, ~ hard, NEW s \in DOMAIN loaded
  PROVE  /\ KnownFact(s) # NoFact /\ GroupOf(s) \in Threads
<1>1. KnownFact(s) # NoFact
  <2>1. CASE Skipped(loaded[s])
    BY <2>1, SkippedFact DEF KnownFact, IInv, RoundOK, Lines
  <2>2. CASE ~ Skipped(loaded[s])
    BY <2>2 DEF KnownFact, Progress, Planful, Remembered
  <2> QED BY <2>1, <2>2
<1>2. KnownFact(s).thread \in Threads
  BY <1>1, KnownWhole DEF IInv, RoundOK, Lines
<1>3. loaded[s].thread \in Threads \union {NoThread}
  BY DEF IInv, RoundOK, LoadedOK, Row
<1> QED BY <1>1, <1>2, <1>3 DEF GroupOf

\* After a clean reading, a thread is complete or contested.
LEMMA ResolveSettles ==
  ASSUME IInv, Lines, Progress, Planned, queue = {}, ~ hard, NEW s \in DOMAIN loaded
  PROVE  GroupOf(s) \in CompleteGroups \/ Contested(GroupOf(s))
<1> DEFINE t == GroupOf(s)
<1>1. t \in Threads /\ s \in Members(t)
  BY EverythingKnown DEF Members
<1>2. unread = {}
  BY DEF Progress, Remembered
<1>3. CASE \A x \in Members(t) : SourceComplete(x)
  BY <1>1, <1>2, <1>3 DEF CompleteGroups
<1>4. ASSUME NEW x \in Members(t), ~ SourceComplete(x)
      PROVE  Contested(t)
  <2>1. x \in DOMAIN loaded /\ GroupOf(x) = t
    BY DEF Members
  <2>2. KnownFact(x) # NoFact
    BY <2>1, EverythingKnown
  <2>3. loaded[x].thread # NoThread
    BY <1>4, <2>2 DEF SourceComplete
  <2>4. loaded[x].thread = t
    BY <2>1, <2>3 DEF GroupOf
  <2> QED BY <1>4, <2>1, <2>4 DEF Contested
<1> QED BY <1>3, <1>4

LEMMA ResolveProgress ==
  ASSUME IInv, Lines, Progress, Resolve
  PROVE  Progress'
<1>1. /\ pc = "parse" /\ queue = {} /\ pc' = "commit" /\ pending' = CompleteGroups
      /\ UNCHANGED <<version, unread, loaded, queue, parsed, hard, refused>>
      /\ RequireRebuild(RebuildNeeded)
  BY DEF Resolve
<1>2. Planned /\ Planned' /\ ~ Settling /\ Settling' /\ pc' # "load" /\ pc' # "usage"
  BY <1>1 DEF Planned, Settling
<1>3. Registered' = Registered
  BY <1>1 DEF RequireRebuild, Registered
<1>4. ASSUME NEW s \in Registered
      PROVE  /\ sources'[s].status = sources[s].status /\ sources'[s].thread = sources[s].thread
             /\ sources'[s].size = sources[s].size /\ sources'[s].gen = sources[s].gen
             /\ sources'[s].inode = sources[s].inode
  <2>1. sources[s] \in Row
    BY RowType DEF IInv, Distinct
  <2>2. sources'[s] = ResetCheckpoint(sources[s]) \/ sources'[s] = sources[s]
    BY <1>1 DEF RequireRebuild, Registered
  <2> QED BY <2>1, <2>2, ResetFields
<1>5. Accounted'
  BY <1>1, <1>2, <1>3, <1>4 DEF Progress, Accounted
<1>6. Agrees'
  <2>1. DOMAIN loaded \subseteq Registered
    BY DEF IInv, RoundOK, LoadedOK
  <2> QED BY <1>1, <1>2, <1>4, <2>1 DEF Progress, Agrees
<1>7. Remembered' /\ Planful'
  <2>1. ASSUME NEW x \in DOMAIN loaded
        PROVE  Skipped(loaded[x])' = Skipped(loaded[x])
    BY <1>1 DEF Skipped, Resumable, MatchingFact
  <2> QED BY <1>1, <1>2, <2>1 DEF Progress, Remembered, Planful
<1>8. CompleteGroups' = CompleteGroups
  BY <1>1, SameMemory
<1>9. Pending'
  BY <1>1, <1>2, <1>8 DEF Pending
<1>10. Settled'
  BY <1>1, <1>2, SameMemory, ResolveSettles DEF Settled
<1> QED BY <1>5, <1>6, <1>7, <1>9, <1>10 DEF Progress

LEMMA CommitProgress ==
  ASSUME IInv, Lines, Progress, NEW t \in Threads, Commit(t)
  PROVE  Progress'
<1>1. /\ pc = "commit" /\ pc' = "commit" /\ t \in pending /\ pending' = pending \ {t}
      /\ UNCHANGED <<version, unread, loaded, queue, parsed, hard, refused>>
  BY DEF Commit
<1>2. Planned /\ Planned' /\ Settling /\ Settling' /\ pc' # "load" /\ pc' # "usage"
  BY <1>1 DEF Planned, Settling
<1>3. Registered' = Registered /\ DOMAIN loaded \subseteq Registered
  BY DEF Commit, CommitGroup, Registered, IInv, RoundOK, LoadedOK
<1>4. ASSUME NEW s \in Registered
      PROVE  /\ sources'[s].status = sources[s].status
             /\ sources'[s].size = sources[s].size /\ sources'[s].gen = sources[s].gen
             /\ sources'[s].inode = sources[s].inode
             /\ s \in Members(t) => sources'[s].thread = t
             /\ s \notin Members(t) => sources'[s] = sources[s]
  <2>1. sources[s] \in Row
    BY RowType DEF IInv, Distinct
  <2>2. Committed(s, t) \/ (s \notin Members(t) /\ sources'[s] = sources[s])
    BY <1>3, CommittedAs
  <2>3. CASE Committed(s, t)
    BY <2>1, <2>3, BoundFields DEF Committed
  <2> QED BY <2>2, <2>3
<1>5. Accounted'
  BY <1>1, <1>2, <1>3, <1>4 DEF Progress, Accounted
<1>6. Agrees'
  <2>1. ASSUME NEW s \in DOMAIN loaded
        PROVE  \/ sources'[s].thread = loaded[s].thread
               \/ sources'[s].thread = GroupOf(s) /\ GroupOf(s) \notin pending'
    <3>1. CASE s \in Members(t)
      BY <1>1, <1>3, <1>4, <2>1, <3>1 DEF Members
    <3>2. CASE s \notin Members(t)
      BY <1>1, <1>2, <1>3, <1>4, <2>1, <3>2 DEF Progress, Agrees
    <3> QED BY <3>1, <3>2
  <2>2. \A s : GroupOf(s)' = GroupOf(s)
    BY <1>1, SameMemory
  <2> QED BY <1>1, <1>2, <1>3, <1>4, <2>1, <2>2 DEF Progress, Agrees
<1>7. Remembered' /\ Planful'
  <2>1. ASSUME NEW x \in DOMAIN loaded
        PROVE  Skipped(loaded[x])' = Skipped(loaded[x])
    BY <1>1 DEF Skipped, Resumable, MatchingFact
  <2> QED BY <1>1, <1>2, <2>1 DEF Progress, Remembered, Planful
<1>8. Pending'
  BY <1>1, SameMemory DEF Progress, Pending
<1>9. Settled'
  <2>1. ASSUME NEW s \in Members(t)
        PROVE  Delivered(s)'
    <3>1. s \in DOMAIN loaded /\ s \in Registered /\ sources[s] \in Row
      BY <1>3, RowType DEF Members, IInv, Distinct
    <3>2. LegalCommit(sources[s], t, CommitFor(s)) /\ sources'[s] = Bound(sources[s], t, CommitFor(s))
      BY <1>3, <3>1, CommittedAs DEF Committed
    <3>3. KnownFact(s) # NoFact /\ CommitFor(s).fact = KnownFact(s)
      BY <1>1 DEF Progress, Pending, CompleteGroups, SourceComplete, CommitFor
    <3>4. KnownFact(s).version = version /\ KnownFact(s).through = Complete(loaded[s].size)
      BY <3>1, <3>3, KnownWhole DEF IInv, RoundOK, Lines
    <3> DEFINE q == sources'[s]
    <3>5. /\ q.status = "present" /\ q.thread = t /\ q.fact = CommitFor(s).fact
          /\ q.cp = CommitFor(s).cp /\ q.gen = sources[s].gen
      BY <3>1, <3>2, BoundFields DEF LegalCommit
    <3> HIDE DEF q
    <3>6. MatchingFact(q)
      BY <3>2, <3>5, NamesAssumption DEF LegalCommit, MatchingFact
    <3> QED BY <1>1, <3>3, <3>4, <3>5, <3>6 DEF Delivered, MatchingFact, q
  <2>2. ASSUME NEW s \in DOMAIN loaded, s \notin Members(t), Delivered(s)
        PROVE  Delivered(s)'
    BY <1>1, <1>3, <1>4, <2>2 DEF Delivered, MatchingFact
  <2>3. ASSUME NEW s \in DOMAIN loaded, s \notin Members(t), GroupOf(s) \in pending
        PROVE  GroupOf(s) \in pending'
    BY <1>1, <2>3 DEF Members
  <2> QED BY <1>1, <1>2, <2>1, <2>2, <2>3, SameMemory DEF Progress, Settled
<1> QED BY <1>5, <1>6, <1>7, <1>8, <1>9 DEF Progress

\* A step that leaves the registry, the plan and the results alone, and moves on
\* only where nothing is asked.
LEMMA QuietProgress ==
  ASSUME Progress,
         UNCHANGED <<sources, version, unread, loaded, queue, parsed, pending, refused>>,
         hard' = hard,
         \/ pc' = pc /\ found' = found
         \/ pc' = "discover" /\ ~ Settling
         \/ pc' \in {"parse", "read", "check"} /\ pc \in {"parse", "read", "check"}
  PROVE  Progress'
<1>1. Accounted'
  <2>1. pc' = "load" => pc = "load" /\ ObservedSources' = ObservedSources
    BY DEF ObservedSources, Deduplicated, Registered
  <2>2. Planned' => Planned
    BY DEF Planned
  <2> QED BY <2>1, <2>2 DEF Progress, Accounted, Registered
<1>2. /\ Planned' => Planned
      /\ Settling' = Settling
      /\ pc' = "usage" => pc = "usage"
      /\ pending # {} => pc' = "commit"
  BY DEF Progress, Pending, Planned, Settling
<1>3. Agrees'
  BY <1>2, SameMemory DEF Progress, Agrees
<1>4. Remembered'
  BY DEF Progress, Remembered
<1>5. Planful'
  <2>1. ASSUME NEW x \in DOMAIN loaded
        PROVE  Skipped(loaded[x])' = Skipped(loaded[x])
    BY DEF Skipped, Resumable, MatchingFact
  <2> QED BY <1>2, <2>1 DEF Progress, Planful
<1>6. Pending'
  BY <1>2, SameMemory DEF Progress, Pending
<1>7. Settled'
  <2>1. ASSUME NEW s
        PROVE  Delivered(s)' = Delivered(s)
    BY DEF Delivered, MatchingFact
  <2> QED BY <1>2, <2>1, SameMemory DEF Progress, Settled
<1> QED BY <1>1, <1>3, <1>4, <1>5, <1>6, <1>7 DEF Progress

LEMMA LookFailsProgress ==
  ASSUME Progress, NEW p \in Paths, LookFails(p)
  PROVE  Progress'
<1>1. /\ pc = "discover" /\ pc' = "discover" /\ hard' = TRUE
      /\ UNCHANGED <<sources, loaded, pending>>
  BY DEF LookFails
<1>2. pending = {}
  BY <1>1 DEF Progress, Pending
<1> QED BY <1>1, <1>2 DEF Progress, Accounted, Agrees, Remembered, Planful, Pending, Settled, Planned,
   Settling

\* The commits end one by one, and then together.
LEMMA CommitsEndProgress ==
  ASSUME Progress,
         (\E t \in Threads : CommitFails(t)) \/ (EndCommits /\ ~ refused)
  PROVE  Progress'
<1>1. /\ pc = "commit" /\ pc' \in {"commit", "usage"} /\ pending' \subseteq pending
      /\ UNCHANGED <<sources, version, unread, loaded, queue, parsed, hard>>
      /\ refused' \/ (refused' = refused /\ pending' = pending)
      /\ pc' = "usage" => pending' = {} /\ ~ refused'
  BY DEF CommitFails, EndCommits
<1>2. Planned /\ Planned' /\ Settling /\ Settling' /\ pc' # "load"
  BY <1>1 DEF Planned, Settling
<1>3. Accounted'
  BY <1>1, <1>2 DEF Progress, Accounted, Registered
<1>4. Agrees'
  BY <1>1, <1>2, SameMemory DEF Progress, Agrees
<1>5. Remembered' /\ Planful'
  <2>1. ASSUME NEW x \in DOMAIN loaded
        PROVE  Skipped(loaded[x])' = Skipped(loaded[x])
    BY <1>1 DEF Skipped, Resumable, MatchingFact
  <2> QED BY <1>1, <1>2, <2>1 DEF Progress, Remembered, Planful
<1>6. Pending'
  BY <1>1, SameMemory DEF Progress, Pending
<1>7. Settled'
  <2>1. ASSUME NEW s
        PROVE  Delivered(s)' = Delivered(s)
    BY <1>1 DEF Delivered, MatchingFact
  <2> QED BY <1>1, <1>2, <2>1, SameMemory DEF Progress, Settled
<1> QED BY <1>3, <1>4, <1>5, <1>6, <1>7 DEF Progress

LEMMA ProgressStays ==
  ASSUME IInv, Lines, Progress, [Next]_vars
  PROVE  Progress'
<1>1. CASE RecordFails \/ LoadFails \/ ResolveFails \/ FinishRound \/ Abandon \/ CancelParsing
           \/ (EndCommits /\ refused)
  BY <1>1, EndRoundProgress DEF RecordFails, LoadFails, ResolveFails, FinishRound, Abandon,
     CancelParsing, EndCommits
<1>2. CASE Open
  <2>1. PICK s \in NextSources :
          IF OpenError(loaded[s]) # "none" THEN Finish(s, Failure(OpenError(loaded[s])))
          ELSE /\ cur' = [source |-> s, tag |-> disk[loaded[s].inode].tag,
                          before |-> disk[loaded[s].inode].size,
                          mtime |-> disk[loaded[s].inode].mtime, read |-> {}, through |-> 0]
               /\ pc' = "read"
               /\ UNCHANGED <<queue, parsed, hard>>
    BY <1>2 DEF Open
  <2>2. CASE OpenError(loaded[s]) # "none"
    BY <1>2, <2>1, <2>2, FinishProgress DEF Open
  <2>3. CASE OpenError(loaded[s]) = "none"
    BY <1>2, <2>1, <2>3, QuietProgress DEF Open
  <2> QED BY <2>2, <2>3
<1>3. CASE Check
  <2>1. \E s, result : Finish(s, result)
    BY <1>3 DEF Check
  <2> QED BY <1>3, <2>1, FinishProgress DEF Check
<1>4. CASE StartRound \/ (\E p \in Paths : Look(p)) \/ Read
  BY <1>4, QuietProgress DEF StartRound, Look, Read, Settling
<1>5. ASSUME NEW p \in Paths, LookFails(p)
      PROVE  Progress'
  BY <1>5, LookFailsProgress
<1>6. CASE Record \/ Load \/ Resolve \/ (\E t \in Threads : Commit(t))
  BY <1>6, RecordAccounts, LoadProgress, ResolveProgress, CommitProgress
<1>7. CASE (\E t \in Threads : CommitFails(t)) \/ (EndCommits /\ ~ refused)
  BY <1>7, CommitsEndProgress
<1>8. CASE ChangeFiles \/ UNCHANGED vars
  BY <1>8, QuietProgress DEF ChangeFiles, round, vars
<1>9. ASSUME NEW v \in 1..MaxVersion, Install(v)
      PROVE  Progress'
  <2>1. /\ pc = "idle" /\ pc' = "idle" /\ loaded = Nothing
        /\ UNCHANGED <<sources, unread, loaded, parsed, pending, hard>>
    BY <1>9 DEF Install, round, IInv, RoundOK, LoadedOK
  <2>2. pending = {}
    BY <2>1 DEF Progress, Pending
  <2> QED BY <2>1, <2>2 DEF Progress, Accounted, Agrees, Remembered, Planful, Pending, Settled,
             Planned, Settling
<1> QED BY <1>1, <1>2, <1>3, <1>4, <1>5, <1>6, <1>7, <1>8, <1>9 DEF Next, RoundStep

\* A round that ends without an error has left nothing behind.
LEMMA CleanIsCurrent ==
  ASSUME IInv, Progress
  PROVE  CleanRoundIsCurrent
<1> SUFFICES ASSUME pc = "usage", ~ hard, NEW s \in DOMAIN loaded, ~ Contested(GroupOf(s))
             PROVE  Delivered(s)
  BY DEF CleanRoundIsCurrent, Delivered
<1>1. Settling /\ ~ refused /\ pending = {}
  BY DEF Settling, Progress, Pending
<1> QED BY <1>1 DEF Progress, Settled

\* When a group is committed, its thread has no source left behind.
LEMMA GroupIsWhole ==
  ASSUME IInv, Lines, Progress, NEW t \in Threads, Commit(t), NEW s \in Registered',
         sources'[s].thread = t, sources'[s].status = "present"
  PROVE  LET r == sources'[s]
         IN  r.cp.status = "ready" /\ r.cp.version = version /\ r.cp.offset = Complete(r.size)
<1>1. s \in Registered /\ sources[s] \in Row
  BY CommittedAs, RowType DEF IInv, Distinct
<1>2. pc = "commit" /\ t \in CompleteGroups /\ t \in pending
  BY DEF Commit, Progress, Pending
<1>3. CASE Committed(s, t)
  <2>1. s \in DOMAIN loaded /\ KnownFact(s) # NoFact
    BY <1>2, <1>3 DEF Committed, Members, CompleteGroups, SourceComplete
  <2>2. CommitFor(s).cp.version = version /\ CommitFor(s).cp.status = "ready"
        /\ CommitFor(s).cp.offset = Complete(loaded[s].size)
    BY <2>1, KnownWhole DEF IInv, RoundOK, Lines
  <2>3. sources'[s].cp = CommitFor(s).cp /\ sources'[s].size = sources[s].size
    BY <1>1, <1>3, BoundFields DEF Committed
  <2>4. sources[s].size = loaded[s].size
    BY <1>2, <2>1 DEF Progress, Agrees, Planned
  <2> QED BY <2>2, <2>3, <2>4
<1>4. CASE s \notin Members(t) /\ sources'[s] = sources[s]
  <2>1. s \in DOMAIN loaded
    BY <1>1, <1>2, <1>4 DEF Progress, Accounted, Planned, CompleteGroups
  <2>2. \/ loaded[s].thread = t
        \/ GroupOf(s) = t /\ t \notin pending
    BY <1>2, <1>4, <2>1 DEF Progress, Agrees, Planned
  <2>3. GroupOf(s) = t
    BY <2>2, NamesAssumption DEF GroupOf
  <2> QED BY <1>4, <2>1, <2>3 DEF Members
<1> QED BY <1>3, <1>4, CommittedAs

LEMMA InitLines ==
  ASSUME Init
  PROVE  Lines /\ Progress
<1>1. Lines
  BY DEF Init, InitRegistry, Nothing, Lines, RowsWhole, LoadedWhole, ParsedWhole, ReadWhole, Registered
<1>2. Progress
  BY DEF Init, Nothing, Progress, Accounted, Agrees, Remembered, Planful, Pending, Settled,
     Planned, Settling
<1> QED BY <1>1, <1>2

LEMMA ProgressInvariant == Spec => [](Lines /\ Progress)
<1>1. IInv /\ Pure /\ Lines /\ Progress /\ [Next]_vars => (Lines /\ Progress)'
  BY LinesStay, ProgressStays
<1>2. Init => Lines /\ Progress
  BY InitLines
<1> QED BY <1>1, <1>2, FactsInvariant, PTL DEF Spec

\* A round that reports success has read every file it found to its last
\* complete line, by this build, contested threads excepted.
THEOREM CleanRoundsAreCurrent == Spec => []CleanRoundIsCurrent
<1>1. IInv /\ Progress => CleanRoundIsCurrent
  BY CleanIsCurrent
<1> QED BY <1>1, FactsInvariant, ProgressInvariant, PTL

\* Whenever a group is committed, every present file of its thread is then ready,
\* at this build's parser version and read to its last complete line: one file that
\* could not be read holds the whole thread back (resolve, commit_group).
THEOREM ThreadsAdvanceTogether == Spec => ThreadAdvancesTogether
<1> DEFINE Together ==
      \A t \in Threads : Commit(t) =>
        \A s \in Registered :
          LET r == sources'[s] IN
          r.thread = t /\ r.status = "present" =>
            /\ r.cp.status = "ready" /\ r.cp.version = version
            /\ r.cp.offset = Complete(r.size)
<1>1. IInv /\ Lines /\ Progress => Together
  BY GroupIsWhole DEF Commit, CommitGroup, Registered
<1>2. Spec => [][Together]_vars
  BY <1>1, FactsInvariant, ProgressInvariant, PTL
<1> QED BY <1>2 DEF ThreadAdvancesTogether

------------------------------------------------------------------------------
(* Which contents a row has seen, and what became of its file since. *)

\* No content is in two files.
OneFile == \A i, j \in Inodes : disk[i].tag = disk[j].tag => i = j \/ disk[i].tag = 0

\* What was read was in the file with that identity, and never in another one.
Own(inode, read) ==
  \A x \in read : x \in 1..clock /\ \A i \in Inodes : disk[i].tag = x => i = inode

\* A file that still has a content of the time it was seen has not shrunk since,
\* and was not touched if it has not grown.
Grown(r) ==
  LET content == disk[r.inode] IN
  /\ r.mtime <= clock
  /\ content.tag <= r.mtime =>
       r.size <= content.size /\ (r.size = content.size => r.mtime = content.mtime)

RowsOwn   == \A s \in Registered : Own(sources[s].inode, sources[s].fact.read)
LoadedOwn == \A s \in DOMAIN loaded : Own(loaded[s].inode, loaded[s].fact.read)
ParsedOwn == \A s \in DOMAIN parsed : Own(loaded[s].inode, parsed[s].fact.read)
CurOwn    == pc \in {"read", "check"} => Own(loaded[cur.source].inode, cur.read)

RowsGrown  == \A s \in Registered : Grown(sources[s])
FoundGrown == \A o \in found : Grown(o)

\* An observation of this round is as late as the row it will be matched with.
FoundFits ==
  pc = "discover" =>
    \A o \in found, s \in Registered :
      LET r == sources[s] IN
      o.inode = r.inode /\ disk[o.inode].tag <= r.mtime =>
        r.size <= o.size /\ (r.size = o.size => r.mtime = o.mtime)

Origins ==
  /\ OneFile
  /\ RowsOwn /\ LoadedOwn /\ ParsedOwn /\ CurOwn
  /\ RowsGrown /\ FoundGrown /\ FoundFits

\* A step changes one file, or none.
LEMMA ChangesOne ==
  ASSUME FilesOK, ChangeFiles
  PROVE  \E i : \A j \in Inodes : j # i => disk'[j] = disk[j]
<1>1. ASSUME NEW i, NEW tag, NEW n, Write(i, tag, n)
      PROVE  \A j \in Inodes : j # i => disk'[j] = disk[j]
  BY <1>1 DEF Write, FilesOK, FilesTypeOK
<1>2. (\E i, tag, n : Write(i, tag, n)) \/ disk' = disk
  BY DEF ChangeFiles, Create, Append, Rewrite, Remove, Restore, Rename
<1> QED BY <1>1, <1>2

\* What files do in a step.
LEMMA FilesMove ==
  ASSUME IInv, [Next]_vars
  PROVE  ChangeFiles \/ UNCHANGED files
<1>1. CASE RoundStep
  BY <1>1 DEF RoundStep, StartRound, Look, LookFails, Record, RecordFails, Load, LoadFails,
     Open, Read, Check, Resolve, ResolveFails, Commit, CommitFails, EndCommits, FinishRound
<1>2. CASE Abandon \/ CancelParsing \/ (\E v \in 1..MaxVersion : Install(v)) \/ UNCHANGED vars
  BY <1>2 DEF Abandon, CancelParsing, Install, vars
<1> QED BY <1>1, <1>2 DEF Next

LEMMA OneFileStays ==
  ASSUME IInv, Dated, OneFile, [Next]_vars
  PROVE  OneFile'
<1>1. CASE UNCHANGED files
  BY <1>1 DEF files, OneFile
<1>2. CASE ChangeFiles
  <2>1. PICK k : \A j \in Inodes : j # k => disk'[j] = disk[j]
    BY <1>2, ChangesOne DEF IInv
  <2>2. ASSUME NEW j \in Inodes
        PROVE  /\ disk[j].tag \in Nat /\ disk[j].tag <= clock /\ clock \in Nat /\ clock' = clock + 1
               /\ disk'[j].tag = disk[j].tag \/ (j = k /\ disk'[j].tag = clock')
    BY <1>2, <2>1, ContentType, ChangesAreDated, ChangesGrow DEF Dated, IInv
  <2>3. SUFFICES ASSUME NEW i \in Inodes, NEW j \in Inodes, disk'[i].tag = disk'[j].tag, i # j
                 PROVE  disk'[i].tag = 0
    BY DEF OneFile
  <2>4. disk'[i].tag = disk[i].tag /\ disk'[j].tag = disk[j].tag
    BY <2>2, <2>3
  <2> QED BY <2>3, <2>4 DEF OneFile
<1> QED BY <1>1, <1>2, FilesMove

LEMMA OwnStays ==
  ASSUME IInv, Dated, [Next]_vars, NEW inode \in Inodes, NEW read, Own(inode, read)
  PROVE  Own(inode, read)'
<1>1. CASE UNCHANGED files
  BY <1>1 DEF files, Own
<1>2. CASE ChangeFiles
  <2> SUFFICES ASSUME NEW x \in read
               PROVE  x \in 1..clock' /\ \A i \in Inodes : disk'[i].tag = x => i = inode
    BY DEF Own
  <2>1. x \in 1..clock /\ clock \in Nat /\ clock' = clock + 1
    BY <1>2, ChangesAreDated DEF Own, IInv
  <2>2. ASSUME NEW i \in Inodes, disk'[i].tag = x
        PROVE  i = inode
    <3>1. disk'[i].tag = disk[i].tag
      BY <1>2, <2>1, <2>2, ChangesGrow DEF IInv
    <3> QED BY <2>2, <3>1 DEF Own
  <2> QED BY <2>1, <2>2
<1> QED BY <1>1, <1>2, FilesMove

LEMMA GrownStays ==
  ASSUME IInv, Dated, [Next]_vars, NEW r, r.inode \in Inodes, r.mtime \in Nat, r.size \in Nat, Grown(r)
  PROVE  Grown(r)'
<1>1. CASE UNCHANGED files
  BY <1>1 DEF files, Grown
<1>2. CASE ChangeFiles
  <2> DEFINE old == disk[r.inode]
             new == disk'[r.inode]
  <2>1. /\ old.tag \in Nat /\ old.size \in Nat /\ old.mtime \in Nat
        /\ clock \in Nat /\ clock' = clock + 1 /\ old.mtime <= clock
    BY <1>2, ContentType, ChangesAreDated DEF IInv, Dated
  <2>2. new.tag \in Nat /\ new.size \in Nat
    BY <1>2, FilesStep DEF IInv, FilesOK, FilesTypeOK
  <2>3. \/ new = old
        \/ new.mtime = clock' /\ (new.tag = clock' \/ (new.tag = old.tag /\ new.size > old.size))
    BY <1>2, ChangesGrow DEF IInv
  <2>4. r.mtime <= clock /\ (old.tag <= r.mtime =>
          r.size <= old.size /\ (r.size = old.size => r.mtime = old.mtime))
    BY DEF Grown
  <2> HIDE DEF old, new
  <2>5. r.mtime <= clock' /\ (new.tag <= r.mtime =>
          r.size <= new.size /\ (r.size = new.size => r.mtime = new.mtime))
    BY <2>1, <2>2, <2>3, <2>4
  <2> QED BY <2>5 DEF Grown, new
<1> QED BY <1>1, <1>2, FilesMove

LEMMA CommittedOwn ==
  ASSUME LoadedOwn, ParsedOwn, NEW s \in DOMAIN loaded
  PROVE  Own(loaded[s].inode, CommitFor(s).fact.read)
<1>1. Own(loaded[s].inode, NoFact.read)
  BY DEF NoFact, Own
<1>2. CommitFor(s).fact = KnownFact(s)
  BY DEF CommitFor
<1> QED BY <1>1, <1>2 DEF KnownFact, LoadedOwn, ParsedOwn

\* Whatever a step makes of a row, it has seen what it claims to have seen.
LEMMA RowOwn ==
  ASSUME IInv, Progress, Origins, [Next]_vars, NEW s \in Registered'
  PROVE  /\ sources'[s].inode \in Inodes
         /\ Own(sources'[s].inode, sources'[s].fact.read)
         /\ Grown(sources'[s])
<1>1. s \in Registered => /\ sources[s] \in Row /\ sources[s].inode \in Inodes
                          /\ Own(sources[s].inode, sources[s].fact.read) /\ Grown(sources[s])
  BY RowType DEF IInv, Distinct, Row, Origins, RowsOwn, RowsGrown
<1>2. ASSUME NEW inode
      PROVE  Own(inode, NoFact.read)
  BY DEF NoFact, Own
<1>3. CASE Record /\ Recorded(s)
  <2>1. Deduplicated \subseteq found /\ Deduplicated \subseteq Observation
    BY DeduplicatedIsLegal DEF Deduplicated, IInv, RoundOK
  <2>2. ASSUME NEW o \in Deduplicated
        PROVE  o \in Observation /\ o.inode \in Inodes /\ Grown(o)
    BY <2>1 DEF Observation, Origins, FoundGrown
  <2>3. CASE s \notin Registered
    <3>1. PICK o \in Deduplicated : sources'[s] = Created(o)
      BY <1>3, <2>3 DEF Recorded
    <3>2. /\ sources'[s].inode = o.inode /\ sources'[s].size = o.size /\ sources'[s].mtime = o.mtime
          /\ sources'[s].fact = NoFact
      BY <3>1 DEF Created
    <3> QED BY <1>2, <2>2, <3>2 DEF Grown
  <2>4. ASSUME NEW o \in Deduplicated, s \in Registered, sources'[s] = Updated(sources[s], o)
        PROVE  /\ sources'[s].inode \in Inodes
               /\ Own(sources'[s].inode, sources'[s].fact.read)
               /\ Grown(sources'[s])
    <3>1. /\ sources'[s].inode = o.inode /\ sources'[s].size = o.size /\ sources'[s].mtime = o.mtime
          /\ sources'[s].fact = NoFact \/ (o.inode = sources[s].inode /\ sources'[s].fact = sources[s].fact)
      BY <1>1, <2>2, <2>4, UpdatedFields DEF GenerationChanged
    <3> QED BY <1>1, <1>2, <2>2, <2>4, <3>1 DEF Grown
  <2>5. CASE s \in Registered /\ sources'[s] = Unseen(sources[s], unread)
    BY <1>1, <2>5, UnseenFields DEF Grown
  <2> QED BY <1>3, <2>3, <2>4, <2>5 DEF Recorded
<1>4. CASE s \in Registered /\ Rebuilt(s)
  BY <1>1, <1>4, ResetFields DEF Rebuilt, Grown
<1>5. ASSUME NEW t \in Threads, s \in Registered, Committed(s, t)
      PROVE  /\ sources'[s].inode \in Inodes
             /\ Own(sources'[s].inode, sources'[s].fact.read)
             /\ Grown(sources'[s])
  <2>1. s \in DOMAIN loaded /\ pc = "commit" /\ sources'[s] = Bound(sources[s], t, CommitFor(s))
    BY <1>5 DEF Committed, Members, Commit
  <2>2. sources[s].inode = loaded[s].inode
    BY <2>1 DEF Progress, Agrees, Planned
  <2>3. /\ sources'[s].inode = sources[s].inode /\ sources'[s].size = sources[s].size
        /\ sources'[s].mtime = sources[s].mtime /\ sources'[s].fact = CommitFor(s).fact
    BY <1>1, <1>5, <2>1, BoundFields
  <2>4. Own(loaded[s].inode, CommitFor(s).fact.read)
    BY <2>1, CommittedOwn DEF Origins
  <2> QED BY <1>1, <1>5, <2>2, <2>3, <2>4 DEF Grown
<1> QED BY <1>1, <1>3, <1>4, <1>5, RowStep

LEMMA RowsStayOwn ==
  ASSUME IInv, Pure, Progress, Origins, [Next]_vars
  PROVE  RowsOwn' /\ RowsGrown'
<1>1. ASSUME NEW s \in Registered', NEW r, r = sources'[s]
      PROVE  Own(r.inode, r.fact.read)' /\ Grown(r)'
  <2>1. IInv' /\ Dated
    BY NextKeeps DEF Pure
  <2>2. r \in Row
    BY <1>1, <2>1 DEF IInv, Distinct, RegistryTypeOK, Registered
  <2>3. r.inode \in Inodes /\ r.mtime \in Nat /\ r.size \in Nat
    BY <2>2 DEF Row
  <2>4. Own(r.inode, r.fact.read) /\ Grown(r)
    BY <1>1, RowOwn
  <2> QED BY <2>1, <2>3, <2>4, OwnStays, GrownStays
<1>2. RowsOwn'
  BY <1>1 DEF RowsOwn, Own
<1>3. RowsGrown'
  BY <1>1 DEF RowsGrown, Grown
<1> QED BY <1>2, <1>3
\* What the round holds stays with the rows it was loaded from.
LEMMA LoadedStaysOwn ==
  ASSUME IInv, Pure, Origins, [Next]_vars
  PROVE  LoadedOwn'
<1>1. ASSUME NEW s \in DOMAIN loaded', NEW r, r = loaded'[s]
      PROVE  Own(r.inode, r.fact.read)'
  <2>1. \/ loaded' = [x \in ObservedSources |-> sources[x]]
        \/ loaded' = Nothing
        \/ loaded' = loaded
    BY MemoryStep DEF Load, EndRound, Open, Check
  <2>2. r \in Row /\ Own(r.inode, r.fact.read)
    <3>1. \A x \in Registered : sources[x] \in Row /\ Own(sources[x].inode, sources[x].fact.read)
      BY RowType DEF IInv, Distinct, Origins, RowsOwn
    <3>2. \A x \in DOMAIN loaded : loaded[x] \in Row /\ Own(loaded[x].inode, loaded[x].fact.read)
      BY DEF IInv, RoundOK, LoadedOK, Origins, LoadedOwn
    <3> QED BY <1>1, <2>1, <3>1, <3>2 DEF ObservedSources, Nothing
  <2> QED BY <2>2, OwnStays DEF Pure, Row
<1> QED BY <1>1 DEF LoadedOwn, Own

\* What a parse reports it has read was in the open file, or behind its fact.
LEMMA CheckOwn ==
  ASSUME IInv, Pure, Origins, Check
  PROVE  \A s \in DOMAIN parsed' : Own(loaded[s].inode, parsed'[s].fact.read)
<1> DEFINE s == cur.source
           r == loaded[s]
           result == IF Changed(r) THEN Failure("changed")
                     ELSE Parse(r, disk[r.inode].tag, cur.through)
<1>1. pc = "check" /\ cur \in OpenFile
  BY DEF Check, IInv, RoundOK, CurOK
<1>2. s \in DOMAIN loaded /\ Own(r.inode, r.fact.read) /\ Own(r.inode, cur.read)
  BY <1>1 DEF IInv, RoundOK, LoadedOK, OpenFile, Origins, LoadedOwn, CurOwn
<1>3. \/ result.fact = NoFact
      \/ result.fact.read = cur.read \union (IF StartOffset(r) > 0 THEN r.fact.read ELSE {})
  BY DEF Failure, Parse
<1>4. Own(r.inode, result.fact.read)
  BY <1>2, <1>3 DEF NoFact, Own
<1>5. parsed' = [x \in DOMAIN parsed \union {s} |-> IF x = s THEN result ELSE parsed[x]]
  BY DEF Check, Finish
<1> HIDE DEF result, s
<1> QED BY <1>4, <1>5 DEF Origins, ParsedOwn

LEMMA ParsedStaysOwn ==
  ASSUME IInv, Pure, Origins, [Next]_vars
  PROVE  ParsedOwn'
<1>1. CASE Load \/ EndRound \/ (loaded = Nothing /\ UNCHANGED <<loaded, parsed, pc>>)
  <2>1. DOMAIN parsed' = {}
    BY <1>1 DEF Load, EndRound, Nothing, IInv, RoundOK, LoadedOK, ParsedOK
  <2> QED BY <2>1 DEF ParsedOwn
<1>2. ASSUME UNCHANGED loaded,
             \A s \in DOMAIN parsed' : Own(loaded[s].inode, parsed'[s].fact.read)
      PROVE  ParsedOwn'
  <2>1. IInv' /\ Dated
    BY NextKeeps DEF Pure
  <2>2. ASSUME NEW s \in DOMAIN parsed', NEW inode, inode = loaded[s].inode,
               NEW read, read = parsed'[s].fact.read
        PROVE  Own(inode, read)'
    <3>1. inode \in Inodes
      BY <1>2, <2>1, <2>2 DEF IInv, RoundOK, LoadedOK, ParsedOK, Row
    <3> QED BY <1>2, <2>1, <2>2, <3>1, OwnStays
  <2> QED BY <1>2, <2>2 DEF ParsedOwn, Own
<1>3. CASE Open
  <2>1. PICK s \in NextSources :
          Finish(s, Failure(OpenError(loaded[s]))) \/ UNCHANGED parsed
    BY <1>3 DEF Open
  <2>2. Failure(OpenError(loaded[s])).fact = NoFact
    BY DEF Failure
  <2>3. \A x \in DOMAIN parsed' : Own(loaded[x].inode, parsed'[x].fact.read)
    BY <2>1, <2>2 DEF Finish, Origins, ParsedOwn, Own, NoFact
  <2> QED BY <1>2, <1>3, <2>3 DEF Open
<1>4. CASE Check
  BY <1>2, <1>4, CheckOwn DEF Check
<1>5. CASE UNCHANGED <<version, loaded, parsed>>
  BY <1>2, <1>5 DEF Origins, ParsedOwn
<1> QED BY <1>1, <1>3, <1>4, <1>5, MemoryStep

LEMMA CurStaysOwn ==
  ASSUME IInv, Pure, Origins, [Next]_vars
  PROVE  CurOwn'
<1>1. CASE Open
  BY <1>1, OpenStaysPure DEF Open, Finish, CurOwn, Own
<1>2. CASE Read
  <2> DEFINE r     == loaded[cur.source]
             tag   == disk[r.inode].tag
             lines == IF Complete(Smaller(r.size, disk[r.inode].size)) > StartOffset(r) THEN {tag} ELSE {}
  <2>1. cur \in OpenFile /\ pc = "read"
    BY <1>2 DEF Read, IInv, RoundOK, CurOK
  <2>2. r.inode \in Inodes
    BY <2>1 DEF IInv, RoundOK, LoadedOK, OpenFile, Row
  <2>3. tag \in 1..clock
    BY <2>1, <2>2, ContentType DEF Pure, Reading, Dated, IInv
  <2>4. Own(r.inode, lines)
    BY <2>2, <2>3 DEF Own, Origins, OneFile
  <2>5. /\ \E upto : cur' = [cur EXCEPT !.read = lines, !.through = upto]
        /\ UNCHANGED <<loaded, disk, clock>>
    BY <1>2 DEF Read, files
  <2> HIDE DEF lines
  <2>6. cur'.source = cur.source /\ cur'.read = lines
    BY <2>1, <2>5 DEF OpenFile
  <2> QED BY <2>4, <2>5, <2>6 DEF CurOwn, Own
<1>3. CASE pc' \notin {"read", "check"}
  BY <1>3 DEF CurOwn
<1>4. CASE UNCHANGED <<pc, cur, loaded>> /\ pc \in {"read", "check"}
  <2>1. cur \in OpenFile
    BY <1>4 DEF IInv, RoundOK, CurOK
  <2>2. loaded[cur.source].inode \in Inodes /\ Own(loaded[cur.source].inode, cur.read)
    BY <1>4, <2>1 DEF IInv, RoundOK, LoadedOK, OpenFile, Row, Origins, CurOwn
  <2>3. Own(loaded[cur.source].inode, cur.read)'
    <3>1. ASSUME NEW inode, inode = loaded[cur.source].inode, NEW read, read = cur.read
          PROVE  Own(inode, read)'
      BY <2>2, <3>1, OwnStays DEF Pure
    <3> QED BY <1>4, <3>1 DEF Own
  <2> QED BY <1>4, <2>3 DEF CurOwn
<1>5. \/ Open \/ Read \/ pc' \notin {"read", "check"}
      \/ UNCHANGED <<pc, cur, loaded>> /\ pc \in {"read", "check"}
  BY DEF Next, RoundStep, StartRound, Look, LookFails, Record, RecordFails, Load, LoadFails,
     Check, Finish, Resolve, ResolveFails, Commit, CommitFails, EndCommits, FinishRound, Abandon,
     CancelParsing, Install, EndRound, ChangeFiles, round, vars
<1> QED BY <1>1, <1>2, <1>3, <1>4, <1>5

\* What one look sees.
LEMMA LookSees ==
  ASSUME IInv, Dated, NEW p \in Paths, dir[p] # NoInode
  PROVE  /\ Grown(Observe(p))
         /\ Observe(p).inode = dir[p] /\ Observe(p).size = disk[dir[p]].size
         /\ Observe(p).mtime = disk[dir[p]].mtime
<1>1. dir[p] \in Inodes
  BY DEF IInv, FilesOK, FilesTypeOK
<1>2. disk[dir[p]].size \in Nat /\ disk[dir[p]].mtime <= clock
  BY <1>1, ContentType DEF IInv, Dated
<1> QED BY <1>2 DEF Observe, Grown

LEMMA FoundStays ==
  ASSUME IInv, Pure, Origins, [Next]_vars
  PROVE  FoundGrown'
<1>1. ASSUME NEW o \in found'
      PROVE  Grown(o)'
  <2>1. IInv' /\ Dated
    BY NextKeeps DEF Pure
  <2>2. o \in Observation
    BY <2>1 DEF IInv, RoundOK, FoundOK
  <2>3. o.inode \in Inodes /\ o.size \in Nat /\ o.mtime \in Nat
    BY <2>2 DEF Observation
  <2>4. \/ found' \subseteq found
        \/ \E p \in Paths : dir[p] # NoInode /\ found' = found \union {Observe(p)}
    BY DEF Next, RoundStep, StartRound, Look, LookFails, Record, RecordFails, Load, LoadFails, Open,
       Read, Check, Resolve, ResolveFails, Commit, CommitFails, EndCommits, FinishRound, Abandon,
       CancelParsing, Install, EndRound, ChangeFiles, round, vars
  <2>5. Grown(o)
    BY <1>1, <2>1, <2>4, LookSees DEF Origins, FoundGrown
  <2> QED BY <2>1, <2>3, <2>5, GrownStays
<1> QED BY <1>1 DEF FoundGrown

LEMMA FitsStay ==
  ASSUME IInv, Pure, Origins, [Next]_vars
  PROVE  FoundFits'
<1>1. CASE StartRound
  <2>1. found' = {}
    BY <1>1 DEF StartRound, IInv, RoundOK, FoundOK
  <2> QED BY <2>1 DEF FoundFits
<1>2. ASSUME NEW p \in Paths, Look(p)
      PROVE  FoundFits'
  <2>1. pc = "discover" /\ UNCHANGED <<disk, sources>> /\ Registered' = Registered
    BY <1>2 DEF Look, files, Registered
  <2>2. CASE dir[p] = NoInode
    BY <1>2, <2>1, <2>2 DEF Look, Origins, FoundFits
  <2>3. CASE dir[p] # NoInode
    <3>1. found' = found \union {Observe(p)}
      BY <1>2, <2>3 DEF Look
    <3>2. ASSUME NEW s \in Registered, dir[p] = sources[s].inode,
                 disk[dir[p]].tag <= sources[s].mtime
          PROVE  /\ sources[s].size <= Observe(p).size
                 /\ sources[s].size = Observe(p).size => sources[s].mtime = Observe(p).mtime
      BY <2>3, <3>2, LookSees DEF Pure, Origins, RowsGrown, Grown
    <3>3. Observe(p).inode = dir[p]
      BY DEF Observe
    <3> QED BY <2>1, <3>1, <3>2, <3>3 DEF Origins, FoundFits
  <2> QED BY <2>2, <2>3
<1>3. CASE ChangeFiles /\ pc = "discover"
  <2>1. UNCHANGED <<sources, found, pc>> /\ Registered' = Registered
    BY <1>3 DEF ChangeFiles, round, Registered
  <2> SUFFICES ASSUME NEW o \in found, NEW s \in Registered, o.inode = sources[s].inode,
                      disk'[o.inode].tag <= sources[s].mtime
               PROVE  /\ sources[s].size <= o.size
                      /\ sources[s].size = o.size => sources[s].mtime = o.mtime
    BY <2>1 DEF FoundFits
  <2>2. o.inode \in Inodes /\ sources[s].mtime \in Nat /\ sources[s].mtime <= clock
    BY RowType DEF IInv, Distinct, RoundOK, FoundOK, Observation, Row, Origins, RowsGrown, Grown
  <2>3. clock \in Nat /\ clock' = clock + 1
    BY <1>3, ChangesAreDated DEF IInv
  <2>4. disk'[o.inode].tag = disk[o.inode].tag
    BY <1>3, <2>2, <2>3, ChangesGrow DEF IInv
  <2> QED BY <1>3, <2>4 DEF Origins, FoundFits
<1>4. CASE pc' # "discover"
  BY <1>4 DEF FoundFits
<1>5. CASE UNCHANGED <<pc, found, sources, disk>>
  BY <1>5 DEF Origins, FoundFits, Registered
<1>6. \/ StartRound \/ (\E p \in Paths : Look(p)) \/ (ChangeFiles /\ pc = "discover")
      \/ pc' # "discover" \/ UNCHANGED <<pc, found, sources, disk>>
  BY DEF Next, RoundStep, LookFails, Record, RecordFails, Load, LoadFails, Open,
     Read, Check, Finish, Resolve, ResolveFails, Commit, CommitFails, EndCommits, FinishRound, Abandon,
     CancelParsing, Install, EndRound, ChangeFiles, round, vars, files
<1> QED BY <1>1, <1>2, <1>3, <1>4, <1>5, <1>6

LEMMA OriginsStay ==
  ASSUME IInv, Pure, Progress, Origins, [Next]_vars
  PROVE  Origins'
<1>1. OneFile'
  BY OneFileStays DEF Pure, Origins
<1> QED BY <1>1, RowsStayOwn, LoadedStaysOwn, ParsedStaysOwn, CurStaysOwn, FoundStays, FitsStay
        DEF Origins

LEMMA InitOrigins ==
  ASSUME Init
  PROVE  Origins
BY DEF Init, InitFiles, InitRegistry, Nothing, Registered, Origins, OneFile, RowsOwn, LoadedOwn,
   ParsedOwn, CurOwn, RowsGrown, FoundGrown, FoundFits

\* Only an observation starts a new generation, and only where it found another content.
LEMMA RenewedIsNew ==
  ASSUME IInv, Origins, [Next]_vars, NEW s \in Registered, sources'[s].gen # sources[s].gen,
         NEW o \in found, o.path = sources'[s].path, disk[o.inode].tag \in sources[s].fact.read
  PROVE  disk[o.inode].tag > sources[s].mtime
<1> DEFINE r == sources[s]
<1>1. r \in Row /\ Own(r.inode, r.fact.read) /\ s \in Registered'
  BY RowType, StepIsCall, RegisteredGrows DEF IInv, Distinct, Origins, RowsOwn
<1>2. Record /\ Recorded(s)
  <2>1. ~ Rebuilt(s)
    BY <1>1, ResetFields DEF Rebuilt
  <2>2. ASSUME NEW t \in Threads, Committed(s, t)
        PROVE  FALSE
    BY <1>1, <2>2, BoundFields DEF Committed
  <2> QED BY <1>1, <2>1, <2>2, RowStep
<1>3. Deduplicated \subseteq found /\ Deduplicated \subseteq Observation
  BY DeduplicatedIsLegal DEF Deduplicated, IInv, RoundOK
<1>4. PICK a \in Deduplicated : sources'[s] = Updated(r, a)
  BY <1>1, <1>2, UnseenFields DEF Recorded
<1>5. a.path = o.path /\ GenerationChanged(r, a)
  BY <1>1, <1>3, <1>4, UpdatedFields
<1>6. a = o
  BY <1>3, <1>5 DEF IInv, RoundOK, FoundOK
<1>7. o \in Observation /\ o.inode \in Inodes /\ o.size \in Nat /\ o.mtime \in Nat
  BY DEF IInv, RoundOK, FoundOK, Observation
<1>8. o.inode = r.inode
  BY <1>1, <1>7 DEF Own
<1>9. o.size < r.size \/ (o.size = r.size /\ o.mtime # r.mtime)
  BY <1>5, <1>6, <1>8 DEF GenerationChanged
<1>10. pc = "discover"
  BY <1>2 DEF Record
<1>11. ~ (disk[o.inode].tag <= r.mtime)
  <2>1. r.size \in Nat
    BY <1>1 DEF Row
  <2> QED BY <1>7, <1>8, <1>9, <1>10, <2>1 DEF Origins, FoundFits
<1>12. disk[o.inode].tag \in Nat /\ r.mtime \in Nat
  BY <1>1, <1>7, ContentType DEF IInv, Row
<1> QED BY <1>11, <1>12

\* A new generation, which forgets a file's facts, is started only where the file no
\* longer has a content those facts were read from and the round knew: appending,
\* moving and going missing never start one (plan_observations, generation_changed).
THEOREM NewGenerationsAreNew == Spec => NewGenerationIsNewContent
<1> DEFINE New ==
      \A s \in Registered :
        sources'[s].gen # sources[s].gen =>
          \A o \in found : o.path = sources'[s].path =>
            LET tag == disk[o.inode].tag IN
            tag \in sources[s].fact.read => tag > sources[s].mtime
<1>1. IInv /\ Pure /\ Progress /\ Origins /\ [Next]_vars => Origins'
  BY OriginsStay
<1>2. Init => Origins
  BY InitOrigins
<1>3. IInv /\ Origins /\ [Next]_vars => New
  BY RenewedIsNew
<1>4. Spec => [][New]_vars
  BY <1>1, <1>2, <1>3, FactsInvariant, ProgressInvariant, PTL DEF Spec
<1> QED BY <1>4 DEF NewGenerationIsNewContent
==============================================================================
