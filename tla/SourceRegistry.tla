---------------------------- MODULE SourceRegistry ----------------------------
(***************************************************************************)
(* The registered rollout files: the source_files rows with their metadata *)
(* checkpoint and safe fact (src/src/storage/source.rs and the source half *)
(* of src/src/storage/metadata.rs).  Every action is one SQLite Immediate  *)
(* transaction; one whose checks fail changes nothing.                     *)
(*                                                                         *)
(* Offsets, sizes and versions are numbers; guard hashes are numbers that  *)
(* differ when the hashed windows differ, 0 standing for NULL.  read is a  *)
(* ghost: the contents that the lines behind a fact came from.             *)
(***************************************************************************)
EXTENDS CodexHome

CONSTANT Sources    \* source_file_ids

VARIABLE sources    \* the registered rows, by id

NoFact == [gen |-> 0, version |-> 0, through |-> 0, thread |-> NoThread,
           state |-> "owning", read |-> {}]
NoGuard == 0

Checkpoint == [version : Nat, offset : Nat, guard : Nat,
               status : {"pending", "ready", "rebuild_required"}]
Fact == [gen : Nat, version : Nat, through : Nat, thread : Threads \union {NoThread},
         state : {"owning", "replayed"}, read : SUBSET Nat]
Row == [path : Paths, inode : Inodes, gen : Nat, size : Nat, mtime : Nat,
        status : {"present", "missing"}, thread : Threads \union {NoThread},
        cp : Checkpoint, fact : Fact]
Observation == [path : Paths, inode : Inodes, size : Nat, mtime : Nat]

Registered == DOMAIN sources

RegistryTypeOK ==
  /\ Registered \subseteq Sources
  /\ sources \in [Registered -> Row]

InitRegistry == sources = [s \in {} |-> s]

------------------------------------------------------------------------------
(* Recording what a round of discovery saw. *)

\* An observation batch names a path and a physical identity only once.
LegalBatch(B) == \A a, b \in B : a.path = b.path \/ a.inode = b.inode => a = b

SameFile(o) == {s \in Registered : sources[s].inode = o.inode}
AtPath(o)   == {s \in Registered : sources[s].path = o.path}

\* The source with o's identity, the latest generation if there were several.
Identified(o) ==
  {s \in SameFile(o) : \A r \in SameFile(o) : sources[r].gen <= sources[s].gen}

ClaimedByIdentity(B) == UNION {Identified(o) : o \in B}

\* Identity first; only a file nobody knows takes over a path slot, and only
\* one whose owner was not found elsewhere in the same batch.
Match(B, o) ==
  IF SameFile(o) # {} THEN Identified(o) ELSE AtPath(o) \ ClaimedByIdentity(B)

Claimed(B) == UNION {Match(B, o) : o \in B}

Unmatched(B) == {o \in B : Match(B, o) = {}}

\* A file moved to a path whose owner the batch does not account for.
Occupied(B) ==
  \E o \in B : \E s \in Match(B, o) :
    sources[s].path # o.path /\ AtPath(o) \ Claimed(B) # {}

\* Mutant of GenerationChanged: any touched file starts over.
GenerationByMtime(r, o) == r.inode # o.inode \/ o.mtime # r.mtime

GenerationChanged(r, o) ==
  \/ r.inode # o.inode
  \/ /\ r.status # "missing"
     /\ \/ o.size < r.size
        \/ o.size = r.size /\ o.mtime # r.mtime

ResetCheckpoint(r) ==
  [r EXCEPT !.cp = [@ EXCEPT !.offset = 0, !.guard = NoGuard, !.status = "rebuild_required"]]

Seen(r, o) == [r EXCEPT !.path = o.path, !.inode = o.inode, !.size = o.size,
                        !.mtime = o.mtime, !.status = "present"]

Renewed(r) == [ResetCheckpoint(r) EXCEPT !.gen = @ + 1, !.thread = NoThread, !.fact = NoFact]

Updated(r, o) == IF GenerationChanged(r, o) THEN Renewed(Seen(r, o)) ELSE Seen(r, o)

Created(o) ==
  [path |-> o.path, inode |-> o.inode, gen |-> 1, size |-> o.size, mtime |-> o.mtime,
   status |-> "present", thread |-> NoThread, fact |-> NoFact,
   cp |-> [version |-> 0, offset |-> 0, guard |-> NoGuard, status |-> "pending"]]

\* Only an area that was read completely is evidence that a file is gone.
Unseen(r, unread) == IF Area(r.path) \in unread THEN r ELSE [r EXCEPT !.status = "missing"]

RecordObservations(B, unread) ==
  /\ ~ Occupied(B)
  /\ \E ids \in [Unmatched(B) -> Sources \ Registered] :
       /\ \A a, b \in Unmatched(B) : ids[a] = ids[b] => a = b
       /\ sources' =
            [s \in Registered \union {ids[o] : o \in Unmatched(B)} |->
               IF s \notin Registered
                 THEN Created(CHOOSE o \in Unmatched(B) : ids[o] = s)
               ELSE IF s \in Claimed(B)
                 THEN Updated(sources[s], CHOOSE o \in B : s \in Match(B, o))
               ELSE Unseen(sources[s], unread)]

------------------------------------------------------------------------------
(* Checkpoints. *)

\* require_checkpoint_rebuild: the fact and the binding stay.
RequireRebuild(S) ==
  /\ S \subseteq Registered
  /\ sources' = [s \in Registered |->
                   IF s \in S THEN ResetCheckpoint(sources[s]) ELSE sources[s]]

MatchingFact(r) ==
  /\ r.status = "present"
  /\ r.cp.status # "rebuild_required"
  /\ r.fact.gen = r.gen
  /\ r.fact.version = r.cp.version
  /\ r.fact.through = r.cp.offset
  /\ r.fact.thread = r.thread /\ r.thread # NoThread

\* load_metadata_scan_state refuses a checkpoint beyond the observed size.
Loadable(r) == r.cp.offset <= r.size

\* A commit for one source: the row it was computed from, the fact, the checkpoint.
LegalCommit(r, t, c) ==
  /\ r.gen = c.gen
  /\ r.thread = c.previous
  /\ r.status = "present"
  /\ c.fact.gen = c.gen
  /\ c.fact.thread = t
  /\ c.fact.version = c.cp.version
  /\ c.fact.through = c.cp.offset
  /\ c.cp.offset <= r.size
  /\ c.cp.status # "rebuild_required"
  /\ r.cp.offset <= r.size
  /\ c.cp.version >= r.cp.version
  /\ c.cp.version = r.cp.version => c.cp.offset >= r.cp.offset

LegalGroup(t, commits) ==
  \A s \in DOMAIN commits : s \in Registered /\ LegalCommit(sources[s], t, commits[s])

\* commit_group: all sources of one thread, or none.
CommitGroup(t, commits) ==
  /\ LegalGroup(t, commits)
  /\ sources' = [s \in Registered |->
       IF s \in DOMAIN commits
         THEN [sources[s] EXCEPT !.thread = t, !.fact = commits[s].fact, !.cp = commits[s].cp]
         ELSE sources[s]]

------------------------------------------------------------------------------
(* The registry by itself, under every legal call. *)

RegistryNext ==
  \/ \E B \in SUBSET Observation, unread \in SUBSET Areas :
       LegalBatch(B) /\ RecordObservations(B, unread)
  \/ \E S \in SUBSET Sources : RequireRebuild(S)
  \/ \E t \in Threads, D \in SUBSET Sources :
       \E commits \in [D -> [gen : Nat, previous : Threads \union {NoThread},
                             fact : Fact, cp : Checkpoint]] : CommitGroup(t, commits)

RegistrySpec == InitRegistry /\ [][RegistryNext]_sources

------------------------------------------------------------------------------
(* Properties. *)

\* No two sources share a path or a physical identity: moves, swaps and
\* replacements of one batch keep UNIQUE(current_path) and make matching by
\* identity unambiguous (plan_observations).
RowsAreDistinct ==
  \A r, s \in Registered :
    sources[r].path = sources[s].path \/ sources[r].inode = sources[s].inode => r = s

\* A source is bound to a thread exactly when it has a fact of its current
\* generation, and that fact names the same thread: a replaced file never keeps
\* the old owner (record_source_observations), a commit binds and writes the
\* fact together (commit_group).
BindingHasFact ==
  \A s \in Registered :
    LET r == sources[s] IN
    /\ r.thread = r.fact.thread
    /\ r.thread # NoThread => r.fact.gen = r.gen

\* A checkpoint that is past the start of its file has the fact that was computed
\* up to there, from the same generation and by the same build: whatever resets
\* the fact resets the progress with it (record_source_observations,
\* require_checkpoint_rebuild, commit_group).
ProgressHasFact ==
  \A s \in Registered :
    LET r == sources[s] IN
    r.cp.offset > 0 =>
      /\ r.fact.gen = r.gen
      /\ r.fact.version = r.cp.version
      /\ r.fact.through = r.cp.offset
      /\ r.thread # NoThread
==============================================================================
