----------------------------- MODULE MetadataScan -----------------------------
(***************************************************************************)
(* The metadata half of a scan round: discovery, observation, planning,    *)
(* reading, and the commit of whole thread groups, while other programs    *)
(* change the files (src/src/scanner/mod.rs, discovery.rs, pipeline.rs,    *)
(* chunk_reader.rs, src/src/codex/rollout.rs).  One worker runs at a time  *)
(* (ScanCoordinator), so only the files move under a round.                *)
(*                                                                         *)
(* What a line says is reduced to what ownership needs: the first line of  *)
(* a content is the session_meta of Owner[tag]; line Foreign[tag], if not  *)
(* 0, is the session_meta of a thread outside Threads; nothing after it    *)
(* makes the content its owner's again.  Candidate[p] is the thread that   *)
(* the file name or the state index names for path p.                      *)
(***************************************************************************)
EXTENDS RolloutFiles, SourceRegistry

CONSTANTS
  Owner,         \* tag -> thread
  Foreign,       \* tag -> line, or 0
  Candidate,     \* path -> thread, or NoThread
  MaxVersion,    \* bound: the highest METADATA_PARSER_VERSION of an installed build
  MaxFaults      \* bound: storage errors, unreadable entries, cancellations and crashes

ASSUME BoundsAssumption ==
  /\ MaxSize \in Nat /\ MaxChanges \in Nat
  /\ MaxVersion \in Nat \ {0} /\ MaxFaults \in Nat

ASSUME ContentsAssumption ==
  /\ Owner \in [1..MaxChanges -> Threads]
  /\ Foreign \in [1..MaxChanges -> Nat]
  /\ Candidate \in [Paths -> Threads \union {NoThread}]

VARIABLES
  version,    \* METADATA_PARSER_VERSION of the running build
  pc,         \* where the round is
  todo,       \* paths discovery has not looked at
  found,      \* observations discovery made
  unread,     \* areas that were not read completely
  loaded,     \* the observed sources as loaded for planning
  queue,      \* the sources still to parse
  cur,        \* the file being read
  parsed,     \* result of every source that was opened
  pending,    \* thread groups still to commit
  hard,       \* the round has met a hard error
  refused,    \* a group commit has failed
  faults      \* faults so far

round == <<pc, todo, found, unread, loaded, queue, cur, parsed, pending, hard, refused>>
vars  == <<files, sources, version, round, faults>>

Closed  == [source |-> 0, tag |-> 0, before |-> 0, mtime |-> 0, read |-> {}, through |-> 0]
Nothing == [s \in {} |-> s]

\* Outcomes of opening a source: the ParsedSource, or the error of parse_one.
Results == [error : {"none", "changed", "guard", "lost"}, rebuild : BOOLEAN,
            fact : Fact, guard : Nat]

PCs == {"idle", "discover", "load", "parse", "read", "check", "commit", "usage"}

TypeOK ==
  /\ FilesTypeOK /\ RegistryTypeOK
  /\ version \in 1..MaxVersion
  /\ pc \in PCs
  /\ todo \subseteq Paths
  /\ found \subseteq Observation
  /\ unread \subseteq Areas
  /\ DOMAIN loaded \subseteq Registered /\ loaded \in [DOMAIN loaded -> Row]
  /\ queue \subseteq DOMAIN loaded
  /\ cur = Closed \/ cur.source \in queue
  /\ DOMAIN parsed \subseteq DOMAIN loaded /\ parsed \in [DOMAIN parsed -> Results]
  /\ pending \subseteq Threads
  /\ hard \in BOOLEAN /\ refused \in BOOLEAN
  /\ faults \in 0..MaxFaults

Init ==
  /\ InitFiles /\ InitRegistry
  /\ version = 1
  /\ pc = "idle"
  /\ todo = {} /\ found = {} /\ unread = {}
  /\ loaded = Nothing /\ queue = {} /\ cur = Closed /\ parsed = Nothing
  /\ pending = {} /\ hard = FALSE /\ refused = FALSE
  /\ faults = 0

Fault ==
  /\ faults < MaxFaults
  /\ faults' = faults + 1

\* The round's memory is dropped; what it committed stays.
EndRound ==
  /\ pc' = "idle"
  /\ todo' = {} /\ found' = {} /\ unread' = {}
  /\ loaded' = Nothing /\ queue' = {} /\ cur' = Closed /\ parsed' = Nothing
  /\ pending' = {} /\ hard' = FALSE /\ refused' = FALSE
  /\ UNCHANGED version

------------------------------------------------------------------------------
(* Discovery: area by area, one entry at a time. *)

StartRound ==
  /\ pc = "idle"
  /\ pc' = "discover"
  /\ todo' = Paths
  /\ UNCHANGED <<files, sources, version, found, unread, loaded, queue, cur, parsed,
                 pending, hard, refused, faults>>

NextEntries == IF todo \intersect SessionPaths # {} THEN todo \intersect SessionPaths ELSE todo

Observe(p) == [path |-> p, inode |-> dir[p], size |-> disk[dir[p]].size, mtime |-> disk[dir[p]].mtime]

Look(p) ==
  /\ pc = "discover"
  /\ p \in NextEntries
  /\ todo' = todo \ {p}
  /\ found' = IF dir[p] = NoInode THEN found ELSE found \union {Observe(p)}
  /\ UNCHANGED <<files, sources, version, pc, unread, loaded, queue, cur, parsed,
                 pending, hard, refused, faults>>

\* An entry that cannot be read.  A file that cannot be stat'ed leaves its area
\* complete; one that cannot be opened, or a directory that cannot be listed, does not.
LookFails(p) ==
  /\ pc = "discover"
  /\ p \in NextEntries
  /\ Fault
  /\ todo' = todo \ {p}
  /\ \/ dir[p] # NoInode /\ UNCHANGED unread
     \/ unread' = unread \union {Area(p)}
  /\ hard' = TRUE
  /\ UNCHANGED <<files, sources, version, pc, found, loaded, queue, cur, parsed,
                 pending, refused>>

\* One observation per physical file: the preferred of its paths.
Deduplicated == {o \in found : \A x \in found : x.inode = o.inode => o.path <= x.path}

------------------------------------------------------------------------------
(* Observation and planning. *)

Record ==
  /\ pc = "discover" /\ todo = {}
  /\ RecordObservations(Deduplicated, unread)
  /\ pc' = "load"
  /\ UNCHANGED <<files, version, todo, found, unread, loaded, queue, cur, parsed,
                 pending, hard, refused, faults>>

\* SOURCE_OBSERVATION_FAILED
RecordFails ==
  /\ pc = "discover" /\ todo = {}
  /\ \/ Occupied(Deduplicated) /\ UNCHANGED faults
     \/ Fault
  /\ EndRound
  /\ UNCHANGED <<files, sources>>

ObservedSources == {s \in Registered : \E o \in Deduplicated : o.path = sources[s].path}

\* plan_one: progress is resumed only from a ready checkpoint of this build
\* and this content whose fact still matches; anything else starts at 0.
Resumable(r) ==
  /\ r.cp.version = version
  /\ r.cp.status = "ready"
  /\ r.cp.offset > 0
  /\ MatchingFact(r)

StartOffset(r) == IF Resumable(r) THEN r.cp.offset ELSE 0

Skipped(r) == Resumable(r) /\ r.cp.offset = r.size

Load ==
  /\ pc = "load"
  /\ \A s \in ObservedSources : Loadable(sources[s])
  /\ loaded' = [s \in ObservedSources |-> sources[s]]
  /\ queue' = {s \in ObservedSources : ~ Skipped(sources[s])}
  /\ pc' = "parse"
  /\ UNCHANGED <<files, sources, version, todo, found, unread, cur, parsed,
                 pending, hard, refused, faults>>

\* SOURCE_OBSERVATION_FAILED, with the observations already committed.
LoadFails ==
  /\ pc = "load"
  /\ \/ (\E s \in ObservedSources : ~ Loadable(sources[s])) /\ UNCHANGED faults
     \/ Fault
  /\ EndRound
  /\ UNCHANGED <<files, sources>>

------------------------------------------------------------------------------
(* Reading one file: sessions before archived_sessions, newest first. *)

Precedes(r, s) ==
  \/ Area(r.path) = "sessions" /\ Area(s.path) # "sessions"
  \/ /\ Area(r.path) = Area(s.path)
     /\ r.mtime > s.mtime \/ (r.mtime = s.mtime /\ r.path < s.path)

NextSources == {s \in queue : \A x \in queue : x = s \/ Precedes(loaded[s], loaded[x])}

Finish(s, result) ==
  /\ parsed' = [x \in DOMAIN parsed \union {s} |-> IF x = s THEN result ELSE parsed[x]]
  /\ queue' = queue \ {s}
  /\ cur' = Closed
  /\ pc' = "parse"
  /\ hard' = (hard \/ result.error # "none" \/ result.rebuild \/ result.fact = NoFact)

Failure(error) == [error |-> error, rebuild |-> FALSE, fact |-> NoFact, guard |-> NoGuard]

\* Mutant of OpenError: the guard is not verified.
OpenErrorUnguarded(r) ==
  IF dir[r.path] = NoInode THEN "lost"
  ELSE IF dir[r.path] # r.inode \/ disk[r.inode].size < r.size THEN "changed"
  ELSE "none"

\* The checks of read_chunk_bounded before the first byte.
OpenError(r) ==
  LET content == disk[r.inode] IN
  IF dir[r.path] = NoInode THEN "lost"
  ELSE IF dir[r.path] # r.inode \/ content.size < r.size THEN "changed"
  ELSE IF StartOffset(r) > 0 /\ content.tag # r.cp.guard THEN "guard"
  ELSE "none"

Open ==
  /\ pc = "parse"
  /\ \E s \in NextSources :
       LET content == disk[loaded[s].inode] IN
       IF OpenError(loaded[s]) # "none" THEN Finish(s, Failure(OpenError(loaded[s])))
       ELSE /\ cur' = [source |-> s, tag |-> content.tag, before |-> content.size,
                       mtime |-> content.mtime, read |-> {}, through |-> 0]
            /\ pc' = "read"
            /\ UNCHANGED <<queue, parsed, hard>>
  /\ UNCHANGED <<files, sources, version, todo, found, unread, loaded, pending, refused, faults>>

Smaller(a, b) == IF a < b THEN a ELSE b

\* Complete lines between the start offset and the planned size.
Read ==
  /\ pc = "read"
  /\ LET r == loaded[cur.source]
         content == disk[r.inode]
         end == Complete(Smaller(r.size, content.size)) IN
     cur' = [cur EXCEPT !.read = IF end > StartOffset(r) THEN {content.tag} ELSE {},
                        !.through = IF end > StartOffset(r) THEN end ELSE StartOffset(r)]
  /\ pc' = "check"
  /\ UNCHANGED <<files, sources, version, todo, found, unread, loaded, queue, parsed,
                 pending, hard, refused, faults>>

\* The checks of read_chunk_bounded after the last byte.
Changed(r) ==
  \/ disk[r.inode].size < r.size
  \/ disk[r.inode].size = cur.before /\ disk[r.inode].mtime # cur.mtime
  \/ dir[r.path] # r.inode

\* The line of content tag that names another thread than owner, or 0.
ForeignLine(tag, owner) == IF Owner[tag] # owner THEN 1 ELSE Foreign[tag]

ForeignIn(tag, owner, start, end) ==
  LET line == ForeignLine(tag, owner) IN line > 0 /\ start < 2 * line /\ 2 * line <= end

\* Where the state machine of the rollout parser ends for source row r after
\* reading content tag up to end.
Parse(r, tag, end) ==
  LET start    == StartOffset(r)
      resumed  == start > 0
      external == Candidate[r.path]
      owner    == IF resumed THEN r.thread
                  ELSE IF external # NoThread THEN external
                  ELSE IF end > 0 THEN Owner[tag]
                  ELSE NoThread
      replayed == resumed /\ r.fact.state = "replayed"
      foreign  == owner # NoThread /\ ForeignIn(tag, owner, start, end)
      rebuild  == resumed /\ ((external # NoThread /\ external # owner) \/ (foreign /\ ~ replayed))
  IN [error |-> "none", rebuild |-> rebuild, guard |-> IF end = 0 THEN NoGuard ELSE tag,
      fact |-> IF rebuild \/ owner = NoThread THEN NoFact
               ELSE [gen |-> r.gen, version |-> version, through |-> end, thread |-> owner,
                     state |-> IF replayed \/ foreign THEN "replayed" ELSE "owning",
                     read |-> cur.read \union (IF resumed THEN r.fact.read ELSE {})]]

Check ==
  /\ pc = "check"
  /\ LET s == cur.source
         r == loaded[s] IN
     Finish(s, IF Changed(r) THEN Failure("changed")
               ELSE Parse(r, disk[r.inode].tag, cur.through))
  /\ UNCHANGED <<files, sources, version, todo, found, unread, loaded, pending, refused, faults>>

------------------------------------------------------------------------------
(* Resolution and commit. *)

\* What the round knows of source s: its fact, or NoFact.
KnownFact(s) ==
  IF Skipped(loaded[s]) THEN loaded[s].fact
  ELSE IF s \in DOMAIN parsed THEN parsed[s].fact
  ELSE NoFact

GroupOf(s) == IF loaded[s].thread # NoThread THEN loaded[s].thread ELSE KnownFact(s).thread

\* Mutant of Members: a file that could not be read is left out of its group.
ReadMembers(t) == {s \in DOMAIN loaded : GroupOf(s) = t /\ KnownFact(s) # NoFact}

Members(t) == {s \in DOMAIN loaded : GroupOf(s) = t}

\* SOURCE_IDENTITY_CONFLICT: bound to another thread than the fact names.
SourceComplete(s) ==
  /\ KnownFact(s) # NoFact
  /\ loaded[s].thread \in {NoThread, KnownFact(s).thread}

CompleteGroups ==
  {t \in Threads : /\ unread = {}
                   /\ Members(t) # {}
                   /\ \A s \in Members(t) : SourceComplete(s)}

RebuildNeeded == {s \in DOMAIN parsed : parsed[s].rebuild}

Resolve ==
  /\ pc = "parse" /\ queue = {}
  /\ RequireRebuild(RebuildNeeded)
  /\ pending' = CompleteGroups
  /\ pc' = "commit"
  /\ UNCHANGED <<files, version, todo, found, unread, loaded, queue, cur, parsed, hard,
                 refused, faults>>

\* STORAGE_COMMIT_FAILED, or METADATA_STATE_LOAD_FAILED after the rebuilds.
ResolveFails ==
  /\ pc = "parse" /\ queue = {}
  /\ Fault
  /\ UNCHANGED sources \/ RequireRebuild(RebuildNeeded)
  /\ EndRound
  /\ UNCHANGED files

CommitFor(s) ==
  [gen |-> loaded[s].gen, previous |-> loaded[s].thread, fact |-> KnownFact(s),
   cp |-> IF Skipped(loaded[s]) THEN loaded[s].cp
          ELSE [version |-> version, offset |-> KnownFact(s).through,
                guard |-> parsed[s].guard, status |-> "ready"]]

GroupCommits(t) == [s \in Members(t) |-> CommitFor(s)]

Commit(t) ==
  /\ pc = "commit" /\ t \in pending
  /\ CommitGroup(t, GroupCommits(t))
  /\ pending' = pending \ {t}
  /\ UNCHANGED <<files, version, pc, todo, found, unread, loaded, queue, cur, parsed, hard,
                 refused, faults>>

\* The other groups are still committed.
CommitFails(t) ==
  /\ pc = "commit" /\ t \in pending
  /\ \/ ~ LegalGroup(t, GroupCommits(t)) /\ UNCHANGED faults
     \/ Fault
  /\ pending' = pending \ {t}
  /\ refused' = TRUE
  /\ UNCHANGED <<files, sources, version, pc, todo, found, unread, loaded, queue, cur, parsed,
                 hard>>

\* Mutant of EndCommits: a failed group commit is forgotten.
EndCommitsAnyway ==
  /\ pc = "commit" /\ pending = {}
  /\ pc' = "usage"
  /\ UNCHANGED <<files, sources, version, todo, found, unread, loaded, queue, cur, parsed,
                 pending, hard, refused, faults>>

\* METADATA_COMMIT_FAILED ends the round before its usage half.
EndCommits ==
  /\ pc = "commit" /\ pending = {}
  /\ IF refused THEN EndRound
     ELSE /\ pc' = "usage"
          /\ UNCHANGED <<version, todo, found, unread, loaded, queue, cur, parsed, pending,
                         hard, refused>>
  /\ UNCHANGED <<files, sources, faults>>

\* The usage half is not modelled here.
FinishRound ==
  /\ pc = "usage"
  /\ EndRound
  /\ UNCHANGED <<files, sources, faults>>

------------------------------------------------------------------------------
(* Interruptions. *)

\* A cancellation is noticed between two steps; a crash happens anywhere.
Abandon ==
  /\ pc # "idle"
  /\ Fault
  /\ EndRound
  /\ UNCHANGED <<files, sources>>

\* A cancellation between two files still persists the rebuilds found so far.
CancelParsing ==
  /\ pc = "parse" /\ queue # {}
  /\ Fault
  /\ RequireRebuild(RebuildNeeded)
  /\ EndRound
  /\ UNCHANGED files

\* Another build is installed, a newer one or an older one.
Install(v) ==
  /\ pc = "idle" /\ v # version
  /\ version' = v
  /\ UNCHANGED <<files, sources, round, faults>>

------------------------------------------------------------------------------
(* The other programs. *)

Held(i) == cur # Closed /\ loaded[cur.source].inode = i

\* Assumption: a file overwritten while it is being read is, until the read is
\* checked, shorter than the planned range or as long as it was when opened.  At
\* any other length read_chunk_bounded takes it for a file that was appended to.
WholeRewrites(i) ==
  Held(i) /\ disk'[i].tag # cur.tag =>
    disk'[i].size < loaded[cur.source].size \/ disk'[i].size = cur.before

ChangeFiles ==
  /\ \/ \E i \in Inodes, p \in Paths, n \in 0..MaxSize : ~ Held(i) /\ Create(i, p, n)
     \/ \E p \in Paths, n \in 0..MaxSize : Append(p, n) \/ Rewrite(p, n)
     \/ \E p \in Paths : Remove(p)
     \/ \E i \in Inodes, p \in Paths : Restore(i, p)
     \/ \E q, p \in Paths : Rename(q, p)
  /\ \A i \in Inodes : WholeRewrites(i)
  /\ UNCHANGED <<sources, version, round, faults>>

------------------------------------------------------------------------------

RoundStep ==
  \/ StartRound
  \/ \E p \in Paths : Look(p) \/ LookFails(p)
  \/ Record \/ RecordFails \/ Load \/ LoadFails
  \/ Open \/ Read \/ Check
  \/ Resolve \/ ResolveFails
  \/ \E t \in Threads : Commit(t) \/ CommitFails(t)
  \/ EndCommits \/ FinishRound

Next == RoundStep \/ Abandon \/ CancelParsing \/ (\E v \in 1..MaxVersion : Install(v)) \/ ChangeFiles

\* Fairness: the timer of the coordinator starts round after round, and a
\* round runs on a thread of its own.  Files need not change.
Spec == Init /\ [][Next]_vars /\ WF_vars(RoundStep)

------------------------------------------------------------------------------
(* Properties. *)

\* All lines behind a fact came from one content, the one its guard is of: no
\* append, move, replacement or rewrite between, or within, the reads mixes two
\* contents (verify_guard and the checks around the read in read_chunk_bounded).
FactIsOfOneContent ==
  \A s \in Registered :
    LET r == sources[s] IN
    r.fact # NoFact /\ r.fact.through > 0 =>
      /\ \E tag \in 1..MaxChanges : r.fact.read = {tag}
      /\ r.cp.status = "ready" => r.fact.read = {r.cp.guard}

\* A new generation is started only for a file whose content is not the one the
\* source was observed and read with: appending, moving, going missing and coming
\* back never throw progress away (generation_changed in plan_observations).  A
\* content written after the observation of the round that read it is read again.
NewGenerationIsNewContent ==
  [][\A s \in Registered :
       sources'[s].gen # sources[s].gen =>
         \A o \in found : o.path = sources'[s].path =>
           LET tag == disk[o.inode].tag IN
           tag \in sources[s].fact.read => tag > sources[s].mtime]_vars

\* When a group is committed, every present source bound to its thread is then
\* read up to the last complete line of its observed size: one file of a thread
\* that could not be read holds all of them back (resolve, commit_group).
ThreadAdvancesTogether ==
  [][\A t \in Threads : Commit(t) =>
       \A s \in Registered :
         LET r == sources'[s] IN
         r.thread = t /\ r.status = "present" =>
           /\ r.cp.status = "ready" /\ r.cp.version = version
           /\ r.cp.offset = Complete(r.size)]_vars

\* Files of t whose facts name another thread than the one they are bound to.
Contested(t) == \E s \in DOMAIN loaded : loaded[s].thread = t /\ ~ SourceComplete(s)

\* A round that reports success has left every file it found read up to the
\* last complete line it saw, by the running build, except the files of a thread
\* with a contested binding (run_round_with_report).
CleanRoundIsCurrent ==
  pc = "usage" /\ ~ hard =>
    \A s \in DOMAIN loaded :
      \/ /\ MatchingFact(sources[s])
         /\ sources[s].fact.version = version
         /\ sources[s].fact.through = Complete(loaded[s].size)
      \/ Contested(GroupOf(s))

Current(p) ==
  \/ dir[p] = NoInode
  \/ Complete(disk[dir[p]].size) = 0
  \/ \E s \in AtPath([path |-> p]) :
       /\ sources[s].inode = dir[p]
       /\ MatchingFact(sources[s])
       /\ sources[s].fact.read = {disk[dir[p]].tag}
       /\ sources[s].fact.through = Complete(disk[dir[p]].size)

\* Once the files stop changing, every file comes to be registered where it is
\* and read to its last complete line, whatever was interrupted before.
EventuallyCurrent == \A p \in Paths : <>[]Current(p)

\* The file at p is not the one its checkpoint was computed from.
GuardBroken(p) ==
  \E s \in AtPath([path |-> p]) :
    /\ sources[s].inode = dir[p]
    /\ 0 < sources[s].cp.offset /\ sources[s].cp.offset < sources[s].size
    /\ sources[s].cp.guard # disk[dir[p]].tag

\* The same when files are overwritten in place, unless one of them keeps a
\* checkpoint whose guard it no longer matches: no overwritten file is taken for
\* one that was only appended to, or for an unchanged one.
EventuallyCurrentOrBroken ==
  \A p \in Paths : <>[](Current(p) \/ \E q \in Paths : GuardBroken(q))

------------------------------------------------------------------------------
(* What src/docs/Spec_03 says of the scanner, and the code does not do. *)

\* Line 488: "guard mismatch | the source is rebuilt from 0".  parse_sources
\* drops the source, and persist_metadata_rebuilds never hears of it.
GuardMismatchRebuilds ==
  [][pc = "parse" /\ pc' = "commit" =>
       \A s \in DOMAIN parsed :
         parsed[s].error = "guard" => sources'[s].cp.status = "rebuild_required"]_vars

Oversized(s) ==
  s \in Registered /\ sources[s].status = "present" /\ ~ Loadable(sources[s])

\* Line 281: "offset > observed_size | all consumers rebuild".  A missing source
\* keeps its checkpoint when a shorter file comes back in its place; from then on
\* load_metadata_scan_state fails, and with it every round of every source.
OversizedOffsetIsRebuilt == \A s \in Sources : Oversized(s) ~> ~ Oversized(s)

MovedTo(s, p) ==
  clock = MaxChanges /\ s \in Registered /\ dir[p] = sources[s].inode

\* Line 251: a file found at another path with the same identity "moved; the path
\* is updated".  Not while a source that went missing is registered at that path:
\* plan_observations refuses the batch, in every round.
MovesAreFollowed ==
  \A s \in Sources, p \in Paths :
    MovedTo(s, p) ~> (s \in Registered /\ sources[s].path = p)
==============================================================================
