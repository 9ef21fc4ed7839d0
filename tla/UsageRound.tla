------------------------------ MODULE UsageRound ------------------------------
(***************************************************************************)
(* The usage half of a scan round (src/src/scanner/usage_consumer.rs,      *)
(* src/src/scanner/mod.rs): the worker observes the files, binds them,     *)
(* starts or resumes a build when one is needed, works through the threads *)
(* of the work list, and activates the build that is complete, while other *)
(* programs change the files and the round may end between any two         *)
(* transactions.                                                           *)
(*                                                                         *)
(* disk[s] is the file itself, src[s] what the last observation recorded.  *)
(* Nothing but the worker writes these tables, so what it has loaded is    *)
(* what they hold; a batch that is read from the fixed view and committed  *)
(* later is one action.  Rewrites change the generation (the identity of   *)
(* the content), as SourceRegistry recognises them.                        *)
(***************************************************************************)
EXTENDS UsageStore

CONSTANTS
  InitialRaw,   \* source -> bytes at the start, 0 when there is no file
  RewriteRaws,  \* bytes of a file that replaces another
  Bad,          \* <<source, gen>> whose content contradicts its metadata fact
  MaxChanges,   \* bound: changes of files
  MaxFaults     \* bound: failed threads, interrupted rounds and partial discoveries

ASSUME RoundAssumption ==
  /\ InitialRaw \in [Sources -> 0..MaxRaw] /\ RewriteRaws \subseteq 2..MaxRaw
  /\ Bad \subseteq Sources \X (1..MaxGen)
  /\ MaxChanges \in Nat /\ MaxFaults \in Nat

VARIABLES
  disk,      \* the files: there, generation of the content, bytes
  version,   \* USAGE_PARSER_VERSION of the running build
  pc,        \* where the round is
  seen,      \* the sources this round has observed
  complete,  \* discovery was complete
  todo,      \* threads of the work list still to process
  listed,    \* sources of the work list
  skip,      \* threads this round leaves alone
  changes, faults

round == <<pc, seen, complete, todo, listed, skip>>
vars  == <<store, disk, version, round, changes, faults>>

File == [there : BOOLEAN, gen : 1..MaxGen, raw : 0..MaxRaw]

TypeOK ==
  /\ StoreTypeOK
  /\ disk \in [Sources -> File]
  /\ version \in 1..MaxParser
  /\ pc \in {"idle", "metadata", "global", "group", "finish"}
  /\ seen \subseteq Sources /\ complete \in BOOLEAN
  /\ todo \subseteq Threads /\ listed \subseteq Sources /\ skip \subseteq Threads
  /\ changes \in 0..MaxChanges /\ faults \in 0..MaxFaults

Init ==
  /\ InitStore
  /\ disk = [s \in Sources |-> [there |-> InitialRaw[s] > 0, gen |-> 1, raw |-> InitialRaw[s]]]
  /\ version = 1
  /\ pc = "idle" /\ seen = {} /\ complete = FALSE /\ todo = {} /\ listed = {} /\ skip = {}
  /\ changes = 0 /\ faults = 0

Fault == faults < MaxFaults /\ faults' = faults + 1

EndRound ==
  /\ pc' = "idle"
  /\ seen' = {} /\ complete' = FALSE /\ todo' = {} /\ listed' = {} /\ skip' = {}

Goto(where) == pc' = where /\ UNCHANGED <<seen, complete>>

\* GlobalPlanChanged: the work list is loaded again, the listed threads stay skipped.
Replan(skipped) ==
  /\ Goto("global")
  /\ todo' = {} /\ listed' = {} /\ skip' = skipped

------------------------------------------------------------------------------
(* Other programs, and a newly installed MiniUsage. *)

Change(s) ==
  /\ changes < MaxChanges
  /\ changes' = changes + 1
  /\ \/ /\ disk[s].there
        /\ \E n \in {1, 2} : /\ disk[s].raw + n <= MaxRaw
                             /\ disk' = [disk EXCEPT ![s].raw = @ + n]
     \/ /\ disk[s].there
        /\ disk' = [disk EXCEPT ![s].there = FALSE]
     \/ /\ ~disk[s].there /\ disk[s].raw > 0
        /\ disk' = [disk EXCEPT ![s].there = TRUE]
     \/ /\ disk[s].gen < MaxGen
        /\ \E r \in RewriteRaws : disk' = [disk EXCEPT ![s] = [there |-> TRUE, gen |-> @.gen + 1, raw |-> r]]
  /\ UNCHANGED <<store, version, round, faults>>

Upgrade ==
  /\ pc = "idle" /\ version < MaxParser
  /\ version' = version + 1
  /\ UNCHANGED <<store, disk, round, changes, faults>>

------------------------------------------------------------------------------
(* Observation and metadata. *)

Seen(s) == [known |-> TRUE, present |-> TRUE, gen |-> disk[s].gen, raw |-> disk[s].raw,
            bound |-> src[s].bound /\ src[s].gen = disk[s].gen]

\* collect_usage_carry_observation_proofs and record_source_observations.
Observe ==
  /\ pc = "idle"
  /\ \E some \in SUBSET {s \in Sources : disk[s].there} :
       /\ \/ some = {s \in Sources : disk[s].there} /\ complete' = TRUE /\ UNCHANGED faults
          \/ complete' = FALSE /\ Fault
       /\ ObserveSources([s \in some |-> Seen(s)], complete')
       /\ seen' = some
  /\ pc' = "metadata"
  /\ UNCHANGED <<disk, version, todo, listed, skip, changes>>

Bindable(s) == s \in seen /\ src[s].present /\ ~src[s].bound /\ src[s].raw >= LineSize
               /\ disk[s].there /\ disk[s].gen = src[s].gen

Bind(s) ==
  /\ pc = "metadata" /\ Bindable(s)
  /\ BindSource(s)
  /\ UNCHANGED <<disk, version, round, changes, faults>>

\* A parent becomes known.
FindParent(t, r) ==
  /\ pc = "metadata"
  /\ \E s \in seen : src[s].bound /\ ThreadOf[s] = t
  /\ r < t /\ root[r] = r
  /\ Reroot(t, r)
  /\ UNCHANGED <<disk, version, round, changes, faults>>

\* The metadata half has ended without a hard error.
StartUsage ==
  /\ pc = "metadata"
  /\ ~\E s \in seen : Bindable(s)
  /\ Goto("global")
  /\ UNCHANGED <<store, disk, version, todo, listed, skip, changes, faults>>

------------------------------------------------------------------------------
(* Global plan. *)

NeedsBuild == ~app.build /\ (~app.active \/ QuarantineIsDirty)

\* A build is begun, or retargeted, over the complete present set; without that set
\* the round waits for the next one.
GlobalTransition ==
  /\ pc = "global"
  /\ NeedsBuild \/ WorkingParser # version
  /\ IF complete
     THEN /\ IF app.build THEN ReplaceMembers(version, Present) ELSE BeginBuild(version)
          /\ Replan({})
     ELSE EndRound /\ UNCHANGED store
  /\ UNCHANGED <<disk, version, changes, faults>>

LoadWorkList ==
  /\ pc = "global"
  /\ ~NeedsBuild /\ WorkingParser = version
  /\ Goto("group")
  /\ listed' = {s \in Sources : Listed(s) /\ (app.build \/ s \in seen)}
  /\ todo' = {ThreadOf[s] : s \in listed'} \ skip
  /\ UNCHANGED <<store, disk, version, skip, changes, faults>>

------------------------------------------------------------------------------
(* One thread. *)

Next1(t)  == t \in todo /\ \A u \in todo : t <= u
Group(t)  == {s \in listed : ThreadOf[s] = t}
Quiet     == {"Skip", "BlockedRelationship"}
Controls  == {"BeginCarry", "ResumeCarry", "CompleteOnly", "RebuildRequired"}
Reading   == {"ReadFrom", "BuildFrom", "LocalReplay", "ResumeOwningLive", "VerifyRawTail"}

Working1(t) == pc = "group" /\ Next1(t)

ThreadDone(t) ==
  /\ todo' = todo \ {t}
  /\ UNCHANGED <<pc, seen, complete, listed, skip>>

Completed(t) ==
  /\ Working1(t)
  /\ \A s \in Group(t) : Plan(s) = "Skip"
  /\ ThreadDone(t)
  /\ UNCHANGED <<store, disk, version, changes, faults>>

\* SessionDataError: the tree is isolated in the build; without one the round ends.
Blocked(t) ==
  /\ Working1(t)
  /\ \A s \in Group(t) : Plan(s) \in Quiet
  /\ \E s \in Group(t) : Plan(s) = "BlockedRelationship"
  /\ IF app.build THEN QuarantineTree(t) /\ Replan({}) ELSE EndRound /\ UNCHANGED store
  /\ UNCHANGED <<disk, version, changes, faults>>

\* Control transitions come before any read, in the order of the sources.
FirstControl(t, s) ==
  /\ s \in Group(t) /\ Plan(s) \in Controls
  /\ \A x \in Group(t) : Plan(x) \in Controls => s <= x

\* The bytes a carry rests on are still in the file.
PrefixMatches(s) == disk[s].gen = member[s].gen /\ disk[s].raw >= member[s].aoff

Control(t, s) ==
  /\ Working1(t) /\ FirstControl(t, s)
  /\ \/ /\ Plan(s) = "BeginCarry"
        /\ IF complete THEN BeginCarry(s) /\ UNCHANGED round
                       ELSE ThreadDone(t) /\ UNCHANGED store
     \/ /\ Plan(s) = "ResumeCarry"
        /\ IF s \in seen /\ ~disk[s].there THEN ThreadDone(t) /\ UNCHANGED store
           ELSE IF s \in seen /\ ~PrefixMatches(s)
                THEN IF complete THEN ReplaceMembers(version, {s}) /\ Replan(skip)
                                 ELSE ThreadDone(t) /\ UNCHANGED store
           ELSE IF CarryProofHolds(s) THEN ResumeCarry(s) /\ UNCHANGED round
           ELSE ThreadDone(t) /\ UNCHANGED store
     \/ /\ Plan(s) = "CompleteOnly"
        /\ CompleteOnly(s) /\ UNCHANGED round
     \/ /\ Plan(s) = "RebuildRequired"
        /\ IF complete THEN ReplaceOrBegin(version, s) /\ Replan(skip)
                       ELSE ThreadDone(t) /\ UNCHANGED store
  /\ UNCHANGED <<disk, version, changes, faults>>

\* The sources of the group that this round has observed and can read.
Readable(t) == {s \in Group(t) : Plan(s) \in Reading /\ s \in seen}

Before(t, s) == {x \in Readable(t) : x < s}

CanRead(t) ==
  /\ Working1(t)
  /\ \A s \in Group(t) : Plan(s) \notin Controls
  /\ \E s \in Group(t) : Plan(s) \in Reading

Establishing(s) == cp[s].off = 0 /\ Working.state[s] = NoState
Altered(s)      == disk[s].gen # src[s].gen \/ disk[s].raw < src[s].raw
Contradicts(s)  == Establishing(s) /\ <<s, src[s].gen>> \in Bad
Sound(s)        == disk[s].there /\ ~Altered(s) /\ ~Contradicts(s)

\* The end of the fixed view, and what a read that reaches it knows of the tail.
EndOfView(s) ==
  LET last == LastComplete(src[s].raw)
  IN [end |-> last, tail |-> IF last = src[s].raw THEN "none" ELSE "half_line"]

\* A replay in place commits the whole view at once.
ReplayBatches(s) == {EndOfView(s)}

\* The owning boundary, here the session_meta line, is committed alone.
BoundaryBatches(s) == {[end |-> LineSize, tail |-> "unverified"]}

\* A batch may end after any complete line that is not the end of the file.
ChunkBatches(s) ==
  {EndOfView(s)} \union
  {[end |-> e, tail |-> "unverified"] :
     e \in {x \in (cp[s].off + 1)..LastComplete(src[s].raw) : x % LineSize = 0 /\ x < src[s].raw}}

Batches(s) == IF Plan(s) = "LocalReplay" THEN ReplayBatches(s)
              ELSE IF Establishing(s) THEN BoundaryBatches(s)
              ELSE ChunkBatches(s)

\* commit_group: the sources of a prefix of the group, in one transaction.
ReadGroup(t) ==
  /\ CanRead(t)
  /\ \E S \in SUBSET Readable(t) :
       /\ S # {} /\ \A s \in S : Sound(s) /\ Before(t, s) \subseteq S
       /\ \E b \in [S -> UNION {Batches(s) : s \in S}] :
            /\ \A s \in S : b[s] \in Batches(s)
            /\ CommitUsage(b)
  /\ UNCHANGED <<disk, version, round, changes, faults>>

NothingToRead(t) ==
  /\ CanRead(t) /\ Readable(t) = {}
  /\ ThreadDone(t)
  /\ UNCHANGED <<store, disk, version, changes, faults>>

\* The first source that cannot be read decides for the group.
FirstUnsound(t, s) ==
  /\ CanRead(t) /\ s \in Readable(t) /\ ~Sound(s)
  /\ \A x \in Before(t, s) : Sound(x)

ReadFails(t, s) ==
  /\ FirstUnsound(t, s)
  /\ IF ~disk[s].there THEN ThreadDone(t) /\ UNCHANGED store
     ELSE IF ~complete THEN ThreadDone(t) /\ UNCHANGED store
     ELSE IF Altered(s) THEN ReplaceOrBegin(version, s) /\ Replan(skip \union {t})
     ELSE IF Plan(s) = "BuildFrom" THEN QuarantineTree(t) /\ Replan({})
     ELSE ReplaceOrBegin(version, s) /\ Replan(skip)
  /\ UNCHANGED <<disk, version, changes, faults>>

\* OrdinaryError: a database or file error costs the thread this round.
ThreadFails(t) ==
  /\ Working1(t) /\ Fault
  /\ ThreadDone(t)
  /\ UNCHANGED <<store, disk, version, changes>>

------------------------------------------------------------------------------
(* The end of the round. *)

AllThreadsDone ==
  /\ pc = "group" /\ todo = {}
  /\ IF complete /\ app.build THEN Goto("finish") /\ UNCHANGED <<todo, listed, skip>>
                              ELSE EndRound
  /\ UNCHANGED <<store, disk, version, changes, faults>>

\* Every present source is a member by now, so that begin_or_resume adds none.
Finish ==
  /\ pc = "finish"
  /\ IF Activatable THEN Activate ELSE UNCHANGED store
  /\ EndRound
  /\ UNCHANGED <<disk, version, changes, faults>>

\* Cancellation, a failed transaction of the round, or a crash.
Interrupt ==
  /\ pc # "idle" /\ Fault
  /\ EndRound
  /\ UNCHANGED <<store, disk, version, changes>>

Step ==
  \/ Observe \/ StartUsage \/ GlobalTransition \/ LoadWorkList \/ AllThreadsDone \/ Finish
  \/ \E s \in Sources : Bind(s)
  \/ \E t \in Threads : Completed(t) \/ Blocked(t) \/ ReadGroup(t) \/ NothingToRead(t)
  \/ \E t \in Threads, s \in Sources : Control(t, s) \/ ReadFails(t, s)

Next ==
  \/ Step
  \/ \E s \in Sources : Change(s)
  \/ Upgrade
  \/ \E t, r \in Threads : FindParent(t, r)
  \/ \E t \in Threads : ThreadFails(t)
  \/ Interrupt

Spec == Init /\ [][Next]_vars

\* The coordinator scans again and again, and a round runs to its end.
LiveSpec == Spec /\ WF_vars(Step)

------------------------------------------------------------------------------
(* Properties. *)

\* The rows of a source are those of the lines its state has read, of one
\* generation, none twice and none skipped; a source under carry has a part of
\* what the active epoch holds.
FactsAreTheReadPrefix ==
  /\ \A s \in Sources :
       act.occ[s] = IF act.state[s] = NoState THEN {} ELSE Facts(act.state[s].gen, act.state[s].off)
  /\ \A s \in Sources :
       IF bld.state[s] # NoState THEN bld.occ[s] = Facts(bld.state[s].gen, bld.state[s].off)
       ELSE IF member[s].phase = "none" THEN bld.occ[s] = {} ELSE bld.occ[s] \subseteq act.occ[s]

\* A canonical event is counted exactly while some source still contributes it.
CountedEventsOccur == act.events = Counted(act.occ) /\ bld.events = Counted(bld.occ)

\* The one checkpoint of a source is the position of the working epoch's state,
\* never of the other epoch's.
CheckpointFollowsWork ==
  \A s \in Sources : cp[s].status = "ready" =>
    LET st == Working.state[s] IN
    /\ st # NoState
    /\ cp[s].off = st.off /\ cp[s].parser = WorkingParser /\ st.parser = WorkingParser

\* A build whose members are all finished passes every check of the activation:
\* nothing it would check can have become stale since.  (The exception is the
\* member whose tail proof a carry has lost, see CarryKeepsTailProof.)
FinishedBuildActivates ==
  pc = "finish" /\ Finished =>
    \/ Activatable
    \/ \E s \in Sources : member[s].status = "carried" /\ member[s].tail = "unverified"

\* Activation takes nothing from readers: unless its tree is isolated or its content
\* was replaced, a source keeps every line that was counted.
ActivationLosesNothing ==
  [][~app.build \/ app'.build \/
     \A s \in Sources :
       act.state[s].gen = src[s].gen /\ member[s].status # "quarantined"
         => act.occ[s] \subseteq act'.occ[s]]_vars

\* Whatever readers can see changes together with data_revision.
ReadersAreTold ==
  [][act'.events # act.events => rev' # rev]_vars

\* Every file that is there is counted to its last complete line or isolated with
\* its tree, by the parser that is installed, and no build is open.
Settled ==
  /\ ~app.build /\ app.active /\ app.parser = version
  /\ \A s \in Sources : disk[s].there /\ disk[s].raw >= LineSize =>
       \/ \E q \in act.quarantine : q.source = s
       \/ act.occ[s] = Facts(disk[s].gen, disk[s].raw)

\* A member that no round can finish: a file that was never bound and is gone, or one
\* whose tail proof a carry has lost.
Stuck ==
  \E s \in Sources : /\ member[s].in
                     /\ \/ ~src[s].bound
                        \/ member[s].status = "carried" /\ member[s].tail = "unverified"

\* Builds are finished, replaced or resumed until everything is settled, unless a
\* member of the build is stuck.
EventuallySettled == []<>Stuck \/ <>[]Settled

------------------------------------------------------------------------------
(* What comments and src/docs/Spec_04 say, and the code does not do. *)

\* storage/usage.rs: "A partial BuildFrom seed is allowed to have an unverified
\* working tail; that cannot erase the independently durable active tail proof."
CarryKeepsTailProof ==
  \A s \in Sources : member[s].status = "carried" => member[s].tail = act.state[s].tail

\* Spec_04: a missing source that a new parser cannot carry blocks the activation
\* until it comes back.
MissingSourceBlocksActivation ==
  [][~app.build \/ app'.build \/
     \A s \in Sources : ~src[s].present => act.occ[s] \subseteq act'.occ[s]]_vars

\* rebuild.rs: a quarantined root contributes no usage rows to its epoch.
QuarantinedRootIsEmpty ==
  \A q \in act.quarantine : \A s \in Sources : act.state[s].root = q.root => act.occ[s] = {}
==============================================================================
