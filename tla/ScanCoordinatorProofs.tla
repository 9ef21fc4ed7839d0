------------------------ MODULE ScanCoordinatorProofs ------------------------
(***************************************************************************)
(* Proofs about the scan coordinator, for any number of callers, any       *)
(* capacity of the channel and any number of failures and crashes.         *)
(*                                                                         *)
(* The store is used through the lemmas of ScanLifecycleProofs.  The       *)
(* inductive invariant IInv has four parts:                                *)
(*   Typed      everything but the store has its type;                     *)
(*   Consistent the store is readable and its projection matches its rows; *)
(*   Control    where the event loop is agrees with what it holds: who     *)
(*              attends to the active scan, and who to the queued one;     *)
(*   AllHonest  what every caller was told is true of the rows.            *)
(* Control has nine conjuncts.  None is inductive alone: that the active   *)
(* scan is attended to needs that there is one token for it (a worker, a   *)
(* result in the channel, a pending terminal or the handler that commits   *)
(* it), and that needs that no store call is refused by its own checks.    *)
(***************************************************************************)
EXTENDS ScanCoordinator, SequenceTheorems, TLAPS

\* The lemmas about the store are those of this instance.
L == INSTANCE ScanLifecycleProofs

\* The inductive invariant of the store, see ScanLifecycleProofs.
Consistent == Store!TypeOK /\ Store!ReadableState /\ Store!ProjectionMatchesRows

\* L has the same definitions as Store.
LEMMA SameTypes ==
  /\ Store!Run = L!Run /\ Store!Slot = L!Slot /\ Store!Meta = L!Meta
  /\ Store!ErrorCodes = L!ErrorCodes /\ Store!StartFailedCodes = L!StartFailedCodes
  /\ Store!ScanFailedCodes = L!ScanFailedCodes /\ Store!Terminal = L!Terminal
  /\ Store!EmptySlot = L!EmptySlot
  /\ Store!NoScan = 0 /\ L!NoScan = 0 /\ Store!Null = 0 /\ L!Null = 0
  /\ Store!NoCode = L!NoCode /\ Store!NextRevision = L!NextRevision /\ Store!NewScan = L!NewScan
BY DEF Store!Run, L!Run, Store!Slot, L!Slot, Store!Meta, L!Meta, Store!ErrorCodes, L!ErrorCodes,
       Store!StartFailedCodes, L!StartFailedCodes, Store!ScanFailedCodes, L!ScanFailedCodes,
       Store!Terminal, L!Terminal, Store!Live, L!Live, Store!EmptySlot, L!EmptySlot,
       Store!NoScan, L!NoScan, Store!Null, L!Null, Store!NoCode, L!NoCode,
       Store!NextRevision, L!NextRevision, Store!NewScan, L!NewScan

LEMMA SameChecks ==
  /\ Store!Ready = L!Ready /\ Store!QueuedProjection = L!QueuedProjection
  /\ Store!StartFailedProjection = L!StartFailedProjection
  /\ Store!CanStart = L!CanStart /\ Store!CanReserve = L!CanReserve
  /\ \A s : /\ Store!SlotQueued(s) = L!SlotQueued(s)
            /\ Store!CanStartFollowup(s) = L!CanStartFollowup(s)
            /\ Store!IsActive(s) = L!IsActive(s)
BY SameTypes DEF Store!Ready, L!Ready, Store!QueuedProjection, L!QueuedProjection,
       Store!StartFailedProjection, L!StartFailedProjection, Store!CanStart, L!CanStart,
       Store!CanReserve, L!CanReserve, Store!SlotQueued, L!SlotQueued, Store!RowIs, L!RowIs,
       Store!CanStartFollowup, L!CanStartFollowup, Store!IsActive, L!IsActive

LEMMA SameConsistent == Consistent <=> L!Consistent
BY SameTypes, SameChecks, SMTT(30)
DEF Consistent, L!Consistent, Store!TypeOK, L!TypeOK, Store!ReadableState, L!ReadableState,
    Store!ProjectionMatchesRows, L!ProjectionMatchesRows, Store!ValidScanState, L!ValidScanState,
    Store!ValidRun, L!ValidRun

LEMMA SameCalls ==
  /\ Store!MarkScanStarted => L!MarkScanStarted
  /\ Store!ReserveScanFollowup => L!ReserveScanFollowup
  /\ \A s : /\ Store!MarkFollowupStarted(s) => L!MarkFollowupStarted(s)
            /\ Store!MarkScanCompleted(s) => L!MarkScanCompleted(s)
            /\ \A code : /\ Store!MarkFollowupStartFailed(s, code) => L!MarkFollowupStartFailed(s, code)
                         /\ Store!MarkScanFailed(s, code) => L!MarkScanFailed(s, code)
  /\ \A h : Store!BindCodexHome(h) => L!BindCodexHome(h)
BY SameTypes, SameChecks
DEF Store!MarkScanStarted, L!MarkScanStarted, Store!ReserveScanFollowup, L!ReserveScanFollowup,
    Store!MarkFollowupStarted, L!MarkFollowupStarted, Store!MarkScanCompleted, L!MarkScanCompleted,
    Store!MarkFollowupStartFailed, L!MarkFollowupStartFailed, Store!MarkScanFailed, L!MarkScanFailed,
    Store!Fail, L!Fail, Store!BindCodexHome, L!BindCodexHome, Store!RowIs, L!RowIs

LEMMA ConsistentNext ==
  ASSUME Consistent, [Store!Next]_storeVars
  PROVE  Consistent' /\ [L!Next]_(L!vars)
<1>1. [L!Next]_(L!vars)
  BY SameCalls, SameTypes DEF storeVars, L!Next, Store!Next, L!vars
<1>2. L!Consistent'
  BY <1>1, SameConsistent, L!ConsistentNext, FingerprintsAssumption
<1>3. L!Consistent' => Consistent'
  BY SameConsistent, PTL
<1> QED BY <1>1, <1>2, <1>3

------------------------------------------------------------------------------
(* What the calls of the store do to what the coordinator looks at. *)

\* A scan takes the free place of the active one, and the slot is empty then.
Occupies(s) ==
  /\ meta.active = 0 /\ s \in Nat \ {0} /\ meta'.active = s /\ meta'.slot.state = "none"

LEMMA TypedMeta ==
  ASSUME Consistent
  PROVE  /\ meta \in Store!Meta /\ meta.revision \in Nat /\ meta.active \in Nat
         /\ meta.slot.scan \in Nat
         /\ meta.state = "running" <=> meta.active # 0
         /\ Len(runs) \in Nat /\ DOMAIN runs \subseteq Nat \ {0}
<1>1. runs \in Seq(Store!Run) /\ meta \in Store!Meta
  BY DEF Consistent, Store!TypeOK
<1>2. Len(runs) \in Nat /\ DOMAIN runs \subseteq Nat \ {0}
  BY <1>1, LenProperties
<1>3. meta.state = "running" <=> meta.active # 0
  BY SameTypes DEF Consistent, Store!ReadableState, Store!ValidScanState
<1> QED BY <1>1, <1>2, <1>3 DEF Store!Meta, Store!Slot

LEMMA StartCall ==
  ASSUME Consistent, Store!MarkScanStarted
  PROVE  Occupies(Store!NewScan)
BY TypedMeta, SameTypes
DEF Store!MarkScanStarted, Store!CanStart, Store!NewScan, Store!Meta, Occupies,
  Store!EmptySlot

LEMMA FollowupCall ==
  ASSUME Consistent, NEW s, Store!MarkFollowupStarted(s)
  PROVE  Occupies(s) /\ s = meta.slot.scan
<1>1. s \in Nat \ {0}
  BY TypedMeta DEF Store!MarkFollowupStarted, Store!CanStartFollowup, Store!SlotQueued,
     Store!QueuedProjection, Store!RowIs
<1> QED
  BY <1>1, TypedMeta, SameTypes
  DEF Store!MarkFollowupStarted, Store!CanStartFollowup, Store!SlotQueued, Store!Meta, Occupies,
  Store!EmptySlot

LEMMA ReserveCall ==
  ASSUME Consistent, Store!ReserveScanFollowup
  PROVE  meta.active # 0 /\ meta'.active = meta.active /\ meta'.slot.state = "queued"
<1>1. CASE meta.slot.state = "queued"
  BY <1>1, SameTypes DEF Store!ReserveScanFollowup, Store!CanReserve
<1>2. CASE meta.slot.state # "queued"
  <2> DEFINE slot == [state |-> "queued", scan |-> Store!NewScan,
                      enqueued |-> Store!NextRevision, code |-> Store!NoCode]
  <2>1. /\ meta' = [meta EXCEPT !.revision = Store!NextRevision, !.slot = slot]
        /\ meta.active # 0 /\ slot.state = "queued"
    BY <1>2, SameTypes DEF Store!ReserveScanFollowup, Store!CanReserve
  <2> HIDE DEF slot
  <2> QED BY <2>1, TypedMeta DEF Store!Meta
<1> QED BY <1>1, <1>2

LEMMA EndCall ==
  ASSUME Consistent, NEW s,
         Store!MarkScanCompleted(s) \/ \E code : Store!MarkScanFailed(s, code)
  PROVE  meta.active = s /\ meta'.active = 0 /\ meta'.slot = meta.slot
<1>1. CASE Store!MarkScanCompleted(s)
  BY <1>1, TypedMeta, SameTypes DEF Store!MarkScanCompleted, Store!IsActive, Store!Meta
<1>2. ASSUME NEW code, Store!MarkScanFailed(s, code)
      PROVE meta.active = s /\ meta'.active = 0 /\ meta'.slot = meta.slot
  BY <1>2, TypedMeta, SameTypes DEF Store!MarkScanFailed, Store!IsActive, Store!Meta
<1> QED BY <1>1, <1>2

LEMMA SlotFailsCall ==
  ASSUME Consistent, NEW s, NEW code, Store!MarkFollowupStartFailed(s, code)
  PROVE  meta'.active = meta.active /\ meta'.slot.state = "start_failed"
<1>1. /\ meta' = [meta EXCEPT !.revision = Store!NextRevision,
            !.slot = [meta.slot EXCEPT !.state = "start_failed", !.code = code]]
  BY DEF Store!MarkFollowupStartFailed
<1>2. [meta.slot EXCEPT !.state = "start_failed", !.code = code].state = "start_failed"
  BY TypedMeta DEF Store!Meta, Store!Slot
<1>a. DEFINE slot == [meta.slot EXCEPT !.state = "start_failed", !.code = code]
<1> HIDE DEF slot
<1>3. meta' = [meta EXCEPT !.revision = Store!NextRevision, !.slot = slot]
  BY <1>1 DEF slot
<1>4. meta'.active = meta.active /\ meta'.slot = slot
  BY <1>3, TypedMeta DEF Store!Meta
<1> QED BY <1>2, <1>4 DEF slot

LEMMA OpenCall ==
  ASSUME Consistent, NEW h, Store!BindCodexHome(h)
  PROVE  meta'.active = meta.active
BY TypedMeta DEF Store!BindCodexHome, Store!Meta

\* Rows are only added; a row keeps its revisions, and a start gets the next one.
RowsKept ==
  /\ meta'.revision >= meta.revision
  /\ \A s \in DOMAIN runs :
       /\ s \in DOMAIN runs' /\ runs'[s].enqueued = runs[s].enqueued
       /\ \/ runs'[s].started = runs[s].started
          \/ runs[s].started = 0 /\ runs'[s].started = meta.revision + 1

LEMMA RowsAreKept ==
  ASSUME Consistent, [Store!Next]_storeVars
  PROVE  RowsKept
<1>0. L!Consistent /\ [L!Next]_(L!vars)
  BY ConsistentNext, SameConsistent
<1>1. \/ L!Keeps \/ L!Begins \/ L!Waits
      \/ \E s \in DOMAIN runs :
           L!Promotes(s) \/ L!Ends(s) \/ \E code \in L!StartFailedCodes : L!SlotFails(s, code)
  BY <1>0, L!RowStep, FingerprintsAssumption
<1>2. meta.revision \in Nat
  BY TypedMeta
<1>3. CASE L!Keeps
  BY <1>3, <1>2 DEF L!Keeps, RowsKept
<1>4. CASE L!Begins \/ L!Waits
  BY <1>4, <1>2 DEF L!Begins, L!Waits, L!Inserts, L!OthersStay, L!NextRevision, RowsKept
<1>5. ASSUME NEW s \in DOMAIN runs, L!Promotes(s) PROVE RowsKept
  <2>1. runs[s].started = 0
    BY <1>5, SameTypes DEF Consistent, Store!ReadableState, Store!ValidRun, L!Promotes
  <2> QED BY <1>2, <1>5, <2>1 DEF L!Promotes, L!Becomes, L!OthersStay, L!NextRevision, RowsKept
<1>6. ASSUME NEW s \in DOMAIN runs, L!Ends(s) PROVE RowsKept
  BY <1>6, <1>2 DEF L!Ends, L!Becomes, L!OthersStay, L!NextRevision, RowsKept
<1>7. ASSUME NEW s \in DOMAIN runs, NEW code, L!SlotFails(s, code) PROVE RowsKept
  BY <1>7, <1>2 DEF L!SlotFails, L!Becomes, L!OthersStay, L!NextRevision, RowsKept
<1> QED BY <1>1, <1>3, <1>4, <1>5, <1>6, <1>7

------------------------------------------------------------------------------
(* The coordinator implements the store. *)

\* Every step of the coordinator is one call of the store, or none.
LEMMA StoreStep == Consistent /\ [Next]_vars => [Store!Next]_storeVars
<1> SUFFICES ASSUME Consistent, Next, ~UNCHANGED storeVars PROVE Store!Next
  BY DEF vars
<1>0. ASSUME NEW s, Store!MarkFollowupStarted(s) PROVE Store!Next
  BY <1>0 DEF Store!Next, Store!MarkFollowupStarted, Store!CanStartFollowup, Store!SlotQueued,
              Store!QueuedProjection, Store!RowIs
<1>1. ASSUME NEW s, NEW code, Store!MarkFollowupStartFailed(s, code) PROVE Store!Next
  BY <1>1 DEF Store!Next, Store!MarkFollowupStartFailed, Store!SlotQueued,
              Store!QueuedProjection, Store!RowIs
<1>2. ASSUME NEW s, Store!MarkScanCompleted(s) PROVE Store!Next
  BY <1>2 DEF Store!Next, Store!MarkScanCompleted, Store!IsActive, Store!RowIs
<1>3. ASSUME NEW s, NEW code \in Store!ScanFailedCodes, Store!MarkScanFailed(s, code)
      PROVE  Store!Next
  BY <1>3 DEF Store!Next, Store!MarkScanFailed, Store!IsActive, Store!RowIs
<1>4. Store!MarkScanStarted \/ Store!ReserveScanFollowup => Store!Next
  BY DEF Store!Next
<1>5. {"SCAN_CANCELLED", "SCAN_INTERRUPTED", "WORKER_ERROR"} \subseteq Store!ScanFailedCodes
  BY DEF Store!ScanFailedCodes
<1>6. CASE Start
  BY <1>6 DEF Start, Store!Next
<1>7. CASE Recover
  BY <1>7, <1>0, <1>1, <1>3, <1>4, <1>5
  DEF Recover, RecoverRead, RecoverInterrupt, RecoverCheck, RecoverFollowup, RecoverFail,
      RecoverStartup, OpenCheck, OpenStore, Unchanged, InternalOr, Refused, SourceChanged,
      CannotStartFollowup, Exit
<1>8. CASE Wait \/ Tick
  BY <1>8 DEF Wait, Receive, RetryDue, NoTick, LoopCheck, Tick
<1>9. CASE Request
  <2>1. CASE RequestCheck \/ RequestState
    BY <2>1 DEF RequestCheck, RequestState, Unchanged
  <2>2. CASE RequestReserve
    BY <1>4, <2>2 DEF RequestReserve, Unchanged, InternalOr, Refused, SourceChanged
  <2>3. CASE RequestStart
    BY <1>4, <2>3 DEF RequestStart, Unchanged, InternalOr, Refused, SourceChanged
  <2> QED BY <1>9, <2>1, <2>2, <2>3 DEF Request
<1>10. CASE Finish
  <2>1. CASE TerminalCheck \/ TryCheck \/ TryState
    BY <2>1 DEF TerminalCheck, TryCheck, TryState, Unchanged
  <2>2. CASE TerminalMark
    BY <1>2, <1>3, <1>5, <2>2 DEF TerminalMark, MarkTerminal, Unchanged, InternalOr, Refused
  <2>3. CASE TryStart
    BY <1>0, <2>3
    DEF TryStart, Unchanged, InternalOr, Refused, SourceChanged, CannotStartFollowup
  <2>4. CASE FollowupFailure
    BY <1>1, <2>4 DEF FollowupFailure, Unchanged, InternalOr, Refused
  <2> QED BY <1>10, <2>1, <2>2, <2>3, <2>4 DEF Finish
<1>11. CASE Stop
  <2>1. CASE StopBegin \/ StopState \/ StopActive
    BY <2>1 DEF StopBegin, StopState, StopActive, Unchanged
  <2>2. CASE StopFail
    BY <1>1, <2>2 DEF StopFail, Unchanged, InternalOr, Refused
  <2> QED BY <1>11, <2>1, <2>2 DEF Stop
<1>12. CASE Crash \/ Callers \/ \E s \in workers : WorkerFinishes(s)
  BY <1>12, ZenonT(30)
  DEF Crash, Callers, RequesterCalls, RequesterSends, StopperCalls, StopperSends, WorkerFinishes
<1> QED BY <1>6, <1>7, <1>8, <1>9, <1>10, <1>11, <1>12 DEF Next, LoopStep

LEMMA StoreInit == Init => Consistent
<1>1. Store!Init => L!Init
  BY SameTypes DEF Store!Init, L!Init, Store!InitialMeta, L!InitialMeta
<1>2. L!Init => L!Consistent
  BY L!ConsistentInit, FingerprintsAssumption
<1> QED BY <1>1, <1>2, SameConsistent DEF Init

\* Every behaviour of the coordinator changes the database only by the
\* operations of lifecycle.rs, one per step.
THEOREM CoordinatorRespectsStore == Spec => StoreIsRespected
<1>1. Init => Consistent /\ Store!Init
  BY StoreInit DEF Init
<1>2. Consistent /\ [Next]_vars => Consistent' /\ [Store!Next]_storeVars
  BY StoreStep, ConsistentNext
<1> QED BY <1>1, <1>2, PTL DEF Spec, StoreIsRespected, Store!Spec, storeVars, Store!vars

\* So the rows the coordinator leaves keep what the lifecycle promises: the
\* abstract specification ScanPromise.
THEOREM CoordinatorKeepsPromise == Spec => Store!PromiseKept
<1>1. Init => Consistent /\ L!Init
  BY StoreInit, SameTypes DEF Init, Store!Init, L!Init, Store!InitialMeta, L!InitialMeta
<1>2. Consistent /\ [Next]_vars => Consistent' /\ [L!Next]_(L!vars)
  BY StoreStep, ConsistentNext
<1>3. Spec => L!Spec
  BY <1>1, <1>2, PTL DEF Spec, L!Spec
<1>4. L!Spec => L!PromiseKept
  BY L!LifecycleKeepsPromise, FingerprintsAssumption
<1>5. Store!Scans = L!Scans /\ Store!Scans' = L!Scans'
  BY DEF Store!Scans, L!Scans, Store!PhaseOf, L!PhaseOf
<1>6. L!Promise!Init => Store!Promise!Init
  BY <1>5 DEF L!Promise!Init, Store!Promise!Init
<1>7. [L!Promise!Next]_(L!Scans) => [Store!Promise!Next]_(Store!Scans)
  <2>1. \A phase : L!Promise!In(phase) = Store!Promise!In(phase)
    BY <1>5 DEF L!Promise!In, Store!Promise!In
  <2> QED
    BY <1>5, <2>1
    DEF L!Promise!Next, Store!Promise!Next, L!Promise!Begin, Store!Promise!Begin,
        L!Promise!Wait, Store!Promise!Wait, L!Promise!Promote, Store!Promise!Promote,
        L!Promise!Refuse, Store!Promise!Refuse, L!Promise!Finish, Store!Promise!Finish
<1>8. L!PromiseKept => Store!PromiseKept
  BY <1>6, <1>7, PTL DEF L!PromiseKept, Store!PromiseKept, L!Promise!Spec, Store!Promise!Spec
<1> QED BY <1>3, <1>4, <1>8

------------------------------------------------------------------------------
(* Types. *)

Jobs == [caller : Requesters \union Stoppers \union {Nobody}, scan : Nat,
         result : Results, shutting : BOOLEAN, retrying : BOOLEAN, code : Store!ErrorCodes]
Calls == [state : {"new", "sending", "waiting", "done", "lost"},
          asked : Nat, answer : Answers, scan : Nat, revision : Nat]
Messages == [kind : {"request", "shutdown", "finished"}, scan : Nat, result : Results,
             caller : Requesters \union Stoppers \union {Nobody}]
Commands == {c \in Messages : c.kind = "shutdown" => c.caller \in Stoppers}
Counts == [ticks : Nat, busy : Nat, internal : Nat, crashes : Nat]

\* Everything but the store, without nested types.
Stops == {"new", "sending", "waiting", "ok", "already_stopped",
          "unavailable", "not_persisted", "lost"}
Terminals == [scan : Nat, result : Results]
Failures  == [scan : Nat, code : Store!ErrorCodes]

Typed ==
  /\ availability \in {"recovering", "ready", "source_changed", "shutting_down", "stopped"}
  /\ pc \in Locations
  /\ job \in Jobs /\ (pc \in Stopping => job.caller \in Stoppers)
  /\ active \in Nat /\ cancelled \in BOOLEAN /\ retry \in BOOLEAN
  /\ pendingTerminal \in Terminals
  /\ pendingFailure \in Failures
  /\ shutdownReply \in Stoppers \union {Nobody}
  /\ queue \in Seq(Commands)
  /\ workers \subseteq Nat
  /\ requester \in [Requesters -> Calls]
  /\ stopper \in [Stoppers -> Stops]
  /\ spent \in Counts

\* Typed is stronger than the type invariant: only stoppers send shutdowns.
LEMMA TypedIsTypeOK == Typed /\ Store!TypeOK => TypeOK
<1>1. queue \in Seq(Commands) => queue \in Seq(Messages)
  BY SeqMonotonic DEF Commands
<1> QED BY <1>1 DEF TypeOK, Typed, Jobs, Messages, Calls, Counts, Stops, Terminals, Failures

\* The values the actions assign.
LEMMA Values ==
  /\ NoJob \in Jobs /\ NoTerminal \in Terminals /\ NoFailure \in Failures
  /\ \A r \in Requesters : RequestCommand(r) \in Commands
  /\ \A x \in Stoppers : ShutdownCommand(x) \in Commands
  /\ \A s \in Nat, result \in Results : FinishedCommand(s, result) \in Commands
  /\ <<>> \in Seq(Commands)
  /\ NoScan = 0 /\ 0 \in Nat
  /\ Store!StartFailedCodes \subseteq Store!ErrorCodes
<1>1. Store!NoCode \in Store!ErrorCodes /\ NoScan = 0 /\ 0 \in Nat
      /\ Store!StartFailedCodes \subseteq Store!ErrorCodes
  BY SameTypes DEF Store!ErrorCodes, NoScan
<1>2. <<>> \in Seq(Commands)
  BY EmptySeq
<1> QED
  BY <1>1, <1>2
  DEF NoJob, NoTerminal, NoFailure, RequestCommand, ShutdownCommand, FinishedCommand,
   Jobs, Commands, Messages, Results, Terminals, Failures

\* What a failing or succeeding call does to the counters.
LEMMA SpentStep ==
  ASSUME spent \in Counts
  PROVE  /\ Busy => spent' \in Counts /\ spent'.internal = spent.internal
         /\ Internal => spent' \in Counts /\ spent'.internal # 0
         /\ Commits => spent' = spent
BY DEF Counts, Busy, Internal, Commits

LEMMA ReplyTyped ==
  ASSUME Typed, NEW answer \in Answers, NEW s \in Nat, NEW n \in Nat, Reply(answer, s, n)
  PROVE  requester' \in [Requesters -> Calls] /\ job' = NoJob /\ pc' = "wait"
<1>1. job' = NoJob /\ pc' = "wait"
  BY DEF Reply, Goto
<1>2. requester' = requester \/ requester' = [requester EXCEPT ![job.caller].state = "done",
                                         ![job.caller].answer = answer,
                                         ![job.caller].scan = s,
                                         ![job.caller].revision = n]
  BY DEF Reply
<1>3. CASE requester' = requester
  BY <1>1, <1>3 DEF Typed
<1>4. CASE requester' = [requester EXCEPT ![job.caller].state = "done",
                                         ![job.caller].answer = answer,
                                         ![job.caller].scan = s,
                                         ![job.caller].revision = n]
  <2> DEFINE c  == job.caller
             q1 == [requester EXCEPT ![c].state = "done"]
             q2 == [q1 EXCEPT ![c].answer = answer]
             q3 == [q2 EXCEPT ![c].scan = s]
             q4 == [q3 EXCEPT ![c].revision = n]
  <2>1. q1 \in [Requesters -> Calls]
    BY DEF Typed, Calls
  <2>2. q2 \in [Requesters -> Calls]
    <3> HIDE DEF q1
    <3> QED BY <2>1 DEF Calls
  <2>3. q3 \in [Requesters -> Calls]
    <3> HIDE DEF q2
    <3> QED BY <2>2 DEF Calls
  <2>4. q4 \in [Requesters -> Calls]
    <3> HIDE DEF q3
    <3> QED BY <2>3 DEF Calls
  <2>5. requester' = q4
    BY <1>4
  <2> QED BY <1>1, <2>4, <2>5
<1> QED BY <1>2, <1>3, <1>4

LEMMA ExitTyped ==
  ASSUME Typed, NEW st \in [Stoppers -> Stops], Exit(st),
         UNCHANGED workers, spent' \in Counts
  PROVE  Typed'
<1>1. requester' \in [Requesters -> Calls]
  <2>1. ASSUME NEW q \in Calls PROVE [q EXCEPT !.state = "done", !.answer = "shutting_down"] \in Calls
    BY DEF Calls, Answers
  <2> QED BY <2>1 DEF Exit, Typed
<1>2. stopper' \in [Stoppers -> Stops]
  BY DEF Exit, Stops
<1> QED BY <1>1, <1>2, Values DEF Exit, Typed, Locations, Stopping, Goto

\* The jobs the event loop makes of what it takes up.
LEMMA JobValues ==
  /\ \A j \in Jobs, s \in Nat, code \in Store!ErrorCodes : [j EXCEPT !.scan = s, !.code = code] \in Jobs
  /\ \A j \in Jobs, b \in BOOLEAN : [j EXCEPT !.shutting = b] \in Jobs
  /\ \A c \in Commands :
       [NoJob EXCEPT !.caller = c.caller, !.scan = c.scan, !.result = c.result] \in Jobs
  /\ \A t \in Terminals : [NoJob EXCEPT !.retrying = TRUE, !.scan = t.scan, !.result = t.result] \in Jobs
  /\ \A f \in Failures : [NoJob EXCEPT !.retrying = TRUE, !.scan = f.scan, !.code = f.code] \in Jobs
  /\ [NoJob EXCEPT !.retrying = TRUE] \in Jobs
  /\ \A j \in Jobs : j.scan \in Nat /\ j.code \in Store!ErrorCodes /\ j.result \in Results
                    /\ [scan |-> j.scan, result |-> j.result] \in Terminals
                    /\ [scan |-> j.scan, code |-> j.code] \in Failures
<1>1. NoJob \in Jobs
  BY Values
<1> QED BY <1>1 DEF Jobs, Terminals, Failures, Commands, Messages

LEMMA QueueTyped ==
  ASSUME queue \in Seq(Commands)
  PROVE  /\ \A c \in Commands : Append(queue, c) \in Seq(Commands)
         /\ queue # <<>> => Head(queue) \in Commands /\ Tail(queue) \in Seq(Commands)
BY HeadTailProperties, AppendProperties

SlotTyped == meta.slot.scan \in Nat /\ meta.slot.enqueued \in Nat

LEMMA SlotIsTyped == Consistent => SlotTyped
BY DEF Consistent, Store!TypeOK, Store!Meta, Store!Slot, SlotTyped

LEMMA TypedSlotAfter == Consistent' => meta'.slot.scan \in Nat /\ meta'.slot.enqueued \in Nat
<1>1. Consistent' => SlotTyped'
  BY SlotIsTyped, PTL
<1> QED BY <1>1 DEF SlotTyped

\* The constants that the actions assign.
LEMMA Lists ==
  /\ {"start_failed", "enqueue_failed", "source_changed", "shutting_down", "recovering",
      "started", "coalesced"} \subseteq Answers
  /\ {"new", "sending", "waiting", "ok", "already_stopped",
          "unavailable", "not_persisted", "lost"} \subseteq Stops
  /\ NoScan = 0
BY DEF Answers, Stops, NoScan, Store!NoScan

LEMMA CallerValues ==
  /\ \A f \in [Stoppers -> Stops], x \in Stoppers \union {Nobody, job.caller}, v \in Stops :
       [f EXCEPT ![x] = v] \in [Stoppers -> Stops]
  /\ \A q \in Calls, n \in Nat, a \in Answers :
       /\ [q EXCEPT !.state = "lost"] \in Calls /\ [q EXCEPT !.state = "waiting"] \in Calls
       /\ [q EXCEPT !.state = "done", !.answer = a] \in Calls
       /\ [q EXCEPT !.state = "sending", !.asked = n] \in Calls
  /\ \A f \in [Requesters -> Calls], r \in Requesters, q \in Calls :
       [f EXCEPT ![r] = q] \in [Requesters -> Calls]
BY DEF Calls

LEMMA ReplyShutdownTyped ==
  ASSUME Typed, NEW v \in Stops, ReplyShutdown(v)
  PROVE  stopper' \in [Stoppers -> Stops] /\ shutdownReply' \in Stoppers \union {Nobody}
BY CallerValues DEF Typed, ReplyShutdown

\* Each action keeps the types.
LEMMA RecoverReadTyped == ASSUME Typed, Consistent, Consistent', RecoverRead PROVE Typed'
BY Values, SpentStep, TypedMeta, ExitTyped, Lists
DEF RecoverRead, Typed, Goto, Unchanged, loopVars, callVars, Locations, Recovery, Requesting,
    Terminating, Stopping

LEMMA RecoverInterruptTyped ==
  ASSUME Typed, Consistent, Consistent', RecoverInterrupt
  PROVE  Typed'
BY Values, SpentStep, TypedMeta, ExitTyped, Lists
DEF RecoverInterrupt, Typed, Goto, InternalOr, Refused, Unchanged, loopVars, callVars,
    Locations,
    Recovery, Requesting, Terminating, Stopping

LEMMA RecoverCheckTyped == ASSUME Typed, Consistent, Consistent', RecoverCheck PROVE Typed'
BY Values, TypedMeta, Lists
DEF RecoverCheck, Typed, Goto, loopVars, callVars, storeVars, Locations, Recovery, Requesting,
    Terminating, Stopping

LEMMA RecoverFollowupTyped ==
  ASSUME Typed, Consistent, Consistent', RecoverFollowup
  PROVE  Typed'
<1>1. job' \in Jobs
  <2>1. ASSUME NEW code \in Store!StartFailedCodes, job' = [job EXCEPT !.scan = meta.slot.scan, !.code = code]
        PROVE job' \in Jobs
    BY <2>1, Values, JobValues, TypedMeta DEF Typed
  <2> QED BY <2>1 DEF RecoverFollowup, Typed
<1>2. spent' \in Counts
  BY SpentStep
  DEF RecoverFollowup, CannotStartFollowup, InternalOr, SourceChanged, Refused, Typed
<1>3. active' \in Nat /\ workers' \subseteq Nat /\ cancelled' \in BOOLEAN
  BY FollowupCall DEF RecoverFollowup, SpawnWorker, NoSpawn, Occupies, Typed
<1> QED
  BY <1>1, <1>2, <1>3
  DEF RecoverFollowup, Typed, Goto, Locations, Recovery, Requesting, Terminating, Stopping,
      callVars

LEMMA RecoverFailTyped == ASSUME Typed, Consistent, Consistent', RecoverFail PROVE Typed'
BY Values, SpentStep, ExitTyped, Lists
DEF RecoverFail, Typed, Goto, InternalOr, Refused, Unchanged, loopVars, callVars, Locations,
    Recovery, Requesting, Terminating, Stopping

LEMMA RecoverStartupTyped == ASSUME Typed, Consistent, Consistent', RecoverStartup PROVE Typed'
BY Values, SpentStep, StartCall
DEF RecoverStartup, Typed, Goto, InternalOr, Refused, SourceChanged, SpawnWorker, NoSpawn,
    Unchanged, callVars, Locations, Recovery, Requesting, Terminating, Stopping, Occupies

LEMMA OpenCheckTyped == ASSUME Typed, Consistent, Consistent', OpenCheck PROVE Typed'
BY Values, Lists
DEF OpenCheck, Typed, Goto, loopVars, callVars, storeVars, Locations, Recovery, Requesting,
    Terminating, Stopping

LEMMA OpenStoreTyped == ASSUME Typed, Consistent, Consistent', OpenStore PROVE Typed'
BY Values, Lists
DEF OpenStore, Typed, Goto, loopVars, callVars, storeVars, Locations, Recovery, Requesting,
    Terminating, Stopping

LEMMA ReceiveTyped == ASSUME Typed, Consistent, Consistent', Receive PROVE Typed'
<1>1. job' \in Jobs /\ queue' \in Seq(Commands)
  BY QueueTyped, JobValues DEF Receive, Typed
<1>2. pc' \in Locations
  BY QueueTyped
  DEF Receive, Typed, Commands, Messages, Goto, Locations, Recovery, Requesting, Terminating,
      Stopping
<1>3. pc' \in Stopping => job'.caller \in Stoppers
  <2>1. Head(queue) \in Commands
    BY QueueTyped DEF Receive, Typed
  <2>2. Head(queue).kind # "shutdown" => pc' \notin Stopping
    BY <2>1 DEF Receive, Goto, Stopping, Commands, Messages
  <2>3. job'.caller = Head(queue).caller
    BY Values DEF Receive, Jobs
  <2> QED BY <2>1, <2>2, <2>3 DEF Commands
<1> QED BY <1>1, <1>2, <1>3 DEF Receive, Typed, callVars

LEMMA RetryDueTyped == ASSUME Typed, Consistent, Consistent', RetryDue PROVE Typed'
BY Values, JobValues, Lists
DEF RetryDue, Typed, Goto, loopVars, callVars, storeVars, Locations, Recovery, Requesting,
    Terminating, Stopping

LEMMA NoTickTyped == ASSUME Typed, Consistent, Consistent', NoTick PROVE Typed'
BY Values, Lists
DEF NoTick, Typed, Goto, loopVars, callVars, storeVars, Locations, Recovery, Requesting,
    Terminating, Stopping

LEMMA LoopCheckTyped == ASSUME Typed, Consistent, Consistent', LoopCheck PROVE Typed'
BY Values, ExitTyped, Lists
DEF LoopCheck, Typed, Goto, loopVars, callVars, storeVars, Locations, Recovery, Requesting,
    Terminating, Stopping

LEMMA RequestCheckTyped == ASSUME Typed, Consistent, Consistent', RequestCheck PROVE Typed'
BY Values, ReplyTyped, Lists
DEF RequestCheck, Typed, Goto, KeptByRequest, loopVars, callVars, storeVars, Locations,
    Recovery,
    Requesting, Terminating, Stopping

LEMMA RequestStateTyped == ASSUME Typed, Consistent, Consistent', RequestState PROVE Typed'
BY Values, SpentStep, TypedMeta, ReplyTyped, TypedSlotAfter, Lists
DEF RequestState, Typed, Goto, Unchanged, Coalesce, KeptByRequest, Locations, Recovery,
    Requesting,
    Terminating, Stopping

LEMMA RequestReserveTyped == ASSUME Typed, Consistent, Consistent', RequestReserve PROVE Typed'
BY Values, SpentStep, ReplyTyped, TypedSlotAfter, Lists
DEF RequestReserve, Typed, InternalOr, Refused, SourceChanged, Unchanged, Coalesce,
    KeptByRequest,
    Goto, Locations, Recovery, Requesting, Terminating, Stopping

LEMMA RequestStartTyped == ASSUME Typed, Consistent, Consistent', RequestStart PROVE Typed'
<1>1. active' \in Nat /\ workers' \subseteq Nat /\ cancelled' \in BOOLEAN
  BY StartCall DEF RequestStart, SpawnWorker, NoSpawn, Occupies, Typed
<1>2. spent' \in Counts
  BY SpentStep DEF RequestStart, InternalOr, SourceChanged, Refused, Typed
<1>3. requester' \in [Requesters -> Calls] /\ job' = NoJob /\ pc' = "wait"
  <2>1. Store!NewScan \in Nat /\ Store!NextRevision \in Nat
    BY TypedMeta DEF Store!NewScan, Store!NextRevision
  <2> QED BY <2>1, ReplyTyped, Lists DEF RequestStart
<1> QED
  BY <1>1, <1>2, <1>3, Values
  DEF RequestStart, Typed, Goto, Locations, Recovery, Requesting, Terminating, Stopping,
      KeptByRequest

LEMMA TerminalCheckTyped == ASSUME Typed, Consistent, Consistent', TerminalCheck PROVE Typed'
BY Values, JobValues, Lists
DEF TerminalCheck, Typed, Goto, loopVars, callVars, storeVars, Locations, Recovery, Requesting,
    Terminating, Stopping

LEMMA TerminalMarkTyped == ASSUME Typed, Consistent, Consistent', TerminalMark PROVE Typed'
<1>1. spent' \in Counts
  BY SpentStep DEF TerminalMark, InternalOr, Refused, Typed
<1>2. active' \in Nat /\ pendingTerminal' \in Terminals
  <2>1. [scan |-> job.scan, result |-> job.result] \in Terminals
    BY JobValues DEF Typed
  <2> QED BY <2>1, Lists DEF TerminalMark, Typed
<1>3. stopper' \in [Stoppers -> Stops] /\ shutdownReply' \in Stoppers \union {Nobody}
  BY ReplyShutdownTyped, Lists DEF TerminalMark, Typed
<1> QED
  BY <1>1, <1>2, <1>3
  DEF TerminalMark, Typed, Goto, Locations, Recovery, Requesting, Terminating, Stopping

LEMMA TryCheckTyped == ASSUME Typed, Consistent, Consistent', TryCheck PROVE Typed'
BY Values, Lists
DEF TryCheck, Typed, Goto, loopVars, callVars, storeVars, Locations, Recovery, Requesting,
    Terminating, Stopping

LEMMA TryStateTyped == ASSUME Typed, Consistent, Consistent', TryState PROVE Typed'
BY Values, SpentStep, TypedMeta
DEF TryState, Typed, Goto, Unchanged, callVars, Locations, Recovery, Requesting, Terminating,
    Stopping

LEMMA TryStartTyped == ASSUME Typed, Consistent, Consistent', TryStart PROVE Typed'
<1>1. job' \in Jobs
  <2>1. ASSUME NEW code \in Store!StartFailedCodes, job' = [job EXCEPT !.scan = meta.slot.scan, !.code = code]
        PROVE job' \in Jobs
    BY <2>1, Values, JobValues, TypedMeta DEF Typed
  <2> QED BY <2>1 DEF TryStart, Typed
<1>2. spent' \in Counts
  BY SpentStep DEF TryStart, CannotStartFollowup, InternalOr, SourceChanged, Refused, Typed
<1>3. active' \in Nat /\ workers' \subseteq Nat /\ cancelled' \in BOOLEAN
  BY FollowupCall DEF TryStart, SpawnWorker, NoSpawn, Occupies, Typed
<1> QED
  BY <1>1, <1>2, <1>3
  DEF TryStart, Typed, Goto, Locations, Recovery, Requesting, Terminating, Stopping, callVars

LEMMA FollowupFailureTyped ==
  ASSUME Typed, Consistent, Consistent', FollowupFailure
  PROVE  Typed'
BY Values, JobValues, SpentStep
DEF FollowupFailure, Typed, Goto, InternalOr, Refused, Unchanged, callVars, Locations, Recovery,
    Requesting, Terminating, Stopping

LEMMA StopBeginTyped == ASSUME Typed, Consistent, Consistent', StopBegin PROVE Typed'
BY Values, Lists
DEF StopBegin, Typed, Goto, loopVars, callVars, storeVars, Locations, Recovery, Requesting,
    Terminating, Stopping

LEMMA StopStateTyped == ASSUME Typed, Consistent, Consistent', StopState PROVE Typed'
<1>1. spent' \in Counts
  BY SpentStep DEF StopState, Typed
<1>2. ASSUME StopUnpersisted PROVE Typed'
  BY <1>1, <1>2, CallerValues, Lists, ExitTyped DEF StopUnpersisted, Typed
<1> QED
  BY <1>1, <1>2
  DEF StopState, Typed, Goto, Locations, Recovery, Requesting, Terminating, Stopping, loopVars,
      callVars

LEMMA StopFailTyped == ASSUME Typed, Consistent, Consistent', StopFail PROVE Typed'
<1>1. spent' \in Counts
  BY SpentStep DEF StopFail, Typed, InternalOr, Refused
<1>2. ASSUME StopUnpersisted PROVE Typed'
  BY <1>1, <1>2, CallerValues, Lists, ExitTyped DEF StopUnpersisted, Typed
<1> QED
  BY <1>1, <1>2
  DEF StopFail, Typed, Goto, Locations, Recovery, Requesting, Terminating, Stopping, loopVars,
      callVars

LEMMA StopActiveTyped == ASSUME Typed, Consistent, Consistent', StopActive PROVE Typed'
<1>1. CASE active # NoScan
  <2>1. stopper' \in [Stoppers -> Stops]
    BY <1>1, CallerValues, Lists DEF StopActive, Typed
  <2>2. shutdownReply' \in Stoppers
    BY <1>1 DEF StopActive, Typed, Stopping
  <2> QED BY <1>1, <2>1, <2>2, Values DEF StopActive, Typed, Goto, Locations, Stopping
<1>2. CASE active = NoScan
  BY <1>2, CallerValues, Lists, ExitTyped DEF StopActive, Typed
<1> QED BY <1>1, <1>2

LEMMA StartTyped == ASSUME Typed, Consistent, Consistent', Start PROVE Typed'
BY Values
DEF Start, Typed, Goto, loopVars, callVars, Locations, Recovery, Requesting, Terminating,
    Stopping

LEMMA CrashTyped == ASSUME Typed, Consistent, Consistent', Crash PROVE Typed'
<1>1. requester' \in [Requesters -> Calls] /\ stopper' \in [Stoppers -> Stops]
  BY CallerValues, Lists DEF Crash, Typed, Stops
<1>2. spent' \in Counts
  BY DEF Crash, Typed, Counts
<1> QED
  BY <1>1, <1>2, Values
  DEF Crash, Typed, Goto, Locations, Recovery, Requesting, Terminating, Stopping

LEMMA TickTyped == ASSUME Typed, Consistent, Consistent', Tick PROVE Typed'
<1>1. spent' \in Counts
  BY DEF Tick, Typed, Counts
<1> QED
  BY <1>1, Values
  DEF Tick, Typed, Goto, Locations, Recovery, Requesting, Terminating, Stopping, callVars

LEMMA RequesterCallsTyped ==
  ASSUME Typed, Consistent, Consistent', NEW r \in Requesters, RequesterCalls(r)
  PROVE  Typed'
<1>1. requester' \in [Requesters -> Calls]
  <2>1. requester[r] \in Calls /\ meta.revision \in Nat
    BY TypedMeta DEF Typed
  <2>2. availability \in Answers \/ availability \in {"ready", "stopped"}
    BY DEF Typed, Answers
  <2> QED BY <2>1, <2>2, CallerValues, Lists DEF RequesterCalls, Typed
<1> QED BY <1>1 DEF RequesterCalls, Typed, loopVars

LEMMA RequesterSendsTyped ==
  ASSUME Typed, Consistent, Consistent', NEW r \in Requesters, RequesterSends(r)
  PROVE  Typed'
<1>1. requester' \in [Requesters -> Calls]
  <2> DEFINE q1 == [requester EXCEPT ![r].state = "done"]
             q2 == [q1 EXCEPT ![r].answer = "shutting_down"]
  <2>1. q1 \in [Requesters -> Calls]
    BY DEF Typed, Calls
  <2>2. q2 \in [Requesters -> Calls]
    <3> HIDE DEF q1
    <3> QED BY <2>1, Lists DEF Calls
  <2>3. [requester EXCEPT ![r].state = "waiting"] \in [Requesters -> Calls]
    BY DEF Typed, Calls
  <2> QED BY <2>2, <2>3 DEF RequesterSends
<1> QED BY <1>1, QueueTyped, Values DEF RequesterSends, Typed, loopVars

LEMMA StopperCallsTyped ==
  ASSUME Typed, Consistent, Consistent', NEW x \in Stoppers, StopperCalls(x)
  PROVE  Typed'
BY Values, Lists
DEF StopperCalls, Typed, loopVars, callVars, storeVars

LEMMA StopperSendsTyped ==
  ASSUME Typed, Consistent, Consistent', NEW x \in Stoppers, StopperSends(x)
  PROVE  Typed'
BY Values, QueueTyped, Lists
DEF StopperSends, Typed, loopVars, callVars, storeVars

LEMMA WorkerFinishesTyped ==
  ASSUME Typed, Consistent, Consistent', NEW s \in workers, WorkerFinishes(s)
  PROVE  Typed'
BY Values, QueueTyped, Lists
DEF WorkerFinishes, Typed, loopVars, callVars, storeVars

------------------------------------------------------------------------------
(* The invariant of the event loop. *)

\* Recovery before the coordinator opens; looking for a queued follow-up; the
\* states that accept requests or will; an event loop that has finished off the
\* scan of an earlier process; the handler that commits a result.
Starting == {"recover", "recover_interrupt", "recover_check", "recover_followup",
             "recover_fail", "recover_startup"}
Trying   == {"try", "try_state", "try_start", "followup_failure"}
Opening  == {"ready", "recovering"}
Past     == LoopAlive /\ pc \notin {"recover", "recover_interrupt"}
Ending   == pc \in {"terminal", "terminal_mark"}
Queued   == meta.slot.state = "queued"

\* The results in the channel.
FinishedIn(q) == {i \in DOMAIN q : q[i].kind = "finished"}

\* A process starts with nothing, and leaves nothing behind.
Clean ==
  /\ pc = "down" => queue = <<>>
  /\ pc \in Starting \union {"down", "exited"} =>
       /\ active = 0 /\ pendingTerminal = NoTerminal /\ pendingFailure = NoFailure
       /\ retry = FALSE
  /\ pc \in Starting \union {"down"} => workers = {} /\ FinishedIn(queue) = {}

\* The event loop and the workers run the scan the database calls active.
Agree ==
  /\ Past => active = meta.active
  /\ \A s \in workers : s = meta.active /\ s # 0

\* What each location takes for granted since an earlier step checked it.
Where ==
  /\ pc = "recover_interrupt" => meta.active # 0
  /\ pc \in {"recover_check", "recover_followup", "recover_fail", "recover_startup",
             "try_state", "try_start", "followup_failure", "request_start"} => active = 0
  /\ pc = "request_reserve" => active # 0
  /\ pc \in {"recover_followup", "recover_fail", "try_start", "followup_failure", "stop_fail"} =>
       Queued
  /\ pc \in {"recover_startup", "open_store", "request_reserve", "request_start"} => ~Queued
  /\ pc \in {"recover_fail", "followup_failure"} =>
       job.scan = meta.slot.scan /\ job.code \in Store!StartFailedCodes
  /\ pc \in {"stop_state", "stop_fail", "stop_active"} => availability = "shutting_down"
  /\ pc = "terminal_mark" /\ job.shutting => availability \notin Opening
  /\ pc = "open" /\ Queued => availability \notin Opening
  /\ pc \in Starting \union {"open", "open_store"} => availability # "ready"

\* A follow-up that could not start behind a running scan blocks the slot: then
\* the coordinator is shutting down or its source has changed.
SlotClear ==
  Past /\ active # 0 /\ meta.slot.state = "start_failed" =>
    /\ availability \notin Opening
    /\ pc \notin {"open", "open_store", "request_state", "request_reserve", "request_start"}

\* A result in the channel is the only token of the active scan.
ResultFits ==
  /\ FinishedIn(queue) # {} =>
       active # 0 /\ workers = {} /\ pendingTerminal = NoTerminal /\ ~Ending
  /\ \A i \in FinishedIn(queue) :
       queue[i].scan = active /\ \A j \in FinishedIn(queue) : i = j

\* So is a pending terminal, and the handler that commits a result.
TerminalFits ==
  /\ pendingTerminal # NoTerminal =>
       pendingTerminal.scan = active /\ active # 0 /\ workers = {} /\ ~Ending /\ retry
  /\ Ending => job.scan = active /\ active # 0 /\ workers = {}

\* A pending follow-up failure is that of the queued slot, and is retried.
FailureFits ==
  pendingFailure # NoFailure =>
    /\ active = 0 /\ retry /\ pc \notin Trying
    /\ pendingFailure.code \in Store!StartFailedCodes
    /\ pc # "stop_active" => Queued /\ pendingFailure.scan = meta.slot.scan

\* The active scan has a token.
Attended ==
  Past /\ spent.internal = 0 /\ active # 0 =>
    active \in workers \/ FinishedIn(queue) # {} \/ pendingTerminal # NoTerminal \/ Ending

\* The queued follow-up has a token when nothing runs.
Scheduled ==
  Past /\ spent.internal = 0 /\ Queued /\ active = 0 /\ availability = "ready" =>
    retry \/ pc \in Trying

Control == /\ Clean /\ Agree /\ Where /\ SlotClear /\ ResultFits /\ TerminalFits /\ FailureFits
           /\ Attended /\ Scheduled
Base == Typed /\ Consistent /\ Control

\* The loop that returns leaves nothing behind.
LEMMA ExitHolds ==
  ASSUME Base, NEW st, Exit(st), UNCHANGED storeVars, UNCHANGED workers
  PROVE  Control'
<1>1. /\ pc' = "exited" /\ active' = 0 /\ pendingTerminal' = NoTerminal
      /\ pendingFailure' = NoFailure /\ retry' = FALSE /\ queue' = <<>>
      /\ meta' = meta /\ workers' = workers
  BY Lists DEF Exit, Goto, storeVars
<1>2. FinishedIn(<<>>) = {}
  BY EmptySeq DEF FinishedIn
<1>3. Clean' /\ Agree'
  BY <1>1, <1>2 DEF Base, Control, Clean, Agree, Past, LoopAlive, Starting
<1>4. Where' /\ SlotClear' /\ Attended' /\ Scheduled'
  BY <1>1 DEF Where, SlotClear, Attended, Scheduled, Past, LoopAlive, Starting
<1>5. ResultFits' /\ TerminalFits' /\ FailureFits'
  BY <1>1, <1>2 DEF ResultFits, TerminalFits, FailureFits, Ending
<1> QED BY <1>3, <1>4, <1>5 DEF Control

\* What Consistent says of the slot.
LEMMA SlotFacts ==
  ASSUME Consistent
  PROVE  /\ Queued => Store!SlotQueued(meta.slot.scan) /\ meta.slot.scan # 0
         /\ meta.active # 0 => Store!IsActive(meta.active)
         /\ meta.state = "running" <=> meta.active # 0
         /\ meta.active # 0 => Store!RowIs(meta.active, "running")
         /\ meta.slot.state = "start_failed" => Store!StartFailedProjection
         /\ meta.slot.state \in {"none", "queued", "start_failed"}
<1>1. meta.slot.state \in {"none", "queued", "start_failed"}
  BY DEF Consistent, Store!TypeOK, Store!Meta, Store!Slot
<1>2. meta.state = "running" <=> meta.active # 0
  BY TypedMeta
<1>3. meta.active # 0 => Store!RowIs(meta.active, "running")
  BY SameTypes DEF Consistent, Store!ProjectionMatchesRows, Store!RowIs
<1>4. Queued => Store!SlotQueued(meta.slot.scan) /\ meta.slot.scan # 0
  BY SameTypes DEF Consistent, Store!ProjectionMatchesRows, Store!SlotQueued, Queued,
     Store!ReadableState, Store!ValidScanState
<1> QED BY <1>1, <1>2, <1>3, <1>4 DEF Store!IsActive, Consistent, Store!ProjectionMatchesRows

\* No call is refused by the checks of the store while its source is ready.
LEMMA CallsAreLegal == Base => StoreCallsAreLegal
<1> SUFFICES ASSUME Base PROVE StoreCallsAreLegal
  OBVIOUS
<1> USE DEF Base, Control
<1>1. pc = "recover_interrupt" => Store!IsActive(meta.active)
  BY SlotFacts DEF Where
<1>2. /\ pc \in {"recover_followup", "try_start"} /\ Store!Ready =>
            Store!CanStartFollowup(meta.slot.scan)
      /\ pc \in {"recover_startup", "request_start"} /\ Store!Ready => Store!CanStart
  BY SlotFacts, SameTypes
  DEF Where, Agree, Past, LoopAlive, Store!CanStartFollowup, Store!CanStart, Queued
<1>3. pc = "request_reserve" /\ Store!Ready => Store!CanReserve
  BY SlotFacts, SameTypes DEF Where, Agree, SlotClear, Past, LoopAlive, Store!CanReserve, Queued
<1>4. pc = "terminal_mark" => Store!IsActive(job.scan)
  BY SlotFacts, SameTypes DEF TerminalFits, Agree, Ending, Past, LoopAlive
<1>5. /\ pc \in {"recover_fail", "followup_failure"} => Store!SlotQueued(job.scan)
      /\ pc = "stop_fail" => Store!SlotQueued(meta.slot.scan)
  BY SlotFacts DEF Where
<1> QED BY <1>1, <1>2, <1>3, <1>4, <1>5 DEF StoreCallsAreLegal

\* The two properties about what is left to do follow from the tokens.
LEMMA ActiveIsAttended == Base => ActiveScanIsAttended
BY SameTypes
DEF Base, Control, ActiveScanIsAttended, Attended, Waiting, Past, LoopAlive, Agree,
    TerminalFits, ResultFits,
   FinishedIn, Finished, NoScan, Ending

LEMMA FollowupIsScheduled == Base => QueuedFollowupIsScheduled
BY SameTypes
DEF Base, Control, QueuedFollowupIsScheduled, Scheduled, Past, LoopAlive, Trying, NoScan, Queued

\* The results in the channel after a command is taken from it, or added.
LEMMA TakenFromQueue ==
  ASSUME NEW q \in Seq(Commands), q # <<>>
  PROVE  /\ q[1] = Head(q)
         /\ Head(q).kind = "finished" <=> 1 \in FinishedIn(q)
         /\ \A i \in FinishedIn(Tail(q)) :
              i \in Nat /\ i # 0 /\ i + 1 \in FinishedIn(q) /\ Tail(q)[i] = q[i + 1]
         /\ Head(q).kind # "finished" =>
              \A i \in FinishedIn(q) : i - 1 \in FinishedIn(Tail(q))
<1>1. /\ Len(q) \in Nat \ {0} /\ DOMAIN q = 1 .. Len(q) /\ Head(q) = q[1]
      /\ Tail(q) \in Seq(Commands) /\ Len(Tail(q)) = Len(q) - 1
      /\ \A i \in 1 .. Len(Tail(q)) : Tail(q)[i] = q[i + 1]
  BY HeadTailProperties, LenProperties, EmptySeq
<1>2. DOMAIN Tail(q) = 1 .. Len(q) - 1
  BY <1>1, LenProperties
<1> QED BY <1>1, <1>2 DEF FinishedIn

LEMMA AddedToQueue ==
  ASSUME NEW q \in Seq(Commands), NEW c \in Commands
  PROVE  /\ c.kind # "finished" => FinishedIn(Append(q, c)) = FinishedIn(q)
         /\ c.kind = "finished" => FinishedIn(Append(q, c)) = FinishedIn(q) \union {Len(q) + 1}
         /\ \A i \in FinishedIn(q) : Append(q, c)[i] = q[i]
         /\ Append(q, c)[Len(q) + 1] = c
<1>1. /\ Len(q) \in Nat /\ DOMAIN q = 1 .. Len(q)
      /\ DOMAIN Append(q, c) = 1 .. Len(q) + 1
      /\ \A i \in 1 .. Len(q) : Append(q, c)[i] = q[i]
      /\ Append(q, c)[Len(q) + 1] = c
  BY AppendProperties, LenProperties
<1> QED BY <1>1 DEF FinishedIn

LEMMA NothingFinished == FinishedIn(<<>>) = {}
BY EmptySeq DEF FinishedIn

------------------------------------------------------------------------------
(* Each action keeps Control: first its effect, then the groups.  *)

\* The conjuncts of Control in three groups, by what a step disturbs.
Places == Clean /\ Agree /\ Where /\ SlotClear
Tokens == ResultFits /\ TerminalFits /\ FailureFits
Tasks  == Attended /\ Scheduled

LEMMA Parts == Control <=> Places /\ Tokens /\ Tasks
BY DEF Control, Places, Tokens, Tasks

\* Leaving what the other parts are about, a step that moves the loop.
tokenVars == <<meta, active, workers, queue, pendingTerminal, pendingFailure, retry>>

LEMMA InternalOnlyGrows ==
  ASSUME Base, Busy \/ Commits
  PROVE  spent'.internal = spent.internal
BY SpentStep DEF Base, Typed

LEMMA InternalShows ==
  ASSUME Base, Internal
  PROVE  spent'.internal # 0
BY SpentStep DEF Base, Typed

LEMMA RecoverReadHolds == ASSUME Base, RecoverRead PROVE Control'
<1> USE DEF Base, Control
<1>1. \/ \E st : Exit(st) /\ UNCHANGED storeVars /\ UNCHANGED workers
      \/ /\ pc = "recover" /\ UNCHANGED tokenVars /\ UNCHANGED availability
         /\ \/ pc' = "recover"
            \/ pc' = "recover_interrupt" /\ meta.active # 0
            \/ pc' = "recover_check" /\ meta.active = 0
  BY Lists
  DEF RecoverRead, Goto, Unchanged, storeVars, loopVars, tokenVars
<1>2. ASSUME NEW st, Exit(st), UNCHANGED storeVars, UNCHANGED workers PROVE Control'
  BY <1>2, ExitHolds
<1>3. CASE /\ pc = "recover" /\ UNCHANGED tokenVars /\ UNCHANGED availability
           /\ \/ pc' = "recover"
              \/ pc' = "recover_interrupt" /\ meta.active # 0
              \/ pc' = "recover_check" /\ meta.active = 0
  <2>1. Places'
    BY <1>3
    DEF tokenVars, Places, Clean, Agree, Where, SlotClear, FailureFits, TerminalFits, Past,
        LoopAlive, Starting, Opening, Trying, Ending, Queued
  <2>2. Tokens'
    BY <1>3
    DEF tokenVars, Tokens, ResultFits, TerminalFits, FailureFits, Agree, Where, Clean, Starting,
        Trying, Ending, Queued, Past, LoopAlive
  <2>3. Tasks'
    BY <1>3
    DEF tokenVars, Tasks, Attended, Scheduled, Where, Clean, Agree, ResultFits, TerminalFits,
        FailureFits, Past, LoopAlive, Starting, Opening, Trying, Ending, Queued
  <2> QED BY <2>1, <2>2, <2>3, Parts, PTL
<1> QED BY <1>1, <1>2, <1>3

LEMMA RecoverInterruptHolds == ASSUME Base, RecoverInterrupt PROVE Control'
<1> USE DEF Base, Control
<1>1. \/ \E st : Exit(st) /\ UNCHANGED storeVars /\ UNCHANGED workers
      \/ /\ pc = "recover_interrupt" /\ pc' = "recover"
         /\ UNCHANGED <<active, workers, queue, pendingTerminal, pendingFailure, retry, availability>>
  BY CallsAreLegal
  DEF RecoverInterrupt, InternalOr, Refused, StoreCallsAreLegal, Goto, Unchanged, storeVars,
      loopVars, tokenVars
<1>2. ASSUME NEW st, Exit(st), UNCHANGED storeVars, UNCHANGED workers PROVE Control'
  BY <1>2, ExitHolds
<1>3. CASE /\ pc = "recover_interrupt" /\ pc' = "recover"
           /\ UNCHANGED <<active, workers, queue, pendingTerminal, pendingFailure, retry, availability>>
  <2>1. Places'
    BY <1>3
    DEF Places, Clean, Agree, Where, SlotClear, FailureFits, TerminalFits, Past, LoopAlive,
        Starting, Opening, Trying, Ending, Queued
  <2>2. Tokens'
    BY <1>3
    DEF Tokens, ResultFits, TerminalFits, FailureFits, Agree, Where, Clean, Starting, Trying,
        Ending, Queued, Past, LoopAlive
  <2>3. Tasks'
    BY <1>3
    DEF Tasks, Attended, Scheduled, Where, Clean, Agree, ResultFits, TerminalFits, FailureFits,
        Past, LoopAlive, Starting, Opening, Trying, Ending, Queued
  <2> QED BY <2>1, <2>2, <2>3, Parts, PTL
<1> QED BY <1>1, <1>2, <1>3

LEMMA RecoverCheckHolds == ASSUME Base, RecoverCheck PROVE Control'
<1> USE DEF Base, Control
<1>1. /\ pc = "recover_check" /\ UNCHANGED tokenVars /\ UNCHANGED <<availability, spent>>
      /\ \/ pc' = "open" /\ availability = "shutting_down"
         \/ pc' = "recover_followup" /\ Queued
         \/ pc' = "recover_startup" /\ ~Queued
  BY DEF RecoverCheck, Queued, Goto, Unchanged, storeVars, loopVars, tokenVars
<1>2. Places'
  BY <1>1
  DEF tokenVars, Places, Clean, Agree, Where, SlotClear, FailureFits, TerminalFits, Past,
      LoopAlive, Starting, Opening, Trying, Ending, Queued
<1>3. Tokens'
  BY <1>1
  DEF tokenVars, Tokens, ResultFits, TerminalFits, FailureFits, Agree, Where, Clean, Starting,
      Trying, Ending, Queued, Past, LoopAlive
<1>4. Tasks'
  BY <1>1
  DEF tokenVars, Tasks, Attended, Scheduled, Where, Clean, Agree, ResultFits, TerminalFits,
      FailureFits, Past, LoopAlive, Starting, Opening, Trying, Ending, Queued
<1> QED BY <1>2, <1>3, <1>4, Parts, PTL

LEMMA RecoverFollowupHolds == ASSUME Base, RecoverFollowup PROVE Control'
<1> USE DEF Base, Control
<1>1. Store!MarkFollowupStarted(meta.slot.scan) => Occupies(meta.slot.scan)
  BY FollowupCall
<1>2. ASSUME NEW code, job' = [job EXCEPT !.scan = meta.slot.scan, !.code = code]
      PROVE  job'.scan = meta.slot.scan /\ job'.code = code
  BY <1>2 DEF Typed, Jobs
<1>3. \/ /\ pc = "recover_followup" /\ pc' = "open"
         /\ \E s : Occupies(s) /\ active' = s /\ workers' = workers \union {s}
         /\ UNCHANGED <<queue, pendingTerminal, pendingFailure, retry, availability>>
      \/ /\ pc = "recover_followup" /\ pc' = "recover" /\ UNCHANGED tokenVars
         /\ UNCHANGED availability
      \/ /\ pc = "recover_followup" /\ pc' = "recover_fail" /\ UNCHANGED tokenVars
         /\ UNCHANGED availability
         /\ job'.scan = meta.slot.scan /\ job'.code \in Store!StartFailedCodes
  BY <1>1, <1>2
  DEF RecoverFollowup, CannotStartFollowup, InternalOr, SourceChanged, Refused, SpawnWorker,
      NoSpawn, Goto, Unchanged, storeVars, loopVars, tokenVars
<1>4. CASE /\ pc = "recover_followup" /\ pc' = "open"
           /\ \E s : Occupies(s) /\ active' = s /\ workers' = workers \union {s}
           /\ UNCHANGED <<queue, pendingTerminal, pendingFailure, retry, availability>>
  <2>1. Places'
    BY <1>4
    DEF Occupies, Places, Clean, Agree, Where, SlotClear, FailureFits, TerminalFits, Past,
        LoopAlive, Starting, Opening, Trying, Ending, Queued
  <2>2. Tokens'
    BY <1>4
    DEF Occupies, Tokens, ResultFits, TerminalFits, FailureFits, Agree, Where, Clean, Starting,
        Trying, Ending, Queued, Past, LoopAlive
  <2>3. Tasks'
    BY <1>4
    DEF Occupies, Tasks, Attended, Scheduled, Where, Clean, Agree, ResultFits, TerminalFits,
        FailureFits, Past, LoopAlive, Starting, Opening, Trying, Ending, Queued
  <2> QED BY <2>1, <2>2, <2>3, Parts, PTL
<1>5. CASE /\ pc = "recover_followup" /\ pc' = "recover" /\ UNCHANGED tokenVars
           /\ UNCHANGED availability
  <2>1. Places'
    BY <1>5
    DEF tokenVars, Places, Clean, Agree, Where, SlotClear, FailureFits, TerminalFits, Past,
        LoopAlive, Starting, Opening, Trying, Ending, Queued
  <2>2. Tokens'
    BY <1>5
    DEF tokenVars, Tokens, ResultFits, TerminalFits, FailureFits, Agree, Where, Clean, Starting,
        Trying, Ending, Queued, Past, LoopAlive
  <2>3. Tasks'
    BY <1>5
    DEF tokenVars, Tasks, Attended, Scheduled, Where, Clean, Agree, ResultFits, TerminalFits,
        FailureFits, Past, LoopAlive, Starting, Opening, Trying, Ending, Queued
  <2> QED BY <2>1, <2>2, <2>3, Parts, PTL
<1>6. CASE /\ pc = "recover_followup" /\ pc' = "recover_fail" /\ UNCHANGED tokenVars
           /\ UNCHANGED availability
           /\ job'.scan = meta.slot.scan /\ job'.code \in Store!StartFailedCodes
  <2>1. Places'
    BY <1>6
    DEF tokenVars, Places, Clean, Agree, Where, SlotClear, FailureFits, TerminalFits, Past,
        LoopAlive, Starting, Opening, Trying, Ending, Queued
  <2>2. Tokens'
    BY <1>6
    DEF tokenVars, Tokens, ResultFits, TerminalFits, FailureFits, Agree, Where, Clean, Starting,
        Trying, Ending, Queued, Past, LoopAlive
  <2>3. Tasks'
    BY <1>6
    DEF tokenVars, Tasks, Attended, Scheduled, Where, Clean, Agree, ResultFits, TerminalFits,
        FailureFits, Past, LoopAlive, Starting, Opening, Trying, Ending, Queued
  <2> QED BY <2>1, <2>2, <2>3, Parts, PTL
<1> QED BY <1>3, <1>4, <1>5, <1>6

LEMMA RecoverFailHolds == ASSUME Base, RecoverFail PROVE Control'
<1> USE DEF Base, Control
<1>1. Store!MarkFollowupStartFailed(job.scan, job.code) =>
        meta'.active = meta.active /\ meta'.slot.state = "start_failed"
  BY SlotFailsCall
<1>2. \/ \E st : Exit(st) /\ UNCHANGED storeVars /\ UNCHANGED workers
      \/ /\ pc = "recover_fail"
         /\ UNCHANGED <<active, workers, queue, pendingTerminal, pendingFailure, retry>>
         /\ meta'.active = meta.active /\ meta'.slot.state = "start_failed"
         /\ \/ pc' = "open" /\ availability' = "source_changed"
            \/ pc' = "recover" /\ availability' = availability
      \/ /\ pc = "recover_fail" /\ pc' = pc /\ UNCHANGED tokenVars
         /\ UNCHANGED <<job, availability>>
  BY <1>1
  DEF RecoverFail, InternalOr, Refused, StoreCallsAreLegal, Goto, Unchanged, storeVars,
      loopVars, tokenVars
<1>3. ASSUME NEW st, Exit(st), UNCHANGED storeVars, UNCHANGED workers PROVE Control'
  BY <1>3, ExitHolds
<1>4. CASE /\ pc = "recover_fail"
           /\ UNCHANGED <<active, workers, queue, pendingTerminal, pendingFailure, retry>>
           /\ meta'.active = meta.active /\ meta'.slot.state = "start_failed"
           /\ \/ pc' = "open" /\ availability' = "source_changed"
              \/ pc' = "recover" /\ availability' = availability
  <2>1. Places'
    BY <1>4
    DEF Places, Clean, Agree, Where, SlotClear, FailureFits, TerminalFits, Past, LoopAlive,
        Starting, Opening, Trying, Ending, Queued
  <2>2. Tokens'
    BY <1>4
    DEF Tokens, ResultFits, TerminalFits, FailureFits, Agree, Where, Clean, Starting, Trying,
        Ending, Queued, Past, LoopAlive
  <2>3. Tasks'
    BY <1>4
    DEF Tasks, Attended, Scheduled, Where, Clean, Agree, ResultFits, TerminalFits, FailureFits,
        Past, LoopAlive, Starting, Opening, Trying, Ending, Queued
  <2> QED BY <2>1, <2>2, <2>3, Parts, PTL
<1>5. CASE /\ pc = "recover_fail" /\ pc' = pc /\ UNCHANGED tokenVars
           /\ UNCHANGED <<job, availability>>
  <2>1. Places'
    BY <1>5
    DEF tokenVars, Places, Clean, Agree, Where, SlotClear, FailureFits, TerminalFits, Past,
        LoopAlive, Starting, Opening, Trying, Ending, Queued
  <2>2. Tokens'
    BY <1>5
    DEF tokenVars, Tokens, ResultFits, TerminalFits, FailureFits, Agree, Where, Clean, Starting,
        Trying, Ending, Queued, Past, LoopAlive
  <2>3. Tasks'
    BY <1>5
    DEF tokenVars, Tasks, Attended, Scheduled, Where, Clean, Agree, ResultFits, TerminalFits,
        FailureFits, Past, LoopAlive, Starting, Opening, Trying, Ending, Queued
  <2> QED BY <2>1, <2>2, <2>3, Parts, PTL
<1> QED BY <1>2, <1>3, <1>4, <1>5

LEMMA RecoverStartupHolds == ASSUME Base, RecoverStartup PROVE Control'
<1> USE DEF Base, Control
<1>1. \/ /\ pc = "recover_startup" /\ pc' = "open"
         /\ \E s : Occupies(s) /\ active' = s /\ workers' = workers \union {s}
         /\ UNCHANGED <<queue, pendingTerminal, pendingFailure, retry, availability>>
      \/ /\ pc = "recover_startup" /\ pc' \in {"recover", "open"} /\ UNCHANGED tokenVars
         /\ availability' \in {availability, "source_changed"}
  BY StartCall
  DEF RecoverStartup, InternalOr, SourceChanged, Refused, SpawnWorker, NoSpawn, Goto, Unchanged,
      storeVars, loopVars, tokenVars
<1>2. CASE /\ pc = "recover_startup" /\ pc' = "open"
           /\ \E s : Occupies(s) /\ active' = s /\ workers' = workers \union {s}
           /\ UNCHANGED <<queue, pendingTerminal, pendingFailure, retry, availability>>
  <2>1. Places'
    BY <1>2
    DEF Occupies, Places, Clean, Agree, Where, SlotClear, FailureFits, TerminalFits, Past,
        LoopAlive, Starting, Opening, Trying, Ending, Queued
  <2>2. Tokens'
    BY <1>2
    DEF Occupies, Tokens, ResultFits, TerminalFits, FailureFits, Agree, Where, Clean, Starting,
        Trying, Ending, Queued, Past, LoopAlive
  <2>3. Tasks'
    BY <1>2
    DEF Occupies, Tasks, Attended, Scheduled, Where, Clean, Agree, ResultFits, TerminalFits,
        FailureFits, Past, LoopAlive, Starting, Opening, Trying, Ending, Queued
  <2> QED BY <2>1, <2>2, <2>3, Parts, PTL
<1>3. CASE /\ pc = "recover_startup" /\ pc' \in {"recover", "open"} /\ UNCHANGED tokenVars
           /\ availability' \in {availability, "source_changed"}
  <2>1. Places'
    BY <1>3
    DEF tokenVars, Places, Clean, Agree, Where, SlotClear, FailureFits, TerminalFits, Past,
        LoopAlive, Starting, Opening, Trying, Ending, Queued
  <2>2. Tokens'
    BY <1>3
    DEF tokenVars, Tokens, ResultFits, TerminalFits, FailureFits, Agree, Where, Clean, Starting,
        Trying, Ending, Queued, Past, LoopAlive
  <2>3. Tasks'
    BY <1>3
    DEF tokenVars, Tasks, Attended, Scheduled, Where, Clean, Agree, ResultFits, TerminalFits,
        FailureFits, Past, LoopAlive, Starting, Opening, Trying, Ending, Queued
  <2> QED BY <2>1, <2>2, <2>3, Parts, PTL
<1> QED BY <1>1, <1>2, <1>3

LEMMA OpenCheckHolds == ASSUME Base, OpenCheck PROVE Control'
<1> USE DEF Base, Control
<1>1. /\ pc = "open" /\ UNCHANGED tokenVars /\ UNCHANGED <<availability, spent>>
      /\ \/ pc' = "open_store" /\ availability = "recovering"
         \/ pc' = "wait" /\ availability # "recovering"
  BY DEF OpenCheck, Goto, Unchanged, storeVars, loopVars, tokenVars
<1>2. Places'
  BY <1>1
  DEF tokenVars, Places, Clean, Agree, Where, SlotClear, FailureFits, TerminalFits, Past,
      LoopAlive, Starting, Opening, Trying, Ending, Queued
<1>3. Tokens'
  BY <1>1
  DEF tokenVars, Tokens, ResultFits, TerminalFits, FailureFits, Agree, Where, Clean, Starting,
      Trying, Ending, Queued, Past, LoopAlive
<1>4. Tasks'
  BY <1>1
  DEF tokenVars, Tasks, Attended, Scheduled, Where, Clean, Agree, ResultFits, TerminalFits,
      FailureFits, Past, LoopAlive, Starting, Opening, Trying, Ending, Queued
<1> QED BY <1>2, <1>3, <1>4, Parts, PTL

LEMMA OpenStoreHolds == ASSUME Base, OpenStore PROVE Control'
<1> USE DEF Base, Control
<1>1. /\ pc = "open_store" /\ pc' = "wait" /\ UNCHANGED tokenVars /\ UNCHANGED spent
  BY DEF OpenStore, Goto, Unchanged, storeVars, loopVars, tokenVars
<1>2. Places'
  BY <1>1
  DEF tokenVars, Places, Clean, Agree, Where, SlotClear, FailureFits, TerminalFits, Past,
      LoopAlive, Starting, Opening, Trying, Ending, Queued
<1>3. Tokens'
  BY <1>1
  DEF tokenVars, Tokens, ResultFits, TerminalFits, FailureFits, Agree, Where, Clean, Starting,
      Trying, Ending, Queued, Past, LoopAlive
<1>4. Tasks'
  BY <1>1
  DEF tokenVars, Tasks, Attended, Scheduled, Where, Clean, Agree, ResultFits, TerminalFits,
      FailureFits, Past, LoopAlive, Starting, Opening, Trying, Ending, Queued
<1> QED BY <1>2, <1>3, <1>4, Parts, PTL

LEMMA ReceiveHolds == ASSUME Base, Receive PROVE Control'
<1> USE DEF Base, Control
<1>1. Head(queue) \in Commands
  BY QueueTyped DEF Receive, Typed
<1>2. Head(queue).kind \in {"request", "shutdown", "finished"}
  BY <1>1 DEF Commands, Messages
<1>3. job'.scan = Head(queue).scan
  BY Values DEF Receive, Jobs
<1>4. /\ pc = "wait"
      /\ UNCHANGED <<meta, active, workers, pendingTerminal, pendingFailure, retry, availability, spent>>
      /\ \A i \in FinishedIn(queue') :
           i \in Nat /\ i # 0 /\ i + 1 \in FinishedIn(queue) /\ queue'[i] = queue[i + 1]
      /\ \/ /\ pc' \in {"request", "stop"}
            /\ \A i \in FinishedIn(queue) : i - 1 \in FinishedIn(queue')
         \/ pc' = "terminal" /\ 1 \in FinishedIn(queue) /\ job'.scan = queue[1].scan
  BY <1>1, <1>2, <1>3, TakenFromQueue
  DEF Receive, Jobs, Typed, Goto, Unchanged, storeVars, loopVars, tokenVars
<1>5. Places'
  BY <1>4
  DEF tokenVars, Places, Clean, Agree, Where, SlotClear, FailureFits, TerminalFits, Past,
      LoopAlive, Starting, Opening, Trying, Ending, Queued
<1>6. Tokens'
  BY <1>4
  DEF tokenVars, Tokens, ResultFits, TerminalFits, FailureFits, Agree, Where, Clean, Starting,
      Trying, Ending, Queued, Past, LoopAlive
<1>7. Tasks'
  BY <1>4
  DEF tokenVars, Tasks, Attended, Scheduled, Where, Clean, Agree, ResultFits, TerminalFits,
      FailureFits, Past, LoopAlive, Starting, Opening, Trying, Ending, Queued
<1> QED BY <1>5, <1>6, <1>7, Parts, PTL

LEMMA RetryDueHolds == ASSUME Base, RetryDue PROVE Control'
<1> USE DEF Base, Control
<1>1. NoJob \in Jobs
  BY Values
<1>2. ASSUME NEW t \in Terminals, job' = [NoJob EXCEPT !.retrying = TRUE, !.scan = t.scan, !.result = t.result]
      PROVE  job'.scan = t.scan
  BY <1>1, <1>2 DEF Jobs
<1>3. ASSUME NEW f \in Failures, job' = [NoJob EXCEPT !.retrying = TRUE, !.scan = f.scan, !.code = f.code]
      PROVE  job'.scan = f.scan /\ job'.code = f.code
  BY <1>1, <1>3 DEF Jobs
<1>4. pendingTerminal \in Terminals /\ pendingFailure \in Failures
  BY DEF Typed
<1>5. \/ /\ pc = "wait" /\ UNCHANGED <<meta, active, workers, queue, availability, spent>>
         /\ retry' = FALSE /\ pendingTerminal # NoTerminal
         /\ pc' = "terminal" /\ job'.scan = pendingTerminal.scan
         /\ pendingTerminal' = NoTerminal /\ pendingFailure' = pendingFailure
      \/ /\ pc = "wait" /\ UNCHANGED <<meta, active, workers, queue, availability, spent>>
         /\ retry' = FALSE /\ pendingTerminal = NoTerminal /\ pendingFailure # NoFailure
         /\ pc' = "followup_failure"
         /\ job'.scan = pendingFailure.scan /\ job'.code = pendingFailure.code
         /\ pendingTerminal' = NoTerminal /\ pendingFailure' = NoFailure
      \/ /\ pc = "wait" /\ UNCHANGED <<meta, active, workers, queue, availability, spent>>
         /\ retry' = FALSE /\ pendingTerminal = NoTerminal /\ pendingFailure = NoFailure
         /\ pc' = "try" /\ UNCHANGED <<pendingTerminal, pendingFailure>>
  BY <1>1, <1>2, <1>3, <1>4
  DEF RetryDue, Goto, Unchanged, storeVars, loopVars, tokenVars
<1>6. CASE /\ pc = "wait" /\ UNCHANGED <<meta, active, workers, queue, availability, spent>>
           /\ retry' = FALSE /\ pendingTerminal # NoTerminal
           /\ pc' = "terminal" /\ job'.scan = pendingTerminal.scan
           /\ pendingTerminal' = NoTerminal /\ pendingFailure' = pendingFailure
  <2>1. Places'
    BY <1>6
    DEF Places, Clean, Agree, Where, SlotClear, FailureFits, TerminalFits, Past, LoopAlive,
        Starting, Opening, Trying, Ending, Queued
  <2>2. Tokens'
    BY <1>6
    DEF Tokens, ResultFits, TerminalFits, FailureFits, Agree, Where, Clean, Starting, Trying,
        Ending, Queued, Past, LoopAlive
  <2>3. Tasks'
    BY <1>6
    DEF Tasks, Attended, Scheduled, Where, Clean, Agree, ResultFits, TerminalFits, FailureFits,
        Past, LoopAlive, Starting, Opening, Trying, Ending, Queued
  <2> QED BY <2>1, <2>2, <2>3, Parts, PTL
<1>7. CASE /\ pc = "wait" /\ UNCHANGED <<meta, active, workers, queue, availability, spent>>
           /\ retry' = FALSE /\ pendingTerminal = NoTerminal /\ pendingFailure # NoFailure
           /\ pc' = "followup_failure"
           /\ job'.scan = pendingFailure.scan /\ job'.code = pendingFailure.code
           /\ pendingTerminal' = NoTerminal /\ pendingFailure' = NoFailure
  <2>1. Places'
    BY <1>7
    DEF Places, Clean, Agree, Where, SlotClear, FailureFits, TerminalFits, Past, LoopAlive,
        Starting, Opening, Trying, Ending, Queued
  <2>2. Tokens'
    BY <1>7
    DEF Tokens, ResultFits, TerminalFits, FailureFits, Agree, Where, Clean, Starting, Trying,
        Ending, Queued, Past, LoopAlive
  <2>3. Tasks'
    BY <1>7
    DEF Tasks, Attended, Scheduled, Where, Clean, Agree, ResultFits, TerminalFits, FailureFits,
        Past, LoopAlive, Starting, Opening, Trying, Ending, Queued
  <2> QED BY <2>1, <2>2, <2>3, Parts, PTL
<1>8. CASE /\ pc = "wait" /\ UNCHANGED <<meta, active, workers, queue, availability, spent>>
           /\ retry' = FALSE /\ pendingTerminal = NoTerminal /\ pendingFailure = NoFailure
           /\ pc' = "try" /\ UNCHANGED <<pendingTerminal, pendingFailure>>
  <2>1. Places'
    BY <1>8
    DEF Places, Clean, Agree, Where, SlotClear, FailureFits, TerminalFits, Past, LoopAlive,
        Starting, Opening, Trying, Ending, Queued
  <2>2. Tokens'
    BY <1>8
    DEF Tokens, ResultFits, TerminalFits, FailureFits, Agree, Where, Clean, Starting, Trying,
        Ending, Queued, Past, LoopAlive
  <2>3. Tasks'
    BY <1>8
    DEF Tasks, Attended, Scheduled, Where, Clean, Agree, ResultFits, TerminalFits, FailureFits,
        Past, LoopAlive, Starting, Opening, Trying, Ending, Queued
  <2> QED BY <2>1, <2>2, <2>3, Parts, PTL
<1> QED BY <1>5, <1>6, <1>7, <1>8

LEMMA NoTickHolds == ASSUME Base, NoTick PROVE Control'
<1> USE DEF Base, Control
<1>1. /\ pc = "tick" /\ pc' = "wait" /\ UNCHANGED tokenVars /\ UNCHANGED <<availability, spent>>
  BY DEF NoTick, Goto, Unchanged, storeVars, loopVars, tokenVars
<1>2. Places'
  BY <1>1
  DEF tokenVars, Places, Clean, Agree, Where, SlotClear, FailureFits, TerminalFits, Past,
      LoopAlive, Starting, Opening, Trying, Ending, Queued
<1>3. Tokens'
  BY <1>1
  DEF tokenVars, Tokens, ResultFits, TerminalFits, FailureFits, Agree, Where, Clean, Starting,
      Trying, Ending, Queued, Past, LoopAlive
<1>4. Tasks'
  BY <1>1
  DEF tokenVars, Tasks, Attended, Scheduled, Where, Clean, Agree, ResultFits, TerminalFits,
      FailureFits, Past, LoopAlive, Starting, Opening, Trying, Ending, Queued
<1> QED BY <1>2, <1>3, <1>4, Parts, PTL

LEMMA TickHolds == ASSUME Base, Tick PROVE Control'
<1> USE DEF Base, Control
<1>1. /\ pc \in {"wait", "tick"} /\ pc' \in {"wait", "request"} /\ UNCHANGED tokenVars
      /\ UNCHANGED availability
      /\ spent'.internal = spent.internal
  BY DEF Tick, Typed, Counts, Goto, Unchanged, storeVars, loopVars, tokenVars
<1>2. Places'
  BY <1>1
  DEF tokenVars, Places, Clean, Agree, Where, SlotClear, FailureFits, TerminalFits, Past,
      LoopAlive, Starting, Opening, Trying, Ending, Queued
<1>3. Tokens'
  BY <1>1
  DEF tokenVars, Tokens, ResultFits, TerminalFits, FailureFits, Agree, Where, Clean, Starting,
      Trying, Ending, Queued, Past, LoopAlive
<1>4. Tasks'
  BY <1>1
  DEF tokenVars, Tasks, Attended, Scheduled, Where, Clean, Agree, ResultFits, TerminalFits,
      FailureFits, Past, LoopAlive, Starting, Opening, Trying, Ending, Queued
<1> QED BY <1>2, <1>3, <1>4, Parts, PTL

LEMMA LoopCheckHolds == ASSUME Base, LoopCheck PROVE Control'
<1> USE DEF Base, Control
<1>1. \/ \E st : Exit(st) /\ UNCHANGED storeVars /\ UNCHANGED workers
      \/ /\ pc = "loop_check" /\ pc' \in {"wait", "tick"} /\ UNCHANGED tokenVars
         /\ UNCHANGED <<availability, spent>>
  BY DEF LoopCheck, Goto, Unchanged, storeVars, loopVars, tokenVars
<1>2. ASSUME NEW st, Exit(st), UNCHANGED storeVars, UNCHANGED workers PROVE Control'
  BY <1>2, ExitHolds
<1>3. CASE /\ pc = "loop_check" /\ pc' \in {"wait", "tick"} /\ UNCHANGED tokenVars
           /\ UNCHANGED <<availability, spent>>
  <2>1. Places'
    BY <1>3
    DEF tokenVars, Places, Clean, Agree, Where, SlotClear, FailureFits, TerminalFits, Past,
        LoopAlive, Starting, Opening, Trying, Ending, Queued
  <2>2. Tokens'
    BY <1>3
    DEF tokenVars, Tokens, ResultFits, TerminalFits, FailureFits, Agree, Where, Clean, Starting,
        Trying, Ending, Queued, Past, LoopAlive
  <2>3. Tasks'
    BY <1>3
    DEF tokenVars, Tasks, Attended, Scheduled, Where, Clean, Agree, ResultFits, TerminalFits,
        FailureFits, Past, LoopAlive, Starting, Opening, Trying, Ending, Queued
  <2> QED BY <2>1, <2>2, <2>3, Parts, PTL
<1> QED BY <1>1, <1>2, <1>3

LEMMA RequestCheckHolds == ASSUME Base, RequestCheck PROVE Control'
<1> USE DEF Base, Control
<1>1. /\ pc = "request" /\ UNCHANGED tokenVars /\ UNCHANGED <<availability, spent>>
      /\ pc' = "wait" \/ (pc' = "request_state" /\ availability = "ready")
  BY DEF RequestCheck, Reply, KeptByRequest, Goto, Unchanged, storeVars, loopVars, tokenVars
<1>2. Places'
  BY <1>1
  DEF tokenVars, Places, Clean, Agree, Where, SlotClear, FailureFits, TerminalFits, Past,
      LoopAlive, Starting, Opening, Trying, Ending, Queued
<1>3. Tokens'
  BY <1>1
  DEF tokenVars, Tokens, ResultFits, TerminalFits, FailureFits, Agree, Where, Clean, Starting,
      Trying, Ending, Queued, Past, LoopAlive
<1>4. Tasks'
  BY <1>1
  DEF tokenVars, Tasks, Attended, Scheduled, Where, Clean, Agree, ResultFits, TerminalFits,
      FailureFits, Past, LoopAlive, Starting, Opening, Trying, Ending, Queued
<1> QED BY <1>2, <1>3, <1>4, Parts, PTL

LEMMA RequestStateHolds == ASSUME Base, RequestState PROVE Control'
<1> USE DEF Base, Control
<1>1. /\ pc = "request_state" /\ UNCHANGED tokenVars /\ UNCHANGED availability
      /\ spent'.internal = spent.internal \/ spent'.internal # 0
      /\ \/ pc' = "wait"
         \/ pc' = "request_reserve" /\ ~Queued /\ meta.active # 0
         \/ pc' = "request_start" /\ ~Queued /\ meta.active = 0
  BY SlotFacts, InternalOnlyGrows, InternalShows
  DEF RequestState, Coalesce, Reply, KeptByRequest, Queued, Goto, Unchanged, storeVars,
      loopVars, tokenVars
<1>2. Places'
  BY <1>1
  DEF tokenVars, Places, Clean, Agree, Where, SlotClear, FailureFits, TerminalFits, Past,
      LoopAlive, Starting, Opening, Trying, Ending, Queued
<1>3. Tokens'
  BY <1>1
  DEF tokenVars, Tokens, ResultFits, TerminalFits, FailureFits, Agree, Where, Clean, Starting,
      Trying, Ending, Queued, Past, LoopAlive
<1>4. Tasks'
  BY <1>1
  DEF tokenVars, Tasks, Attended, Scheduled, Where, Clean, Agree, ResultFits, TerminalFits,
      FailureFits, Past, LoopAlive, Starting, Opening, Trying, Ending, Queued
<1> QED BY <1>2, <1>3, <1>4, Parts, PTL

LEMMA RequestReserveHolds == ASSUME Base, RequestReserve PROVE Control'
<1> USE DEF Base, Control
<1>1. \/ /\ pc = "request_reserve" /\ pc' = "wait"
         /\ UNCHANGED <<active, workers, queue, pendingTerminal, pendingFailure, retry, availability, spent>>
         /\ meta.active # 0 /\ meta'.active = meta.active /\ meta'.slot.state = "queued"
      \/ /\ pc = "request_reserve" /\ pc' = "wait" /\ UNCHANGED tokenVars
         /\ UNCHANGED availability
         /\ spent'.internal = spent.internal \/ spent'.internal # 0
  BY ReserveCall, SpentStep, CallsAreLegal
  DEF RequestReserve, Coalesce, Reply, KeptByRequest, InternalOr, SourceChanged, Refused,
      StoreCallsAreLegal, Typed, Goto, Unchanged, storeVars, loopVars, tokenVars
<1>2. CASE /\ pc = "request_reserve" /\ pc' = "wait"
           /\ UNCHANGED <<active, workers, queue, pendingTerminal, pendingFailure, retry, availability, spent>>
           /\ meta.active # 0 /\ meta'.active = meta.active /\ meta'.slot.state = "queued"
  <2>1. Places'
    BY <1>2
    DEF Places, Clean, Agree, Where, SlotClear, FailureFits, TerminalFits, Past, LoopAlive,
        Starting, Opening, Trying, Ending, Queued
  <2>2. Tokens'
    BY <1>2
    DEF Tokens, ResultFits, TerminalFits, FailureFits, Agree, Where, Clean, Starting, Trying,
        Ending, Queued, Past, LoopAlive
  <2>3. Tasks'
    BY <1>2
    DEF Tasks, Attended, Scheduled, Where, Clean, Agree, ResultFits, TerminalFits, FailureFits,
        Past, LoopAlive, Starting, Opening, Trying, Ending, Queued
  <2> QED BY <2>1, <2>2, <2>3, Parts, PTL
<1>3. CASE /\ pc = "request_reserve" /\ pc' = "wait" /\ UNCHANGED tokenVars
           /\ UNCHANGED availability
           /\ spent'.internal = spent.internal \/ spent'.internal # 0
  <2>1. Places'
    BY <1>3
    DEF tokenVars, Places, Clean, Agree, Where, SlotClear, FailureFits, TerminalFits, Past,
        LoopAlive, Starting, Opening, Trying, Ending, Queued
  <2>2. Tokens'
    BY <1>3
    DEF tokenVars, Tokens, ResultFits, TerminalFits, FailureFits, Agree, Where, Clean, Starting,
        Trying, Ending, Queued, Past, LoopAlive
  <2>3. Tasks'
    BY <1>3
    DEF tokenVars, Tasks, Attended, Scheduled, Where, Clean, Agree, ResultFits, TerminalFits,
        FailureFits, Past, LoopAlive, Starting, Opening, Trying, Ending, Queued
  <2> QED BY <2>1, <2>2, <2>3, Parts, PTL
<1> QED BY <1>1, <1>2, <1>3

LEMMA RequestStartHolds == ASSUME Base, RequestStart PROVE Control'
<1> USE DEF Base, Control
<1>1. \/ /\ pc = "request_start" /\ pc' = "wait"
         /\ \E s : Occupies(s) /\ active' = s /\ workers' = workers \union {s}
         /\ UNCHANGED <<queue, pendingTerminal, pendingFailure, retry, availability>>
      \/ /\ pc = "request_start" /\ pc' = "wait" /\ UNCHANGED tokenVars
         /\ UNCHANGED availability
         /\ spent'.internal = spent.internal \/ spent'.internal # 0
  BY StartCall, SpentStep, CallsAreLegal
  DEF RequestStart, Reply, KeptByRequest, InternalOr, SourceChanged, Refused, SpawnWorker,
      NoSpawn, StoreCallsAreLegal, Typed, Goto, Unchanged, storeVars, loopVars, tokenVars
<1>2. CASE /\ pc = "request_start" /\ pc' = "wait"
           /\ \E s : Occupies(s) /\ active' = s /\ workers' = workers \union {s}
           /\ UNCHANGED <<queue, pendingTerminal, pendingFailure, retry, availability>>
  <2>1. Places'
    BY <1>2
    DEF Occupies, Places, Clean, Agree, Where, SlotClear, FailureFits, TerminalFits, Past,
        LoopAlive, Starting, Opening, Trying, Ending, Queued
  <2>2. Tokens'
    BY <1>2
    DEF Occupies, Tokens, ResultFits, TerminalFits, FailureFits, Agree, Where, Clean, Starting,
        Trying, Ending, Queued, Past, LoopAlive
  <2>3. Tasks'
    BY <1>2
    DEF Occupies, Tasks, Attended, Scheduled, Where, Clean, Agree, ResultFits, TerminalFits,
        FailureFits, Past, LoopAlive, Starting, Opening, Trying, Ending, Queued
  <2> QED BY <2>1, <2>2, <2>3, Parts, PTL
<1>3. CASE /\ pc = "request_start" /\ pc' = "wait" /\ UNCHANGED tokenVars
           /\ UNCHANGED availability
           /\ spent'.internal = spent.internal \/ spent'.internal # 0
  <2>1. Places'
    BY <1>3
    DEF tokenVars, Places, Clean, Agree, Where, SlotClear, FailureFits, TerminalFits, Past,
        LoopAlive, Starting, Opening, Trying, Ending, Queued
  <2>2. Tokens'
    BY <1>3
    DEF tokenVars, Tokens, ResultFits, TerminalFits, FailureFits, Agree, Where, Clean, Starting,
        Trying, Ending, Queued, Past, LoopAlive
  <2>3. Tasks'
    BY <1>3
    DEF tokenVars, Tasks, Attended, Scheduled, Where, Clean, Agree, ResultFits, TerminalFits,
        FailureFits, Past, LoopAlive, Starting, Opening, Trying, Ending, Queued
  <2> QED BY <2>1, <2>2, <2>3, Parts, PTL
<1> QED BY <1>1, <1>2, <1>3

LEMMA TerminalCheckHolds == ASSUME Base, TerminalCheck PROVE Control'
<1> USE DEF Base, Control
<1>1. /\ [job EXCEPT !.shutting = (availability = "shutting_down")].scan = job.scan
      /\ [job EXCEPT !.shutting = (availability = "shutting_down")].shutting = (availability = "shutting_down")
  BY DEF Typed, Jobs
<1>2. NoScan = 0
  BY Lists
<1>3. /\ pc = "terminal" /\ UNCHANGED tokenVars /\ UNCHANGED <<availability, spent>>
      /\ pc' = "terminal_mark" /\ job'.scan = job.scan
      /\ (job'.shutting => availability = "shutting_down")
  BY <1>1, <1>2
  DEF TerminalCheck, TerminalFits, Ending, NoScan, Goto, Unchanged, storeVars, loopVars,
      tokenVars
<1>4. Places'
  BY <1>3
  DEF tokenVars, Places, Clean, Agree, Where, SlotClear, FailureFits, TerminalFits, Past,
      LoopAlive, Starting, Opening, Trying, Ending, Queued
<1>5. Tokens'
  BY <1>3
  DEF tokenVars, Tokens, ResultFits, TerminalFits, FailureFits, Agree, Where, Clean, Starting,
      Trying, Ending, Queued, Past, LoopAlive
<1>6. Tasks'
  BY <1>3
  DEF tokenVars, Tasks, Attended, Scheduled, Where, Clean, Agree, ResultFits, TerminalFits,
      FailureFits, Past, LoopAlive, Starting, Opening, Trying, Ending, Queued
<1> QED BY <1>4, <1>5, <1>6, Parts, PTL

LEMMA TerminalMarkHolds == ASSUME Base, TerminalMark PROVE Control'
<1> USE DEF Base, Control
<1>1. MarkTerminal => meta'.active = 0 /\ meta'.slot = meta.slot
  BY EndCall DEF MarkTerminal
<1>2. \/ /\ pc = "terminal_mark" /\ meta'.active = 0 /\ meta'.slot = meta.slot /\ active' = 0
         /\ UNCHANGED <<workers, queue, pendingTerminal, pendingFailure, retry>>
         /\ \/ pc' = "try" /\ availability' = availability
            \/ pc' = "loop_check" /\ job.shutting /\ availability' \in {availability, "stopped"}
      \/ /\ pc = "terminal_mark" /\ pc' = "loop_check" /\ retry' = TRUE
         /\ pendingTerminal' # NoTerminal /\ pendingTerminal'.scan = job.scan
         /\ UNCHANGED <<meta, active, workers, queue, pendingFailure, availability>>
      \/ /\ pc = "terminal_mark" /\ pc' = "loop_check" /\ UNCHANGED tokenVars
         /\ availability' = "stopped"
         /\ spent'.internal # 0
  BY <1>1, SpentStep, CallsAreLegal, Lists
  DEF TerminalMark, InternalOr, Refused, StoreCallsAreLegal, TerminalFits, Ending, NoTerminal,
      Typed, Goto, Unchanged, storeVars, loopVars, tokenVars
<1>3. CASE /\ pc = "terminal_mark" /\ meta'.active = 0 /\ meta'.slot = meta.slot /\ active' = 0
           /\ UNCHANGED <<workers, queue, pendingTerminal, pendingFailure, retry>>
           /\ \/ pc' = "try" /\ availability' = availability
              \/ pc' = "loop_check" /\ job.shutting /\ availability' \in {availability, "stopped"}
  <2>1. Places'
    BY <1>3
    DEF Places, Clean, Agree, Where, SlotClear, FailureFits, TerminalFits, Past, LoopAlive,
        Starting, Opening, Trying, Ending, Queued
  <2>2. Tokens'
    BY <1>3
    DEF Tokens, ResultFits, TerminalFits, FailureFits, Agree, Where, Clean, Starting, Trying,
        Ending, Queued, Past, LoopAlive
  <2>3. Tasks'
    BY <1>3
    DEF Tasks, Attended, Scheduled, Where, Clean, Agree, ResultFits, TerminalFits, FailureFits,
        Past, LoopAlive, Starting, Opening, Trying, Ending, Queued
  <2> QED BY <2>1, <2>2, <2>3, Parts, PTL
<1>4. CASE /\ pc = "terminal_mark" /\ pc' = "loop_check" /\ retry' = TRUE
           /\ pendingTerminal' # NoTerminal /\ pendingTerminal'.scan = job.scan
           /\ UNCHANGED <<meta, active, workers, queue, pendingFailure, availability>>
  <2>1. Places'
    BY <1>4
    DEF Places, Clean, Agree, Where, SlotClear, FailureFits, TerminalFits, Past, LoopAlive,
        Starting, Opening, Trying, Ending, Queued
  <2>2. Tokens'
    BY <1>4
    DEF Tokens, ResultFits, TerminalFits, FailureFits, Agree, Where, Clean, Starting, Trying,
        Ending, Queued, Past, LoopAlive
  <2>3. Tasks'
    BY <1>4
    DEF Tasks, Attended, Scheduled, Where, Clean, Agree, ResultFits, TerminalFits, FailureFits,
        Past, LoopAlive, Starting, Opening, Trying, Ending, Queued
  <2> QED BY <2>1, <2>2, <2>3, Parts, PTL
<1>5. CASE /\ pc = "terminal_mark" /\ pc' = "loop_check" /\ UNCHANGED tokenVars
           /\ availability' = "stopped"
           /\ spent'.internal # 0
  <2>1. Places'
    BY <1>5
    DEF tokenVars, Places, Clean, Agree, Where, SlotClear, FailureFits, TerminalFits, Past,
        LoopAlive, Starting, Opening, Trying, Ending, Queued
  <2>2. Tokens'
    BY <1>5
    DEF tokenVars, Tokens, ResultFits, TerminalFits, FailureFits, Agree, Where, Clean, Starting,
        Trying, Ending, Queued, Past, LoopAlive
  <2>3. Tasks'
    BY <1>5
    DEF tokenVars, Tasks, Attended, Scheduled, Where, Clean, Agree, ResultFits, TerminalFits,
        FailureFits, Past, LoopAlive, Starting, Opening, Trying, Ending, Queued
  <2> QED BY <2>1, <2>2, <2>3, Parts, PTL
<1> QED BY <1>2, <1>3, <1>4, <1>5

LEMMA TryCheckHolds == ASSUME Base, TryCheck PROVE Control'
<1> USE DEF Base, Control
<1>1. /\ pc = "try" /\ UNCHANGED tokenVars /\ UNCHANGED <<availability, spent>>
      /\ IF active = 0 /\ availability = "ready" THEN pc' = "try_state" ELSE pc' = "loop_check"
  BY Lists
  DEF TryCheck, Goto, Unchanged, storeVars, loopVars, tokenVars
<1>2. Places'
  BY <1>1
  DEF tokenVars, Places, Clean, Agree, Where, SlotClear, FailureFits, TerminalFits, Past,
      LoopAlive, Starting, Opening, Trying, Ending, Queued
<1>3. Tokens'
  BY <1>1
  DEF tokenVars, Tokens, ResultFits, TerminalFits, FailureFits, Agree, Where, Clean, Starting,
      Trying, Ending, Queued, Past, LoopAlive
<1>4. Tasks'
  BY <1>1
  DEF tokenVars, Tasks, Attended, Scheduled, Where, Clean, Agree, ResultFits, TerminalFits,
      FailureFits, Past, LoopAlive, Starting, Opening, Trying, Ending, Queued
<1> QED BY <1>2, <1>3, <1>4, Parts, PTL

LEMMA TryStateHolds == ASSUME Base, TryState PROVE Control'
<1> USE DEF Base, Control
<1>1. /\ pc = "try_state"
      /\ UNCHANGED <<meta, active, workers, queue, pendingTerminal, pendingFailure, availability>>
      /\ spent'.internal = spent.internal \/ spent'.internal # 0
      /\ \/ pc' = "loop_check" /\ retry' = TRUE
         \/ pc' = "loop_check" /\ retry' = retry /\ spent'.internal # 0
         \/ pc' = "try_start" /\ Queued /\ retry' = retry
         \/ pc' = "loop_check" /\ ~Queued /\ retry' = FALSE
  BY InternalOnlyGrows, InternalShows
  DEF TryState, Queued, Goto, Unchanged, storeVars, loopVars, tokenVars
<1>2. Places'
  BY <1>1
  DEF tokenVars, Places, Clean, Agree, Where, SlotClear, FailureFits, TerminalFits, Past,
      LoopAlive, Starting, Opening, Trying, Ending, Queued
<1>3. Tokens'
  BY <1>1
  DEF tokenVars, Tokens, ResultFits, TerminalFits, FailureFits, Agree, Where, Clean, Starting,
      Trying, Ending, Queued, Past, LoopAlive
<1>4. Tasks'
  BY <1>1
  DEF tokenVars, Tasks, Attended, Scheduled, Where, Clean, Agree, ResultFits, TerminalFits,
      FailureFits, Past, LoopAlive, Starting, Opening, Trying, Ending, Queued
<1> QED BY <1>2, <1>3, <1>4, Parts, PTL

LEMMA TryStartHolds == ASSUME Base, TryStart PROVE Control'
<1> USE DEF Base, Control
<1>1. Store!MarkFollowupStarted(meta.slot.scan) => Occupies(meta.slot.scan)
  BY FollowupCall
<1>2. ASSUME NEW code, job' = [job EXCEPT !.scan = meta.slot.scan, !.code = code]
      PROVE  job'.scan = meta.slot.scan /\ job'.code = code
  BY <1>2 DEF Typed, Jobs
<1>3. \/ /\ pc = "try_start" /\ pc' = "loop_check"
         /\ \E s : Occupies(s) /\ active' = s /\ workers' = workers \union {s}
         /\ retry' = FALSE /\ UNCHANGED <<queue, pendingTerminal, pendingFailure, availability>>
      \/ /\ pc = "try_start" /\ pc' = "loop_check" /\ retry' = TRUE
         /\ spent'.internal = spent.internal
         /\ UNCHANGED <<meta, active, workers, queue, pendingTerminal, pendingFailure, availability>>
      \/ /\ pc = "try_start" /\ pc' = "followup_failure" /\ UNCHANGED tokenVars
         /\ UNCHANGED availability
         /\ job'.scan = meta.slot.scan /\ job'.code \in Store!StartFailedCodes
         /\ spent'.internal = spent.internal \/ spent'.internal # 0
  BY <1>1, <1>2, InternalOnlyGrows, InternalShows, CallsAreLegal
  DEF TryStart, CannotStartFollowup, InternalOr, SourceChanged, Refused, SpawnWorker, NoSpawn,
      StoreCallsAreLegal, Commits, Goto, Unchanged, storeVars, loopVars, tokenVars
<1>4. CASE /\ pc = "try_start" /\ pc' = "loop_check"
           /\ \E s : Occupies(s) /\ active' = s /\ workers' = workers \union {s}
           /\ retry' = FALSE
           /\ UNCHANGED <<queue, pendingTerminal, pendingFailure, availability>>
  <2>1. Places'
    BY <1>4
    DEF Occupies, Places, Clean, Agree, Where, SlotClear, FailureFits, TerminalFits, Past,
        LoopAlive, Starting, Opening, Trying, Ending, Queued
  <2>2. Tokens'
    BY <1>4
    DEF Occupies, Tokens, ResultFits, TerminalFits, FailureFits, Agree, Where, Clean, Starting,
        Trying, Ending, Queued, Past, LoopAlive
  <2>3. Tasks'
    BY <1>4
    DEF Occupies, Tasks, Attended, Scheduled, Where, Clean, Agree, ResultFits, TerminalFits,
        FailureFits, Past, LoopAlive, Starting, Opening, Trying, Ending, Queued
  <2> QED BY <2>1, <2>2, <2>3, Parts, PTL
<1>5. CASE /\ pc = "try_start" /\ pc' = "loop_check" /\ retry' = TRUE
           /\ spent'.internal = spent.internal
           /\ UNCHANGED <<meta, active, workers, queue, pendingTerminal, pendingFailure, availability>>
  <2>1. Places'
    BY <1>5
    DEF Places, Clean, Agree, Where, SlotClear, FailureFits, TerminalFits, Past, LoopAlive,
        Starting, Opening, Trying, Ending, Queued
  <2>2. Tokens'
    BY <1>5
    DEF Tokens, ResultFits, TerminalFits, FailureFits, Agree, Where, Clean, Starting, Trying,
        Ending, Queued, Past, LoopAlive
  <2>3. Tasks'
    BY <1>5
    DEF Tasks, Attended, Scheduled, Where, Clean, Agree, ResultFits, TerminalFits, FailureFits,
        Past, LoopAlive, Starting, Opening, Trying, Ending, Queued
  <2> QED BY <2>1, <2>2, <2>3, Parts, PTL
<1>6. CASE /\ pc = "try_start" /\ pc' = "followup_failure" /\ UNCHANGED tokenVars
           /\ UNCHANGED availability
           /\ job'.scan = meta.slot.scan /\ job'.code \in Store!StartFailedCodes
           /\ spent'.internal = spent.internal \/ spent'.internal # 0
  <2>1. Places'
    BY <1>6
    DEF tokenVars, Places, Clean, Agree, Where, SlotClear, FailureFits, TerminalFits, Past,
        LoopAlive, Starting, Opening, Trying, Ending, Queued
  <2>2. Tokens'
    BY <1>6
    DEF tokenVars, Tokens, ResultFits, TerminalFits, FailureFits, Agree, Where, Clean, Starting,
        Trying, Ending, Queued, Past, LoopAlive
  <2>3. Tasks'
    BY <1>6
    DEF tokenVars, Tasks, Attended, Scheduled, Where, Clean, Agree, ResultFits, TerminalFits,
        FailureFits, Past, LoopAlive, Starting, Opening, Trying, Ending, Queued
  <2> QED BY <2>1, <2>2, <2>3, Parts, PTL
<1> QED BY <1>3, <1>4, <1>5, <1>6

LEMMA FollowupFailureHolds == ASSUME Base, FollowupFailure PROVE Control'
<1> USE DEF Base, Control
<1>1. Store!MarkFollowupStartFailed(job.scan, job.code) =>
        meta'.active = meta.active /\ meta'.slot.state = "start_failed"
  BY SlotFailsCall
<1>2. \/ /\ pc = "followup_failure" /\ pc' = "loop_check"
         /\ UNCHANGED <<active, workers, queue, pendingTerminal, pendingFailure, retry>>
         /\ meta'.active = meta.active /\ meta'.slot.state = "start_failed"
         /\ availability' \in {availability, "source_changed"}
      \/ /\ pc = "followup_failure" /\ pc' = "loop_check" /\ retry' = TRUE
         /\ pendingFailure'.scan = job.scan /\ pendingFailure'.code = job.code
         /\ UNCHANGED <<meta, active, workers, queue, pendingTerminal, availability>>
      \/ /\ pc = "followup_failure" /\ pc' = "loop_check" /\ UNCHANGED tokenVars
         /\ UNCHANGED availability
         /\ spent'.internal # 0
  BY <1>1, SpentStep, CallsAreLegal
  DEF FollowupFailure, InternalOr, Refused, StoreCallsAreLegal, Typed, Goto, Unchanged,
      storeVars, loopVars, tokenVars
<1>3. CASE /\ pc = "followup_failure" /\ pc' = "loop_check"
           /\ UNCHANGED <<active, workers, queue, pendingTerminal, pendingFailure, retry>>
           /\ meta'.active = meta.active /\ meta'.slot.state = "start_failed"
           /\ availability' \in {availability, "source_changed"}
  <2>1. Places'
    BY <1>3
    DEF Places, Clean, Agree, Where, SlotClear, FailureFits, TerminalFits, Past, LoopAlive,
        Starting, Opening, Trying, Ending, Queued
  <2>2. Tokens'
    BY <1>3
    DEF Tokens, ResultFits, TerminalFits, FailureFits, Agree, Where, Clean, Starting, Trying,
        Ending, Queued, Past, LoopAlive
  <2>3. Tasks'
    BY <1>3
    DEF Tasks, Attended, Scheduled, Where, Clean, Agree, ResultFits, TerminalFits, FailureFits,
        Past, LoopAlive, Starting, Opening, Trying, Ending, Queued
  <2> QED BY <2>1, <2>2, <2>3, Parts, PTL
<1>4. CASE /\ pc = "followup_failure" /\ pc' = "loop_check" /\ retry' = TRUE
           /\ pendingFailure'.scan = job.scan /\ pendingFailure'.code = job.code
           /\ UNCHANGED <<meta, active, workers, queue, pendingTerminal, availability>>
  <2>1. Places'
    BY <1>4
    DEF Places, Clean, Agree, Where, SlotClear, FailureFits, TerminalFits, Past, LoopAlive,
        Starting, Opening, Trying, Ending, Queued
  <2>2. Tokens'
    BY <1>4
    DEF Tokens, ResultFits, TerminalFits, FailureFits, Agree, Where, Clean, Starting, Trying,
        Ending, Queued, Past, LoopAlive
  <2>3. Tasks'
    BY <1>4
    DEF Tasks, Attended, Scheduled, Where, Clean, Agree, ResultFits, TerminalFits, FailureFits,
        Past, LoopAlive, Starting, Opening, Trying, Ending, Queued
  <2> QED BY <2>1, <2>2, <2>3, Parts, PTL
<1>5. CASE /\ pc = "followup_failure" /\ pc' = "loop_check" /\ UNCHANGED tokenVars
           /\ UNCHANGED availability
           /\ spent'.internal # 0
  <2>1. Places'
    BY <1>5
    DEF tokenVars, Places, Clean, Agree, Where, SlotClear, FailureFits, TerminalFits, Past,
        LoopAlive, Starting, Opening, Trying, Ending, Queued
  <2>2. Tokens'
    BY <1>5
    DEF tokenVars, Tokens, ResultFits, TerminalFits, FailureFits, Agree, Where, Clean, Starting,
        Trying, Ending, Queued, Past, LoopAlive
  <2>3. Tasks'
    BY <1>5
    DEF tokenVars, Tasks, Attended, Scheduled, Where, Clean, Agree, ResultFits, TerminalFits,
        FailureFits, Past, LoopAlive, Starting, Opening, Trying, Ending, Queued
  <2> QED BY <2>1, <2>2, <2>3, Parts, PTL
<1> QED BY <1>2, <1>3, <1>4, <1>5

LEMMA StopBeginHolds == ASSUME Base, StopBegin PROVE Control'
<1> USE DEF Base, Control
<1>1. /\ pc = "stop" /\ pc' = "stop_state" /\ availability' = "shutting_down"
      /\ UNCHANGED tokenVars /\ UNCHANGED spent
  BY DEF StopBegin, Goto, Unchanged, storeVars, loopVars, tokenVars
<1>2. Places'
  BY <1>1
  DEF tokenVars, Places, Clean, Agree, Where, SlotClear, FailureFits, TerminalFits, Past,
      LoopAlive, Starting, Opening, Trying, Ending, Queued
<1>3. Tokens'
  BY <1>1
  DEF tokenVars, Tokens, ResultFits, TerminalFits, FailureFits, Agree, Where, Clean, Starting,
      Trying, Ending, Queued, Past, LoopAlive
<1>4. Tasks'
  BY <1>1
  DEF tokenVars, Tasks, Attended, Scheduled, Where, Clean, Agree, ResultFits, TerminalFits,
      FailureFits, Past, LoopAlive, Starting, Opening, Trying, Ending, Queued
<1> QED BY <1>2, <1>3, <1>4, Parts, PTL

LEMMA StopStateHolds == ASSUME Base, StopState PROVE Control'
<1> USE DEF Base, Control
<1>1. \/ \E st : Exit(st) /\ UNCHANGED storeVars /\ UNCHANGED workers
      \/ /\ pc = "stop_state" /\ UNCHANGED tokenVars /\ UNCHANGED <<availability, spent>>
         /\ (pc' = "stop_fail" /\ Queued) \/ pc' = "stop_active"
  BY DEF StopState, StopUnpersisted, Commits, Queued, Goto, Unchanged, storeVars, loopVars,
      tokenVars
<1>2. ASSUME NEW st, Exit(st), UNCHANGED storeVars, UNCHANGED workers PROVE Control'
  BY <1>2, ExitHolds
<1>3. CASE /\ pc = "stop_state" /\ UNCHANGED tokenVars /\ UNCHANGED <<availability, spent>>
           /\ (pc' = "stop_fail" /\ Queued) \/ pc' = "stop_active"
  <2>1. Places'
    BY <1>3
    DEF tokenVars, Places, Clean, Agree, Where, SlotClear, FailureFits, TerminalFits, Past,
        LoopAlive, Starting, Opening, Trying, Ending, Queued
  <2>2. Tokens'
    BY <1>3
    DEF tokenVars, Tokens, ResultFits, TerminalFits, FailureFits, Agree, Where, Clean, Starting,
        Trying, Ending, Queued, Past, LoopAlive
  <2>3. Tasks'
    BY <1>3
    DEF tokenVars, Tasks, Attended, Scheduled, Where, Clean, Agree, ResultFits, TerminalFits,
        FailureFits, Past, LoopAlive, Starting, Opening, Trying, Ending, Queued
  <2> QED BY <2>1, <2>2, <2>3, Parts, PTL
<1> QED BY <1>1, <1>2, <1>3

LEMMA StopFailHolds == ASSUME Base, StopFail PROVE Control'
<1> USE DEF Base, Control
<1>1. ASSUME NEW s, NEW code, Store!MarkFollowupStartFailed(s, code)
      PROVE  meta'.active = meta.active /\ meta'.slot.state = "start_failed"
  BY <1>1, SlotFailsCall
<1>2. \/ \E st : Exit(st) /\ UNCHANGED storeVars /\ UNCHANGED workers
      \/ /\ pc = "stop_fail" /\ pc' = "stop_active"
         /\ UNCHANGED <<active, workers, queue, pendingTerminal, pendingFailure, retry, availability, spent>>
         /\ meta'.active = meta.active /\ meta'.slot.state = "start_failed"
      \/ /\ pc = "stop_fail" /\ pc' = pc /\ UNCHANGED tokenVars /\ UNCHANGED availability
         /\ spent'.internal = spent.internal
  BY <1>1, InternalOnlyGrows
  DEF StopFail, StopUnpersisted, InternalOr, Refused, Commits, Goto, Unchanged, storeVars,
      loopVars, tokenVars
<1>3. ASSUME NEW st, Exit(st), UNCHANGED storeVars, UNCHANGED workers PROVE Control'
  BY <1>3, ExitHolds
<1>4. CASE /\ pc = "stop_fail" /\ pc' = "stop_active"
           /\ UNCHANGED <<active, workers, queue, pendingTerminal, pendingFailure, retry, availability, spent>>
           /\ meta'.active = meta.active /\ meta'.slot.state = "start_failed"
  <2>1. Places'
    BY <1>4
    DEF Places, Clean, Agree, Where, SlotClear, FailureFits, TerminalFits, Past, LoopAlive,
        Starting, Opening, Trying, Ending, Queued
  <2>2. Tokens'
    BY <1>4
    DEF Tokens, ResultFits, TerminalFits, FailureFits, Agree, Where, Clean, Starting, Trying,
        Ending, Queued, Past, LoopAlive
  <2>3. Tasks'
    BY <1>4
    DEF Tasks, Attended, Scheduled, Where, Clean, Agree, ResultFits, TerminalFits, FailureFits,
        Past, LoopAlive, Starting, Opening, Trying, Ending, Queued
  <2> QED BY <2>1, <2>2, <2>3, Parts, PTL
<1>5. CASE /\ pc = "stop_fail" /\ pc' = pc /\ UNCHANGED tokenVars /\ UNCHANGED availability
           /\ spent'.internal = spent.internal
  <2>1. Places'
    BY <1>5
    DEF tokenVars, Places, Clean, Agree, Where, SlotClear, FailureFits, TerminalFits, Past,
        LoopAlive, Starting, Opening, Trying, Ending, Queued
  <2>2. Tokens'
    BY <1>5
    DEF tokenVars, Tokens, ResultFits, TerminalFits, FailureFits, Agree, Where, Clean, Starting,
        Trying, Ending, Queued, Past, LoopAlive
  <2>3. Tasks'
    BY <1>5
    DEF tokenVars, Tasks, Attended, Scheduled, Where, Clean, Agree, ResultFits, TerminalFits,
        FailureFits, Past, LoopAlive, Starting, Opening, Trying, Ending, Queued
  <2> QED BY <2>1, <2>2, <2>3, Parts, PTL
<1> QED BY <1>2, <1>3, <1>4, <1>5

LEMMA StopActiveHolds == ASSUME Base, StopActive PROVE Control'
<1> USE DEF Base, Control
<1>1. \/ \E st : Exit(st) /\ UNCHANGED storeVars /\ UNCHANGED workers
      \/ /\ pc = "stop_active" /\ pc' = "wait" /\ active # 0 /\ UNCHANGED tokenVars
         /\ UNCHANGED <<availability, spent>>
  BY Lists
  DEF StopActive, Goto, Unchanged, storeVars, loopVars, tokenVars
<1>2. ASSUME NEW st, Exit(st), UNCHANGED storeVars, UNCHANGED workers PROVE Control'
  BY <1>2, ExitHolds
<1>3. CASE /\ pc = "stop_active" /\ pc' = "wait" /\ active # 0 /\ UNCHANGED tokenVars
           /\ UNCHANGED <<availability, spent>>
  <2>1. Places'
    BY <1>3
    DEF tokenVars, Places, Clean, Agree, Where, SlotClear, FailureFits, TerminalFits, Past,
        LoopAlive, Starting, Opening, Trying, Ending, Queued
  <2>2. Tokens'
    BY <1>3
    DEF tokenVars, Tokens, ResultFits, TerminalFits, FailureFits, Agree, Where, Clean, Starting,
        Trying, Ending, Queued, Past, LoopAlive
  <2>3. Tasks'
    BY <1>3
    DEF tokenVars, Tasks, Attended, Scheduled, Where, Clean, Agree, ResultFits, TerminalFits,
        FailureFits, Past, LoopAlive, Starting, Opening, Trying, Ending, Queued
  <2> QED BY <2>1, <2>2, <2>3, Parts, PTL
<1> QED BY <1>1, <1>2, <1>3

LEMMA StartHolds == ASSUME Base, Start PROVE Control'
<1> USE DEF Base, Control
<1>1. /\ pc = "down" /\ pc' = "recover" /\ availability' = "recovering"
      /\ UNCHANGED <<active, workers, queue, pendingTerminal, pendingFailure, retry>>
  BY DEF Start, Goto, Unchanged, storeVars, loopVars, tokenVars
<1>2. Places'
  BY <1>1
  DEF tokenVars, Places, Clean, Agree, Where, SlotClear, FailureFits, TerminalFits, Past,
      LoopAlive, Starting, Opening, Trying, Ending, Queued
<1>3. Tokens'
  BY <1>1
  DEF tokenVars, Tokens, ResultFits, TerminalFits, FailureFits, Agree, Where, Clean, Starting,
      Trying, Ending, Queued, Past, LoopAlive
<1>4. Tasks'
  BY <1>1
  DEF tokenVars, Tasks, Attended, Scheduled, Where, Clean, Agree, ResultFits, TerminalFits,
      FailureFits, Past, LoopAlive, Starting, Opening, Trying, Ending, Queued
<1> QED BY <1>2, <1>3, <1>4, Parts, PTL

LEMMA CrashHolds == ASSUME Base, Crash PROVE Control'
<1> USE DEF Base, Control
<1>1. /\ pc' = "down" /\ active' = 0 /\ pendingTerminal' = NoTerminal
      /\ pendingFailure' = NoFailure
      /\ retry' = FALSE /\ queue' = <<>> /\ workers' = {} /\ FinishedIn(queue') = {}
  BY NothingFinished, Lists
  DEF Crash, Goto, Unchanged, storeVars, loopVars, tokenVars
<1>2. Places'
  BY <1>1
  DEF tokenVars, Places, Clean, Agree, Where, SlotClear, FailureFits, TerminalFits, Past,
      LoopAlive, Starting, Opening, Trying, Ending, Queued
<1>3. Tokens'
  BY <1>1
  DEF tokenVars, Tokens, ResultFits, TerminalFits, FailureFits, Agree, Where, Clean, Starting,
      Trying, Ending, Queued, Past, LoopAlive
<1>4. Tasks'
  BY <1>1
  DEF tokenVars, Tasks, Attended, Scheduled, Where, Clean, Agree, ResultFits, TerminalFits,
      FailureFits, Past, LoopAlive, Starting, Opening, Trying, Ending, Queued
<1> QED BY <1>2, <1>3, <1>4, Parts, PTL

LEMMA RequesterCallsHolds == ASSUME Base, NEW r \in Requesters, RequesterCalls(r) PROVE Control'
<1> USE DEF Base, Control
<1>1. UNCHANGED tokenVars /\ UNCHANGED <<pc, job, availability, spent>>
  BY DEF RequesterCalls, Goto, Unchanged, storeVars, loopVars, tokenVars
<1>2. Places'
  BY <1>1
  DEF tokenVars, Places, Clean, Agree, Where, SlotClear, FailureFits, TerminalFits, Past,
      LoopAlive, Starting, Opening, Trying, Ending, Queued
<1>3. Tokens'
  BY <1>1
  DEF tokenVars, Tokens, ResultFits, TerminalFits, FailureFits, Agree, Where, Clean, Starting,
      Trying, Ending, Queued, Past, LoopAlive
<1>4. Tasks'
  BY <1>1
  DEF tokenVars, Tasks, Attended, Scheduled, Where, Clean, Agree, ResultFits, TerminalFits,
      FailureFits, Past, LoopAlive, Starting, Opening, Trying, Ending, Queued
<1> QED BY <1>2, <1>3, <1>4, Parts, PTL

LEMMA StopperCallsHolds == ASSUME Base, NEW x \in Stoppers, StopperCalls(x) PROVE Control'
<1> USE DEF Base, Control
<1>1. UNCHANGED tokenVars /\ UNCHANGED <<pc, job, spent>> /\ availability' = "shutting_down"
  BY DEF StopperCalls, Goto, Unchanged, storeVars, loopVars, tokenVars
<1>2. Places'
  BY <1>1
  DEF tokenVars, Places, Clean, Agree, Where, SlotClear, FailureFits, TerminalFits, Past,
      LoopAlive, Starting, Opening, Trying, Ending, Queued
<1>3. Tokens'
  BY <1>1
  DEF tokenVars, Tokens, ResultFits, TerminalFits, FailureFits, Agree, Where, Clean, Starting,
      Trying, Ending, Queued, Past, LoopAlive
<1>4. Tasks'
  BY <1>1
  DEF tokenVars, Tasks, Attended, Scheduled, Where, Clean, Agree, ResultFits, TerminalFits,
      FailureFits, Past, LoopAlive, Starting, Opening, Trying, Ending, Queued
<1> QED BY <1>2, <1>3, <1>4, Parts, PTL

LEMMA RequesterSendsHolds == ASSUME Base, NEW r \in Requesters, RequesterSends(r) PROVE Control'
<1> USE DEF Base, Control
<1>1. RequestCommand(r) \in Commands /\ RequestCommand(r).kind # "finished" /\ queue \in Seq(Commands)
  BY Values DEF RequestCommand, Typed
<1>2. /\ FinishedIn(Append(queue, RequestCommand(r))) = FinishedIn(queue)
      /\ \A i \in FinishedIn(queue) : Append(queue, RequestCommand(r))[i] = queue[i]
  BY <1>1, AddedToQueue
<1>3. /\ UNCHANGED <<meta, active, workers, pendingTerminal, pendingFailure, retry>>
      /\ UNCHANGED <<pc, job, availability, spent>>
      /\ FinishedIn(queue') = FinishedIn(queue)
      /\ \A i \in FinishedIn(queue) : queue'[i] = queue[i]
      /\ pc = "down" => queue' = queue
  BY <1>1, <1>2
  DEF RequesterSends, LoopAlive, Goto, Unchanged, storeVars, loopVars, tokenVars
<1>4. Places'
  BY <1>3
  DEF tokenVars, Places, Clean, Agree, Where, SlotClear, FailureFits, TerminalFits, Past,
      LoopAlive, Starting, Opening, Trying, Ending, Queued
<1>5. Tokens'
  BY <1>3
  DEF tokenVars, Tokens, ResultFits, TerminalFits, FailureFits, Agree, Where, Clean, Starting,
      Trying, Ending, Queued, Past, LoopAlive
<1>6. Tasks'
  BY <1>3
  DEF tokenVars, Tasks, Attended, Scheduled, Where, Clean, Agree, ResultFits, TerminalFits,
      FailureFits, Past, LoopAlive, Starting, Opening, Trying, Ending, Queued
<1> QED BY <1>4, <1>5, <1>6, Parts, PTL

LEMMA StopperSendsHolds == ASSUME Base, NEW x \in Stoppers, StopperSends(x) PROVE Control'
<1> USE DEF Base, Control
<1>1. ShutdownCommand(x) \in Commands /\ ShutdownCommand(x).kind # "finished" /\ queue \in Seq(Commands)
  BY Values DEF ShutdownCommand, Typed
<1>2. /\ FinishedIn(Append(queue, ShutdownCommand(x))) = FinishedIn(queue)
      /\ \A i \in FinishedIn(queue) : Append(queue, ShutdownCommand(x))[i] = queue[i]
  BY <1>1, AddedToQueue
<1>3. /\ UNCHANGED <<meta, active, workers, pendingTerminal, pendingFailure, retry>>
      /\ UNCHANGED <<pc, job, availability, spent>>
      /\ FinishedIn(queue') = FinishedIn(queue)
      /\ \A i \in FinishedIn(queue) : queue'[i] = queue[i]
      /\ pc = "down" => queue' = queue
  BY <1>1, <1>2
  DEF StopperSends, LoopAlive, Goto, Unchanged, storeVars, loopVars, tokenVars
<1>4. Places'
  BY <1>3
  DEF tokenVars, Places, Clean, Agree, Where, SlotClear, FailureFits, TerminalFits, Past,
      LoopAlive, Starting, Opening, Trying, Ending, Queued
<1>5. Tokens'
  BY <1>3
  DEF tokenVars, Tokens, ResultFits, TerminalFits, FailureFits, Agree, Where, Clean, Starting,
      Trying, Ending, Queued, Past, LoopAlive
<1>6. Tasks'
  BY <1>3
  DEF tokenVars, Tasks, Attended, Scheduled, Where, Clean, Agree, ResultFits, TerminalFits,
      FailureFits, Past, LoopAlive, Starting, Opening, Trying, Ending, Queued
<1> QED BY <1>4, <1>5, <1>6, Parts, PTL

LEMMA WorkerFinishesHolds == ASSUME Base, NEW s \in workers, WorkerFinishes(s) PROVE Control'
<1> USE DEF Base, Control
<1>1. s \in Nat
  BY DEF Typed
<1>2. \A result \in Results : /\ FinishedCommand(s, result) \in Commands
                              /\ FinishedCommand(s, result).kind = "finished"
                              /\ FinishedCommand(s, result).scan = s
  BY <1>1, Values DEF FinishedCommand
<1>3. ASSUME NEW result \in Results, queue' = Append(queue, FinishedCommand(s, result))
      PROVE  /\ FinishedIn(queue') = FinishedIn(queue) \union {Len(queue) + 1}
             /\ queue'[Len(queue) + 1].scan = s
             /\ \A i \in FinishedIn(queue) : queue'[i] = queue[i]
  BY <1>2, <1>3, AddedToQueue DEF Typed
<1>4. \/ /\ ~LoopAlive /\ workers' = workers \ {s}
         /\ UNCHANGED <<meta, active, queue, pendingTerminal, pendingFailure, retry, pc, job, availability, spent>>
      \/ /\ LoopAlive /\ workers' = workers \ {s}
         /\ \E n : FinishedIn(queue') = FinishedIn(queue) \union {n} /\ queue'[n].scan = s
         /\ UNCHANGED <<meta, active, pendingTerminal, pendingFailure, retry, pc, job, availability, spent>>
  BY <1>1, <1>2, <1>3
  DEF WorkerFinishes, Goto, Unchanged, storeVars, loopVars, tokenVars
<1>5. CASE /\ ~LoopAlive /\ workers' = workers \ {s}
           /\ UNCHANGED <<meta, active, queue, pendingTerminal, pendingFailure, retry, pc, job, availability, spent>>
  <2>1. Places'
    BY <1>5
    DEF Places, Clean, Agree, Where, SlotClear, FailureFits, TerminalFits, Past, LoopAlive,
        Starting, Opening, Trying, Ending, Queued
  <2>2. Tokens'
    BY <1>5
    DEF Tokens, ResultFits, TerminalFits, FailureFits, Agree, Where, Clean, Starting, Trying,
        Ending, Queued, Past, LoopAlive
  <2>3. Tasks'
    BY <1>5
    DEF Tasks, Attended, Scheduled, Where, Clean, Agree, ResultFits, TerminalFits, FailureFits,
        Past, LoopAlive, Starting, Opening, Trying, Ending, Queued
  <2> QED BY <2>1, <2>2, <2>3, Parts, PTL
<1>6. CASE /\ LoopAlive /\ workers' = workers \ {s}
           /\ \E n : FinishedIn(queue') = FinishedIn(queue) \union {n} /\ queue'[n].scan = s
           /\ UNCHANGED <<meta, active, pendingTerminal, pendingFailure, retry, pc, job, availability, spent>>
  <2>1. Places'
    BY <1>6
    DEF Places, Clean, Agree, Where, SlotClear, FailureFits, TerminalFits, Past, LoopAlive,
        Starting, Opening, Trying, Ending, Queued
  <2>2. Tokens'
    BY <1>6
    DEF Tokens, ResultFits, TerminalFits, FailureFits, Agree, Where, Clean, Starting, Trying,
        Ending, Queued, Past, LoopAlive
  <2>3. Tasks'
    BY <1>6
    DEF Tasks, Attended, Scheduled, Where, Clean, Agree, ResultFits, TerminalFits, FailureFits,
        Past, LoopAlive, Starting, Opening, Trying, Ending, Queued
  <2> QED BY <2>1, <2>2, <2>3, Parts, PTL
<1> QED BY <1>4, <1>5, <1>6

------------------------------------------------------------------------------
(* What the callers were told. *)

\* One caller: what it was told is true of the rows, and will stay so.
Honest(q) ==
  /\ q.asked <= meta.revision
  /\ q.state = "new" => q.answer = "none"
  /\ q.answer = "started" =>
       /\ q.scan \in DOMAIN runs
       /\ runs[q.scan].started = q.revision /\ q.asked < q.revision
  /\ q.answer = "coalesced" =>
       /\ q.scan \in DOMAIN runs /\ runs[q.scan].enqueued = q.revision
       /\ runs[q.scan].started # 0 => q.asked < runs[q.scan].started

AllHonest == \A r \in Requesters : Honest(requester[r])

\* Rows keep their revisions, so the answer stays true.
LEMMA HonestStays ==
  ASSUME Consistent, RowsKept, meta'.revision \in Nat, NEW q \in Calls, Honest(q)
  PROVE  Honest(q)'
<1>1. meta.revision \in Nat /\ q.asked \in Nat
  BY TypedMeta DEF Calls
<1>2. q.asked <= meta'.revision
  BY <1>1 DEF Honest, RowsKept
<1>3. q.answer = "started" =>
       /\ q.scan \in DOMAIN runs'
       /\ runs'[q.scan].started = q.revision /\ q.asked < q.revision
  BY <1>1 DEF Honest, RowsKept
<1>4. q.answer = "coalesced" =>
       /\ q.scan \in DOMAIN runs' /\ runs'[q.scan].enqueued = q.revision
       /\ runs'[q.scan].started # 0 => q.asked < runs'[q.scan].started
  BY <1>1 DEF Honest, RowsKept
<1> QED BY <1>2, <1>3, <1>4 DEF Honest

\* A caller that moves on without an answer, or with one that names no scan.
LEMMA HonestMoves ==
  ASSUME Consistent, NEW q \in Calls, Honest(q), NEW p \in Calls, p.asked \in {q.asked, meta.revision},
         p.state # "new",
         \/ p.answer \notin {"started", "coalesced"}
         \/ p.answer = q.answer /\ p.scan = q.scan /\ p.revision = q.revision /\ p.asked = q.asked
  PROVE  Honest(p)
BY TypedMeta DEF Honest

\* A nested update of a record is the record of its fields.
LEMMA RecordAnswered ==
  ASSUME NEW q \in Calls, NEW answer \in Answers, NEW s \in Nat, NEW n \in Nat
  PROVE  [q EXCEPT !.state = "done", !.answer = answer, !.scan = s, !.revision = n] =
           [state |-> "done", asked |-> q.asked, answer |-> answer, scan |-> s, revision |-> n]
<1> DEFINE e == [q EXCEPT !.state = "done", !.answer = answer, !.scan = s, !.revision = n]
<1>1. e \in Calls
  BY DEF Calls
<1>2. e.state = "done" /\ e.asked = q.asked /\ e.answer = answer /\ e.scan = s /\ e.revision = n
  BY DEF Calls
<1> HIDE DEF e
<1>3. e = [state |-> "done", asked |-> q.asked, answer |-> answer, scan |-> s, revision |-> n]
  BY <1>1, <1>2 DEF Calls
<1> QED BY <1>3 DEF e

\* What Reply makes of the records.
LEMMA ReplyStep ==
  ASSUME Typed, NEW answer \in Answers, NEW s \in Nat, NEW n \in Nat, Reply(answer, s, n), NEW r \in Requesters
  PROVE  \/ requester'[r] = requester[r]
         \/ requester'[r] = [state |-> "done", asked |-> requester[r].asked, answer |-> answer,
                             scan |-> s, revision |-> n]
<1>1. CASE job.caller = Nobody
  BY <1>1 DEF Reply
<1>2. CASE job.caller # Nobody
  <2> DEFINE c  == job.caller
             q  == requester[r]
             q1 == [q EXCEPT !.state = "done"]
             q2 == [q1 EXCEPT !.answer = answer]
             q3 == [q2 EXCEPT !.scan = s]
             q4 == [q3 EXCEPT !.revision = n]
             f1 == [requester EXCEPT ![c].state = "done"]
             f2 == [f1 EXCEPT ![c].answer = answer]
             f3 == [f2 EXCEPT ![c].scan = s]
             f4 == [f3 EXCEPT ![c].revision = n]
  <2>1. requester' = f4 /\ DOMAIN requester = Requesters
    BY <1>2 DEF Reply, Typed
  <2>2. f4[r] = IF r = c THEN q4 ELSE q
    BY <2>1
  <2>3. q \in Calls
    BY DEF Typed
  <2>4. q4 = [state |-> "done", asked |-> q.asked, answer |-> answer, scan |-> s, revision |-> n]
    BY <2>3, RecordAnswered
  <2> QED BY <2>1, <2>2, <2>4
<1> QED BY <1>1, <1>2

\* The row of a queued slot, and of a scan that has just started.
SlotRow == Queued => /\ meta.slot.scan \in DOMAIN runs
                     /\ runs[meta.slot.scan].enqueued = meta.slot.enqueued
                     /\ runs[meta.slot.scan].started = 0

LEMMA QueuedRow == Consistent => SlotRow
BY SameTypes
DEF Consistent, SlotRow, Queued, Store!ProjectionMatchesRows, Store!QueuedProjection,
   Store!RowIs, Store!ReadableState, Store!ValidRun

LEMMA StartedRow ==
  ASSUME Consistent, Store!MarkScanStarted
  PROVE  /\ Store!NewScan \in DOMAIN runs' /\ runs'[Store!NewScan].started = Store!NextRevision
         /\ meta'.revision = Store!NextRevision /\ Store!NewScan \in Nat
         /\ Store!NextRevision \in Nat /\ Store!NextRevision > meta.revision
<1>1. L!Consistent /\ L!MarkScanStarted
  BY SameConsistent, SameCalls
<1>2. L!TypeOK
  BY <1>1 DEF L!Consistent
<1>3. /\ L!OthersStay(L!NewScan)
      /\ runs'[L!NewScan].started = L!NextRevision
  BY <1>1, <1>2, L!StartStep, FingerprintsAssumption
<1>4. L!NewScan \in DOMAIN runs' /\ L!NewScan \in Nat
  BY <1>3 DEF L!OthersStay
<1>5. meta'.revision = Store!NextRevision
  BY TypedMeta DEF Store!MarkScanStarted, Store!Meta
<1> QED BY <1>3, <1>4, <1>5, SameTypes, TypedMeta DEF Store!NextRevision

\* A caller that moves on, its record after a reply, and the refusals.
Moves(q, p) ==
  /\ p.state # "new" /\ p.asked \in {q.asked, meta.revision}
  /\ \/ p.answer \notin {"started", "coalesced"}
     \/ p.answer = q.answer /\ p.scan = q.scan /\ p.revision = q.revision /\ p.asked = q.asked

Answered(q, answer, s, n) ==
  [state |-> "done", asked |-> q.asked, answer |-> answer, scan |-> s, revision |-> n]

Refusals == {"source_changed", "recovering", "shutting_down", "start_failed", "enqueue_failed"}

LEMMA RefusalStep ==
  ASSUME Typed, NEW answer \in Refusals, Reply(answer, NoScan, 0), NEW r \in Requesters
  PROVE  requester'[r] = requester[r] \/ Moves(requester[r], requester'[r])
<1>1. answer \in Answers /\ answer \notin {"started", "coalesced"}
  BY DEF Answers, Refusals
<1>2. \/ requester'[r] = requester[r]
      \/ requester'[r] = [state |-> "done", asked |-> requester[r].asked, answer |-> answer,
                          scan |-> NoScan, revision |-> 0]
  BY <1>1, ReplyStep, Values
<1> QED BY <1>1, <1>2 DEF Moves

\* What one step makes of a caller's record.
CallerMoved(r) ==
  \/ requester'[r] = requester[r] \/ Moves(requester[r], requester'[r])
  \/ /\ Queued'
     /\ requester'[r] = Answered(requester[r], "coalesced", meta'.slot.scan, meta'.slot.enqueued)
  \/ /\ Store!MarkScanStarted
     /\ requester'[r] = Answered(requester[r], "started", Store!NewScan, Store!NextRevision)

\* An accepting answer comes with a queued slot or with the start of a scan.
LEMMA CallerStep ==
  ASSUME Typed, Consistent, Consistent', AllHonest, [Next]_vars, NEW r \in Requesters
  PROVE  CallerMoved(r)
<1>1. CASE requester' = requester
  BY <1>1 DEF CallerMoved
<1>2. ASSUME NEW answer \in Refusals, Reply(answer, NoScan, 0) PROVE CallerMoved(r)
  BY <1>2, RefusalStep DEF CallerMoved
<1>3. ASSUME Coalesce, Queued' PROVE CallerMoved(r)
  <2>1. /\ meta'.slot.scan \in Nat /\ meta'.slot.enqueued \in Nat /\ "coalesced" \in Answers
    BY TypedSlotAfter, Lists
  <2> QED BY <1>3, <2>1, ReplyStep DEF Coalesce, CallerMoved, Answered
<1>4. ASSUME Store!MarkScanStarted, Reply("started", Store!NewScan, Store!NextRevision) PROVE CallerMoved(r)
  <2>1. Store!NewScan \in Nat /\ Store!NextRevision \in Nat /\ "started" \in Answers
    BY TypedMeta, Lists DEF Store!NewScan, Store!NextRevision
  <2> QED BY <1>4, <2>1, ReplyStep DEF CallerMoved, Answered
<1>5. ASSUME NEW st, Exit(st) PROVE CallerMoved(r)
  <2>1. requester[r] \in Calls
    BY DEF Typed
  <2>2. \A q \in Calls : /\ [q EXCEPT !.state = "done", !.answer = "shutting_down"].state = "done"
                         /\ [q EXCEPT !.state = "done", !.answer = "shutting_down"].asked = q.asked
                         /\ [q EXCEPT !.state = "done", !.answer = "shutting_down"].answer = "shutting_down"
    BY DEF Calls
  <2>3. \/ requester'[r] = requester[r]
        \/ requester'[r] = [requester[r] EXCEPT !.state = "done", !.answer = "shutting_down"]
    BY <1>5 DEF Exit
  <2> QED BY <2>1, <2>2, <2>3 DEF CallerMoved, Moves
<1>6. CASE Request
  <2>1. CASE RequestCheck
    <3> DEFINE a == IF availability \in {"shutting_down", "stopped"}
                    THEN "shutting_down" ELSE availability
    <3>1. requester' = requester \/ (availability # "ready" /\ Reply(a, NoScan, 0))
      BY <2>1 DEF RequestCheck
    <3>2. availability # "ready" => a \in Refusals
      BY DEF Typed, Refusals
    <3> HIDE DEF a
    <3> QED BY <1>1, <1>2, <3>1, <3>2
  <2>2. CASE RequestState
    <3>1. \/ requester' = requester \/ Reply("start_failed", NoScan, 0)
          \/ Coalesce /\ meta' = meta /\ Queued
      BY <2>2 DEF RequestState, Unchanged, storeVars, Queued
    <3> QED BY <1>1, <1>2, <1>3, <3>1 DEF Refusals, Queued
  <2>3. CASE RequestReserve
    <3>1. Store!ReserveScanFollowup => Queued'
      BY ReserveCall DEF Queued
    <3>2. \/ Reply("source_changed", NoScan, 0) \/ Reply("enqueue_failed", NoScan, 0)
          \/ Coalesce /\ Queued'
      BY <2>3, <3>1 DEF RequestReserve
    <3> QED BY <1>2, <1>3, <3>2 DEF Refusals
  <2>4. CASE RequestStart
    <3>1. \/ Reply("source_changed", NoScan, 0) \/ Reply("start_failed", NoScan, 0)
          \/ Store!MarkScanStarted /\ Reply("started", Store!NewScan, Store!NextRevision)
      BY <2>4 DEF RequestStart
    <3> QED BY <1>2, <1>4, <3>1 DEF Refusals
  <2> QED BY <1>6, <2>1, <2>2, <2>3, <2>4 DEF Request
<1>7. CASE Recover
  <2>1. requester' = requester \/ Exit(stopper)
    BY <1>7
    DEF Recover, RecoverRead, RecoverInterrupt, RecoverCheck, RecoverFollowup, RecoverFail,
        RecoverStartup, OpenCheck, OpenStore, callVars
  <2> QED BY <1>1, <1>5, <2>1
<1>8. CASE Wait \/ Tick
  <2>1. requester' = requester \/ Exit(stopper)
    BY <1>8 DEF Wait, Receive, RetryDue, NoTick, LoopCheck, Tick, callVars
  <2> QED BY <1>1, <1>5, <2>1
<1>9. CASE Finish
  BY <1>1, <1>9
  DEF Finish, TerminalCheck, TerminalMark, TryCheck, TryState, TryStart, FollowupFailure,
      callVars
<1>10. CASE Stop
  <2>1. requester' = requester \/ \E st : Exit(st)
    BY <1>10 DEF Stop, StopBegin, StopState, StopUnpersisted, StopFail, StopActive, callVars
  <2> QED BY <1>1, <1>5, <2>1
<1>11. ASSUME NEW p \in Requesters, RequesterCalls(p) PROVE CallerMoved(r)
  <2>0. requester[r] \in Calls /\ Honest(requester[r])
    BY DEF Typed, AllHonest
  <2>1. CASE r # p
    BY <1>1, <1>11, <2>1 DEF RequesterCalls, Typed, CallerMoved
  <2>2. CASE r = p /\ availability = "ready"
    <3>1. requester'[r] = [requester[r] EXCEPT !.state = "sending", !.asked = meta.revision]
      BY <1>11, <2>2 DEF RequesterCalls, Typed
    <3>2. /\ requester'[r].state = "sending" /\ requester'[r].asked = meta.revision
          /\ requester'[r].answer = requester[r].answer
      BY <2>0, <3>1 DEF Calls
    <3>3. requester[r].answer = "none"
      BY <1>11, <2>0, <2>2 DEF RequesterCalls, Honest
    <3> QED BY <3>2, <3>3 DEF CallerMoved, Moves
  <2>3. CASE r = p /\ availability # "ready"
    <3> DEFINE a == IF availability \in {"shutting_down", "stopped"}
                    THEN "shutting_down" ELSE availability
    <3>1. requester'[r] = [requester[r] EXCEPT !.state = "done", !.answer = a]
      BY <1>11, <2>3 DEF RequesterCalls, Typed
    <3>2. a \notin {"started", "coalesced"}
      BY DEF Typed
    <3> HIDE DEF a
    <3>3. /\ requester'[r].state = "done" /\ requester'[r].asked = requester[r].asked
          /\ requester'[r].answer = a
      BY <2>0, <3>1 DEF Calls
    <3> QED BY <3>2, <3>3 DEF CallerMoved, Moves
  <2> QED BY <2>1, <2>2, <2>3
<1>12. ASSUME NEW p \in Requesters, RequesterSends(p) PROVE CallerMoved(r)
  <2>0. requester[r] \in Calls
    BY DEF Typed
  <2>1. CASE r # p
    BY <1>12, <2>1 DEF RequesterSends, Typed, CallerMoved
  <2>2. CASE r = p /\ LoopAlive
    <3>1. requester'[r] = [requester[r] EXCEPT !.state = "waiting"]
      BY <1>12, <2>2 DEF RequesterSends, Typed
    <3>2. Moves(requester[r], requester'[r])
      BY <2>0, <3>1 DEF Calls, Moves
    <3> QED BY <3>2 DEF CallerMoved
  <2>3. CASE r = p /\ ~LoopAlive
    <3>1. requester'[r] = [requester[r] EXCEPT !.state = "done", !.answer = "shutting_down"]
      BY <1>12, <2>3 DEF RequesterSends, Typed
    <3>2. Moves(requester[r], requester'[r])
      BY <2>0, <3>1 DEF Calls, Moves
    <3> QED BY <3>2 DEF CallerMoved
  <2> QED BY <2>1, <2>2, <2>3
<1>13. CASE Crash
  <2>0. requester[r] \in Calls
    BY DEF Typed
  <2>1. \/ requester'[r] = requester[r]
        \/ requester'[r] = [requester[r] EXCEPT !.state = "lost"]
    BY <1>13 DEF Crash
  <2>2. requester'[r] = requester[r] \/ Moves(requester[r], requester'[r])
    BY <2>0, <2>1 DEF Calls, Moves
  <2> QED BY <2>2 DEF CallerMoved
<1>14. CASE Start \/ (\E x \in Stoppers : StopperCalls(x) \/ StopperSends(x))
            \/ (\E s \in workers : WorkerFinishes(s)) \/ UNCHANGED vars
  BY <1>1, <1>14 DEF Start, StopperCalls, StopperSends, WorkerFinishes, vars, callVars
<1> QED
  BY <1>6, <1>7, <1>8, <1>9, <1>10, <1>11, <1>12, <1>13, <1>14 DEF Next, LoopStep, Callers

\* So every step keeps the answers true.
LEMMA HonestNext ==
  ASSUME Typed, Consistent, Consistent', Typed', AllHonest, [Next]_vars
  PROVE  AllHonest'
<1>0. RowsKept
  BY StoreStep, RowsAreKept
<1>1. SUFFICES ASSUME NEW r \in Requesters, NEW q, q = requester[r], NEW p, p = requester'[r]
               PROVE  Honest(p)'
  BY DEF AllHonest, Honest
<1>2. q \in Calls /\ p \in Calls /\ Honest(q)
  BY <1>1 DEF Typed, AllHonest
<1>3. meta.revision \in Nat /\ meta'.revision \in Nat
  BY TypedMeta DEF Consistent, Store!TypeOK, Store!Meta
<1>4. CASE p = q
  BY <1>0, <1>2, <1>3, <1>4, HonestStays
<1>5. CASE Moves(q, p)
  <2>1. Honest(p)
    BY <1>2, <1>5, HonestMoves DEF Moves
  <2> QED BY <1>0, <1>2, <1>3, <2>1, HonestStays
<1>6. CASE Queued' /\ p = Answered(q, "coalesced", meta'.slot.scan, meta'.slot.enqueued)
  <2>1. /\ meta'.slot.scan \in DOMAIN runs'
        /\ runs'[meta'.slot.scan].enqueued = meta'.slot.enqueued
        /\ runs'[meta'.slot.scan].started = 0
    <3>1. Consistent' => SlotRow'
      BY QueuedRow, PTL
    <3> QED BY <1>6, <3>1 DEF SlotRow
  <2>2. q.asked <= meta'.revision
    BY <1>0, <1>2, <1>3 DEF Honest, RowsKept, Calls
  <2> QED BY <1>6, <2>1, <2>2 DEF Honest, Answered
<1>7. CASE Store!MarkScanStarted /\ p = Answered(q, "started", Store!NewScan, Store!NextRevision)
  <2>1. q.asked <= meta.revision /\ q.asked \in Nat
    BY <1>2 DEF Honest, Calls
  <2>2. p.state = "done" /\ p.asked = q.asked /\ p.answer = "started" /\ p.scan = Store!NewScan
        /\ p.revision = Store!NextRevision
    BY <1>7 DEF Answered
  <2> QED BY <1>3, <1>7, <2>1, <2>2, StartedRow DEF Honest
<1> QED BY <1>1, <1>4, <1>5, <1>6, <1>7, CallerStep DEF CallerMoved

------------------------------------------------------------------------------
(* The inductive invariant. *)

IInv == Base /\ AllHonest

LEMMA TypedInit == Init => Typed
<1> SUFFICES ASSUME Init PROVE Typed
  OBVIOUS
<1>1. NotAsked \in Calls
  BY Values DEF NotAsked, Calls, Answers
<1>2. requester \in [Requesters -> Calls]
  BY <1>1 DEF Init
<1> QED BY <1>2, Values DEF Init, Typed, Stops, Counts, Locations, Stopping

LEMMA ControlInit == Init => Control
<1> SUFFICES ASSUME Init PROVE Control
  OBVIOUS
<1>1. /\ pc = "down" /\ active = 0 /\ pendingTerminal = NoTerminal /\ pendingFailure = NoFailure
      /\ retry = FALSE /\ queue = <<>> /\ workers = {}
  BY Values DEF Init
<1>2. Clean /\ Agree /\ Where /\ SlotClear
  BY <1>1, NothingFinished DEF Clean, Agree, Where, SlotClear, Past, LoopAlive, Starting
<1>3. ResultFits /\ TerminalFits /\ FailureFits
  BY <1>1, NothingFinished DEF ResultFits, TerminalFits, FailureFits, Ending
<1>4. Attended /\ Scheduled
  BY <1>1 DEF Attended, Scheduled, Past, LoopAlive
<1> QED BY <1>2, <1>3, <1>4 DEF Control

LEMMA HonestInit == Init => AllHonest
BY TypedMeta, StoreInit DEF Init, AllHonest, Honest, NotAsked

\* It holds at first, and every step keeps it.
LEMMA InvInit == Init => IInv
BY StoreInit, TypedInit, ControlInit, HonestInit DEF IInv, Base

LEMMA TypedNext ==
  ASSUME Typed, Consistent, Consistent', [Next]_vars
  PROVE  Typed'
<1>1. CASE Recover
  BY <1>1, RecoverReadTyped, RecoverInterruptTyped, RecoverCheckTyped, RecoverFollowupTyped,
     RecoverFailTyped, RecoverStartupTyped, OpenCheckTyped, OpenStoreTyped DEF Recover
<1>2. CASE Wait \/ Tick
  BY <1>2, ReceiveTyped, RetryDueTyped, NoTickTyped, LoopCheckTyped, TickTyped DEF Wait
<1>3. CASE Request
  BY <1>3, RequestCheckTyped, RequestStateTyped, RequestReserveTyped, RequestStartTyped
  DEF Request
<1>4. CASE Finish
  BY <1>4, TerminalCheckTyped, TerminalMarkTyped, TryCheckTyped, TryStateTyped, TryStartTyped,
     FollowupFailureTyped DEF Finish
<1>5. CASE Stop
  BY <1>5, StopBeginTyped, StopStateTyped, StopFailTyped, StopActiveTyped DEF Stop
<1>6. CASE Start \/ Crash \/ Callers \/ \E s \in workers : WorkerFinishes(s)
  BY <1>6, StartTyped, CrashTyped, RequesterCallsTyped, RequesterSendsTyped, StopperCallsTyped,
     StopperSendsTyped, WorkerFinishesTyped DEF Callers
<1>7. CASE UNCHANGED vars
  BY <1>7 DEF vars, loopVars, callVars, Typed
<1> QED BY <1>1, <1>2, <1>3, <1>4, <1>5, <1>6, <1>7 DEF Next, LoopStep

LEMMA ControlNext ==
  ASSUME Base, [Next]_vars
  PROVE  Control'
<1>1. CASE Recover
  BY <1>1, RecoverReadHolds, RecoverInterruptHolds, RecoverCheckHolds, RecoverFollowupHolds,
     RecoverFailHolds, RecoverStartupHolds, OpenCheckHolds, OpenStoreHolds DEF Recover
<1>2. CASE Wait \/ Tick
  BY <1>2, ReceiveHolds, RetryDueHolds, NoTickHolds, LoopCheckHolds, TickHolds DEF Wait
<1>3. CASE Request
  BY <1>3, RequestCheckHolds, RequestStateHolds, RequestReserveHolds, RequestStartHolds
  DEF Request
<1>4. CASE Finish
  BY <1>4, TerminalCheckHolds, TerminalMarkHolds, TryCheckHolds, TryStateHolds, TryStartHolds,
     FollowupFailureHolds DEF Finish
<1>5. CASE Stop
  BY <1>5, StopBeginHolds, StopStateHolds, StopFailHolds, StopActiveHolds DEF Stop
<1>6. CASE Start \/ Crash \/ Callers \/ \E s \in workers : WorkerFinishes(s)
  BY <1>6, StartHolds, CrashHolds, RequesterCallsHolds, RequesterSendsHolds, StopperCallsHolds,
     StopperSendsHolds, WorkerFinishesHolds DEF Callers
<1>7. CASE UNCHANGED vars
  <2>1. Places'
    BY <1>7 DEF Base, Control, Places, Clean, Agree, Where, SlotClear, Past, LoopAlive, Queued,
                vars, loopVars, storeVars
  <2>2. Tokens'
    BY <1>7 DEF Base, Control, Tokens, ResultFits, TerminalFits, FailureFits, Ending, Queued,
                vars, loopVars, storeVars
  <2>3. Tasks'
    BY <1>7 DEF Base, Control, Tasks, Attended, Scheduled, Past, LoopAlive, Ending, Queued,
                vars, loopVars, storeVars
  <2> QED BY <2>1, <2>2, <2>3, Parts, PTL
<1> QED BY <1>1, <1>2, <1>3, <1>4, <1>5, <1>6, <1>7 DEF Next, LoopStep

LEMMA InvNext == IInv /\ [Next]_vars => IInv'
<1> SUFFICES ASSUME IInv, [Next]_vars PROVE IInv'
  OBVIOUS
<1>1. Consistent'
  BY StoreStep, ConsistentNext DEF IInv, Base
<1>2. Typed'
  BY <1>1, TypedNext DEF IInv, Base
<1> QED BY <1>1, <1>2, ControlNext, HonestNext DEF IInv, Base

\* The inductive invariant always holds.
THEOREM CoordinatorInvariant == Spec => []IInv
BY InvInit, InvNext, PTL DEF Spec

\* Every variable keeps its type.
THEOREM TypeCorrect == Spec => []TypeOK
<1>1. IInv => TypeOK
  BY TypedIsTypeOK DEF IInv, Base, Consistent
<1> QED BY <1>1, CoordinatorInvariant, PTL

\* No call of lifecycle.rs is refused by its own checks while the source is
\* ready: an operation of the coordinator fails only because the database does.
THEOREM CallsLegal == Spec => []StoreCallsAreLegal
<1>1. IInv => StoreCallsAreLegal
  BY CallsAreLegal DEF IInv
<1> QED BY <1>1, CoordinatorInvariant, PTL

\* A worker thread only runs for the scan the database calls active, even after
\* the event loop of coordinator.rs has returned.
THEOREM OneWorker == Spec => []WorkerOwnsActiveScan
<1>1. IInv => WorkerOwnsActiveScan
  BY DEF IInv, Base, Control, Agree, WorkerOwnsActiveScan
<1> QED BY <1>1, CoordinatorInvariant, PTL

\* Between two events, a scan that is running in the database has a worker, a
\* result in the channel or a scheduled commit, unless the database failed.
THEOREM ActiveAttended == Spec => []ActiveScanIsAttended
<1>1. IInv => ActiveScanIsAttended
  BY ActiveIsAttended DEF IInv
<1> QED BY <1>1, CoordinatorInvariant, PTL

\* Between two events of a coordinator that accepts requests, a queued follow-up
\* has a running scan before it or a retry, unless the database failed.
THEOREM FollowupScheduled == Spec => []QueuedFollowupIsScheduled
<1>1. IInv => QueuedFollowupIsScheduled
  BY FollowupIsScheduled DEF IInv
<1> QED BY <1>1, CoordinatorInvariant, PTL

\* A request that was accepted is served by a scan that starts after the call,
\* and the answer names that scan and the revision of the accepting commit.
THEOREM RequestsServedLater == Spec => []AcceptedRequestIsServedLater
<1>1. IInv => AcceptedRequestIsServedLater
  BY SameTypes DEF IInv, AllHonest, Honest, AcceptedRequestIsServedLater
<1> QED BY <1>1, CoordinatorInvariant, PTL
==============================================================================
