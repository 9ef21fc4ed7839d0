---------------------------- MODULE ScanLifecycle ----------------------------
(***************************************************************************)
(* The durable scan lifecycle: the scan_runs table and the app_meta row    *)
(* that projects it (src/src/storage/lifecycle.rs), together with the      *)
(* source binding that Ledger::open performs (src/src/storage/mod.rs).     *)
(*                                                                         *)
(* Every action is one SQLite Immediate transaction, so it is atomic.  An  *)
(* action is enabled exactly when the code's checks pass; a call whose     *)
(* checks fail returns an error, rolls back and changes nothing.           *)
(*                                                                         *)
(* Scan ids are positions in runs: next_scan_id draws a fresh random UUID, *)
(* of which only its freshness matters.  Absent ids and NULL revisions are *)
(* 0 (the first revision handed out is 1).  Times, triggers and the last_* *)
(* display columns are left out.                                           *)
(***************************************************************************)
EXTENDS Integers, Sequences

CONSTANTS
  Homes,      \* the fingerprints of the CODEX_HOMEs a process may be started on
  NoHome      \* no fingerprint yet

ASSUME HomesAssumption == NoHome \notin Homes

VARIABLES
  meta,       \* the app_meta row
  runs,       \* the scan_runs rows, in insertion order
  opened      \* codex_home_fingerprint of the Ledger this process opened

vars == <<meta, runs, opened>>

NoScan == 0
Null   == 0

StartFailedCodes == {"SCAN_START_FAILED", "SCANNER_UNAVAILABLE", "SOURCE_CHANGED"}
ScanFailedCodes  == {"SCAN_CANCELLED", "SCAN_INTERRUPTED", "WORKER_ERROR"}
NoCode           == "none"
ErrorCodes       == StartFailedCodes \union ScanFailedCodes \union {NoCode}

Live     == {"queued", "running"}
Terminal == {"completed", "failed", "start_failed"}

Run == [kind : {"direct", "followup"}, state : Live \union Terminal,
        enqueued : Nat, started : Nat, terminal : Nat, code : ErrorCodes]

Slot == [state : {"none", "queued", "start_failed"}, scan : Nat,
         enqueued : Nat, code : ErrorCodes]

EmptySlot == [state |-> "none", scan |-> NoScan, enqueued |-> Null, code |-> NoCode]

Meta == [revision : Nat, state : {"idle", "running", "failed"}, active : Nat,
         slot : Slot, lastScan : Nat, lastResult : {"none", "completed", "failed"},
         binding : {"unbound", "ready", "source_changed"}, home : Homes \union {NoHome}]

TypeOK ==
  /\ meta \in Meta
  /\ runs \in Seq(Run)
  /\ opened \in Homes \union {NoHome}

------------------------------------------------------------------------------
(* Reading. *)

\* require_ready: the binding is ready and is the one this process opened.
Ready == meta.binding = "ready" /\ meta.home = opened

\* ScanState::validate, which every read of app_meta applies before and
\* after a write.  A row that fails it can never be read again.
ValidScanState(m) ==
  /\ m.state = "running" <=> m.active # NoScan
  /\ m.lastScan # NoScan <=> m.lastResult # "none"
  /\ m.active # NoScan => m.active # m.slot.scan
  /\ m.slot.state = "none" => m.slot = EmptySlot
  /\ m.slot.state = "queued" =>
       m.slot.scan # NoScan /\ m.slot.enqueued # Null /\ m.slot.code = NoCode
  /\ m.slot.state = "start_failed" =>
       m.slot.scan # NoScan /\ m.slot.enqueued # Null /\ m.slot.code # NoCode

\* ScanRun::validate, applied to every row of scan_runs that is read.
ValidRun(r) ==
  /\ r.kind = "followup" <=> r.enqueued # Null
  /\ r.state = "queued" => r.kind = "followup"
  /\ r.state \in {"queued", "start_failed"} <=> r.started = Null
  /\ r.state \in Terminal <=> r.terminal # Null
  /\ r.state \in {"failed", "start_failed"} <=> r.code # NoCode
  /\ r.state = "start_failed" => r.kind = "followup"

\* ensure_scan_row_state
RowIs(s, state) == s \in DOMAIN runs /\ runs[s].state = state

\* ensure_queued_followup_projection
QueuedProjection ==
  /\ RowIs(meta.slot.scan, "queued")
  /\ runs[meta.slot.scan].kind = "followup"
  /\ runs[meta.slot.scan].enqueued = meta.slot.enqueued

\* ensure_start_failed_followup_projection
StartFailedProjection ==
  /\ RowIs(meta.slot.scan, "start_failed")
  /\ runs[meta.slot.scan].kind = "followup"
  /\ runs[meta.slot.scan].enqueued = meta.slot.enqueued
  /\ runs[meta.slot.scan].code = meta.slot.code

------------------------------------------------------------------------------
(* The writes. *)

NextRevision == meta.revision + 1
NewScan      == Len(runs) + 1

\* The row of a scan that is given up: its state, when, and why.
Fail(r, state, code) ==
  [r EXCEPT !.state = state, !.terminal = NextRevision, !.code = code]

InitialMeta ==
  [revision |-> 0, state |-> "idle", active |-> NoScan, slot |-> EmptySlot,
   lastScan |-> NoScan, lastResult |-> "none", binding |-> "unbound", home |-> NoHome]

Init ==
  /\ meta = InitialMeta
  /\ runs = <<>>
  /\ opened = NoHome

\* Mutant of CanStart: the queued follow-up is not looked at.
StartIgnoresQueue ==
  Ready /\ meta.active = NoScan /\ meta.state # "running"

CanStart ==
  /\ Ready
  /\ meta.active = NoScan /\ meta.state # "running"
  /\ meta.slot.state # "queued"
  /\ meta.slot.state = "start_failed" => StartFailedProjection

\* A new direct scan runs; a start_failed follow-up leaves the slot.
MarkScanStarted ==
  /\ CanStart
  /\ runs' = Append(runs, [kind |-> "direct", state |-> "running", enqueued |-> Null,
                           started |-> NextRevision, terminal |-> Null, code |-> NoCode])
  /\ meta' = [meta EXCEPT !.revision = NextRevision, !.state = "running",
                          !.active = NewScan, !.slot = EmptySlot]
  /\ UNCHANGED opened

CanReserve ==
  /\ Ready
  /\ meta.state = "running" /\ meta.active # NoScan
  /\ RowIs(meta.active, "running")
  /\ meta.slot.state = "queued" => QueuedProjection
  /\ meta.slot.state # "start_failed"

\* The first reservation queues a follow-up; later ones return the same slot.
ReserveScanFollowup ==
  /\ CanReserve
  /\ IF meta.slot.state = "queued"
     THEN UNCHANGED <<meta, runs>>
     ELSE /\ runs' = Append(runs, [kind |-> "followup", state |-> "queued",
                                   enqueued |-> NextRevision, started |-> Null,
                                   terminal |-> Null, code |-> NoCode])
          /\ meta' = [meta EXCEPT !.revision = NextRevision,
                        !.slot = [state |-> "queued", scan |-> NewScan,
                                  enqueued |-> NextRevision, code |-> NoCode]]
  /\ UNCHANGED opened

SlotQueued(s) == meta.slot.state = "queued" /\ meta.slot.scan = s /\ QueuedProjection

CanStartFollowup(s) ==
  /\ Ready
  /\ meta.active = NoScan /\ meta.state # "running"
  /\ SlotQueued(s)

\* Mutants of MarkFollowupStarted: the slot is not cleared; the revision is not advanced.
StartedKeepsSlot(s) ==
  /\ CanStartFollowup(s)
  /\ runs' = [runs EXCEPT ![s] = [@ EXCEPT !.state = "running", !.started = NextRevision]]
  /\ meta' = [meta EXCEPT !.revision = NextRevision, !.state = "running", !.active = s]
  /\ UNCHANGED opened

StartedWithoutRevision(s) ==
  /\ CanStartFollowup(s)
  /\ runs' = [runs EXCEPT ![s] = [@ EXCEPT !.state = "running", !.started = meta.revision]]
  /\ meta' = [meta EXCEPT !.state = "running", !.active = s, !.slot = EmptySlot]
  /\ UNCHANGED opened

\* The queued follow-up leaves the slot and becomes active in one step.
MarkFollowupStarted(s) ==
  /\ CanStartFollowup(s)
  /\ runs' = [runs EXCEPT ![s] = [@ EXCEPT !.state = "running", !.started = NextRevision]]
  /\ meta' = [meta EXCEPT !.revision = NextRevision, !.state = "running",
                          !.active = s, !.slot = EmptySlot]
  /\ UNCHANGED opened

\* The queued follow-up will never run; its slot keeps showing why.
MarkFollowupStartFailed(s, code) ==
  /\ code \in StartFailedCodes
  /\ SlotQueued(s)
  /\ runs' = [runs EXCEPT ![s] = Fail(@, "start_failed", code)]
  /\ meta' = [meta EXCEPT !.revision = NextRevision,
                          !.slot = [@ EXCEPT !.state = "start_failed", !.code = code]]
  /\ UNCHANGED opened

\* require_active_scan
IsActive(s) == meta.state = "running" /\ meta.active = s /\ RowIs(s, "running")

\* Mutant of MarkScanCompleted: the slot is cleared with the active id.
CompletedDropsFollowup(s) ==
  /\ IsActive(s)
  /\ runs' = [runs EXCEPT ![s] = [@ EXCEPT !.state = "completed", !.terminal = NextRevision]]
  /\ meta' = [meta EXCEPT !.revision = NextRevision, !.state = "idle", !.active = NoScan,
                          !.slot = EmptySlot, !.lastScan = s, !.lastResult = "completed"]
  /\ UNCHANGED opened

MarkScanCompleted(s) ==
  /\ IsActive(s)
  /\ runs' = [runs EXCEPT ![s] = [@ EXCEPT !.state = "completed", !.terminal = NextRevision]]
  /\ meta' = [meta EXCEPT !.revision = NextRevision, !.state = "idle", !.active = NoScan,
                          !.lastScan = s, !.lastResult = "completed"]
  /\ UNCHANGED opened

MarkScanFailed(s, code) ==
  /\ IsActive(s)
  /\ runs' = [runs EXCEPT ![s] = Fail(@, "failed", code)]
  /\ meta' = [meta EXCEPT !.revision = NextRevision, !.state = "failed", !.active = NoScan,
                          !.lastScan = s, !.lastResult = "failed"]
  /\ UNCHANGED opened

\* Mutant of BindCodexHome: another home fails the slot and forgets its row.
BindForgetsRow(h) ==
  /\ opened' = h /\ UNCHANGED runs
  /\ meta' =
       IF meta.binding = "unbound" THEN [meta EXCEPT !.binding = "ready", !.home = h]
       ELSE IF meta.home = h \/ meta.binding = "source_changed" THEN meta
       ELSE [meta EXCEPT !.revision = NextRevision, !.binding = "source_changed",
               !.slot = IF @.state # "queued" THEN @
                        ELSE [@ EXCEPT !.state = "start_failed", !.code = "SOURCE_CHANGED"]]

\* bind_codex_home, run by every Ledger::open.  The first home binds; the same
\* home changes nothing; another home makes the source changed for good and
\* fails a queued follow-up.  A queued slot without its row fails the open.
BindCodexHome(h) ==
  /\ opened' = h
  /\ \/ /\ meta.binding = "unbound" /\ meta.home = NoHome
        /\ meta' = [meta EXCEPT !.binding = "ready", !.home = h]
        /\ UNCHANGED runs
     \/ /\ meta.binding = "ready" /\ meta.home = h
        /\ UNCHANGED <<meta, runs>>
     \/ /\ meta.binding = "source_changed" /\ meta.home # NoHome
        /\ UNCHANGED <<meta, runs>>
     \/ /\ meta.binding = "ready" /\ meta.home \notin {h, NoHome}
        /\ meta.slot.state # "queued"
        /\ meta' = [meta EXCEPT !.revision = NextRevision, !.binding = "source_changed"]
        /\ UNCHANGED runs
     \/ /\ meta.binding = "ready" /\ meta.home \notin {h, NoHome}
        /\ meta.slot.state = "queued" /\ RowIs(meta.slot.scan, "queued")
        /\ runs' = [runs EXCEPT ![meta.slot.scan] = Fail(@, "start_failed", "SOURCE_CHANGED")]
        /\ meta' = [meta EXCEPT !.revision = NextRevision, !.binding = "source_changed",
                      !.slot = [@ EXCEPT !.state = "start_failed", !.code = "SOURCE_CHANGED"]]

Next ==
  \/ MarkScanStarted
  \/ ReserveScanFollowup
  \/ \E s \in DOMAIN runs :
       \/ MarkFollowupStarted(s)
       \/ \E code \in StartFailedCodes : MarkFollowupStartFailed(s, code)
       \/ MarkScanCompleted(s)
       \/ \E code \in ScanFailedCodes : MarkScanFailed(s, code)
  \/ \E h \in Homes : BindCodexHome(h)

Spec == Init /\ [][Next]_vars

------------------------------------------------------------------------------
(* Properties. *)

\* Every state the writes leave behind passes the validation that the next
\* read applies to the row and to the projection (domain.rs): no sequence of
\* lifecycle calls makes the database unreadable.
ReadableState ==
  /\ ValidScanState(meta)
  /\ \A s \in DOMAIN runs : ValidRun(runs[s])

\* The app_meta projection and the scan_runs rows tell the same story: the
\* active id is the one running row, the queued slot is the one queued row,
\* and a start_failed slot shows the code of its row.
ProjectionMatchesRows ==
  /\ \A s \in DOMAIN runs :
       /\ runs[s].state = "running" <=> meta.active = s
       /\ runs[s].state = "queued" <=> meta.slot.state = "queued" /\ meta.slot.scan = s
  /\ meta.active # NoScan => meta.active \in DOMAIN runs
  /\ meta.slot.state = "queued" => QueuedProjection
  /\ meta.slot.state = "start_failed" => StartFailedProjection

Stamps(r) == {r.enqueued, r.started, r.terminal} \ {Null}

\* A status revision names one lifecycle step: no revision is stamped on two
\* rows, a row is enqueued before it starts and starts before it ends, and none
\* is newer than the projection's.  A client that saw revision n and the row's
\* stamps can therefore order them.
RevisionsNameOneStep ==
  \A s \in DOMAIN runs :
    /\ \A n \in Stamps(runs[s]) : n <= meta.revision
    /\ runs[s].started # Null => runs[s].enqueued < runs[s].started
    /\ runs[s].terminal # Null =>
         runs[s].enqueued < runs[s].terminal /\ runs[s].started < runs[s].terminal
    /\ \A t \in DOMAIN runs : s # t => Stamps(runs[s]) \cap Stamps(runs[t]) = {}

\* The last-finished columns show the scan that ended last, and how.
LastFinishedIsLatest ==
  LET Ended == {s \in DOMAIN runs : runs[s].state \in {"completed", "failed"}}
  IN  IF Ended = {} THEN meta.lastScan = NoScan
      ELSE /\ meta.lastScan \in Ended
           /\ meta.lastResult = runs[meta.lastScan].state
           /\ \A s \in Ended : runs[s].terminal <= runs[meta.lastScan].terminal

\* A terminal row is immutable history: no later call rewrites its result.
TerminalRowsAreFinal ==
  [][\A s \in DOMAIN runs : runs[s].state \in Terminal =>
       s \in DOMAIN runs' /\ runs'[s] = runs[s]]_vars

\* Whatever a client can observe changes together with the status revision
\* it is notified of (the first bind, before any client exists, excepted).
ChangesAreAnnounced ==
  [][ \/ meta'.revision = meta.revision + 1
      \/ UNCHANGED <<meta, runs>>
      \/ meta.binding = "unbound" /\ runs' = <<>> ]_vars

\* A queued follow-up leaves the queue only by becoming the active scan in the
\* same commit, or by failing with its slot still showing it: a client polling
\* the status never sees an idle projection that has forgotten it.
FollowupIsHandedOver ==
  [][\A s \in DOMAIN runs : runs[s].state = "queued" =>
       \/ runs'[s] = runs[s] /\ meta'.slot = meta.slot
       \/ runs'[s].state = "running" /\ meta'.active = s
       \/ runs'[s].state = "start_failed" /\ meta'.slot.scan = s]_vars

\* The lifecycle implements the promise: a scan that is queued waits, one that
\* could not start was refused, one that completed or failed was served.
PhaseOf(state) ==
  CASE state = "queued" -> "waiting"
    [] state = "running" -> "running"
    [] state = "start_failed" -> "refused"
    [] OTHER -> "served"

Scans == [s \in DOMAIN runs |-> PhaseOf(runs[s].state)]

Promise == INSTANCE ScanPromise WITH scans <- Scans

PromiseKept == Promise!Spec
==============================================================================
