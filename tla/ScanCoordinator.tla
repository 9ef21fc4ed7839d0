--------------------------- MODULE ScanCoordinator ---------------------------
(***************************************************************************)
(* The scan coordinator (src/src/scanner/coordinator.rs): one event-loop   *)
(* thread that owns the scan lifecycle, the handles that other threads use *)
(* to request a scan or to shut it down, and the scan worker threads.      *)
(*                                                                         *)
(* An action of the event loop is one step between two points where other  *)
(* threads can interfere: one load or store of the availability atomic, or *)
(* one call of the LifecycleStore together with the local code after it.   *)
(* The store is module ScanLifecycle; a call either commits, or is refused *)
(* by its own checks, or fails with a Busy or an internal database error   *)
(* and changes nothing.  MaxBusy and MaxInternal bound those failures,     *)
(* MaxTicks the interval timer, MaxCrashes the process restarts.           *)
(*                                                                         *)
(* A requester is one call of ScanHandle::request, a stopper one call of   *)
(* ScanHandle::shutdown.  Back-off lengths are left out: a retry that is   *)
(* due may fire at any later time.                                         *)
(***************************************************************************)
EXTENDS Integers, Sequences, FiniteSets

CONSTANTS
  Homes, NoHome,         \* see ScanLifecycle
  Requesters, Stoppers,  \* the calls of request and of shutdown
  Nobody,                \* no reply channel: the timer, or no waiting shutdown
  Capacity,              \* COMMAND_CAPACITY
  MaxTicks, MaxBusy, MaxInternal, MaxCrashes

ASSUME FingerprintsAssumption == NoHome \notin Homes
ASSUME CallersAssumption ==
  /\ Nobody \notin Requesters \union Stoppers
  /\ Requesters \cap Stoppers = {}
ASSUME BoundsAssumption ==
  /\ Capacity \in Nat \ {0}
  /\ {MaxTicks, MaxBusy, MaxInternal, MaxCrashes} \subseteq Nat

VARIABLES
  meta, runs, opened,  \* the lifecycle store, see ScanLifecycle
  availability,        \* the atomic shared by the loop and the handles
  pc,                  \* where the event loop is
  job,                 \* its local variables while it handles one event
  active,              \* EventLoop::active, the id of the spawned worker
  cancelled,           \* that worker's cancellation flag
  pendingTerminal,     \* a worker result whose commit was Busy
  pendingFailure,      \* a follow-up failure whose commit was Busy
  retry,               \* retry_at is set
  shutdownReply,       \* the stopper whose reply waits for the active worker
  queue,               \* the bounded command channel
  workers,             \* the scans whose worker thread is still running
  requester, stopper,  \* the callers
  spent                \* how many of each bounded event have happened

storeVars == <<meta, runs, opened>>
loopVars  == <<job, active, cancelled, pendingTerminal, pendingFailure, retry, shutdownReply>>
callVars  == <<requester, stopper>>
vars == <<storeVars, loopVars, callVars, availability, pc, queue, workers, spent>>

Store == INSTANCE ScanLifecycle

NoScan == Store!NoScan

Results == {"completed", "failed"}

NoJob == [caller |-> Nobody, scan |-> NoScan, result |-> "completed",
          shutting |-> FALSE, retrying |-> FALSE, code |-> Store!NoCode]

NoTerminal == [scan |-> NoScan, result |-> "completed"]
NoFailure  == [scan |-> NoScan, code |-> Store!NoCode]

\* The three kinds of Command.
RequestCommand(r)   == [kind |-> "request", caller |-> r, scan |-> NoScan, result |-> "completed"]
ShutdownCommand(x)  == [kind |-> "shutdown", caller |-> x, scan |-> NoScan, result |-> "completed"]

FinishedCommand(s, result) ==
  [kind |-> "finished", caller |-> Nobody, scan |-> s, result |-> result]

NotAsked == [state |-> "new", asked |-> 0, answer |-> "none", scan |-> NoScan, revision |-> 0]

Answers == {"none", "started", "coalesced", "source_changed", "recovering",
            "shutting_down", "start_failed", "enqueue_failed"}

Recovery == {"recover", "recover_interrupt", "recover_check", "recover_followup",
             "recover_fail", "recover_startup", "open", "open_store"}
Requesting  == {"request", "request_state", "request_reserve", "request_start"}
Terminating == {"terminal", "terminal_mark", "try", "try_state", "try_start",
                "followup_failure", "loop_check", "tick"}
Stopping    == {"stop", "stop_state", "stop_fail", "stop_active"}
Locations   == Recovery \union Requesting \union Terminating \union Stopping
                 \union {"wait", "exited", "down"}

TypeOK ==
  /\ Store!TypeOK
  /\ availability \in {"recovering", "ready", "source_changed", "shutting_down", "stopped"}
  /\ pc \in Locations
  /\ job \in [caller : Requesters \union Stoppers \union {Nobody}, scan : Nat,
              result : Results, shutting : BOOLEAN, retrying : BOOLEAN,
              code : Store!ErrorCodes]
  /\ active \in Nat /\ cancelled \in BOOLEAN /\ retry \in BOOLEAN
  /\ pendingTerminal \in [scan : Nat, result : Results]
  /\ pendingFailure \in [scan : Nat, code : Store!ErrorCodes]
  /\ shutdownReply \in Stoppers \union {Nobody}
  /\ queue \in Seq([kind : {"request", "shutdown", "finished"}, scan : Nat, result : Results,
                    caller : Requesters \union Stoppers \union {Nobody}])
  /\ workers \subseteq Nat
  /\ requester \in [Requesters -> [state : {"new", "sending", "waiting", "done", "lost"},
                                   asked : Nat, answer : Answers, scan : Nat, revision : Nat]]
  /\ stopper \in [Stoppers -> {"new", "sending", "waiting", "ok", "already_stopped",
                               "unavailable", "not_persisted", "lost"}]
  /\ spent \in [ticks : Nat, busy : Nat, internal : Nat, crashes : Nat]

------------------------------------------------------------------------------
(* Steps shared by several actions. *)

Goto(location) == pc' = location

\* How a store call can fail without reaching its own checks.
Busy     == spent.busy < MaxBusy /\ spent' = [spent EXCEPT !.busy = @ + 1]
Internal == spent.internal < MaxInternal /\ spent' = [spent EXCEPT !.internal = @ + 1]

\* A commit, and a refusal by the checks of the called operation.
Commits      == UNCHANGED spent
Refused      == UNCHANGED <<spent, storeVars>>
Unchanged    == UNCHANGED storeVars

\* Every error that is neither Busy nor SourceChanged: an internal database
\* error, or the InvalidState that a failed check of the operation returns.
InternalOr(refusal) == (Internal /\ Unchanged) \/ (refusal /\ Refused)

\* is_source_changed: the operation's require_ready failed.
SourceChanged == ~Store!Ready /\ Refused

SpawnWorker(s) ==
  /\ active' = s /\ cancelled' = FALSE
  /\ workers' = workers \union {s}
NoSpawn == UNCHANGED <<active, cancelled, workers>>

\* reply.send of process_request; the timer has no reply channel.
Reply(answer, s, revision) ==
  /\ requester' = IF job.caller = Nobody THEN requester
                  ELSE [requester EXCEPT ![job.caller].state = "done",
                                         ![job.caller].answer = answer,
                                         ![job.caller].scan = s,
                                         ![job.caller].revision = revision]
  /\ job' = NoJob
  /\ Goto("wait")

\* The event loop returns: its Receiver and the reply senders it holds drop.
Exit(stoppers) ==
  /\ availability' = "stopped"
  /\ Goto("exited")
  /\ job' = NoJob /\ active' = NoScan /\ UNCHANGED cancelled
  /\ pendingTerminal' = NoTerminal /\ pendingFailure' = NoFailure
  /\ retry' = FALSE /\ shutdownReply' = Nobody
  /\ queue' = <<>>
  /\ requester' = [r \in Requesters |->
                     IF requester[r].state = "waiting"
                     THEN [requester[r] EXCEPT !.state = "done", !.answer = "shutting_down"]
                     ELSE requester[r]]
  /\ stopper' = [x \in Stoppers |->
                   IF stoppers[x] = "waiting" THEN "unavailable" ELSE stoppers[x]]

------------------------------------------------------------------------------
(* Process start and recovery. *)

\* Ledger::open, then ScanCoordinator::start.
Start ==
  /\ pc = "down"
  /\ \E h \in Homes : Store!BindCodexHome(h)
  /\ Goto("recover") /\ availability' = "recovering"
  /\ UNCHANGED <<loopVars, callVars, queue, workers, spent>>

\* Mutant of RecoverRead: a running row is taken for a live scan.
RecoverReadTrustsRow ==
  /\ pc = "recover" /\ Unchanged /\ Commits
  /\ Goto("recover_check")
  /\ UNCHANGED <<loopVars, callVars, availability, queue, workers>>

RecoverRead ==
  /\ pc = "recover"
  /\ Unchanged
  /\ \/ /\ Busy /\ Goto("recover")
        /\ UNCHANGED <<loopVars, callVars, availability, queue, workers>>
     \/ /\ Internal /\ Exit(stopper) /\ UNCHANGED workers
     \/ /\ Commits
        /\ Goto(IF meta.active # NoScan THEN "recover_interrupt" ELSE "recover_check")
        /\ UNCHANGED <<loopVars, callVars, availability, queue, workers>>

RecoverInterrupt ==
  /\ pc = "recover_interrupt"
  /\ \/ /\ Busy /\ Unchanged /\ Goto("recover")
        /\ UNCHANGED <<loopVars, callVars, availability, queue, workers>>
     \/ /\ InternalOr(~Store!IsActive(meta.active))
        /\ Exit(stopper) /\ UNCHANGED workers
     \/ /\ Store!MarkScanFailed(meta.active, "SCAN_INTERRUPTED") /\ Commits
        /\ Goto("recover")
        /\ UNCHANGED <<loopVars, callVars, availability, queue, workers>>

\* Mutant of RecoverCheck: Startup goes before the queued follow-up.
RecoverCheckIgnoresQueue ==
  /\ pc = "recover_check"
  /\ Goto(IF availability = "shutting_down" THEN "open" ELSE "recover_startup")
  /\ UNCHANGED <<storeVars, loopVars, callVars, availability, queue, workers, spent>>

RecoverCheck ==
  /\ pc = "recover_check"
  /\ Goto(IF availability = "shutting_down" THEN "open"
          ELSE IF meta.slot.state = "queued" THEN "recover_followup"
          ELSE "recover_startup")
  /\ UNCHANGED <<storeVars, loopVars, callVars, availability, queue, workers, spent>>

\* mark_followup_started failed for good, and the code that is persisted for it.
CannotStartFollowup(code) ==
  \/ /\ code = "SCAN_START_FAILED"
     /\ InternalOr(Store!Ready /\ ~Store!CanStartFollowup(meta.slot.scan))
  \/ /\ code = "SOURCE_CHANGED" /\ SourceChanged

\* A queued follow-up goes before a new Startup scan.
RecoverFollowup ==
  /\ pc = "recover_followup"
  /\ \/ /\ Store!MarkFollowupStarted(meta.slot.scan) /\ Commits
        /\ SpawnWorker(meta.slot.scan) /\ Goto("open") /\ UNCHANGED job
     \/ /\ Busy /\ Unchanged
        /\ NoSpawn /\ Goto("recover") /\ UNCHANGED job
     \/ \E code \in Store!StartFailedCodes :
          /\ CannotStartFollowup(code)
          /\ NoSpawn /\ Goto("recover_fail")
          /\ job' = [job EXCEPT !.scan = meta.slot.scan, !.code = code]
  /\ UNCHANGED <<pendingTerminal, pendingFailure, retry, shutdownReply,
                 callVars, availability, queue>>

\* persist_followup_failure_during_recovery, called by recover: retries Busy.
RecoverFail ==
  /\ pc = "recover_fail"
  /\ \/ /\ Store!MarkFollowupStartFailed(job.scan, job.code) /\ Commits
        /\ job' = NoJob
        /\ IF job.code = "SOURCE_CHANGED"
           THEN availability' = "source_changed" /\ Goto("open")
           ELSE UNCHANGED availability /\ Goto("recover")
        /\ UNCHANGED <<active, cancelled, pendingTerminal, pendingFailure, retry,
                       shutdownReply, callVars, queue, workers>>
     \/ /\ Busy /\ Unchanged /\ UNCHANGED pc
        /\ UNCHANGED <<loopVars, callVars, availability, queue, workers>>
     \/ /\ InternalOr(~Store!SlotQueued(job.scan))
        /\ Exit(stopper) /\ UNCHANGED workers

\* A Startup scan that cannot commit ends recovery without a scan.
RecoverStartup ==
  /\ pc = "recover_startup"
  /\ \/ /\ Store!MarkScanStarted /\ Commits
        /\ SpawnWorker(Store!NewScan) /\ Goto("open") /\ UNCHANGED availability
     \/ /\ Busy /\ Unchanged
        /\ NoSpawn /\ Goto("recover") /\ UNCHANGED availability
     \/ /\ SourceChanged
        /\ NoSpawn /\ Goto("open") /\ availability' = "source_changed"
     \/ /\ InternalOr(Store!Ready /\ ~Store!CanStart)
        /\ NoSpawn /\ Goto("open") /\ UNCHANGED availability
  /\ UNCHANGED <<job, pendingTerminal, pendingFailure, retry, shutdownReply, callVars, queue>>

\* run: `if load == RECOVERING { store READY }` is a load and then a store.
OpenCheck ==
  /\ pc = "open"
  /\ Goto(IF availability = "recovering" THEN "open_store" ELSE "wait")
  /\ UNCHANGED <<storeVars, loopVars, callVars, availability, queue, workers, spent>>

OpenStore ==
  /\ pc = "open_store"
  /\ availability' = "ready"
  /\ Goto("wait")
  /\ UNCHANGED <<storeVars, loopVars, callVars, queue, workers, spent>>

Recover ==
  \/ RecoverRead \/ RecoverInterrupt \/ RecoverCheck \/ RecoverFollowup
  \/ RecoverFail \/ RecoverStartup \/ OpenCheck \/ OpenStore

------------------------------------------------------------------------------
(* The event loop: waiting for a command, a retry or the interval tick. *)

\* recv_timeout returns a command whenever one is there.
Receive ==
  /\ pc = "wait" /\ queue # <<>>
  /\ LET c == Head(queue) IN
       /\ Goto(CASE c.kind = "request" -> "request"
                 [] c.kind = "finished" -> "terminal"
                 [] c.kind = "shutdown" -> "stop")
       /\ job' = [NoJob EXCEPT !.caller = c.caller, !.scan = c.scan, !.result = c.result]
  /\ queue' = Tail(queue)
  /\ UNCHANGED <<storeVars, active, cancelled, pendingTerminal, pendingFailure, retry,
                 shutdownReply, callVars, availability, workers, spent>>

\* Mutant of RetryDue: every retry is for the queued follow-up.
RetryForgetsTerminal ==
  /\ pc = "wait" /\ queue = <<>> /\ retry
  /\ retry' = FALSE
  /\ Goto("try") /\ job' = [NoJob EXCEPT !.retrying = TRUE]
  /\ UNCHANGED <<storeVars, active, cancelled, pendingTerminal, pendingFailure,
                 shutdownReply, callVars, availability, queue, workers, spent>>

\* Timeout with retry_at due: the pending terminal, else the pending follow-up
\* failure, else the queued follow-up.
RetryDue ==
  /\ pc = "wait" /\ queue = <<>> /\ retry
  /\ retry' = FALSE
  /\ IF pendingTerminal # NoTerminal
     THEN /\ Goto("terminal")
          /\ job' = [NoJob EXCEPT !.retrying = TRUE, !.scan = pendingTerminal.scan,
                                  !.result = pendingTerminal.result]
          /\ pendingTerminal' = NoTerminal /\ UNCHANGED pendingFailure
     ELSE IF pendingFailure # NoFailure
     THEN /\ Goto("followup_failure")
          /\ job' = [NoJob EXCEPT !.retrying = TRUE, !.scan = pendingFailure.scan,
                                  !.code = pendingFailure.code]
          /\ pendingFailure' = NoFailure /\ UNCHANGED pendingTerminal
     ELSE /\ Goto("try")
          /\ job' = [NoJob EXCEPT !.retrying = TRUE]
          /\ UNCHANGED <<pendingTerminal, pendingFailure>>
  /\ UNCHANGED <<storeVars, active, cancelled, shutdownReply, callVars, availability,
                 queue, workers, spent>>

\* Timeout with the interval tick due, on its own or after a retry that was
\* due too: when ready, request a Scheduled scan.
Tick ==
  /\ \/ pc = "wait" /\ queue = <<>>
     \/ pc = "tick"
  /\ spent.ticks < MaxTicks
  /\ spent' = [spent EXCEPT !.ticks = @ + 1]
  /\ Goto(IF availability = "ready" THEN "request" ELSE "wait")
  /\ job' = NoJob
  /\ UNCHANGED <<storeVars, active, cancelled, pendingTerminal, pendingFailure, retry,
                 shutdownReply, callVars, availability, queue, workers>>

NoTick ==
  /\ pc = "tick"
  /\ Goto("wait") /\ job' = NoJob
  /\ UNCHANGED <<storeVars, active, cancelled, pendingTerminal, pendingFailure, retry,
                 shutdownReply, callVars, availability, queue, workers, spent>>

\* handle_command ends the loop only after a WorkerFinished command, and only
\* if it then finds the coordinator stopped; a retry goes on to the tick.
LoopCheck ==
  /\ pc = "loop_check"
  /\ IF job.retrying
     THEN /\ Goto("tick")
          /\ UNCHANGED <<loopVars, callVars, availability, queue>>
     ELSE IF shutdownReply = Nobody /\ availability = "stopped"
     THEN Exit(stopper)
     ELSE /\ Goto("wait") /\ job' = NoJob
          /\ UNCHANGED <<active, cancelled, pendingTerminal, pendingFailure, retry,
                         shutdownReply, callVars, availability, queue>>
  /\ UNCHANGED <<storeVars, workers, spent>>

Wait == Receive \/ RetryDue \/ NoTick \/ LoopCheck

------------------------------------------------------------------------------
(* request_inner: one scan request, of a caller or of the timer. *)

KeptByRequest == <<pendingTerminal, pendingFailure, retry, shutdownReply,
                   availability, queue, stopper>>

\* Mutant of RequestCheck: a request that comes too late gets no reply.
RequestCheckDrops ==
  /\ pc = "request"
  /\ IF availability = "ready" THEN Goto("request_state") /\ UNCHANGED job
     ELSE Goto("wait") /\ job' = NoJob
  /\ UNCHANGED <<storeVars, active, cancelled, workers, spent, requester>>
  /\ UNCHANGED KeptByRequest

RequestCheck ==
  /\ pc = "request"
  /\ IF availability = "ready"
     THEN Goto("request_state") /\ UNCHANGED <<job, requester>>
     ELSE Reply(IF availability \in {"shutting_down", "stopped"} THEN "shutting_down"
                ELSE availability, NoScan, 0)
  /\ UNCHANGED <<storeVars, active, cancelled, workers, spent>>
  /\ UNCHANGED KeptByRequest

\* Mutant of Coalesce: the answer names the scan that is running.
CoalesceIntoActive == Reply("coalesced", meta'.active, meta'.revision)

\* disposition_from_followup
Coalesce == Reply("coalesced", meta'.slot.scan, meta'.slot.enqueued)

\* Mutant of RequestState: only the running scan is looked at.
RequestStateIgnoresQueue ==
  /\ pc = "request_state"
  /\ Unchanged /\ Commits
  /\ Goto(IF meta.state = "running" THEN "request_reserve" ELSE "request_start")
  /\ UNCHANGED <<job, requester, active, cancelled, workers>>
  /\ UNCHANGED KeptByRequest

RequestState ==
  /\ pc = "request_state"
  /\ Unchanged
  /\ \/ /\ Busy \/ Internal
        /\ Reply("start_failed", NoScan, 0)
     \/ /\ Commits /\ meta.slot.state = "queued"
        /\ Coalesce
     \/ /\ Commits /\ meta.slot.state # "queued"
        /\ Goto(IF meta.state = "running" THEN "request_reserve" ELSE "request_start")
        /\ UNCHANGED <<job, requester>>
  /\ UNCHANGED <<active, cancelled, workers>>
  /\ UNCHANGED KeptByRequest

RequestReserve ==
  /\ pc = "request_reserve"
  /\ \/ /\ Store!ReserveScanFollowup /\ Commits
        /\ Coalesce
     \/ /\ SourceChanged
        /\ Reply("source_changed", NoScan, 0)
     \/ /\ (Busy /\ Unchanged) \/ InternalOr(Store!Ready /\ ~Store!CanReserve)
        /\ Reply("enqueue_failed", NoScan, 0)
  /\ UNCHANGED <<active, cancelled, workers>>
  /\ UNCHANGED KeptByRequest

RequestStart ==
  /\ pc = "request_start"
  /\ \/ /\ Store!MarkScanStarted /\ Commits
        /\ SpawnWorker(Store!NewScan)
        /\ Reply("started", Store!NewScan, Store!NextRevision)
     \/ /\ SourceChanged
        /\ NoSpawn /\ Reply("source_changed", NoScan, 0)
     \/ /\ (Busy /\ Unchanged) \/ InternalOr(Store!Ready /\ ~Store!CanStart)
        /\ NoSpawn /\ Reply("start_failed", NoScan, 0)
  /\ UNCHANGED KeptByRequest

Request == RequestCheck \/ RequestState \/ RequestReserve \/ RequestStart

------------------------------------------------------------------------------
(* handle_terminal, try_start_queued and persist_followup_failure. *)

TerminalCheck ==
  /\ pc = "terminal"
  /\ IF active # NoScan /\ active = job.scan
     THEN /\ Goto("terminal_mark")
          /\ job' = [job EXCEPT !.shutting = availability = "shutting_down"]
     ELSE Goto("loop_check") /\ UNCHANGED job
  /\ UNCHANGED <<storeVars, active, cancelled, pendingTerminal, pendingFailure, retry,
                 shutdownReply, callVars, availability, queue, workers, spent>>

\* The call that commits the result; a scan that ends during shutdown was cancelled.
MarkTerminal ==
  IF job.shutting THEN Store!MarkScanFailed(job.scan, "SCAN_CANCELLED")
  ELSE IF job.result = "completed" THEN Store!MarkScanCompleted(job.scan)
  ELSE Store!MarkScanFailed(job.scan, "WORKER_ERROR")

\* Mutant of ReplyShutdown: the reply channel is kept and never used.
ReplyShutdownForgets(answer) == UNCHANGED <<stopper, shutdownReply>>

\* The waiting shutdown, if any, gets its answer.
ReplyShutdown(answer) ==
  /\ stopper' = IF shutdownReply = Nobody THEN stopper
                ELSE [stopper EXCEPT ![shutdownReply] = answer]
  /\ shutdownReply' = Nobody

TerminalMark ==
  /\ pc = "terminal_mark"
  /\ \/ /\ MarkTerminal /\ Commits
        /\ active' = NoScan
        /\ UNCHANGED <<pendingTerminal, retry>>
        /\ IF job.shutting
           THEN /\ Goto("loop_check")
                /\ ReplyShutdown("ok")
                /\ availability' = IF shutdownReply # Nobody THEN "stopped" ELSE availability
           ELSE Goto("try") /\ UNCHANGED <<stopper, shutdownReply, availability>>
     \/ /\ Busy /\ Unchanged
        /\ pendingTerminal' = [scan |-> job.scan, result |-> job.result] /\ retry' = TRUE
        /\ Goto("loop_check")
        /\ UNCHANGED <<active, stopper, shutdownReply, availability>>
     \/ /\ InternalOr(~Store!IsActive(job.scan))
        /\ IF job.shutting THEN ReplyShutdown("not_persisted")
           ELSE UNCHANGED <<stopper, shutdownReply>>
        /\ availability' = "stopped"
        /\ Goto("loop_check")
        /\ UNCHANGED <<active, pendingTerminal, retry>>
  /\ UNCHANGED <<job, cancelled, pendingFailure, requester, queue, workers>>

TryCheck ==
  /\ pc = "try"
  /\ Goto(IF active = NoScan /\ availability = "ready" THEN "try_state" ELSE "loop_check")
  /\ UNCHANGED <<storeVars, loopVars, callVars, availability, queue, workers, spent>>

\* Mutant of TryState: a Busy read schedules no retry.
TryStateGivesUp ==
  /\ pc = "try_state"
  /\ Unchanged
  /\ \/ /\ Busy /\ Goto("loop_check")
     \/ /\ Commits
        /\ Goto(IF meta.slot.state = "queued" THEN "try_start" ELSE "loop_check")
  /\ UNCHANGED <<loopVars, callVars, availability, queue, workers>>

TryState ==
  /\ pc = "try_state"
  /\ Unchanged
  /\ \/ /\ Busy /\ retry' = TRUE /\ Goto("loop_check")
     \/ /\ Internal /\ UNCHANGED retry /\ Goto("loop_check")
     \/ /\ Commits
        /\ IF meta.slot.state = "queued"
           THEN UNCHANGED retry /\ Goto("try_start")
           ELSE retry' = FALSE /\ Goto("loop_check")
  /\ UNCHANGED <<job, active, cancelled, pendingTerminal, pendingFailure, shutdownReply,
                 callVars, availability, queue, workers>>

TryStart ==
  /\ pc = "try_start"
  /\ \/ /\ Store!MarkFollowupStarted(meta.slot.scan) /\ Commits
        /\ SpawnWorker(meta.slot.scan)
        /\ retry' = FALSE /\ Goto("loop_check") /\ UNCHANGED job
     \/ /\ Busy /\ Unchanged
        /\ NoSpawn /\ retry' = TRUE /\ Goto("loop_check") /\ UNCHANGED job
     \/ \E code \in Store!StartFailedCodes :
          /\ CannotStartFollowup(code)
          /\ NoSpawn /\ UNCHANGED retry
          /\ Goto("followup_failure")
          /\ job' = [job EXCEPT !.scan = meta.slot.scan, !.code = code]
  /\ UNCHANGED <<pendingTerminal, pendingFailure, shutdownReply, callVars, availability, queue>>

\* Busy keeps the failure for a retry; any other error forgets it.
FollowupFailure ==
  /\ pc = "followup_failure"
  /\ Goto("loop_check")
  /\ \/ /\ Store!MarkFollowupStartFailed(job.scan, job.code) /\ Commits
        /\ availability' = IF job.code = "SOURCE_CHANGED" THEN "source_changed"
                           ELSE availability
        /\ UNCHANGED <<pendingFailure, retry>>
     \/ /\ Busy /\ Unchanged
        /\ pendingFailure' = [scan |-> job.scan, code |-> job.code] /\ retry' = TRUE
        /\ UNCHANGED availability
     \/ /\ InternalOr(~Store!SlotQueued(job.scan))
        /\ UNCHANGED <<pendingFailure, retry, availability>>
  /\ UNCHANGED <<job, active, cancelled, pendingTerminal, shutdownReply, callVars, queue, workers>>

Finish == TerminalCheck \/ TerminalMark \/ TryCheck \/ TryState \/ TryStart \/ FollowupFailure

------------------------------------------------------------------------------
(* begin_shutdown. *)

StopBegin ==
  /\ pc = "stop"
  /\ availability' = "shutting_down"
  /\ Goto("stop_state")
  /\ UNCHANGED <<storeVars, loopVars, callVars, queue, workers, spent>>

\* A failure here answers and ends the loop; the worker is left alone.
StopUnpersisted == Exit([stopper EXCEPT ![job.caller] = "not_persisted"]) /\ UNCHANGED workers

StopState ==
  /\ pc = "stop_state"
  /\ Unchanged
  /\ \/ /\ Busy \/ Internal
        /\ StopUnpersisted
     \/ /\ Commits
        /\ Goto(IF meta.slot.state = "queued" THEN "stop_fail" ELSE "stop_active")
        /\ UNCHANGED <<loopVars, callVars, availability, queue, workers>>

\* persist_followup_failure_during_recovery, called by begin_shutdown.
StopFail ==
  /\ pc = "stop_fail"
  /\ \/ /\ Store!MarkFollowupStartFailed(meta.slot.scan, "SCANNER_UNAVAILABLE") /\ Commits
        /\ Goto("stop_active")
        /\ UNCHANGED <<loopVars, callVars, availability, queue, workers>>
     \/ /\ Busy /\ Unchanged
        /\ UNCHANGED <<pc, loopVars, callVars, availability, queue, workers>>
     \/ /\ InternalOr(~Store!SlotQueued(meta.slot.scan))
        /\ StopUnpersisted

\* With an active worker the reply waits for it (an earlier waiting reply is
\* dropped); without one the loop answers and ends.
StopActive ==
  /\ pc = "stop_active"
  /\ IF active # NoScan
     THEN /\ shutdownReply' = job.caller
          /\ stopper' = IF shutdownReply = Nobody THEN stopper
                        ELSE [stopper EXCEPT ![shutdownReply] = "unavailable"]
          /\ cancelled' = TRUE
          /\ Goto("wait") /\ job' = NoJob
          /\ UNCHANGED <<active, pendingTerminal, pendingFailure, retry, requester,
                         availability, queue>>
     ELSE Exit([stopper EXCEPT ![job.caller] = "ok"])
  /\ UNCHANGED <<storeVars, workers, spent>>

Stop == StopBegin \/ StopState \/ StopFail \/ StopActive

LoopStep == Recover \/ Wait \/ Request \/ Finish \/ Stop

------------------------------------------------------------------------------
(* The other threads. *)

LoopAlive == pc \notin {"exited", "down"}

\* ScanHandle::request: load availability, then send and wait.  asked is the
\* revision of the newest commit at the call (a history value).
RequesterCalls(r) ==
  /\ requester[r].state = "new" /\ pc # "down"
  /\ requester' = [requester EXCEPT ![r] =
       IF availability = "ready"
       THEN [@ EXCEPT !.state = "sending", !.asked = meta.revision]
       ELSE [@ EXCEPT !.state = "done",
               !.answer = IF availability \in {"shutting_down", "stopped"}
                          THEN "shutting_down" ELSE availability]]
  /\ UNCHANGED <<storeVars, loopVars, stopper, availability, pc, queue, workers, spent>>

\* send blocks while the channel is full and fails once the receiver is gone.
RequesterSends(r) ==
  /\ requester[r].state = "sending"
  /\ IF LoopAlive
     THEN /\ Len(queue) < Capacity
          /\ queue' = Append(queue, RequestCommand(r))
          /\ requester' = [requester EXCEPT ![r].state = "waiting"]
     ELSE /\ requester' = [requester EXCEPT ![r].state = "done", ![r].answer = "shutting_down"]
          /\ UNCHANGED queue
  /\ UNCHANGED <<storeVars, loopVars, stopper, availability, pc, workers, spent>>

\* ScanHandle::shutdown: swap availability, then send and wait.
StopperCalls(x) ==
  /\ stopper[x] = "new" /\ pc # "down"
  /\ availability' = "shutting_down"
  /\ stopper' = [stopper EXCEPT ![x] = CASE availability = "stopped" -> "already_stopped"
                                         [] availability = "shutting_down" -> "unavailable"
                                         [] OTHER -> "sending"]
  /\ UNCHANGED <<storeVars, loopVars, requester, pc, queue, workers, spent>>

StopperSends(x) ==
  /\ stopper[x] = "sending"
  /\ IF LoopAlive
     THEN /\ Len(queue) < Capacity
          /\ queue' = Append(queue, ShutdownCommand(x))
          /\ stopper' = [stopper EXCEPT ![x] = "waiting"]
     ELSE /\ stopper' = [stopper EXCEPT ![x] = "unavailable"]
          /\ UNCHANGED queue
  /\ UNCHANGED <<storeVars, loopVars, requester, availability, pc, workers, spent>>

\* worker.run returns, with either result whether cancelled or not (a cancelled
\* round returns Completed), and the thread sends WorkerFinished.
WorkerFinishes(s) ==
  /\ s \in workers
  /\ IF LoopAlive
     THEN /\ Len(queue) < Capacity
          /\ \E result \in Results : queue' = Append(queue, FinishedCommand(s, result))
     ELSE UNCHANGED queue
  /\ workers' = workers \ {s}
  /\ UNCHANGED <<storeVars, loopVars, callVars, availability, pc, spent>>

\* The process dies or exits: only the database survives.
Crash ==
  /\ pc # "down" /\ spent.crashes < MaxCrashes
  /\ spent' = [spent EXCEPT !.crashes = @ + 1]
  /\ Goto("down")
  /\ job' = NoJob /\ active' = NoScan /\ cancelled' = FALSE
  /\ pendingTerminal' = NoTerminal /\ pendingFailure' = NoFailure
  /\ retry' = FALSE /\ shutdownReply' = Nobody
  /\ availability' = "stopped"
  /\ queue' = <<>> /\ workers' = {}
  /\ requester' = [r \in Requesters |-> IF requester[r].state \in {"sending", "waiting"}
                                         THEN [requester[r] EXCEPT !.state = "lost"]
                                         ELSE requester[r]]
  /\ stopper' = [x \in Stoppers |-> IF stopper[x] = "new" THEN "new" ELSE "lost"]
  /\ UNCHANGED storeVars

Callers ==
  \/ \E r \in Requesters : RequesterCalls(r) \/ RequesterSends(r)
  \/ \E x \in Stoppers : StopperCalls(x) \/ StopperSends(x)

Init ==
  /\ Store!Init
  /\ availability = "stopped" /\ pc = "down" /\ job = NoJob
  /\ active = NoScan /\ cancelled = FALSE
  /\ pendingTerminal = NoTerminal /\ pendingFailure = NoFailure
  /\ retry = FALSE /\ shutdownReply = Nobody
  /\ queue = <<>> /\ workers = {}
  /\ requester = [r \in Requesters |-> NotAsked]
  /\ stopper = [x \in Stoppers |-> "new"]
  /\ spent = [ticks |-> 0, busy |-> 0, internal |-> 0, crashes |-> 0]

Next ==
  \/ Start \/ Crash
  \/ LoopStep \/ Tick
  \/ Callers
  \/ \E s \in workers : WorkerFinishes(s)

Spec == Init /\ [][Next]_vars

\* The operating system keeps running a thread that can run: the event loop, a
\* caller inside a handle method, and a worker, whose round is finite.  Users
\* need not call, the process may stay down, and the timer may be slow.
Fairness ==
  /\ WF_vars(LoopStep)
  /\ \A r \in Requesters : WF_vars(RequesterSends(r))
  /\ \A x \in Stoppers : WF_vars(StopperSends(x))
  /\ WF_vars(\E s \in workers : WorkerFinishes(s))

FairSpec == Spec /\ Fairness

------------------------------------------------------------------------------
(* Safety. *)

\* A worker thread only ever runs on behalf of the scan that the database
\* calls active, even after the event loop has given up: so there is at most
\* one worker, and no row is terminal while its worker still writes.
WorkerOwnsActiveScan == \A s \in workers : meta.active = s

\* A request that was accepted is served by a scan that starts after the call
\* was made, so the scan sees every file change made before it; and the answer
\* names that scan and the revision of the very commit that accepted it, also
\* after a crash.
AcceptedRequestIsServedLater ==
  \A r \in Requesters :
    LET q == requester[r] IN
      /\ q.answer \in {"started", "coalesced"} => q.scan \in DOMAIN runs
      /\ q.answer = "started" =>
           runs[q.scan].started = q.revision /\ q.asked < q.revision
      /\ q.answer = "coalesced" =>
           /\ runs[q.scan].enqueued = q.revision
           /\ runs[q.scan].started # Store!Null => q.asked < runs[q.scan].started

\* The event loop waiting for its next event.
Waiting == pc = "wait" /\ availability # "stopped"

Finished(s) == \E i \in DOMAIN queue : queue[i].kind = "finished" /\ queue[i].scan = s

\* Between events, a scan the database calls running has somebody who will end
\* it: its worker runs, its result is in the channel, or the commit of its
\* result is scheduled again.  No other running row is left behind.  An internal
\* database error, after which the coordinator does not try again, is excepted.
ActiveScanIsAttended ==
  Waiting /\ spent.internal = 0 =>
    /\ active = meta.active
    /\ active # NoScan =>
         \/ active \in workers
         \/ Finished(active)
         \/ pendingTerminal.scan = active /\ retry

\* Between events of a coordinator that accepts requests, a queued follow-up
\* will be looked at again: behind a running scan or by a scheduled retry, with
\* the same exception.
QueuedFollowupIsScheduled ==
  pc = "wait" /\ availability = "ready" /\ meta.slot.state = "queued" /\ spent.internal = 0 =>
    active # NoScan \/ retry

\* The coordinator never calls the store in a state its checks refuse: when
\* the source is ready, an operation fails only because the database does.
StoreCallsAreLegal ==
  /\ pc = "recover_interrupt" => Store!IsActive(meta.active)
  /\ pc \in {"recover_followup", "try_start"} /\ Store!Ready =>
       Store!CanStartFollowup(meta.slot.scan)
  /\ pc \in {"recover_startup", "request_start"} /\ Store!Ready => Store!CanStart
  /\ pc = "request_reserve" /\ Store!Ready => Store!CanReserve
  /\ pc = "terminal_mark" => Store!IsActive(job.scan)
  /\ pc \in {"recover_fail", "followup_failure"} => Store!SlotQueued(job.scan)
  /\ pc = "stop_fail" => Store!SlotQueued(meta.slot.scan)

Settled == meta.active = NoScan /\ meta.slot.state # "queued" /\ workers = {}

\* A shutdown that the event loop answered with Ok has ended everything, and
\* nothing starts again in this process.
ShutdownReplyIsSettled == \A x \in Stoppers : stopper[x] = "ok" => Settled

\* Once a shutdown waits for the active worker, that worker has been told to
\* stop, and no other scan starts before the answer.
WaitingShutdownCancels ==
  shutdownReply # Nobody => cancelled /\ active # NoScan /\ meta.slot.state # "queued"

\* The coordinator changes the database only by the operations of the
\* lifecycle store, one per step.
StoreIsRespected == Store!Spec

------------------------------------------------------------------------------
(* Liveness.  A process that goes down answers nobody. *)

\* Every request that was sent is answered.
RequestIsAnswered ==
  \A r \in Requesters : requester[r].state \in {"sending", "waiting"} ~>
                           requester[r].state \in {"done", "lost"}

\* Every shutdown that was sent is answered.
ShutdownIsAnswered ==
  \A x \in Stoppers : stopper[x] \in {"sending", "waiting"} ~>
                         stopper[x] \notin {"sending", "waiting"}

\* A queued follow-up eventually starts or fails, unless the coordinator stops.
FollowupIsResolved ==
  meta.slot.state = "queued" ~> meta.slot.state # "queued" \/ ~LoopAlive

\* A running scan eventually ends in the database, unless the coordinator stops.
ScanEnds ==
  \A s \in 1 .. (2 + Cardinality(Requesters) + MaxTicks + MaxCrashes) :
    meta.active = s ~> meta.active # s \/ ~LoopAlive
==============================================================================
