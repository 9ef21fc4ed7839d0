------------------------------- MODULE Dashboard -------------------------------
(***************************************************************************)
(* The dashboard page, the server's scans and the network between them:    *)
(* the scan lifecycle of ScanLifecycle, whose status revision and the      *)
(* data revision make the published tuple of LiveRevisions, the endpoints  *)
(* for status, summary, options and refresh (src/src/api.rs, api/query.rs, *)
(* api/live.rs), and the page of DashboardPage.                            *)
(*                                                                         *)
(* A request takes two steps: the server reads and answers, and the answer *)
(* arrives.  Anything may happen between them.                             *)
(***************************************************************************)
EXTENDS DashboardPage

CONSTANTS
  MaxScans,   \* bound: scans
  MaxClicks   \* bound: what the user does

ASSUME DashboardAssumption ==
  /\ MaxScans \in Nat /\ MaxClicks \in Nat
  /\ MaxStatus >= 3 * MaxScans  \* queued, started, ended: the bound is MaxScans

VARIABLES
  page,
  clicks,
  acked    \* auxiliary: the scans acknowledged to this page

dashVars == <<meta, runs, opened, ledger, stream, feed, breaks, page, clicks, acked>>

scanVars == <<meta, runs, opened>>
userVars == <<clicks, acked>>

DashTypeOK ==
  /\ LiveTypeOK /\ TypeOK
  /\ page \in Pages
  /\ page.target \in {NoScan} \union DOMAIN runs
  /\ clicks \in 0..MaxClicks /\ acked \subseteq DOMAIN runs

\* GET /api/status: the projection, and the row of the scan asked for.
StatusOf(scan) ==
  [data |-> ledger.data, status |-> meta.revision, scan |-> meta.state,
   active |-> meta.active, last |-> meta.lastScan, binding |-> meta.binding,
   slot |-> [scan |-> meta.slot.scan, state |-> meta.slot.state],
   target |-> [scan |-> scan, state |-> IF scan = NoScan THEN "none" ELSE runs[scan].state]]

\* A page that is up to date with a ledger whose home was bound before, or has changed;
\* the answer of the revision request it sent when it was mounted is on its way.
DashInit ==
  /\ ledger = [data |-> 0, status |-> 0]
  /\ stream = [up |-> TRUE, seen |-> ledger, pipe |-> << >>]
  /\ feed = [tuple |-> ledger, polling |-> FALSE, asked |-> ledger]
  /\ breaks = 0
  /\ runs = << >>
  /\ \E h \in Homes, binding \in {"ready", "source_changed"} :
       /\ opened = h
       /\ meta = [InitialMeta EXCEPT !.binding = binding, !.home = h]
  /\ \E scope \in Scopes : page = LoadedPage(scope, meta.binding)
  /\ clicks = 0 /\ acked = {}

------------------------------------------------------------------------------
(* The server. *)

\* A lifecycle step, published as it commits.
Lifecycle(step) ==
  /\ meta.revision < MaxStatus
  /\ step
  /\ ledger' = Published([ledger EXCEPT !.status = meta'.revision])
  /\ UNCHANGED <<stream, feed>>

\* What fails, on the server or on the way to it, is counted against one bound.
Fault == breaks < MaxBreaks /\ breaks' = breaks + 1

\* A scan commits usage or metadata that readers can see.
CommitData ==
  /\ meta.active # NoScan /\ ledger.data < MaxData
  /\ ledger' = Published([ledger EXCEPT !.data = @ + 1])
  /\ UNCHANGED <<scanVars, stream, feed, breaks, page, userVars>>

\* The scheduler starts a scan of its own.
StartScan ==
  /\ Len(runs) < MaxScans
  /\ Lifecycle(MarkScanStarted)
  /\ UNCHANGED <<breaks, page, userVars>>

\* A change on disk asks for a scan while one runs.
QueueFollowup ==
  /\ Len(runs) < MaxScans /\ meta.slot.state # "queued"
  /\ Lifecycle(ReserveScanFollowup)
  /\ UNCHANGED <<breaks, page, userVars>>

EndScan ==
  /\ \/ Lifecycle(MarkScanCompleted(meta.active)) /\ UNCHANGED breaks
     \/ Lifecycle(MarkScanFailed(meta.active, "WORKER_ERROR")) /\ Fault
  /\ UNCHANGED <<page, userVars>>

\* Once its predecessor has ended.
TurnToFollowup ==
  /\ meta.active = NoScan
  /\ \/ Lifecycle(MarkFollowupStarted(meta.slot.scan)) /\ UNCHANGED breaks
     \/ Lifecycle(MarkFollowupStartFailed(meta.slot.scan, "SCAN_START_FAILED")) /\ Fault
  /\ UNCHANGED <<page, userVars>>

\* A request that only reads is answered.
AnswerRead ==
  /\ \/ page.status.answer = Waiting
        /\ page' = [page EXCEPT !.status.answer = StatusOf(page.status.scan)]
     \/ page.summary = Waiting /\ page' = [page EXCEPT !.summary = ledger.data]
     \/ page.options.request = Waiting
        /\ page' = [page EXCEPT !.options.request = ledger.data]
  /\ UNCHANGED <<scanVars, liveVars, userVars>>

\* POST /api/refresh: a new scan, the follow-up of the running one, or a refusal (of
\* the source, of the scanner, or of the bound on scans).
AnswerRefresh ==
  /\ page.post = Waiting
  /\ \/ /\ Len(runs) < MaxScans
        /\ Lifecycle(MarkScanStarted)
        /\ page' = [page EXCEPT !.post = NewScan]
        /\ UNCHANGED breaks
     \/ /\ Len(runs) < MaxScans \/ meta.slot.state = "queued"
        /\ Lifecycle(ReserveScanFollowup)
        /\ page' = [page EXCEPT !.post = meta'.slot.scan]
        /\ UNCHANGED breaks
     \/ /\ (~CanStart /\ ~CanReserve) \/ Len(runs) = MaxScans
        /\ page' = [page EXCEPT !.post = Failure]
        /\ UNCHANGED <<scanVars, liveVars>>
  /\ UNCHANGED userVars

------------------------------------------------------------------------------
(* The network brings an answer, or loses it. *)

StatusArrives ==
  /\ page.status.answer \notin {NoAsk, Waiting}
  /\ page' = StatusLoaded(page, page.status.answer)
  /\ UNCHANGED <<scanVars, liveVars, userVars>>

SummaryArrives ==
  /\ page.summary \notin {NoAsk, Waiting}
  /\ page' = SummaryLoaded(page, page.summary)
  /\ UNCHANGED <<scanVars, liveVars, userVars>>

OptionsArrive ==
  /\ page.options.request \notin {NoAsk, Waiting}
  /\ page' = OptionsLoaded(page, page.options.request)
  /\ UNCHANGED <<scanVars, liveVars, userVars>>

RefreshArrives ==
  /\ page.post \notin {NoAsk, Waiting}
  /\ \/ /\ page.post = Failure
        /\ page' = RefreshRefused(page, meta.binding) /\ UNCHANGED acked
     \/ /\ page.post # Failure
        /\ page' = RefreshAccepted(page, page.post) /\ acked' = acked \union {page.post}
  /\ UNCHANGED <<scanVars, liveVars, clicks>>

\* A request fails on its way there or back.
RequestFails ==
  /\ Fault
  /\ \/ page.status.answer # NoAsk /\ page' = StatusFailed(page)
     \/ page.summary # NoAsk /\ page' = SummaryFailed(page)
     \/ page.options.request # NoAsk /\ page' = OptionsFailed(page)
     \/ page.post # NoAsk /\ page' = RefreshRefused(page, "unknown")
  /\ UNCHANGED <<scanVars, ledger, stream, feed, userVars>>

EventArrives ==
  /\ TakeEvent
  /\ page' = IF Accepts(Head(stream.pipe)) THEN HandleRevision(page, Head(stream.pipe)) ELSE page
  /\ UNCHANGED <<scanVars, userVars>>

RevisionArrives ==
  /\ TakeAnswer
  /\ page' = IF Accepts(feed.asked) THEN HandleRevision(page, feed.asked) ELSE page
  /\ UNCHANGED <<scanVars, userVars>>

RevisionFails ==
  /\ AskFails
  /\ page' = HandleRevisionError(page)
  /\ UNCHANGED <<scanVars, userVars>>

\* The parts of the feed the page does not see.
FeedMoves ==
  /\ Emit \/ AnswerRevision \/ Reconnect \/ Broken \/ PollTick
  /\ UNCHANGED <<scanVars, page, userVars>>

------------------------------------------------------------------------------
(* The user. *)

Click(next) ==
  /\ clicks < MaxClicks /\ clicks' = clicks + 1
  /\ page' = next
  /\ UNCHANGED <<scanVars, ledger, stream, breaks, acked>>

User ==
  \/ \E scope \in Scopes \ {page.scope} : Click(SelectScope(page, scope)) /\ UNCHANGED feed
  \/ MayRefresh(page) /\ Click(RequestRefresh(page)) /\ UNCHANGED feed
  \/ page.refresh = "tracking_error" /\ page.target # NoScan
     /\ Click(RetryStatus(page)) /\ UNCHANGED feed
  \/ page.load = "error" /\ Click(RetryLoad(page))
     /\ IF "revision" \in page.failures
        THEN feed' = [feed EXCEPT !.asked = Waiting] ELSE UNCHANGED feed
  \/ page.options.stale /\ Click(LoadOptions(page)) /\ UNCHANGED feed

DashNext ==
  \/ CommitData \/ StartScan \/ QueueFollowup \/ EndScan \/ TurnToFollowup
  \/ AnswerRead \/ AnswerRefresh
  \/ StatusArrives \/ SummaryArrives \/ OptionsArrive \/ RefreshArrives \/ RequestFails
  \/ EventArrives \/ RevisionArrives \/ RevisionFails \/ FeedMoves
  \/ User

DashSpec == DashInit /\ [][DashNext]_dashVars

------------------------------------------------------------------------------
(* Properties. *)

\* A refresh that was acknowledged is shown as over only when its scan is over,
\* whatever the page had followed, cached or asked for in the meantime
\* (reduceStatus, useDashboardController.ts:320).
RefreshEndsWithTheScan ==
  page.refresh \in {"idle", "failed"} => \A s \in acked : runs[s].state \in Terminal

\* Options older than the data the feed has announced are marked as such, whatever
\* requests were on their way (observeOptionsRevision, useDashboardController.ts:178).
OptionsAreFlagged ==
  page.options.loaded /\ feed.tuple.data > page.options.revision => page.options.stale

\* A page is never left showing a running refresh with nothing under way that could
\* end it: its scan is live, or its status is being asked for, or the published
\* status is one the page has yet to hear of (requestStatus and handleRevision,
\* useDashboardController.ts:419, 475).
RunningIsAttended ==
  page.refresh = "running" =>
    \/ page.status.answer # NoAsk
    \/ page.target # NoScan /\ runs[page.target].state \in Live
    \/ page.tuple.status < ledger.status

\* Nothing is under way that could still change what the page shows.
AtRest ==
  /\ meta.active = NoScan /\ meta.slot.state # "queued"
  /\ feed.tuple = ledger /\ feed.asked = NoAsk /\ stream.pipe = << >>
  /\ page.summary = NoAsk /\ page.status.answer = NoAsk /\ page.post = NoAsk

\* Once everything has come to rest, the page shows the figures of the latest data
\* revision, or an error (docs/Spec_06_01: a change of data_revision fetches the
\* summary again).
FiguresSettle == AtRest => Shown(page) = ledger.data \/ page.load = "error"
==============================================================================
