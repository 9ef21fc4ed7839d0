----------------------------- MODULE DashboardPage -----------------------------
(***************************************************************************)
(* The controller of the dashboard page                                    *)
(* (src/frontend/src/dashboard/useDashboardController.ts) as operators     *)
(* over one record, the page: what each handler leaves behind.  The        *)
(* handlers run one at a time, so each is one step; Dashboard puts them    *)
(* together with the server and the network.                               *)
(*                                                                         *)
(* A page has one request of each kind in flight: sending aborts the one   *)
(* before it, and the generation counters drop whatever it still answers.  *)
(* Figures are represented by the data revision they were computed at.     *)
(* Error codes and times are left out.                                     *)
(***************************************************************************)
EXTENDS LiveRevisions, ScanLifecycle

CONSTANT Scopes  \* the range and filter selections a user can make

ASSUME ScopesAssumption == Scopes # {}

Initial == "initial"
NoShot  == -1      \* figures never loaded for a scope

\* StatusResponse: the projection, the row of the scan asked for, and the revisions.
StatusAnswers ==
  [data : 0..MaxData, status : 0..MaxStatus, scan : {"idle", "running", "failed"},
   active : Nat, last : Nat, binding : {"unbound", "ready", "source_changed"},
   slot : [scan : Nat, state : {"none", "queued", "start_failed"}],
   target : [scan : Nat, state : {"none"} \union Live \union Terminal]]

\* A response is never mistaken for its absence.
ASSUME AnswersAssumption ==
  \A mark \in {Waiting, NoAsk, Failure} : mark \notin Nat /\ mark \notin StatusAnswers

LoadStates    == {Initial, "loading", "ready", "error"}
RefreshStates == {"idle", "requesting", "running", "failed", "tracking_error", "source_changed"}

\* InternalState, and the requests that are out.
Pages ==
  [scope : Scopes, shots : [Scopes -> NoShot..MaxData], loading : BOOLEAN, load : LoadStates,
   refresh : RefreshStates, ready : BOOLEAN, tuple : Tuples, open : BOOLEAN, target : Nat,
   trackFailed : BOOLEAN, failures : SUBSET {"summary", "status", "revision"},
   options : [loaded : BOOLEAN, revision : 0..MaxData, pending : 0..MaxData, stale : BOOLEAN,
              asked : SUBSET Nat, request : {NoAsk, Waiting} \union 0..MaxData],
   summary : {NoAsk, Waiting} \union 0..MaxData,
   status : [scan : Nat, tracking : BOOLEAN, answer : {NoAsk, Waiting} \union StatusAnswers],
   post : {NoAsk, Waiting, Failure} \union Nat]

\* A page that has just been mounted has asked for summary, options and status.
MountedPage(scope) ==
  [scope |-> scope,
   shots |-> [s \in Scopes |-> NoShot],
   loading |-> TRUE, load |-> Initial,
   refresh |-> "idle", ready |-> FALSE,
   tuple |-> [data |-> 0, status |-> 0],
   open |-> FALSE,
   target |-> NoScan, trackFailed |-> FALSE,
   failures |-> {},
   options |-> [loaded |-> FALSE, revision |-> 0, pending |-> 0, stale |-> FALSE,
                asked |-> {}, request |-> Waiting],
   summary |-> Waiting,
   status |-> [scan |-> NoScan, tracking |-> FALSE, answer |-> Waiting],
   post |-> NoAsk]

\* A page that has had the summary, the options and the status of an idle server.
LoadedPage(scope, binding) ==
  LET p == MountedPage(scope)
  IN  [p EXCEPT !.shots[scope] = 0, !.loading = FALSE, !.load = "ready",
                !.ready = TRUE, !.open = binding = "ready",
                !.refresh = IF binding = "ready" THEN "idle" ELSE binding,
                !.options = [@ EXCEPT !.loaded = TRUE, !.request = NoAsk],
                !.summary = NoAsk, !.status = [@ EXCEPT !.answer = NoAsk]]

NoStatusRequest == [scan |-> NoScan, tracking |-> FALSE, answer |-> NoAsk]

Shown(p) == p.shots[p.scope]

\* setLoadState
SetLoadState(p) ==
  LET unloaded == IF p.load = Initial THEN Initial ELSE "loading"
      failing  == p.refresh # "tracking_error" /\ p.failures # {}
  IN  [p EXCEPT !.load =
        IF p.loading /\ Shown(p) = NoShot THEN unloaded
        ELSE IF failing THEN "error"
        ELSE IF Shown(p) = NoShot THEN unloaded
        ELSE IF p.loading THEN "loading" ELSE "ready"]

------------------------------------------------------------------------------
(* The filter options. *)

\* observeOptionsRevision
ObserveRevision(p, revision) ==
  IF revision <= p.options.revision THEN p
  ELSE [p EXCEPT !.options.pending = Larger(@, revision), !.options.stale = TRUE]

\* loadFilterOptions: one request at a time.
LoadOptions(p) ==
  IF p.options.request # NoAsk THEN p ELSE [p EXCEPT !.options.request = Waiting]

\* The options of data revision data arrive.
OptionsLoaded(p, data) ==
  LET o == p.options
  IN  IF data < o.revision
      THEN [p EXCEPT !.options = [o EXCEPT !.request = NoAsk, !.stale = TRUE]]
      ELSE [p EXCEPT !.options =
             [o EXCEPT !.request = NoAsk, !.loaded = TRUE, !.revision = data,
                       !.pending = IF data >= o.pending THEN 0 ELSE o.pending,
                       !.stale = data < o.pending]]

OptionsFailed(p) ==
  [p EXCEPT !.options = [@ EXCEPT !.request = NoAsk, !.stale = TRUE]]

\* maybeRefreshFilterOptions: once per finished scan, when nothing runs or waits.
MaybeRefreshOptions(p, status, scan) ==
  LET q == ObserveRevision(p, status.data)
      o == q.options
  IN  IF \/ status.active # NoScan \/ status.slot.state = "queued"
         \/ o.pending <= o.revision
         \/ scan \in o.asked \/ o.request # NoAsk
      THEN q
      ELSE LoadOptions([q EXCEPT !.options.asked = @ \union {scan}])

------------------------------------------------------------------------------
(* The summary. *)

\* loadSummary, for the scope shown: every caller asks for that one.
LoadSummary(p) ==
  [p EXCEPT !.summary = Waiting, !.loading = TRUE,
            !.load = IF Shown(p) = NoShot /\ @ = Initial THEN Initial ELSE "loading"]

\* The figures of data revision data arrive; older ones than the page has heard
\* of are dropped without another request.
SummaryLoaded(p, data) ==
  LET accepted == Larger(Larger(Shown(p), 0), p.tuple.data)
      settled  == [p EXCEPT !.summary = NoAsk, !.loading = FALSE, !.failures = @ \ {"summary"}]
  IN  SetLoadState(IF data < accepted THEN settled
                   ELSE [settled EXCEPT !.shots[p.scope] = data, !.tuple.data = data])

SummaryFailed(p) ==
  [p EXCEPT !.summary = NoAsk, !.loading = FALSE, !.load = "error",
            !.failures = @ \union {"summary"}]

\* selectRange, selectFilters, clearFilters: another scope shows what was cached
\* for it and loads.
SelectScope(p, scope) ==
  LoadSummary([p EXCEPT !.scope = scope, !.load = "loading", !.failures = @ \ {"summary"}])

------------------------------------------------------------------------------
(* The status and the tracked scan. *)

\* requestStatus
RequestStatus(p, scan) ==
  [p EXCEPT !.status = [scan |-> scan, tracking |-> scan # NoScan, answer |-> Waiting]]

\* The page follows a scan from now on.
Track(p, scan) ==
  RequestStatus([p EXCEPT !.target = scan, !.refresh = "running"], scan)

\* Slot states a page follows.
Followed == {"queued", "start_failed"}

\* reduceStatus, for a page whose target is the scan the response shows as ended.
TargetEnded(p, status) ==
  LET ended    == status.target.state = "completed"
      released == [p EXCEPT !.target = NoScan, !.trackFailed = FALSE]
      next     == status.slot.state \in Followed /\ status.slot.scan # p.target
      settled  == IF next THEN Track(released, status.slot.scan)
                  ELSE [MaybeRefreshOptions(released, status, p.target)
                          EXCEPT !.refresh = IF ended THEN "idle" ELSE "failed"]
  IN  IF ended /\ status.data > Shown(p) THEN LoadSummary(settled) ELSE settled

\* reduceStatus, for a page that follows a scan.
ReduceTarget(p, status) ==
  IF status.target.scan # p.target
  THEN [p EXCEPT !.refresh = "tracking_error", !.trackFailed = TRUE]
  ELSE IF status.target.state \in {"queued", "running"}
  THEN [p EXCEPT !.refresh = "running"]
  ELSE TargetEnded(p, status)

\* reduceStatus, for a page that follows none.
ReduceIdle(p, status) ==
  LET options == IF status.last # NoScan THEN MaybeRefreshOptions(p, status, status.last) ELSE p
  IN  IF p.refresh = "requesting" THEN p
      ELSE IF status.binding = "source_changed" THEN [p EXCEPT !.refresh = "source_changed"]
      ELSE IF status.binding # "ready" THEN [p EXCEPT !.refresh = "idle"]
      ELSE IF status.slot.state \in Followed THEN Track(p, status.slot.scan)
      ELSE IF status.active # NoScan THEN Track(p, status.active)
      ELSE [options EXCEPT !.refresh = IF @ \in {"failed", "tracking_error"} THEN @ ELSE "idle"]

\* What requestRefresh asks of the last status response: ready, and no scan runs
\* or waits.
Open(status) ==
  /\ status.binding = "ready" /\ status.scan \in {"idle", "failed"}
  /\ status.active = NoScan /\ status.slot.state # "queued"

ReduceStatus(p, status) ==
  LET q == [p EXCEPT !.open = Open(status)]
  IN  IF p.target # NoScan THEN ReduceTarget(q, status) ELSE ReduceIdle(q, status)

\* The answer of the status request.  It is never older than one before it: only the
\* last request counts, and it was read last.
StatusLoaded(p, status) ==
  LET told  == [data |-> status.data, status |-> status.status]
      noted == [ObserveRevision(p, status.data) EXCEPT
                  !.status = NoStatusRequest,
                  !.tuple = IF Behind(told, @) THEN @ ELSE told,
                  !.ready = TRUE, !.failures = @ \ {"status"},
                  !.trackFailed = IF p.status.tracking /\ p.target # NoScan THEN FALSE ELSE @]
  IN  SetLoadState(ReduceStatus(noted, status))

StatusFailed(p) ==
  LET over == [p EXCEPT !.status = NoStatusRequest]
  IN  SetLoadState(
        IF p.status.tracking \/ p.target # NoScan
        THEN [over EXCEPT !.refresh = "tracking_error", !.trackFailed = TRUE,
                          !.failures = @ \ {"status"}]
        ELSE [over EXCEPT !.ready = FALSE, !.load = "error",
                          !.failures = @ \union {"status"}])

\* retry_refresh_status
RetryStatus(p) == Track([p EXCEPT !.trackFailed = FALSE], p.target)

------------------------------------------------------------------------------
(* The revision feed's listener. *)

\* Mutant of HandleRevision: only data is looked at.
HandleDataRevision(p, t) ==
  LET cleared == [ObserveRevision(p, t.data) EXCEPT !.failures = @ \ {"revision"}]
  IN  IF Behind(t, p.tuple) THEN p
      ELSE IF t.data > p.tuple.data THEN LoadSummary([cleared EXCEPT !.tuple = t])
      ELSE [cleared EXCEPT !.tuple = t]

\* handleRevision: more data reloads the summary, a new status the status.
HandleRevision(p, t) ==
  LET cleared == [ObserveRevision(p, t.data) EXCEPT !.failures = @ \ {"revision"}]
      noted   == [cleared EXCEPT !.tuple = t]
      reload  == IF t.data > p.tuple.data THEN LoadSummary(noted) ELSE noted
  IN  IF Behind(t, p.tuple) THEN p
      ELSE IF t.status > p.tuple.status THEN RequestStatus(reload, p.target) ELSE reload

\* handleRevisionError
HandleRevisionError(p) ==
  [p EXCEPT !.failures = @ \union {"revision"}, !.load = "error"]

------------------------------------------------------------------------------
(* The refresh. *)

\* requestRefresh: everything that must hold before a scan is asked for.
MayRefresh(p) ==
  /\ p.refresh \notin {"requesting", "running", "source_changed"}
  /\ p.target = NoScan
  /\ p.ready /\ p.open

RequestRefresh(p) == [p EXCEPT !.refresh = "requesting", !.post = Waiting]

\* Mutant of RefreshAccepted: a status request that is already out will do.
RefreshAcceptedReusing(p, scan) ==
  IF p.status.answer = NoAsk THEN Track([p EXCEPT !.post = NoAsk], scan)
  ELSE [p EXCEPT !.post = NoAsk, !.refresh = "running"]

\* The scan the server acknowledged is followed.  No earlier status response can
\* have shown it: while the request was out nothing was followed.
RefreshAccepted(p, scan) == Track([p EXCEPT !.post = NoAsk], scan)

\* The refresh was refused, or its answer was lost.
RefreshRefused(p, binding) ==
  [p EXCEPT !.post = NoAsk,
            !.refresh = IF binding = "source_changed" THEN "source_changed" ELSE "failed"]

\* retry_load: what has failed is asked for again; the feed's own request is the
\* caller's.
RetryLoad(p) ==
  LET summary == \/ "summary" \in p.failures
                 \/ p.failures = {} /\ Shown(p) = NoShot
      q       == IF summary THEN LoadSummary(p) ELSE p
  IN  IF "status" \in p.failures /\ ~p.trackFailed THEN RequestStatus(q, p.target) ELSE q
==============================================================================
