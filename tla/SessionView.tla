------------------------------- MODULE SessionView -------------------------------
(***************************************************************************)
(* The session table and the session drawer of a page, the endpoints they  *)
(* read (src/src/api.rs, api/query.rs, usage/aggregate.rs) and the         *)
(* revision feed that ties them together (DashboardPage.tsx): the drawer   *)
(* is told what the table shows, and has the table reloaded when the       *)
(* ledger has moved on.                                                    *)
(*                                                                         *)
(* A request takes two steps, as in Dashboard.  The status half of the     *)
(* tuple plays no part here and stays at 0.                                *)
(***************************************************************************)
EXTENDS SessionTable, SessionDetail

CONSTANT MaxClicks  \* bound: what the user does

\* The types of what a drawer holds.
Details == [scope : Scopes, session : Int, revision : Nat]
DetailRequests == [session : Int, wanted : Nat, answer : {Waiting, Failure} \union Nat]
Drawers ==
  [scope : Scopes, open : BOOLEAN, session : Int, revision : Nat, shown : Nat,
   load : {"closed", "loading", "refreshing", "ready", "error"}, failed : BOOLEAN, known : Nat,
   cache : SUBSET Details, request : {NoAsk} \union DetailRequests]

\* A request is told from no request.
ASSUME ViewAssumption ==
  /\ MaxClicks \in Nat /\ MaxData \in Nat \ {0}
  /\ NoAsk \notin TableRequests /\ NoAsk \notin DetailRequests

VARIABLES
  table,
  drawer,
  clicks

viewVars == <<ledger, stream, feed, breaks, table, drawer, clicks>>

Rows(ids, revision) == [session : ids, revision : {revision}]

ViewTypeOK ==
  /\ LiveTypeOK
  /\ table \in Tables /\ drawer \in Drawers
  /\ \A b \in table.batches : b.ids # {} /\ Cardinality(b.ids) <= WindowPages
  /\ drawer.scope = table.scope
  /\ drawer.open <=> drawer.load # "closed"
  /\ clicks \in 0..MaxClicks

\* A page mounted on a ledger with data, whose first requests are on their way; that
\* for the revision is answered.
ViewInit ==
  /\ ledger = [data |-> 1, status |-> 0]
  /\ stream = [up |-> TRUE, seen |-> NoTuple, pipe |-> << >>]
  /\ feed = [tuple |-> NoTuple, polling |-> FALSE, asked |-> ledger]
  /\ breaks = 0
  /\ \E scope \in Scopes : table = MountedTable(scope) /\ drawer = ClosedDrawer(scope)
  /\ clicks = 0

\* The table after a commit, with its effects, and the drawer rendered after it.
Rendered(next, d, feedData) ==
  LET settled == AfterCommit(table, next)
  IN  /\ table' = settled
      /\ drawer' = DetailRendered(d, settled.scope, Shown(table).revision, Shown(settled).revision, feedData)

------------------------------------------------------------------------------
(* The server. *)

Commit ==
  /\ ledger.data < MaxData
  /\ ledger' = Published([ledger EXCEPT !.data = @ + 1])
  /\ UNCHANGED <<stream, feed, breaks, table, drawer, clicks>>

\* The index of a scope, and the rows of the first window in the order asked for.
SnapshotAnswer(order) ==
  [revision |-> ledger.data,
   rows |-> Rows(WindowOf(Sessions[ledger.data], order, 0), ledger.data)]

AnswerSnapshot ==
  /\ table.request # NoAsk /\ table.request.answer = Waiting
  /\ table' = [table EXCEPT !.request.answer = SnapshotAnswer(table.request.order)]
  /\ UNCHANGED <<liveVars, drawer, clicks>>

\* Rows are only read at the revision the page expects; otherwise the answer is
\* STALE_DATA_REVISION.
RowsAnswer(batch) ==
  IF batch.revision = ledger.data THEN Rows(batch.ids, ledger.data) ELSE Failure

AnswerRows ==
  \E batch \in table.batches :
    /\ batch.answer = Waiting
    /\ table' = [table EXCEPT !.batches =
         (@ \ {batch}) \union {[batch EXCEPT !.answer = RowsAnswer(batch)]}]
    /\ UNCHANGED <<liveVars, drawer, clicks>>

\* So is a detail, if the page expects any.
DetailAnswer(wanted) == IF wanted \notin {0, ledger.data} THEN Failure ELSE ledger.data

AnswerDetail ==
  /\ drawer.request # NoAsk /\ drawer.request.answer = Waiting
  /\ drawer' = [drawer EXCEPT !.request.answer = DetailAnswer(drawer.request.wanted)]
  /\ UNCHANGED <<liveVars, table, clicks>>

------------------------------------------------------------------------------
(* Answers and events arrive. *)

SnapshotArrives ==
  /\ table.request # NoAsk /\ table.request.answer # Waiting
  /\ Rendered(SnapshotLoaded(table, feed.tuple.data), drawer, feed.tuple.data)
  /\ UNCHANGED <<liveVars, clicks>>

RowsArrive ==
  \E batch \in table.batches :
    /\ batch.answer # Waiting
    /\ Rendered(IF batch.answer = Failure THEN RowsStale(table, batch)
                ELSE RowsLoaded(table, batch), drawer, feed.tuple.data)
    /\ UNCHANGED <<liveVars, clicks>>

DetailArrives ==
  /\ drawer.request # NoAsk /\ drawer.request.answer # Waiting
  /\ IF drawer.request.answer = Failure
     THEN Rendered(RetryLoadTable(table), DetailStale(drawer), feed.tuple.data)
     ELSE Rendered(table, DetailLoaded(drawer), feed.tuple.data)
  /\ UNCHANGED <<liveVars, clicks>>

\* A request fails on its way there or back.
RequestFails ==
  /\ breaks < MaxBreaks /\ breaks' = breaks + 1
  /\ \/ table.request # NoAsk /\ Rendered(SnapshotFailed(table), drawer, feed.tuple.data)
     \/ \E batch \in table.batches : Rendered(RowsFailed(table, batch), drawer, feed.tuple.data)
     \/ drawer.request # NoAsk /\ Rendered(table, DetailFailed(drawer), feed.tuple.data)
  /\ UNCHANGED <<ledger, stream, feed, clicks>>

\* Both listeners run, the table's first, when the feed takes a tuple.
Heard(tuple) ==
  IF Accepts(tuple)
  THEN Rendered(HandleTableRevision(table, tuple), HandleDetailRevision(drawer, tuple), tuple.data)
  ELSE UNCHANGED <<table, drawer>>

EventArrives    == TakeEvent /\ Heard(Head(stream.pipe)) /\ UNCHANGED clicks
RevisionArrives == TakeAnswer /\ Heard(feed.asked) /\ UNCHANGED clicks

RevisionFails ==
  /\ AskFails
  /\ Rendered(HandleTableError(table), drawer, feed.tuple.data)
  /\ UNCHANGED clicks

FeedMoves ==
  /\ Emit \/ AnswerRevision \/ Reconnect \/ Broken \/ PollTick
  /\ UNCHANGED <<table, drawer, clicks>>

------------------------------------------------------------------------------
(* The user. *)

Click == clicks < MaxClicks /\ clicks' = clicks + 1 /\ UNCHANGED <<ledger, stream, breaks>>

Turn ==
  /\ \E page \in 1..Pages(table) \ {table.page} :
       Rendered(GoToPage(table, page), drawer, feed.tuple.data)
  /\ Click /\ UNCHANGED feed

Sort == Rendered(SelectSort(table), drawer, feed.tuple.data) /\ Click /\ UNCHANGED feed

\* The drawer is modal: the selection changes while it is closed.
Select ==
  /\ ~drawer.open
  /\ \E scope \in Scopes \ {table.scope} :
       Rendered(SelectTableScope(table, scope), drawer, feed.tuple.data)
  /\ Click /\ UNCHANGED feed

RetryRows ==
  /\ table.pageState = "error"
  /\ table' = EnsureWindow(table) /\ Click /\ UNCHANGED <<feed, drawer>>

RetryTable ==
  /\ table.load = "error"
  /\ Rendered(RetryLoadTable(table), drawer, feed.tuple.data)
  /\ Click
  /\ IF table.why = "revision" THEN feed' = [feed EXCEPT !.asked = Waiting]
     ELSE UNCHANGED feed

UseDrawer ==
  /\ \/ \E session \in OnPage(table) \intersect Cached(table) :
          ~drawer.open /\ drawer' = OpenDetail(drawer, session)
     \/ drawer.open /\ drawer' = CloseDetail(drawer)
     \/ drawer.open /\ drawer.failed /\ drawer' = RetryDetail(drawer)
  /\ Click /\ UNCHANGED <<feed, table>>

ViewNext ==
  \/ Commit \/ AnswerSnapshot \/ AnswerRows \/ AnswerDetail
  \/ SnapshotArrives \/ RowsArrive \/ DetailArrives \/ RequestFails
  \/ EventArrives \/ RevisionArrives \/ RevisionFails \/ FeedMoves
  \/ Turn \/ Sort \/ Select \/ RetryRows \/ RetryTable \/ UseDrawer

ViewSpec == ViewInit /\ [][ViewNext]_viewVars

\* The stream sends and its events arrive; while it is broken, the poll timer fires.
Announce == EventArrives \/ (Emit /\ UNCHANGED <<table, drawer, clicks>>)
Poll == RevisionArrives \/ ((PollTick \/ AnswerRevision) /\ UNCHANGED <<table, drawer, clicks>>)

\* A broken stream need not come back, and nothing else is promised.
LiveViewSpec == ViewSpec /\ WF_viewVars(Announce) /\ WF_viewVars(Poll)

------------------------------------------------------------------------------
(* Properties. *)

\* The rows of a table were all read at the revision of its index, whatever was on
\* its way when the revision, the scope or the order changed (makeSnapshot and
\* loadRows, useSessionTableController.ts:126, 278).
RowsAreOfTheSnapshot ==
  \A s \in Scopes : \A row \in table.snapshots[s].rows :
    row.revision = table.snapshots[s].revision

\* A page with missing rows is never left alone: its rows or a new snapshot are on
\* their way, or an error is shown with a button to ask again (ensureCurrentWindow,
\* useSessionTableController.ts:351).
PageIsAttended ==
  HasAny(table) /\ ~(OnPage(table) \subseteq Cached(table)) =>
    \/ table.request # NoAsk
    \/ table.load = "error" \/ table.pageState = "error"
    \/ \E batch \in table.batches : OnPage(table) \ Cached(table) \subseteq batch.ids

\* A spinner always has a request behind it (loadDetail,
\* useSessionDetailController.ts:131).
DrawerIsAttended ==
  drawer.load \in {"loading", "refreshing"} => drawer.request # NoAsk

\* The feed ends at the published tuple, whichever events, polls and streams are lost
\* on the way (revisionFeed.ts:85-149, storage/mod.rs:555): the error handler of a
\* broken stream polls until an event arrives again.
FeedCatchesUp == <>[](feed.tuple = ledger)

\* Nothing is under way that could still change the table or the drawer.
AtRest ==
  /\ feed.tuple = ledger /\ stream.pipe = << >>
  /\ table.request = NoAsk /\ table.batches = {} /\ drawer.request = NoAsk

\* Once everything has come to rest the table shows the latest data, or an error.
TableSettles == AtRest => Shown(table).revision = ledger.data \/ table.load = "error"

\* So does the drawer, even if the table failed to follow.
DrawerSettles ==
  AtRest /\ drawer.open => drawer.shown = ledger.data \/ drawer.failed
==============================================================================
