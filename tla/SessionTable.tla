------------------------------ MODULE SessionTable ------------------------------
(***************************************************************************)
(* The controller of the session table                                     *)
(* (src/frontend/src/dashboard/session/useSessionTableController.ts) as    *)
(* operators over one record, the table.                                   *)
(*                                                                         *)
(* A snapshot is the whole index of a scope at one data revision and the   *)
(* rows loaded so far; a page shows the rows of its ranks.  Rows are       *)
(* loaded a window of pages at a time, the next window early.              *)
(*                                                                         *)
(* A session is its rank in the descending order; a row is a session and   *)
(* the data revision it was read at.  The snapshot shown is the one kept   *)
(* for the scope.  Effects run in the step whose commit triggers them.     *)
(***************************************************************************)
EXTENDS LiveRevisions, FiniteSets

CONSTANTS
  Scopes,       \* the range and filter selections a user can make
  Sessions,     \* how many sessions the ledger has at each data revision
  WindowPages   \* pages in a window (ROW_BATCH_LIMIT / FRONTEND_PAGE_SIZE = 4)

\* A page has one row (FRONTEND_PAGE_SIZE); nothing depends on more.
ASSUME TableAssumption ==
  /\ Scopes # {} /\ WindowPages \in Nat /\ WindowPages >= 2
  /\ Sessions \in [0..MaxData -> Nat]

NoSnapshot == [revision |-> 0, rows |-> {}]
Orders     == {"desc", "asc"}

\* The types of what a table holds.
TableRows == [session : Int, revision : Nat]
Snapshots == [revision : Nat, rows : SUBSET TableRows]
Batches ==
  [ids : SUBSET Int, revision : Nat, early : BOOLEAN, urgent : BOOLEAN,
   answer : {Waiting, Failure} \union SUBSET TableRows]
TableRequests ==
  [force : BOOLEAN, previous : Snapshots, order : Orders, answer : {Waiting} \union Snapshots]
Tables ==
  [scope : Scopes, snapshots : [Scopes -> Snapshots], page : Nat \ {0}, order : Orders,
   load : {"loading", "refreshing", "ready", "error"}, pageState : {"idle", "loading", "error"},
   why : {"none", "failed", "revision"}, request : {NoAsk} \union TableRequests,
   batches : SUBSET Batches, retried : [Scopes -> Nat]]

\* A table that has just been mounted: loadSnapshot has run.
MountedTable(scope) ==
  [scope |-> scope, snapshots |-> [s \in Scopes |-> NoSnapshot],
   page |-> 1, order |-> "desc",
   load |-> "loading", pageState |-> "idle", why |-> "none",
   request |-> [force |-> FALSE, previous |-> NoSnapshot, order |-> "desc", answer |-> Waiting],
   batches |-> {},
   retried |-> [s \in Scopes |-> 0]]

Shown(t)  == t.snapshots[t.scope]
HasAny(t) == Shown(t).revision > 0
Cached(t) == {row.session : row \in Shown(t).rows}
Pages(t)  == IF HasAny(t) THEN Sessions[Shown(t).revision] ELSE 0

\* sortedIds: the session at a rank.
AtRank(count, order, rank) == IF order = "desc" THEN rank ELSE count + 1 - rank

\* windowIds: the sessions of window number w, from 0.
WindowOf(count, order, w) ==
  {AtRank(count, order, rank) : rank \in (w * WindowPages + 1)..((w + 1) * WindowPages)
                                           \intersect 1..count}

PageWindow(t) == (t.page - 1) \div WindowPages
OfWindow(t, w) == WindowOf(Pages(t), t.order, w)

\* The session on the page, and what is missing around it.
OnPage(t)     == {AtRank(Pages(t), t.order, r) : r \in {t.page} \intersect 1..Pages(t)}
Missing(t)    == OfWindow(t, PageWindow(t)) \ Cached(t)
MissingNext(t) == OfWindow(t, PageWindow(t) + 1) \ Cached(t)

------------------------------------------------------------------------------
(* Rows. *)

\* loadRows: a batch already under way for this snapshot is not asked for twice, but
\* may become urgent; only one batch is prefetched at a time.
LoadRows(t, ids, urgent) ==
  LET same == {b \in t.batches : b.ids = ids /\ b.revision = Shown(t).revision}
      early == \E b \in t.batches : b.early
      loading(x) == IF urgent THEN [x EXCEPT !.pageState = "loading"] ELSE x
  IN  IF same # {}
      THEN IF ~urgent THEN t
           ELSE loading([t EXCEPT !.batches =
                  (@ \ same) \union {[b EXCEPT !.urgent = TRUE] : b \in same}])
      ELSE IF ~urgent /\ early THEN t
      ELSE loading([t EXCEPT !.batches = @ \union
             {[ids |-> ids, revision |-> Shown(t).revision, early |-> ~urgent,
               urgent |-> urgent, answer |-> Waiting]}])

\* ensureCurrentWindow: the rows of the page's window, then those of the next one
\* when the page is the last but one.
EnsureWindow(t) ==
  IF ~HasAny(t) \/ t.load \in {"loading", "error"} THEN t
  ELSE IF Missing(t) # {} THEN LoadRows(t, Missing(t), TRUE)
  ELSE IF (t.page - 1) % WindowPages = WindowPages - 2 /\ MissingNext(t) # {}
  THEN LoadRows(t, MissingNext(t), FALSE)
  ELSE t

\* What the effect that runs ensureCurrentWindow depends on.
Shape(t) == <<t.page, t.order, Shown(t), t.load>>

\* The table after a commit and the effects it triggers.
AfterCommit(old, new) == IF Shape(old) = Shape(new) THEN new ELSE EnsureWindow(new)

------------------------------------------------------------------------------
(* Snapshots. *)

\* loadSnapshot: the request before it and every batch are aborted; what was kept
\* for the scope stays on show.
LoadSnapshot(t, force) ==
  [t EXCEPT !.load = IF HasAny(t) THEN "refreshing" ELSE "loading",
            !.pageState = "idle", !.why = "none", !.batches = {},
            !.request = [force |-> force, previous |-> Shown(t), order |-> t.order,
                         answer |-> Waiting]]

\* Mutant of MakeSnapshot: rows are kept whatever revision they were read at.
MakeSnapshotKeeping(t, answer) ==
  [revision |-> answer.revision, rows |-> t.request.previous.rows \union answer.rows]

\* makeSnapshot: rows already loaded are kept at the same revision only, and not by
\* a forced reload.
MakeSnapshot(t, answer) ==
  LET previous == t.request.previous
      kept == IF t.request.force \/ previous.revision # answer.revision THEN {}
              ELSE {row \in previous.rows : row.session \notin {r.session : r \in answer.rows}}
  IN  [revision |-> answer.revision, rows |-> kept \union answer.rows]

\* Mutant of RequiredRevision: only what the table has shown counts.
RequiredRevisionShown(t, feedData) == t.request.previous.revision

\* No snapshot older than the one on show, or than what the feed has announced.
RequiredRevision(t, feedData) == Larger(t.request.previous.revision, Larger(feedData, 0))

\* The snapshot request is answered.  An older snapshot is asked for once more; the
\* second time the last one stays.
SnapshotLoaded(t, feedData) ==
  LET answer   == t.request.answer
      required == RequiredRevision(t, feedData)
      over     == [t EXCEPT !.request = NoAsk, !.pageState = "idle"]
      fresh    == MakeSnapshot(t, answer)
      count    == Sessions[answer.revision]
  IN  IF answer.revision >= required
      THEN [over EXCEPT !.snapshots[t.scope] = fresh, !.retried[t.scope] = 0,
                        !.page = IF count = 0 THEN 1 ELSE IF @ > count THEN count ELSE @,
                        !.load = "ready", !.why = "none"]
      ELSE IF t.retried[t.scope] # required
      THEN LoadSnapshot([t EXCEPT !.retried[t.scope] = required], TRUE)
      ELSE [over EXCEPT !.load = IF HasAny(t) THEN "ready" ELSE "error"]

SnapshotFailed(t) ==
  [t EXCEPT !.request = NoAsk, !.load = "error", !.pageState = "idle", !.why = "failed"]

------------------------------------------------------------------------------
(* What happens to a batch. *)

\* A batch that is over.
Over(t, batch) == [t EXCEPT !.batches = @ \ {batch}]

\* A batch asked for under a snapshot that has been replaced is of no interest.
Outdated(t, batch) == batch.revision # Shown(t).revision

\* The rows make a new snapshot object, so the effect runs whatever they are.
RowsLoaded(t, batch) ==
  LET rows == batch.answer
      kept == {row \in Shown(t).rows : row.session \notin {r.session : r \in rows}}
  IN  IF Outdated(t, batch) THEN Over(t, batch)
      ELSE EnsureWindow([Over(t, batch) EXCEPT
             !.snapshots[t.scope].rows = kept \union rows,
             !.pageState = IF batch.urgent THEN "idle" ELSE @])

\* STALE_DATA_REVISION: the ledger has moved on, so the whole snapshot is reloaded.
RowsStale(t, batch) == IF Outdated(t, batch) THEN Over(t, batch) ELSE LoadSnapshot(t, TRUE)

RowsFailed(t, batch) ==
  [Over(t, batch) EXCEPT !.pageState =
     IF batch.urgent /\ ~Outdated(t, batch) THEN "error" ELSE @]

------------------------------------------------------------------------------
(* The feed's listeners and the user. *)

\* The revision listener: a table without a snapshot is loading its first.
HandleTableRevision(t, tuple) ==
  IF ~HasAny(t) \/ tuple.data <= Shown(t).revision THEN t ELSE LoadSnapshot(t, TRUE)

HandleTableError(t) == [t EXCEPT !.load = "error", !.why = "revision"]

GoToPage(t, page) == [t EXCEPT !.page = page, !.pageState = "idle"]

SelectSort(t) == [t EXCEPT !.order = IF @ = "desc" THEN "asc" ELSE "desc"]

\* Another scope: what was kept for it is shown, from its first page.
SelectTableScope(t, scope) ==
  LoadSnapshot([t EXCEPT !.scope = scope, !.page = 1], FALSE)

RetryLoadTable(t) == LoadSnapshot(t, TRUE)
==============================================================================
