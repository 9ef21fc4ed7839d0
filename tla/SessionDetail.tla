----------------------------- MODULE SessionDetail -----------------------------
(***************************************************************************)
(* The controller of the session drawer                                    *)
(* (src/frontend/src/dashboard/session/useSessionDetailController.ts) as   *)
(* operators over one record, the drawer.  A detail is represented by the  *)
(* data revision it was read at; 0 is none.                                *)
(***************************************************************************)
EXTENDS LiveRevisions

NoSession == 0
NoDetail  == 0

\* The key of a kept detail (detailCacheKey).
Key(d, session, revision) == [scope |-> d.scope, session |-> session, revision |-> revision]

\* The drawer of a page that has just been mounted on a scope.
ClosedDrawer(scope) ==
  [scope |-> scope, open |-> FALSE, session |-> NoSession, revision |-> 0, shown |-> NoDetail,
   load |-> "closed", failed |-> FALSE,
   known |-> 0,       \* scopeRef.revision: the newest data revision heard of
   cache |-> {},      \* the details kept, with the revision they are for
   request |-> NoAsk]

\* loadDetail: the request before it is aborted; a kept detail is shown at once, and
\* a detail of the same session stays on show meanwhile.
LoadDetail(d, session, wanted, bypass) ==
  LET cached == ~bypass /\ Key(d, session, wanted) \in d.cache
      same   == d.session = session
  IN  [d EXCEPT !.open = TRUE, !.session = session,
        !.revision = IF wanted > 0 THEN wanted ELSE @,
        !.shown = IF cached THEN wanted ELSE IF same THEN @ ELSE NoDetail,
        !.load = IF cached THEN "ready"
                 ELSE IF same /\ d.shown # NoDetail THEN "refreshing" ELSE "loading",
        !.failed = FALSE,
        !.request = IF cached THEN NoAsk
                    ELSE [session |-> session, wanted |-> wanted, answer |-> Waiting]]

\* An answer older than what is known is asked for again, a newer one is dropped.
DetailLoaded(d) ==
  LET read == d.request.answer
  IN  IF d.known > 0 /\ read < d.known THEN LoadDetail(d, d.session, d.known, TRUE)
      ELSE IF d.known > 0 /\ read > d.known THEN [d EXCEPT !.request = NoAsk]
      ELSE [d EXCEPT !.request = NoAsk, !.shown = read, !.revision = read, !.load = "ready",
                     !.failed = FALSE,
                     !.cache = {c \in @ : c.revision >= read} \union {Key(d, d.session, read)}]

DetailFailed(d) ==
  [d EXCEPT !.request = NoAsk, !.failed = TRUE,
            !.load = IF d.shown # NoDetail THEN "ready" ELSE "error"]

\* STALE_DATA_REVISION (the caller has the table reloaded): asked for again if a newer
\* revision is known by now.
DetailStale(d) ==
  IF d.known > d.request.wanted THEN LoadDetail(d, d.session, d.known, TRUE)
  ELSE DetailFailed(d)

\* open_detail, select_session
OpenDetail(d, session) == LoadDetail(d, session, d.known, FALSE)

\* close_detail
CloseDetail(d) ==
  [d EXCEPT !.open = FALSE, !.session = NoSession, !.shown = NoDetail, !.load = "closed",
            !.revision = d.known, !.failed = FALSE, !.request = NoAsk]

\* retry_detail
RetryDetail(d) == LoadDetail(d, d.session, d.known, TRUE)

\* The revision listener: a newer data revision empties the cache and reloads what
\* is open.
HandleDetailRevision(d, tuple) ==
  LET noted == [d EXCEPT !.known = tuple.data, !.cache = {}]
  IN  IF tuple.data <= d.known THEN d
      ELSE IF d.open THEN LoadDetail(noted, d.session, tuple.data, TRUE)
      ELSE [noted EXCEPT !.revision = tuple.data]

\* Rendering on a scope: what the table shows (or the feed has announced, as long as it shows
\* nothing) is known from then on; a newer table reloads what is open.
DetailRendered(d, scope, tableBefore, tableNow, feedData) ==
  LET supplied == IF tableNow > 0 THEN tableNow ELSE Larger(feedData, 0)
      rendered == [d EXCEPT !.scope = scope, !.known = Larger(@, supplied)]
      renewed  == tableNow # tableBefore /\ tableNow > 0
  IN  IF renewed /\ d.open /\ tableNow > d.revision
      THEN LoadDetail([rendered EXCEPT !.known = tableNow, !.cache = {}],
                      d.session, tableNow, TRUE)
      ELSE rendered
==============================================================================
