---------------------------- MODULE DashboardProofs ----------------------------
(***************************************************************************)
(* The dashboard page and the scans it follows, for any number of scans,   *)
(* commits, clicks, faults and events on their way.                        *)
(*                                                                         *)
(* RefreshEndsWithTheScan is not inductive: an acknowledged scan that runs *)
(* must be the one the page follows, a page that follows a scan must show  *)
(* it, the status request that is out must be about that scan, and what    *)
(* its answer says must have been true when it was read.  For              *)
(* RunningIsAttended the revisions must be in order as well: whatever is   *)
(* on its way to the page, and what the page has taken over, is not newer  *)
(* than the ledger, and an answer that shows a row as it no longer is is   *)
(* older than the ledger.                                                  *)
(***************************************************************************)
EXTENDS Dashboard, ScanLifecycleProofs

\* A page follows a scan exactly while it shows one as running or out of touch,
\* and asks for the status of the scan it follows.
Tracks(p) ==
  /\ p.refresh = "running" => p.target # NoScan
  /\ p.target # NoScan => p.refresh \in {"running", "tracking_error"}
  /\ p.post # NoAsk <=> p.refresh = "requesting"
  /\ p.status.answer # NoAsk =>
       p.status.scan = p.target /\ (p.status.tracking <=> p.status.scan # NoScan)

\* The status of row s as an answer of this revision tells it.
Honest(a) ==
  /\ a.status <= meta.revision
  /\ a.target.scan # NoScan =>
       /\ a.target.scan \in DOMAIN runs /\ a.target.state \in Live \union Terminal
       /\ a.target.state \in Terminal => runs[a.target.scan].state \in Terminal
       /\ a.status = meta.revision => a.target.state = runs[a.target.scan].state
  /\ a.slot.state \in Followed => a.slot.scan \in DOMAIN runs
  /\ a.active \in {NoScan} \union DOMAIN runs

AnswerIsHonest ==
  page.status.answer \in StatusAnswers =>
    /\ Honest(page.status.answer)
    /\ page.status.answer.target.scan = page.status.scan
    /\ page.tuple.status <= page.status.answer.status

\* Nothing that is on its way is newer than the ledger.
NothingIsAhead ==
  /\ ledger.status = meta.revision
  /\ feed.asked \in Tuples => feed.asked.status <= ledger.status
  /\ \A i \in DOMAIN stream.pipe : stream.pipe[i].status <= ledger.status

\* The scan whose acknowledgement is on its way has its row.
PostIsOfARow == page.post \in Nat => page.post \in DOMAIN runs

\* An acknowledged scan has ended or is followed.
AckedIsFollowed == \A s \in acked : runs[s].state \in Terminal \/ s = page.target

\* The server and the feed; and the page.
ServerInv == LiveTypeOK /\ Consistent /\ NothingIsAhead

PageInv ==
  /\ page \in Pages /\ page.target \in {NoScan} \union DOMAIN runs /\ acked \subseteq DOMAIN runs
  /\ Tracks(page) /\ AnswerIsHonest /\ page.tuple.status <= ledger.status /\ PostIsOfARow
  /\ AckedIsFollowed /\ RunningIsAttended

DashInv == ServerInv /\ PageInv /\ clicks \in 0..MaxClicks

------------------------------------------------------------------------------
(* The handlers of the page: the figures, the options and the failures leave *)
(* what the page follows alone.                                              *)

SameTracking(p, q) ==
  /\ q.refresh = p.refresh /\ q.target = p.target /\ q.status = p.status /\ q.post = p.post
  /\ q.tuple.status = p.tuple.status

\* A handler turns the page p into the page q of the same tracking.
Aside(p, q) == q \in Pages /\ SameTracking(p, q)

LEMMA AsideChains ==
  ASSUME NEW p, NEW q, NEW r, Aside(p, q), Aside(q, r)
  PROVE  Aside(p, r)
BY DEF Aside, SameTracking

LEMMA LoadStateAside ==
  ASSUME NEW p \in Pages
  PROVE  Aside(p, SetLoadState(p))
BY DEF SetLoadState, Aside, SameTracking, Pages, LoadStates, Initial

\* Only the options change.
LEMMA OptionsAside ==
  ASSUME NEW p \in Pages,
         NEW o \in [loaded : BOOLEAN, revision : 0..MaxData, pending : 0..MaxData, stale : BOOLEAN,
                    asked : SUBSET Nat, request : {NoAsk, Waiting} \union 0..MaxData]
  PROVE  Aside(p, [p EXCEPT !.options = o]) /\ [p EXCEPT !.options = o].options = o
BY DEF Aside, SameTracking, Pages

LEMMA LargerIsIn ==
  ASSUME NEW S, NEW a \in S, NEW b \in S
  PROVE  Larger(a, b) \in S
BY DEF Larger

LEMMA ObserveAside ==
  ASSUME NEW p \in Pages, NEW revision \in 0..MaxData
  PROVE  Aside(p, ObserveRevision(p, revision))
<1>1. Larger(p.options.pending, revision) \in 0..MaxData
  BY LargerIsIn DEF Pages
<1>2. Aside(p, p)
  BY DEF Aside, SameTracking
<1>3. CASE revision <= p.options.revision
  BY <1>2, <1>3 DEF ObserveRevision
<1>4. CASE ~(revision <= p.options.revision)
  <2>1. ObserveRevision(p, revision) =
          [p EXCEPT !.options.pending = Larger(p.options.pending, revision), !.options.stale = TRUE]
    BY <1>4 DEF ObserveRevision
  <2> DEFINE large == Larger(p.options.pending, revision)
             q     == [p EXCEPT !.options.pending = large]
  <2> HIDE DEF large
  <2>2. Aside(p, q)
    BY <1>1 DEF Aside, SameTracking, Pages, large
  <2>3. ObserveRevision(p, revision) = [q EXCEPT !.options.stale = TRUE]
    BY <2>1 DEF large
  <2> HIDE DEF q
  <2>4. Aside(q, [q EXCEPT !.options.stale = TRUE])
    BY <2>2 DEF Aside, SameTracking, Pages
  <2> QED BY <2>2, <2>3, <2>4, AsideChains
<1> QED BY <1>3, <1>4

LEMMA LoadOptionsAside ==
  ASSUME NEW p \in Pages
  PROVE  Aside(p, LoadOptions(p))
BY DEF LoadOptions, Aside, SameTracking, Pages

LEMMA OptionsLoadedAside ==
  ASSUME NEW p \in Pages, NEW data \in 0..MaxData
  PROVE  Aside(p, OptionsLoaded(p, data))
<1> DEFINE old == [p.options EXCEPT !.request = NoAsk, !.stale = TRUE]
           new == [p.options EXCEPT !.request = NoAsk, !.loaded = TRUE, !.revision = data,
                                    !.pending = IF data >= p.options.pending THEN 0 ELSE p.options.pending,
                                    !.stale = data < p.options.pending]
           O   == [loaded : BOOLEAN, revision : 0..MaxData, pending : 0..MaxData, stale : BOOLEAN,
                   asked : SUBSET Nat, request : {NoAsk, Waiting} \union 0..MaxData]
<1>1. p.options \in O
  BY DEF Pages
<1>2. old \in O
  BY <1>1
<1>3. new \in O
  <2>1. (IF data >= p.options.pending THEN 0 ELSE p.options.pending) \in 0..MaxData
    BY <1>1, FeedAssumption
  <2>2. (data < p.options.pending) \in BOOLEAN
    OBVIOUS
  <2> QED BY <1>1, <2>1, <2>2
<1> HIDE DEF old, new
<1>4. Aside(p, [p EXCEPT !.options = old]) /\ Aside(p, [p EXCEPT !.options = new])
  BY <1>2, <1>3, OptionsAside
<1> QED BY <1>4 DEF OptionsLoaded, old, new

LEMMA OptionsFailedAside ==
  ASSUME NEW p \in Pages
  PROVE  Aside(p, OptionsFailed(p))
BY DEF OptionsFailed, Aside, SameTracking, Pages

LEMMA MaybeRefreshAside ==
  ASSUME NEW p \in Pages, NEW status \in StatusAnswers, NEW scan \in Nat
  PROVE  Aside(p, MaybeRefreshOptions(p, status, scan))
<1> DEFINE q == ObserveRevision(p, status.data)
           r == [q EXCEPT !.options.asked = @ \union {scan}]
<1>1. Aside(p, q)
  BY ObserveAside DEF StatusAnswers
<1> HIDE DEF q
<1>2. Aside(q, r)
  BY <1>1 DEF Aside, SameTracking, Pages
<1> HIDE DEF r
<1>3. Aside(r, LoadOptions(r))
  BY <1>2, LoadOptionsAside DEF Aside
<1>4. Aside(p, LoadOptions(r))
  BY <1>1, <1>2, <1>3, AsideChains
<1> QED BY <1>1, <1>4 DEF MaybeRefreshOptions, q, r

LEMMA LoadSummaryAside ==
  ASSUME NEW p \in Pages
  PROVE  Aside(p, LoadSummary(p))
BY DEF LoadSummary, Aside, SameTracking, Pages, LoadStates, Initial

LEMMA SummaryLoadedAside ==
  ASSUME NEW p \in Pages, NEW data \in 0..MaxData
  PROVE  Aside(p, SummaryLoaded(p, data))
<1> DEFINE settled == [p EXCEPT !.summary = NoAsk, !.loading = FALSE, !.failures = @ \ {"summary"}]
           shown   == [settled EXCEPT !.shots[p.scope] = data, !.tuple.data = data]
<1>1. Aside(p, settled)
  BY DEF Aside, SameTracking, Pages
<1>2. settled \in Pages /\ p.scope \in Scopes
  BY <1>1 DEF Aside, Pages
<1> HIDE DEF settled
<1>3. Aside(settled, shown)
  <2>1. data \in NoShot..MaxData
    BY FeedAssumption DEF NoShot
  <2> QED BY <1>2, <2>1 DEF Aside, SameTracking, Pages, Tuples
<1> HIDE DEF shown
<1>4. Aside(p, SetLoadState(settled)) /\ Aside(p, SetLoadState(shown))
  BY <1>1, <1>3, LoadStateAside, AsideChains DEF Aside
<1> QED BY <1>4 DEF SummaryLoaded, settled, shown

LEMMA SummaryFailedAside ==
  ASSUME NEW p \in Pages
  PROVE  Aside(p, SummaryFailed(p))
BY DEF SummaryFailed, Aside, SameTracking, Pages, LoadStates

LEMMA SelectScopeAside ==
  ASSUME NEW p \in Pages, NEW scope \in Scopes
  PROVE  Aside(p, SelectScope(p, scope))
<1> DEFINE q == [p EXCEPT !.scope = scope, !.load = "loading", !.failures = @ \ {"summary"}]
<1>1. Aside(p, q)
  BY DEF Aside, SameTracking, Pages, LoadStates
<1> HIDE DEF q
<1>2. Aside(q, LoadSummary(q))
  BY <1>1, LoadSummaryAside DEF Aside
<1> QED BY <1>1, <1>2, AsideChains DEF SelectScope, q

LEMMA RevisionErrorAside ==
  ASSUME NEW p \in Pages
  PROVE  Aside(p, HandleRevisionError(p))
BY DEF HandleRevisionError, Aside, SameTracking, Pages, LoadStates

------------------------------------------------------------------------------
(* The handlers that decide what the page follows. *)

\* A status request is sent, for the scan followed or for none.
Asked(p, scan) ==
  /\ p.status.scan = scan /\ p.status.answer = Waiting
  /\ p.status.tracking <=> scan # NoScan

LEMMA RequestStatusEffect ==
  ASSUME NEW p \in Pages, NEW scan \in Nat
  PROVE  LET q == RequestStatus(p, scan)
         IN  /\ q \in Pages /\ Asked(q, scan)
             /\ q.refresh = p.refresh /\ q.target = p.target /\ q.post = p.post
             /\ q.tuple = p.tuple
<1>1. [scan |-> scan, tracking |-> scan # NoScan, answer |-> Waiting]
        \in [scan : Nat, tracking : BOOLEAN, answer : {NoAsk, Waiting} \union StatusAnswers]
  OBVIOUS
<1> QED BY <1>1 DEF RequestStatus, Asked, Pages

\* The page follows the scan and has asked for its status.
Follows(q, scan) ==
  q \in Pages /\ Asked(q, scan) /\ q.refresh = "running" /\ q.target = scan

LEMMA TrackEffect ==
  ASSUME NEW p \in Pages, NEW scan \in Nat
  PROVE  /\ Follows(Track(p, scan), scan)
         /\ Track(p, scan).post = p.post /\ Track(p, scan).tuple = p.tuple
<1> DEFINE q == [p EXCEPT !.target = scan, !.refresh = "running"]
<1>1. /\ q \in Pages /\ q.target = scan /\ q.refresh = "running"
      /\ q.post = p.post /\ q.tuple = p.tuple
  BY DEF Pages, RefreshStates
<1> HIDE DEF q
<1>2. LET u == RequestStatus(q, scan)
      IN  /\ u \in Pages /\ Asked(u, scan) /\ u.refresh = q.refresh /\ u.target = q.target
          /\ u.post = q.post /\ u.tuple = q.tuple
  BY <1>1, RequestStatusEffect
<1>3. Track(p, scan) = RequestStatus(q, scan)
  BY DEF Track, q
<1> QED BY <1>1, <1>2, <1>3 DEF Follows

\* What an answer leaves of a page without a status request: it follows another
\* scan of the answer, it follows none, or it goes on following its own.
Outcome(p, a, q) ==
  /\ q \in Pages /\ q.post = p.post /\ q.tuple.status = p.tuple.status
  /\ \/ /\ Follows(q, q.target) /\ p.refresh # "requesting"
        /\ \/ a.slot.state \in Followed /\ q.target = a.slot.scan
           \/ a.active # NoScan /\ q.target = a.active
        /\ p.target = NoScan \/ a.target.state \in Terminal
     \/ /\ q.target = NoScan /\ q.refresh # "running" /\ q.status = p.status
        /\ q.refresh = "requesting" <=> p.refresh = "requesting"
        /\ p.target = NoScan \/ a.target.state \in Terminal
     \/ /\ q.target = p.target /\ p.target # NoScan /\ q.refresh = "running"
        /\ q.status = p.status /\ a.target.state \in Live

LEMMA TargetEndedOutcome ==
  ASSUME NEW p \in Pages, NEW a \in StatusAnswers, p.refresh \in {"running", "tracking_error"},
         a.target.state \in Terminal
  PROVE  Outcome(p, a, TargetEnded(p, a))
<1> DEFINE released == [p EXCEPT !.target = NoScan, !.trackFailed = FALSE]
           kept     == MaybeRefreshOptions(released, a, p.target)
           end      == IF a.target.state = "completed" THEN "idle" ELSE "failed"
           over     == [kept EXCEPT !.refresh = end]
           next     == a.slot.state \in Followed /\ a.slot.scan # p.target
           settled  == IF next THEN Track(released, a.slot.scan) ELSE over
<1>1. /\ released \in Pages /\ released.target = NoScan /\ released.post = p.post
      /\ released.tuple = p.tuple /\ released.status = p.status
  BY DEF Pages, NoScan
<1>2. p.target \in Nat /\ a.slot.scan \in Nat
  BY DEF Pages, StatusAnswers
<1> HIDE DEF released
<1>3. Aside(released, kept)
  BY <1>1, <1>2, MaybeRefreshAside
<1> HIDE DEF kept
<1>4. /\ over \in Pages /\ over.target = NoScan /\ over.post = p.post /\ over.refresh = end
      /\ over.tuple.status = p.tuple.status /\ over.status = p.status /\ end \in {"idle", "failed"}
  BY <1>1, <1>3 DEF Aside, SameTracking, Pages, RefreshStates
<1> HIDE DEF over, end
<1>5. ASSUME next
      PROVE  /\ Follows(settled, a.slot.scan) /\ settled.post = p.post
             /\ settled.tuple = p.tuple
  BY <1>1, <1>2, <1>5, TrackEffect
<1>6. Outcome(p, a, settled)
  <2>1. CASE next
    BY <1>5, <2>1 DEF Outcome, Follows
  <2>2. CASE ~next
    <3>1. settled = over
      BY <2>2
    <3> HIDE DEF settled
    <3> QED BY <1>4, <3>1 DEF Outcome
  <2> QED BY <2>1, <2>2
<1> HIDE DEF settled
<1>7. settled \in Pages
  BY <1>6 DEF Outcome
<1>8. Outcome(p, a, LoadSummary(settled))
  BY <1>6, <1>7, LoadSummaryAside DEF Outcome, Aside, SameTracking, Follows, Asked
<1>9. TargetEnded(p, a) = IF a.target.state = "completed" /\ a.data > Shown(p)
                          THEN LoadSummary(settled) ELSE settled
  BY DEF TargetEnded, settled, over, kept, released, end, next
<1> QED BY <1>6, <1>8, <1>9

LEMMA TargetOutcome ==
  ASSUME NEW p \in Pages, NEW a \in StatusAnswers, Tracks(p), p.target # NoScan,
         a.target.scan = p.target, a.target.state \in Live \union Terminal
  PROVE  Outcome(p, a, ReduceTarget(p, a))
<1>1. p.refresh \in {"running", "tracking_error"}
  BY DEF Tracks
<1>2. CASE a.target.state \in Live
  <2>1. ReduceTarget(p, a) = [p EXCEPT !.refresh = "running"]
    BY <1>2 DEF ReduceTarget, Live
  <2>2. /\ [p EXCEPT !.refresh = "running"] \in Pages
        /\ [p EXCEPT !.refresh = "running"].refresh = "running"
        /\ [p EXCEPT !.refresh = "running"].target = p.target
        /\ [p EXCEPT !.refresh = "running"].status = p.status
        /\ [p EXCEPT !.refresh = "running"].post = p.post
        /\ [p EXCEPT !.refresh = "running"].tuple = p.tuple
    BY DEF Pages, RefreshStates
  <2> QED BY <1>2, <2>1, <2>2 DEF Outcome
<1>3. CASE a.target.state \in Terminal
  <2>1. ReduceTarget(p, a) = TargetEnded(p, a)
    BY <1>3 DEF ReduceTarget, Terminal
  <2> QED BY <1>1, <1>3, <2>1, TargetEndedOutcome
<1> QED BY <1>2, <1>3

LEMMA IdleOutcome ==
  ASSUME NEW p \in Pages, NEW a \in StatusAnswers, Tracks(p), p.target = NoScan
  PROVE  Outcome(p, a, ReduceIdle(p, a))
<1> DEFINE options == IF a.last # NoScan THEN MaybeRefreshOptions(p, a, a.last) ELSE p
           state   == IF options.refresh \in {"failed", "tracking_error"} THEN options.refresh ELSE "idle"
<1>1. Aside(p, options)
  <2>1. Aside(p, p) /\ a.last \in Nat
    BY DEF Aside, SameTracking, StatusAnswers
  <2> QED BY <2>1, MaybeRefreshAside
<1> HIDE DEF options
<1>2. p.refresh # "running"
  BY DEF Tracks
<1>3. ASSUME NEW q \in Pages, NEW s \in RefreshStates, Aside(p, q), p.refresh # "requesting",
             s \notin {"running", "requesting"}
      PROVE  Outcome(p, a, [q EXCEPT !.refresh = s])
  <2>1. /\ [q EXCEPT !.refresh = s] \in Pages /\ [q EXCEPT !.refresh = s].refresh = s
        /\ [q EXCEPT !.refresh = s].target = q.target /\ [q EXCEPT !.refresh = s].status = q.status
        /\ [q EXCEPT !.refresh = s].post = q.post /\ [q EXCEPT !.refresh = s].tuple = q.tuple
    BY DEF Pages
  <2> QED BY <1>3, <2>1 DEF Outcome, Aside, SameTracking
<1>4. CASE p.refresh = "requesting"
  BY <1>4 DEF ReduceIdle, Outcome
<1>5. CASE p.refresh # "requesting" /\ a.binding = "source_changed"
  <2>1. ReduceIdle(p, a) = [p EXCEPT !.refresh = "source_changed"]
    BY <1>5 DEF ReduceIdle
  <2> QED BY <1>3, <1>5, <2>1 DEF Aside, SameTracking, RefreshStates
<1>6. CASE p.refresh # "requesting" /\ a.binding \notin {"ready", "source_changed"}
  <2>1. ReduceIdle(p, a) = [p EXCEPT !.refresh = "idle"]
    BY <1>6 DEF ReduceIdle
  <2> QED BY <1>3, <1>6, <2>1 DEF Aside, SameTracking, RefreshStates
<1>7. CASE p.refresh # "requesting" /\ a.binding = "ready" /\ a.slot.state \in Followed
  <2>1. ReduceIdle(p, a) = Track(p, a.slot.scan) /\ a.slot.scan \in Nat
    BY <1>7 DEF ReduceIdle, StatusAnswers
  <2> QED BY <1>7, <2>1, TrackEffect DEF Outcome, Follows
<1>8. CASE /\ p.refresh # "requesting" /\ a.binding = "ready" /\ a.slot.state \notin Followed
           /\ a.active # NoScan
  <2>1. ReduceIdle(p, a) = Track(p, a.active) /\ a.active \in Nat
    BY <1>8 DEF ReduceIdle, StatusAnswers
  <2> QED BY <1>8, <2>1, TrackEffect DEF Outcome, Follows
<1>9. CASE /\ p.refresh # "requesting" /\ a.binding = "ready" /\ a.slot.state \notin Followed
           /\ a.active = NoScan
  <2>1. ReduceIdle(p, a) = [options EXCEPT !.refresh = state]
    BY <1>9 DEF ReduceIdle, options
  <2>2. state \in RefreshStates /\ state \notin {"running", "requesting"}
    BY DEF RefreshStates
  <2>3. options \in Pages
    BY <1>1 DEF Aside
  <2> QED BY <1>1, <1>3, <1>9, <2>1, <2>2, <2>3
<1> QED BY <1>4, <1>5, <1>6, <1>7, <1>8, <1>9

\* The status request is over, and what the page has taken over is not newer than
\* its answer.
Learned(p, a, q) ==
  \E r \in Pages :
    /\ Tracks(r) /\ r.status = NoStatusRequest /\ r.tuple.status <= a.status
    /\ r.refresh = p.refresh /\ r.target = p.target /\ r.post = p.post
    /\ Outcome(r, a, q)

LEMMA StatusLoadedOutcome ==
  ASSUME NEW p \in Pages, NEW a \in StatusAnswers, Tracks(p), p.tuple.status <= a.status,
         p.target # NoScan => a.target.scan = p.target /\ a.target.state \in Live \union Terminal
  PROVE  Learned(p, a, StatusLoaded(p, a))
<1> DEFINE seen  == ObserveRevision(p, a.data)
           told  == [data |-> a.data, status |-> a.status]
           tuple == IF Behind(told, seen.tuple) THEN seen.tuple ELSE told
           fresh == IF p.status.tracking /\ p.target # NoScan THEN FALSE ELSE seen.trackFailed
           noted == [seen EXCEPT !.status = NoStatusRequest, !.tuple = tuple, !.ready = TRUE,
                                 !.failures = @ \ {"status"}, !.trackFailed = fresh]
           r     == [noted EXCEPT !.open = Open(a)]
<1>1. Aside(p, seen) /\ seen \in Pages
  BY ObserveAside DEF StatusAnswers, Aside
<1> HIDE DEF seen
<1>2. told \in Tuples /\ told.status = a.status
  BY DEF Tuples, StatusAnswers
<1> HIDE DEF told
<1>3. tuple \in Tuples /\ tuple.status <= a.status
  BY <1>1, <1>2, FeedAssumption DEF Aside, SameTracking, Pages, Tuples, StatusAnswers
<1>4. fresh \in BOOLEAN /\ Open(a) \in BOOLEAN
  BY <1>1 DEF Pages, Open
<1> HIDE DEF tuple, fresh
<1>5. NoStatusRequest \in [scan : Nat, tracking : BOOLEAN, answer : {NoAsk, Waiting} \union StatusAnswers]
  BY DEF NoStatusRequest, NoScan
<1>6. /\ noted \in Pages /\ noted.status = NoStatusRequest /\ noted.tuple = tuple
      /\ noted.refresh = seen.refresh /\ noted.target = seen.target /\ noted.post = seen.post
  BY <1>1, <1>3, <1>4, <1>5, ZenonT(60) DEF Pages
<1> HIDE DEF noted
<1>7. /\ r \in Pages /\ r.status = NoStatusRequest /\ r.tuple = tuple
      /\ r.refresh = p.refresh /\ r.target = p.target /\ r.post = p.post
  BY <1>1, <1>4, <1>6 DEF Pages, Aside, SameTracking
<1> HIDE DEF r
<1>8. Tracks(r)
  BY <1>7 DEF Tracks, NoStatusRequest
<1>9. Outcome(r, a, ReduceStatus(noted, a))
  <2>1. ReduceStatus(noted, a) = IF r.target # NoScan THEN ReduceTarget(r, a) ELSE ReduceIdle(r, a)
    BY <1>6, <1>7 DEF ReduceStatus, r
  <2> QED BY <1>7, <1>8, <2>1, TargetOutcome, IdleOutcome
<1> DEFINE q == ReduceStatus(noted, a)
<1>10. StatusLoaded(p, a) = SetLoadState(q)
  BY DEF StatusLoaded, noted, seen, tuple, told, fresh
<1> HIDE DEF q
<1>11. Outcome(r, a, q) /\ q \in Pages
  BY <1>9 DEF q, Outcome
<1>12. Outcome(r, a, SetLoadState(q))
  BY <1>11, LoadStateAside DEF Outcome, Aside, SameTracking, Follows, Asked
<1> QED BY <1>3, <1>7, <1>8, <1>10, <1>12 DEF Learned

\* The request about a scan failed: the page is out of touch with it.
LEMMA StatusFailedEffect ==
  ASSUME NEW p \in Pages, Tracks(p), p.status.answer # NoAsk
  PROVE  LET q == StatusFailed(p)
         IN  /\ q \in Pages /\ q.target = p.target /\ q.post = p.post
             /\ q.tuple.status = p.tuple.status /\ q.status = NoStatusRequest
             /\ q.refresh = IF p.target # NoScan THEN "tracking_error" ELSE p.refresh
<1> DEFINE over == [p EXCEPT !.status = NoStatusRequest]
           lost == [over EXCEPT !.refresh = "tracking_error", !.trackFailed = TRUE,
                                !.failures = @ \ {"status"}]
           none == [over EXCEPT !.ready = FALSE, !.load = "error", !.failures = @ \union {"status"}]
<1>1. /\ over \in Pages /\ over.target = p.target /\ over.post = p.post /\ over.tuple = p.tuple
      /\ over.refresh = p.refresh /\ over.status = NoStatusRequest
  BY DEF Pages, NoStatusRequest, NoScan
<1> HIDE DEF over
<1>2. /\ lost \in Pages /\ lost.target = p.target /\ lost.post = p.post /\ lost.tuple = p.tuple
      /\ lost.refresh = "tracking_error" /\ lost.status = NoStatusRequest
  BY <1>1 DEF Pages, RefreshStates
<1>3. /\ none \in Pages /\ none.target = p.target /\ none.post = p.post /\ none.tuple = p.tuple
      /\ none.refresh = p.refresh /\ none.status = NoStatusRequest
  BY <1>1, ZenonT(60) DEF Pages, LoadStates
<1>4. StatusFailed(p) = SetLoadState(IF p.target # NoScan THEN lost ELSE none)
  BY DEF StatusFailed, Tracks, over
<1> HIDE DEF lost, none
<1> QED BY <1>2, <1>3, <1>4, LoadStateAside DEF Aside, SameTracking

\* The page takes a tuple over; a newer status is asked for.
LEMMA RevisionEffect ==
  ASSUME NEW p \in Pages, NEW t \in Tuples
  PROVE  LET q == HandleRevision(p, t)
         IN  /\ q \in Pages /\ q.refresh = p.refresh /\ q.target = p.target /\ q.post = p.post
             /\ \/ q.status = p.status /\ q.tuple.status = p.tuple.status
                \/ Asked(q, p.target) /\ q.tuple.status = t.status
<1> DEFINE seen    == ObserveRevision(p, t.data)
           cleared == [seen EXCEPT !.failures = @ \ {"revision"}]
           noted   == [cleared EXCEPT !.tuple = t]
           reload  == IF t.data > p.tuple.data THEN LoadSummary(noted) ELSE noted
<1>1. Aside(p, seen) /\ seen \in Pages
  BY ObserveAside DEF Tuples, Aside
<1> HIDE DEF seen
<1>2. Aside(p, cleared) /\ cleared \in Pages
  BY <1>1 DEF Aside, SameTracking, Pages
<1> HIDE DEF cleared
<1>3. /\ noted \in Pages /\ noted.refresh = p.refresh /\ noted.target = p.target
      /\ noted.post = p.post /\ noted.status = p.status /\ noted.tuple = t
  BY <1>2 DEF Aside, SameTracking, Pages
<1> HIDE DEF noted
<1>4. /\ reload \in Pages /\ reload.refresh = p.refresh /\ reload.target = p.target
      /\ reload.post = p.post /\ reload.status = p.status /\ reload.tuple.status = t.status
  BY <1>3, LoadSummaryAside DEF Aside, SameTracking
<1> HIDE DEF reload
<1>5. p.target \in Nat /\ p.tuple.status \in Int /\ t.status \in Int
  BY FeedAssumption DEF Pages, Tuples
<1>6. HandleRevision(p, t) =
        IF Behind(t, p.tuple) THEN p
        ELSE IF t.status > p.tuple.status THEN RequestStatus(reload, p.target) ELSE reload
  BY DEF HandleRevision, reload, noted, cleared, seen
<1>7. CASE Behind(t, p.tuple)
  BY <1>6, <1>7
<1>8. CASE ~Behind(t, p.tuple) /\ t.status > p.tuple.status
  <2>1. HandleRevision(p, t) = RequestStatus(reload, p.target)
    BY <1>6, <1>8
  <2> QED BY <1>4, <1>5, <2>1, RequestStatusEffect
<1>9. CASE ~Behind(t, p.tuple) /\ ~(t.status > p.tuple.status)
  <2>1. HandleRevision(p, t) = reload /\ t.status = p.tuple.status
    BY <1>5, <1>6, <1>9 DEF Behind
  <2> QED BY <1>4, <2>1
<1> QED BY <1>7, <1>8, <1>9

------------------------------------------------------------------------------
(* The server and the feed. *)

\* A step of the lifecycle, or none: rows that have ended stay, and when a row
\* changes the revision does.
RowsMove ==
  /\ DOMAIN runs \subseteq DOMAIN runs' /\ meta.revision <= meta'.revision
  /\ \A s \in DOMAIN runs : runs[s].state \in Terminal => runs'[s] = runs[s]
  /\ meta'.revision = meta.revision => \A s \in DOMAIN runs : runs'[s] = runs[s]

LEMMA LifecycleMoves ==
  ASSUME Consistent, [Next]_vars
  PROVE  RowsMove /\ Consistent'
<1>1. /\ meta.revision \in Nat /\ NextRevision > meta.revision /\ Consistent' /\ meta'.revision \in Nat
      /\ NextRevision \in Nat
  BY MetaFields, ConsistentNext DEF Consistent, TypeOK, Meta
<1>2. /\ DOMAIN runs \subseteq DOMAIN runs' /\ meta.revision <= meta'.revision
      /\ meta'.revision = meta.revision => \A s \in DOMAIN runs : runs'[s] = runs[s]
  <2>1. CASE Keeps
    BY <1>1, <2>1 DEF Keeps
  <2>2. CASE Begins \/ Waits
    BY <1>1, <2>2 DEF Begins, Waits, Inserts, OthersStay
  <2>3. ASSUME NEW s \in DOMAIN runs, Promotes(s) \/ Ends(s) \/ \E code \in StartFailedCodes : SlotFails(s, code)
        PROVE  DOMAIN runs' = DOMAIN runs /\ meta'.revision = NextRevision
    BY <2>3 DEF Promotes, Ends, SlotFails, Becomes
  <2> QED BY <1>1, <2>1, <2>2, <2>3, RowStep
<1> QED BY <1>1, <1>2, TerminalStep DEF RowsMove

\* What the server does with its scans.
ServerScans ==
  \/ MarkScanStarted \/ ReserveScanFollowup
  \/ \E s \in DOMAIN runs :
       \/ MarkFollowupStarted(s) \/ MarkFollowupStartFailed(s, "SCAN_START_FAILED")
       \/ MarkScanCompleted(s) \/ MarkScanFailed(s, "WORKER_ERROR")

\* A step of the lifecycle, published as it commits.
LEMMA LifecycleHolds ==
  ASSUME ServerInv, ServerScans, Lifecycle(TRUE), breaks' \in 0..MaxBreaks
  PROVE  ServerInv' /\ RowsMove
<1>1. [Next]_vars /\ meta'.revision \in {meta.revision, NextRevision}
  BY DEF ServerScans, Next, MarkScanStarted, ReserveScanFollowup, MarkFollowupStarted,
         MarkFollowupStartFailed, MarkScanCompleted, MarkScanFailed, StartFailedCodes, ScanFailedCodes,
         ServerInv, Consistent, TypeOK, Meta
<1>2. Consistent' /\ RowsMove
  BY <1>1, LifecycleMoves DEF ServerInv
<1>3. meta.revision \in Nat /\ meta'.revision \in 0..MaxStatus /\ meta.revision <= meta'.revision
  BY <1>1, FeedAssumption DEF Lifecycle, ServerInv, Consistent, TypeOK, Meta, NextRevision
<1>4. ledger' \in Tuples /\ ledger'.status = meta'.revision
  <2>1. ledger \in Tuples /\ ledger.status = meta.revision
    BY DEF ServerInv, LiveTypeOK, NothingIsAhead
  <2>2. /\ [ledger EXCEPT !.status = meta'.revision].data = ledger.data
        /\ [ledger EXCEPT !.status = meta'.revision].status = meta'.revision
    BY <2>1 DEF Tuples
  <2>3. ledger' = [data |-> Larger(ledger.data, ledger.data),
                   status |-> Larger(ledger.status, meta'.revision)]
    BY <2>2 DEF Lifecycle, Published
  <2> QED BY <1>3, <2>1, <2>3, FeedAssumption DEF Tuples, Larger
<1>5. UNCHANGED <<stream, feed>>
  BY DEF Lifecycle
<1>6. LiveTypeOK'
  BY <1>4, <1>5 DEF ServerInv, LiveTypeOK
<1>7. NothingIsAhead'
  <2>1. \A n \in Int : n <= ledger.status => n <= ledger'.status
    BY <1>3, <1>4, FeedAssumption DEF ServerInv, NothingIsAhead
  <2>2. \A t \in Tuples : t.status \in Int
    BY FeedAssumption DEF Tuples
  <2>3. \A i \in DOMAIN stream.pipe : stream.pipe[i] \in Tuples
    BY ElementOfSeq DEF ServerInv, LiveTypeOK
  <2> QED BY <1>4, <1>5, <2>1, <2>2, <2>3 DEF ServerInv, NothingIsAhead
<1> QED BY <1>2, <1>6, <1>7 DEF ServerInv

\* The scans stay, and the ledger its status.
Still == UNCHANGED scanVars /\ ledger'.status = ledger.status

LEMMA StillMoves ==
  ASSUME Consistent, UNCHANGED scanVars
  PROVE  Consistent' /\ RowsMove
<1>1. [Next]_vars
  BY DEF scanVars, vars
<1> QED BY <1>1, LifecycleMoves

\* A step that the lifecycle and the feed do not take part in.
LEMMA UntouchedHolds ==
  ASSUME ServerInv, UNCHANGED <<scanVars, ledger, stream, feed>>, breaks' \in 0..MaxBreaks
  PROVE  ServerInv' /\ RowsMove
<1>1. Consistent' /\ RowsMove
  BY StillMoves DEF ServerInv
<1>2. LiveTypeOK' /\ NothingIsAhead'
  BY DEF ServerInv, LiveTypeOK, NothingIsAhead, scanVars
<1> QED BY <1>1, <1>2 DEF ServerInv

LEMMA CommitHolds ==
  ASSUME ServerInv, CommitData
  PROVE  ServerInv' /\ RowsMove /\ Still
<1>1. Consistent' /\ RowsMove
  BY StillMoves DEF ServerInv, CommitData
<1>2. ledger' \in Tuples /\ ledger'.status = ledger.status
  <2>1. ledger \in Tuples /\ ledger.data < MaxData
    BY DEF ServerInv, LiveTypeOK, CommitData
  <2>2. /\ [ledger EXCEPT !.data = ledger.data + 1].data = ledger.data + 1
        /\ [ledger EXCEPT !.data = ledger.data + 1].status = ledger.status
    BY <2>1 DEF Tuples
  <2>3. ledger' = [data |-> Larger(ledger.data, ledger.data + 1),
                   status |-> Larger(ledger.status, ledger.status)]
    BY <2>2 DEF CommitData, Published
  <2> QED BY <2>1, <2>3, FeedAssumption DEF Tuples, Larger
<1>3. LiveTypeOK' /\ NothingIsAhead'
  BY <1>2 DEF CommitData, ServerInv, LiveTypeOK, NothingIsAhead, scanVars
<1> QED BY <1>1, <1>2, <1>3 DEF ServerInv, Still, CommitData

------------------------------------------------------------------------------
(* The stream and the requests of the feed. *)

\* What the stream carries is not newer than the ledger: its events, one by one.
Old(pipe) == \A i \in DOMAIN pipe : pipe[i].status <= ledger.status

LEMMA HeadIsOld ==
  ASSUME NEW pipe \in Seq(Tuples), pipe # << >>, Old(pipe)
  PROVE  /\ Head(pipe) \in Tuples /\ Head(pipe).status <= ledger.status
         /\ Tail(pipe) \in Seq(Tuples) /\ Len(Tail(pipe)) = Len(pipe) - 1 /\ Old(Tail(pipe))
<1>1. /\ Len(pipe) \in Nat \ {0} /\ DOMAIN pipe = 1..Len(pipe) /\ Head(pipe) = pipe[1]
      /\ Head(pipe) \in Tuples
  BY EmptySeq, LenProperties, HeadTailProperties
<1>2. /\ Tail(pipe) \in Seq(Tuples) /\ Len(Tail(pipe)) = Len(pipe) - 1
      /\ \A i \in 1..Len(Tail(pipe)) : Tail(pipe)[i] = pipe[i + 1]
  BY HeadTailProperties
<1>3. DOMAIN Tail(pipe) = 1..(Len(pipe) - 1)
  BY <1>2, LenProperties
<1>4. ASSUME NEW i \in DOMAIN Tail(pipe)
      PROVE  Tail(pipe)[i].status <= ledger.status
  BY <1>1, <1>2, <1>3, <1>4 DEF Old
<1> QED BY <1>1, <1>2, <1>4 DEF Old

LEMMA AppendIsOld ==
  ASSUME NEW pipe \in Seq(Tuples), Old(pipe), ledger \in Tuples
  PROVE  /\ Append(pipe, ledger) \in Seq(Tuples) /\ Len(Append(pipe, ledger)) = Len(pipe) + 1
         /\ Old(Append(pipe, ledger))
<1>1. /\ Append(pipe, ledger) \in Seq(Tuples) /\ Len(Append(pipe, ledger)) = Len(pipe) + 1
      /\ DOMAIN Append(pipe, ledger) = DOMAIN pipe \union {Len(pipe) + 1}
      /\ \A i \in DOMAIN pipe : Append(pipe, ledger)[i] = pipe[i]
      /\ Append(pipe, ledger)[Len(pipe) + 1] = ledger
  BY AppendRow, AppendProperties
<1>2. ledger.status <= ledger.status
  BY FeedAssumption DEF Tuples
<1> QED BY <1>1, <1>2 DEF Old

\* The ledger and the scans stay; the stream and the feed are still in order.
InOrder ==
  /\ stream' \in [up : BOOLEAN, seen : Tuples \union {NoTuple}, pipe : Seq(Tuples)]
  /\ Len(stream'.pipe) <= MaxPipe /\ Old(stream'.pipe)
  /\ feed' \in [tuple : Tuples \union {NoTuple}, polling : BOOLEAN, asked : Tuples \union {NoAsk, Waiting}]
  /\ feed'.asked \in Tuples => feed'.asked.status <= ledger.status

LEMMA OrderHolds ==
  ASSUME ServerInv, InOrder, UNCHANGED <<scanVars, ledger>>, breaks' \in 0..MaxBreaks
  PROVE  ServerInv' /\ RowsMove
<1>1. Consistent' /\ RowsMove
  BY StillMoves DEF ServerInv
<1>2. LiveTypeOK' /\ NothingIsAhead'
  BY DEF ServerInv, InOrder, Old, LiveTypeOK, NothingIsAhead, scanVars
<1> QED BY <1>1, <1>2 DEF ServerInv

LEMMA FeedMovesHolds ==
  ASSUME ServerInv, Emit \/ AnswerRevision \/ Reconnect \/ Broken \/ PollTick
  PROVE  InOrder /\ UNCHANGED ledger /\ breaks' \in 0..MaxBreaks
<1> USE DEF ServerInv, LiveTypeOK
<1>1. /\ stream.pipe \in Seq(Tuples) /\ Old(stream.pipe) /\ ledger \in Tuples
      /\ Len(stream.pipe) \in Nat /\ ledger.status <= ledger.status
  BY LenProperties, FeedAssumption DEF NothingIsAhead, Old, Tuples
<1>2. /\ feed.asked \in Tuples => feed.asked.status <= ledger.status
      /\ Waiting \notin Tuples /\ NoAsk \notin Tuples
  BY FeedAssumption DEF NothingIsAhead, Tuples
<1>3. CASE Emit
  <2> DEFINE pipe == Append(stream.pipe, ledger)
  <2>1. pipe \in Seq(Tuples) /\ Len(pipe) = Len(stream.pipe) + 1 /\ Old(pipe)
    BY <1>1, AppendIsOld
  <2>2. Len(pipe) <= MaxPipe
    BY <1>1, <1>3, <2>1, FeedAssumption DEF Emit
  <2>3. stream' = [stream EXCEPT !.seen = ledger, !.pipe = pipe] /\ UNCHANGED <<ledger, feed, breaks>>
    BY <1>3 DEF Emit
  <2> HIDE DEF pipe
  <2>4. /\ stream' \in [up : BOOLEAN, seen : Tuples \union {NoTuple}, pipe : Seq(Tuples)]
        /\ stream'.pipe = pipe
    BY <1>1, <2>1, <2>3
  <2> QED BY <1>2, <2>1, <2>2, <2>3, <2>4 DEF InOrder
<1>4. CASE AnswerRevision
  BY <1>1, <1>2, <1>4 DEF AnswerRevision, InOrder
<1>5. CASE Reconnect
  <2>1. /\ << ledger >> \in Seq(Tuples) /\ Len(<< ledger >>) = 1 /\ DOMAIN << ledger >> = {1}
        /\ << ledger >>[1] = ledger
    BY <1>1
  <2>2. Old(<< ledger >>)
    BY <1>1, <2>1 DEF Old
  <2> DEFINE pipe == << ledger >>
  <2>3. Len(pipe) <= MaxPipe /\ pipe \in Seq(Tuples) /\ Old(pipe)
    BY <2>1, <2>2, FeedAssumption
  <2>4. stream' = [up |-> TRUE, seen |-> ledger, pipe |-> pipe] /\ UNCHANGED <<ledger, feed, breaks>>
    BY <1>5 DEF Reconnect
  <2> HIDE DEF pipe
  <2> QED BY <1>1, <1>2, <2>3, <2>4 DEF InOrder
<1>6. CASE Broken
  <2>1. << >> \in Seq(Tuples) /\ Len(<< >>) = 0 /\ Old(<< >>)
    BY EmptySeq DEF Old
  <2>2. breaks' \in 0..MaxBreaks
    BY <1>6, FeedAssumption DEF Broken
  <2>3. /\ stream' \in [up : BOOLEAN, seen : Tuples \union {NoTuple}, pipe : Seq(Tuples)]
        /\ stream'.pipe = << >>
    BY <1>6, <2>1 DEF Broken
  <2>4. /\ feed' \in [tuple : Tuples \union {NoTuple}, polling : BOOLEAN, asked : Tuples \union {NoAsk, Waiting}]
        /\ feed'.asked = feed.asked
    BY <1>6 DEF Broken
  <2>5. 0 <= MaxPipe
    BY FeedAssumption
  <2> QED BY <1>2, <1>6, <2>1, <2>2, <2>3, <2>4, <2>5 DEF Broken, InOrder
<1>7. CASE PollTick
  BY <1>1, <1>2, <1>7 DEF PollTick, Ask, InOrder
<1> QED BY <1>3, <1>4, <1>5, <1>6, <1>7

LEMMA TakesHold ==
  ASSUME ServerInv, TakeEvent \/ TakeAnswer \/ AskFails
  PROVE  /\ InOrder /\ UNCHANGED ledger /\ breaks' \in 0..MaxBreaks
         /\ TakeEvent => Head(stream.pipe) \in Tuples /\ Head(stream.pipe).status <= ledger.status
<1> USE DEF ServerInv, LiveTypeOK
<1>1. stream.pipe \in Seq(Tuples) /\ Old(stream.pipe) /\ Len(stream.pipe) \in Nat
  BY LenProperties DEF NothingIsAhead, Old
<1>2. /\ feed.asked \in Tuples => feed.asked.status <= ledger.status
      /\ NoAsk \notin Tuples
  BY FeedAssumption DEF NothingIsAhead, Tuples
<1>3. CASE TakeEvent
  <2> DEFINE pipe == Tail(stream.pipe)
             t    == Head(stream.pipe)
  <2>1. /\ t \in Tuples /\ t.status <= ledger.status
        /\ pipe \in Seq(Tuples) /\ Len(pipe) = Len(stream.pipe) - 1 /\ Old(pipe)
    BY <1>1, <1>3, HeadIsOld DEF TakeEvent
  <2>2. Len(pipe) <= MaxPipe
    BY <1>1, <2>1, FeedAssumption
  <2>3. stream' = [stream EXCEPT !.pipe = pipe] /\ feed' = AfterEvent(t) /\ UNCHANGED <<ledger, breaks>>
    BY <1>3 DEF TakeEvent
  <2> HIDE DEF pipe, t
  <2>4. /\ stream' \in [up : BOOLEAN, seen : Tuples \union {NoTuple}, pipe : Seq(Tuples)]
        /\ stream'.pipe = pipe
    BY <2>1, <2>3
  <2>5. /\ feed' \in [tuple : Tuples \union {NoTuple}, polling : BOOLEAN, asked : Tuples \union {NoAsk, Waiting}]
        /\ feed'.asked = feed.asked
    BY <2>1, <2>3 DEF AfterEvent
  <2>6. InOrder
    BY <1>2, <2>1, <2>2, <2>4, <2>5 DEF InOrder
  <2> QED BY <2>1, <2>3, <2>6 DEF t
<1>4. CASE TakeAnswer
  <2>1. /\ feed' \in [tuple : Tuples \union {NoTuple}, polling : BOOLEAN, asked : Tuples \union {NoAsk, Waiting}]
        /\ feed'.asked = NoAsk
    BY <1>4 DEF TakeAnswer, AfterAnswer
  <2> QED BY <1>1, <1>2, <1>3, <1>4, <2>1 DEF TakeAnswer, InOrder
<1>5. CASE AskFails
  <2>1. breaks' \in 0..MaxBreaks
    BY <1>5, FeedAssumption DEF AskFails
  <2> QED BY <1>1, <1>2, <1>3, <1>5, <2>1 DEF AskFails, InOrder
<1> QED BY <1>3, <1>4, <1>5

------------------------------------------------------------------------------
(* The page, while the server moves or stays. *)

\* What was true of an answer stays true.
LEMMA HonestStays ==
  ASSUME Consistent, Consistent', RowsMove, NEW a \in StatusAnswers, Honest(a)
  PROVE  Honest(a)'
<1>1. /\ a.status \in Int /\ meta.revision \in Int /\ meta'.revision \in Int
      /\ meta.revision <= meta'.revision
  BY FeedAssumption DEF StatusAnswers, Consistent, TypeOK, Meta, RowsMove
<1>2. a.status <= meta'.revision
  BY <1>1 DEF Honest
<1>3. a.status = meta'.revision => a.status = meta.revision /\ meta'.revision = meta.revision
  BY <1>1 DEF Honest
<1> QED BY <1>2, <1>3 DEF Honest, RowsMove

\* Whatever the server does, a page that keeps what it follows stays attended.
LEMMA AttendedStays ==
  ASSUME ServerInv, ServerInv', RowsMove, PageInv, NEW q \in Pages,
         q.refresh = page.refresh, q.target = page.target, q.tuple.status = page.tuple.status,
         q.status.answer = NoAsk => page.status.answer = NoAsk, page' = q
  PROVE  RunningIsAttended'
<1>1. SUFFICES ASSUME page.refresh = "running", page.status.answer = NoAsk
      PROVE  \/ page.target # NoScan /\ runs'[page.target].state \in Live
             \/ page.tuple.status < ledger'.status
  BY DEF RunningIsAttended
<1>2. /\ page.tuple.status \in Int /\ ledger.status = meta.revision /\ ledger'.status = meta'.revision
      /\ meta.revision \in Int /\ meta'.revision \in Int /\ meta.revision <= meta'.revision
  BY FeedAssumption DEF PageInv, Pages, Tuples, ServerInv, NothingIsAhead, Consistent, TypeOK, Meta, RowsMove
<1>3. CASE page.tuple.status < ledger.status
  BY <1>2, <1>3
<1>4. CASE page.target # NoScan /\ runs[page.target].state \in Live
  <2>1. page.target \in DOMAIN runs /\ page.tuple.status <= ledger.status
    BY <1>4 DEF PageInv
  <2>2. CASE meta'.revision = meta.revision
    BY <1>4, <2>1, <2>2 DEF RowsMove
  <2>3. CASE meta'.revision # meta.revision
    BY <1>2, <2>1, <2>3
  <2> QED BY <2>2, <2>3
<1> QED BY <1>1, <1>3, <1>4 DEF PageInv, RunningIsAttended

\* A step that leaves what the page follows alone.
LEMMA PageStays ==
  ASSUME ServerInv, ServerInv', RowsMove, PageInv, page' \in Pages, acked' = acked,
         page'.refresh = page.refresh, page'.target = page.target, page'.status = page.status,
         page'.tuple.status = page.tuple.status,
         page'.post # NoAsk <=> page.post # NoAsk,
         page'.post \in Nat => page'.post \in DOMAIN runs'
  PROVE  PageInv'
<1> USE DEF PageInv
<1>1. Tracks(page') /\ PostIsOfARow'
  BY DEF Tracks, PostIsOfARow
<1>2. page'.target \in {NoScan} \union DOMAIN runs' /\ acked' \subseteq DOMAIN runs'
  BY DEF RowsMove
<1>3. page'.tuple.status <= ledger'.status
  <2>1. /\ page.tuple.status \in Int /\ ledger.status = meta.revision /\ ledger'.status = meta'.revision
        /\ meta.revision \in Int /\ meta'.revision \in Int /\ meta.revision <= meta'.revision
    BY FeedAssumption DEF Pages, Tuples, ServerInv, NothingIsAhead, Consistent, TypeOK, Meta, RowsMove
  <2>2. page.tuple.status <= ledger.status /\ page'.tuple.status = page.tuple.status
    OBVIOUS
  <2> QED BY <2>1, <2>2
<1>4. AnswerIsHonest'
  BY HonestStays DEF AnswerIsHonest, ServerInv
<1>5. AckedIsFollowed'
  BY DEF AckedIsFollowed, RowsMove
<1>6. RunningIsAttended'
  BY AttendedStays
<1> QED BY <1>1, <1>2, <1>3, <1>4, <1>5, <1>6

LEMMA AsideHolds ==
  ASSUME ServerInv, ServerInv', RowsMove, PageInv, Aside(page, page'), acked' = acked
  PROVE  PageInv'
<1>1. page.post \in Nat => page.post \in DOMAIN runs'
  BY DEF PageInv, PostIsOfARow, RowsMove
<1> QED BY <1>1, PageStays DEF Aside, SameTracking

\* The page follows a scan it did not follow, and no acknowledged one runs.
LEMMA FollowsHolds ==
  ASSUME ServerInv, PageInv, Still, NEW scan \in DOMAIN runs, Follows(page', scan),
         page'.post = NoAsk, page'.tuple.status <= ledger.status,
         acked' \subseteq DOMAIN runs,
         \A s \in acked' : runs[s].state \in Terminal \/ s = scan
  PROVE  PageInv'
<1>1. page' \in Pages /\ scan # NoScan /\ UNCHANGED runs
  BY RowNumbers DEF Follows, Still, scanVars, NoScan, ServerInv, Consistent, TypeOK
<1>2. Waiting \notin StatusAnswers /\ Waiting # NoAsk /\ NoAsk \notin Nat
  BY AnswersAssumption, FeedAssumption
<1>3. Tracks(page') /\ PostIsOfARow' /\ AnswerIsHonest' /\ RunningIsAttended'
  BY <1>1, <1>2 DEF Follows, Asked, Tracks, PostIsOfARow, AnswerIsHonest, RunningIsAttended
<1>4. AckedIsFollowed'
  BY <1>1 DEF AckedIsFollowed, Follows
<1> QED BY <1>1, <1>3, <1>4 DEF PageInv, Follows, Still

\* The page asks for the status again, and follows what it followed.
LEMMA AskedHolds ==
  ASSUME ServerInv, PageInv, Still, page' \in Pages, acked' = acked, Asked(page', page.target),
         page'.refresh = page.refresh, page'.target = page.target, page'.post = page.post,
         page'.tuple.status <= ledger.status
  PROVE  PageInv'
<1>1. Waiting \notin StatusAnswers /\ Waiting # NoAsk /\ UNCHANGED runs
  BY AnswersAssumption, FeedAssumption DEF Still, scanVars
<1>2. Tracks(page') /\ PostIsOfARow' /\ AnswerIsHonest' /\ RunningIsAttended'
  BY <1>1 DEF PageInv, Asked, Tracks, PostIsOfARow, AnswerIsHonest, RunningIsAttended
<1>3. AckedIsFollowed'
  BY <1>1 DEF PageInv, AckedIsFollowed
<1> QED BY <1>1, <1>2, <1>3 DEF PageInv, Still

\* The page follows nothing, or is out of touch with what it follows, and has no
\* request about it.
LEMMA RestsHolds ==
  ASSUME ServerInv, PageInv, Still, page' \in Pages, acked' = acked,
         page'.target = page.target \/ (page'.target = NoScan /\ \A s \in acked : runs[s].state \in Terminal),
         IF page'.target = NoScan THEN page'.refresh \notin {"running"} ELSE page'.refresh = "tracking_error",
         page'.post # NoAsk <=> page'.refresh = "requesting",
         page'.post = page.post \/ page'.post \in {NoAsk, Waiting},
         page'.status = NoStatusRequest \/ (page'.status = page.status /\ page'.target = page.target),
         page'.tuple.status <= ledger.status, page'.tuple.status <= page.tuple.status \/ page'.status = NoStatusRequest
  PROVE  PageInv'
<1>1. NoAsk \notin StatusAnswers /\ NoAsk \notin Nat /\ Waiting \notin Nat /\ UNCHANGED <<runs, meta>>
  BY AnswersAssumption DEF Still, scanVars
<1>2. Tracks(page')
  BY DEF PageInv, Tracks, NoStatusRequest
<1>3. PostIsOfARow' /\ RunningIsAttended'
  BY <1>1 DEF PageInv, PostIsOfARow, RunningIsAttended
<1>4. AnswerIsHonest'
  <2>1. CASE page'.status = NoStatusRequest
    BY <1>1, <2>1 DEF AnswerIsHonest, NoStatusRequest
  <2>2. CASE page'.status = page.status /\ page'.tuple.status <= page.tuple.status
    <3>1. \A a \in StatusAnswers : Honest(a)' <=> Honest(a)
      BY <1>1 DEF Honest
    <3>2. /\ page.tuple.status \in Int /\ page'.tuple.status \in Int
          /\ \A a \in StatusAnswers : a.status \in Int
      BY FeedAssumption DEF PageInv, Pages, Tuples, StatusAnswers
    <3> QED BY <2>2, <3>1, <3>2 DEF PageInv, AnswerIsHonest
  <2> QED BY <2>1, <2>2
<1>5. AckedIsFollowed'
  BY <1>1 DEF PageInv, AckedIsFollowed
<1> QED BY <1>1, <1>2, <1>3, <1>4, <1>5 DEF PageInv, Still

------------------------------------------------------------------------------
(* The steps. *)

\* Scans, the ledger and what the page asks of them.
LEMMA ServerStepHolds ==
  ASSUME DashInv, CommitData \/ StartScan \/ QueueFollowup \/ EndScan \/ TurnToFollowup
  PROVE  ServerInv' /\ PageInv' /\ clicks' = clicks
<1> USE DEF DashInv
<1>1. breaks \in 0..MaxBreaks /\ (Fault => breaks' \in 0..MaxBreaks)
  BY FeedAssumption DEF ServerInv, LiveTypeOK, Fault
<1>2. ServerInv' /\ RowsMove
  <2>1. CASE CommitData
    BY <2>1, CommitHolds
  <2>2. CASE StartScan
    BY <1>1, <2>2, LifecycleHolds DEF StartScan, Lifecycle, ServerScans
  <2>3. CASE QueueFollowup
    BY <1>1, <2>3, LifecycleHolds DEF QueueFollowup, Lifecycle, ServerScans
  <2>4. CASE EndScan
    <3>1. /\ MarkScanCompleted(meta.active) \/ MarkScanFailed(meta.active, "WORKER_ERROR")
          /\ Lifecycle(TRUE) /\ breaks' \in 0..MaxBreaks
      BY <1>1, <2>4 DEF EndScan, Lifecycle
    <3>2. meta.active \in DOMAIN runs
      BY <3>1 DEF MarkScanCompleted, MarkScanFailed, IsActive, RowIs
    <3> QED BY <3>1, <3>2, LifecycleHolds DEF ServerScans
  <2>5. CASE TurnToFollowup
    <3>1. /\ \/ MarkFollowupStarted(meta.slot.scan)
             \/ MarkFollowupStartFailed(meta.slot.scan, "SCAN_START_FAILED")
          /\ Lifecycle(TRUE) /\ breaks' \in 0..MaxBreaks
      BY <1>1, <2>5 DEF TurnToFollowup, Lifecycle
    <3>2. meta.slot.scan \in DOMAIN runs
      BY <3>1 DEF MarkFollowupStarted, MarkFollowupStartFailed, CanStartFollowup, SlotQueued,
                  QueuedProjection, RowIs
    <3> QED BY <3>1, <3>2, LifecycleHolds DEF ServerScans
  <2> QED BY <2>1, <2>2, <2>3, <2>4, <2>5
<1>3. page' = page /\ acked' = acked /\ clicks' = clicks
  BY DEF CommitData, StartScan, QueueFollowup, EndScan, TurnToFollowup, userVars
<1>4. Aside(page, page')
  BY <1>3 DEF PageInv, Aside, SameTracking
<1> QED BY <1>2, <1>3, <1>4, AsideHolds

\* The answer of the status request is honest as it leaves.
LEMMA StatusIsHonest ==
  ASSUME ServerInv, NEW scan \in {NoScan} \union DOMAIN runs
  PROVE  StatusOf(scan) \in StatusAnswers /\ Honest(StatusOf(scan)) /\ StatusOf(scan).target.scan = scan
         /\ StatusOf(scan).status = meta.revision
<1> DEFINE state == IF scan = NoScan THEN "none" ELSE runs[scan].state
<1> USE DEF ServerInv, Consistent
<1>1. /\ ledger.data \in 0..MaxData /\ meta.revision \in 0..MaxStatus /\ meta.revision <= meta.revision
  BY FeedAssumption DEF LiveTypeOK, NothingIsAhead, Tuples
<1>2. /\ meta.state \in {"idle", "running", "failed"} /\ meta.active \in Nat /\ meta.lastScan \in Nat
      /\ meta.binding \in {"unbound", "ready", "source_changed"}
      /\ meta.slot.scan \in Nat /\ meta.slot.state \in {"none", "queued", "start_failed"}
  BY DEF TypeOK, Meta, Slot
<1>3. scan \in Nat /\ (scan # NoScan => scan \in DOMAIN runs /\ runs[scan].state \in Live \union Terminal)
  <2>1. \A s \in DOMAIN runs : s \in Nat /\ runs[s] \in Run
    BY RowNumbers DEF TypeOK
  <2>2. \A r \in Run : r.state \in Live \union Terminal
    BY DEF Run
  <2> QED BY <2>1, <2>2 DEF NoScan
<1>4. state \in {"none"} \union Live \union Terminal
  BY <1>3
<1>5. /\ meta.slot.state \in Followed => meta.slot.scan \in DOMAIN runs
      /\ meta.active \in {NoScan} \union DOMAIN runs
  BY DEF ProjectionMatchesRows, Followed, QueuedProjection, StartFailedProjection, RowIs
<1>6. StatusOf(scan) = [data |-> ledger.data, status |-> meta.revision, scan |-> meta.state,
                        active |-> meta.active, last |-> meta.lastScan, binding |-> meta.binding,
                        slot |-> [scan |-> meta.slot.scan, state |-> meta.slot.state],
                        target |-> [scan |-> scan, state |-> state]]
  BY DEF StatusOf
<1>7. StatusOf(scan) \in StatusAnswers
  BY <1>1, <1>2, <1>3, <1>4, <1>6 DEF StatusAnswers
<1>8. Honest(StatusOf(scan))
  BY <1>1, <1>3, <1>5, <1>6 DEF Honest
<1> QED BY <1>6, <1>7, <1>8

LEMMA AnswerReadHolds ==
  ASSUME DashInv, AnswerRead
  PROVE  ServerInv' /\ PageInv' /\ clicks' = clicks
<1> USE DEF DashInv
<1>1. UNCHANGED <<meta, runs, opened, ledger, stream, feed, breaks, clicks, acked>>
  BY DEF AnswerRead, scanVars, liveVars, userVars
<1>2. ServerInv' /\ RowsMove
  BY <1>1, UntouchedHolds DEF scanVars, ServerInv, LiveTypeOK
<1>3. page \in Pages /\ ledger.data \in 0..MaxData
  BY DEF PageInv, ServerInv, LiveTypeOK, Tuples
<1>4. CASE page.status.answer = Waiting /\ page' = [page EXCEPT !.status.answer = StatusOf(page.status.scan)]
  <2>1. page.status.scan = page.target /\ (page.status.tracking <=> page.status.scan # NoScan)
    BY <1>4, FeedAssumption DEF PageInv, Tracks
  <2>2. PICK a \in StatusAnswers :
          /\ a = StatusOf(page.status.scan) /\ Honest(a) /\ a.target.scan = page.target
          /\ a.status = meta.revision
    BY <2>1, StatusIsHonest DEF PageInv
  <2> DEFINE s == [page.status EXCEPT !.answer = a]
  <2>3. /\ s \in [scan : Nat, tracking : BOOLEAN, answer : {NoAsk, Waiting} \union StatusAnswers]
        /\ s.scan = page.status.scan /\ s.tracking = page.status.tracking /\ s.answer = a
    BY <1>3, <2>2 DEF Pages
  <2>4. page' = [page EXCEPT !.status = s]
    BY <1>4, <2>2
  <2> HIDE DEF s
  <2>5. /\ page' \in Pages /\ page'.status = s /\ page'.refresh = page.refresh
        /\ page'.target = page.target /\ page'.post = page.post /\ page'.tuple = page.tuple
    BY <1>3, <2>3, <2>4 DEF Pages
  <2>6. Tracks(page') /\ PostIsOfARow'
    BY <1>1, <2>1, <2>3, <2>5 DEF PageInv, Tracks, PostIsOfARow
  <2>7. Honest(a)' /\ ledger.status = meta.revision /\ a # NoAsk
    <3>1. a # NoAsk
      BY AnswersAssumption
    <3>2. Honest(a)' /\ ledger.status = meta.revision
      BY <1>1, <2>2 DEF Honest, ServerInv, NothingIsAhead
    <3> QED BY <3>1, <3>2
  <2>8. AnswerIsHonest'
    BY <2>1, <2>2, <2>3, <2>5, <2>7 DEF AnswerIsHonest, PageInv
  <2>9. RunningIsAttended' /\ AckedIsFollowed'
    BY <1>1, <2>3, <2>5, <2>7 DEF RunningIsAttended, AckedIsFollowed, PageInv
  <2> QED BY <1>1, <1>2, <2>5, <2>6, <2>8, <2>9 DEF PageInv
<1>5. CASE \/ page' = [page EXCEPT !.summary = ledger.data]
           \/ page' = [page EXCEPT !.options.request = ledger.data]
  <2>1. Aside(page, page')
    BY <1>3, <1>5 DEF Aside, SameTracking, Pages
  <2> QED BY <1>1, <1>2, <2>1, AsideHolds
<1> QED BY <1>1, <1>4, <1>5 DEF AnswerRead

\* The acknowledgement of a refresh names a row.
LEMMA AnswerRefreshHolds ==
  ASSUME DashInv, AnswerRefresh
  PROVE  ServerInv' /\ PageInv' /\ clicks' = clicks
<1> USE DEF DashInv
<1>1. page \in Pages /\ page.post = Waiting /\ UNCHANGED <<clicks, acked>> /\ breaks \in 0..MaxBreaks
  BY DEF AnswerRefresh, PageInv, userVars, ServerInv, LiveTypeOK
<1>2. /\ Waiting # NoAsk /\ NoAsk \notin Nat /\ Failure # NoAsk /\ Failure \notin Nat
  BY AnswersAssumption, FeedAssumption
<1>3. PICK post : /\ page' = [page EXCEPT !.post = post]
                  /\ \/ Lifecycle(MarkScanStarted) /\ post = NewScan /\ UNCHANGED breaks
                     \/ Lifecycle(ReserveScanFollowup) /\ post = meta'.slot.scan /\ UNCHANGED breaks
                     \/ post = Failure /\ UNCHANGED <<scanVars, liveVars>>
  BY DEF AnswerRefresh
<1>4. /\ ServerInv' /\ RowsMove
      /\ post \in {Failure} \union Nat /\ (post \in Nat => post \in DOMAIN runs')
  <2>1. CASE Lifecycle(MarkScanStarted) /\ post = NewScan /\ UNCHANGED breaks
    <3>1. ServerInv' /\ RowsMove
      BY <1>1, <2>1, LifecycleHolds DEF Lifecycle, ServerScans
    <3>2. NewScan \in Nat /\ NewScan \in DOMAIN runs'
      BY <2>1, StartStep, RowNumbers DEF Lifecycle, ServerInv, Consistent, TypeOK, OthersStay, NewScan
    <3> QED BY <2>1, <3>1, <3>2
  <2>2. CASE Lifecycle(ReserveScanFollowup) /\ post = meta'.slot.scan /\ UNCHANGED breaks
    <3>1. ServerInv' /\ RowsMove
      BY <1>1, <2>2, LifecycleHolds DEF Lifecycle, ServerScans
    <3>2. meta'.slot.state = "queued"
      <4>1. meta \in Meta /\ ReserveScanFollowup
        BY <2>2 DEF Lifecycle, ServerInv, Consistent, TypeOK
      <4>2. CASE meta.slot.state = "queued"
        BY <4>1, <4>2 DEF ReserveScanFollowup
      <4>3. CASE meta.slot.state # "queued"
        <5> DEFINE slot == [state |-> "queued", scan |-> NewScan, enqueued |-> NextRevision, code |-> NoCode]
        <5>1. slot.state = "queued" /\ meta' = [meta EXCEPT !.revision = NextRevision, !.slot = slot]
          BY <4>1, <4>3 DEF ReserveScanFollowup
        <5> HIDE DEF slot
        <5> QED BY <4>1, <5>1 DEF Meta
      <4> QED BY <4>2, <4>3
    <3>3. meta'.slot.scan \in Nat /\ meta'.slot.scan \in DOMAIN runs'
      BY <3>1, <3>2 DEF ServerInv, Consistent, ProjectionMatchesRows, QueuedProjection, RowIs, TypeOK, Meta, Slot
    <3> QED BY <2>2, <3>1, <3>3
  <2>3. CASE post = Failure /\ UNCHANGED <<scanVars, liveVars>>
    BY <1>1, <1>2, <2>3, UntouchedHolds DEF liveVars
  <2> QED BY <1>3, <2>1, <2>2, <2>3
<1>5. /\ page' \in Pages /\ page'.post = post /\ page'.refresh = page.refresh
      /\ page'.target = page.target /\ page'.status = page.status /\ page'.tuple = page.tuple
  BY <1>1, <1>3, <1>4 DEF Pages
<1>6. page'.post # NoAsk /\ page.post # NoAsk
  BY <1>1, <1>2, <1>4, <1>5
<1> QED BY <1>1, <1>4, <1>5, <1>6, PageStays

\* The answer of the status request arrives.
LEMMA StatusArrivesHolds ==
  ASSUME DashInv, StatusArrives
  PROVE  ServerInv' /\ PageInv' /\ clicks' = clicks
<1> USE DEF DashInv
<1>1. UNCHANGED <<scanVars, ledger, stream, feed, breaks, clicks, acked>>
  BY DEF StatusArrives, liveVars, userVars
<1>2. ServerInv' /\ Still
  BY <1>1, UntouchedHolds DEF ServerInv, LiveTypeOK, Still
<1>3. PICK a \in StatusAnswers : a = page.status.answer /\ page' = StatusLoaded(page, a)
  BY DEF StatusArrives, PageInv, Pages
<1>4. /\ Honest(a) /\ a.target.scan = page.target /\ page.tuple.status <= a.status
      /\ Tracks(page) /\ page \in Pages
  <2>1. a # NoAsk
    BY AnswersAssumption
  <2> QED BY <1>3, <2>1 DEF PageInv, AnswerIsHonest, Tracks
<1>5. PICK r \in Pages :
        /\ Tracks(r) /\ r.status = NoStatusRequest /\ r.tuple.status <= a.status
        /\ r.refresh = page.refresh /\ r.target = page.target /\ r.post = page.post
        /\ Outcome(r, a, page')
  BY <1>3, <1>4, StatusLoadedOutcome DEF Learned, Honest
<1>6. /\ a.status \in Int /\ r.tuple.status \in Int /\ ledger.status = meta.revision
      /\ meta.revision \in Int /\ a.status <= meta.revision
  BY <1>4, FeedAssumption
     DEF Honest, StatusAnswers, Pages, Tuples, ServerInv, NothingIsAhead, Consistent, TypeOK, Meta
<1>7. page' \in Pages /\ page'.post = page.post /\ page'.tuple.status = r.tuple.status
      /\ page'.tuple.status <= ledger.status
  BY <1>5, <1>6 DEF Outcome
<1>8. ASSUME page.target = NoScan \/ a.target.state \in Terminal
      PROVE  \A s \in acked : runs[s].state \in Terminal
  <2>1. page.target # NoScan => runs[page.target].state \in Terminal
    BY <1>4, <1>8 DEF Honest
  <2>2. \A s \in acked : s # NoScan
    BY RowNumbers DEF PageInv, ServerInv, Consistent, TypeOK, NoScan
  <2> QED BY <2>1, <2>2 DEF PageInv, AckedIsFollowed
<1>9. CASE /\ Follows(page', page'.target) /\ r.refresh # "requesting"
           /\ \/ a.slot.state \in Followed /\ page'.target = a.slot.scan
              \/ a.active # NoScan /\ page'.target = a.active
           /\ r.target = NoScan \/ a.target.state \in Terminal
  <2>1. PICK scan \in DOMAIN runs : scan = page'.target
    BY <1>4, <1>9 DEF Honest
  <2>2. page'.post = NoAsk
    BY <1>5, <1>7, <1>9 DEF Tracks
  <2>3. \A s \in acked : runs[s].state \in Terminal
    BY <1>5, <1>8, <1>9
  <2> QED BY <1>1, <1>2, <1>7, <1>9, <2>1, <2>2, <2>3, FollowsHolds DEF PageInv
<1>10. CASE /\ page'.target = NoScan /\ page'.refresh # "running" /\ page'.status = r.status
            /\ page'.refresh = "requesting" <=> r.refresh = "requesting"
            /\ r.target = NoScan \/ a.target.state \in Terminal
  <2>1. \A s \in acked : runs[s].state \in Terminal
    BY <1>5, <1>8, <1>10
  <2>2. page'.post # NoAsk <=> page'.refresh = "requesting"
    BY <1>5, <1>7, <1>10 DEF Tracks
  <2>3. page'.status = NoStatusRequest
    BY <1>5, <1>10
  <2> QED BY <1>1, <1>2, <1>7, <1>10, <2>1, <2>2, <2>3, RestsHolds
<1>11. CASE /\ page'.target = r.target /\ r.target # NoScan /\ page'.refresh = "running"
            /\ page'.status = r.status /\ a.target.state \in Live
  <2>1. page'.target = page.target /\ page.target # NoScan /\ page'.status.answer = NoAsk
    BY <1>5, <1>11 DEF NoStatusRequest
  <2>2. page.refresh # "requesting" /\ NoAsk \notin StatusAnswers /\ NoAsk \notin Nat
    BY <1>4, <2>1, AnswersAssumption DEF Tracks
  <2>3. page.post = NoAsk
    BY <1>4, <2>2 DEF Tracks
  <2>4. Tracks(page') /\ PostIsOfARow' /\ AnswerIsHonest'
    BY <1>7, <1>11, <2>1, <2>2, <2>3 DEF Tracks, PostIsOfARow, AnswerIsHonest
  <2>5. UNCHANGED runs /\ AckedIsFollowed'
    BY <1>1, <2>1 DEF scanVars, PageInv, AckedIsFollowed
  <2>6. runs[page.target].state \in Live \/ page'.tuple.status < ledger.status
    <3>1. CASE a.status = meta.revision
      BY <1>4, <1>11, <2>1, <3>1 DEF Honest
    <3>2. CASE a.status # meta.revision
      BY <1>5, <1>6, <1>7, <3>2
    <3> QED BY <3>1, <3>2
  <2>7. RunningIsAttended'
    BY <1>1, <2>1, <2>5, <2>6 DEF RunningIsAttended
  <2> QED BY <1>1, <1>2, <1>7, <2>1, <2>4, <2>5, <2>7 DEF PageInv
<1> QED BY <1>1, <1>2, <1>5, <1>9, <1>10, <1>11 DEF Outcome

\* The other answers arrive.
LEMMA AnswerArrivesHolds ==
  ASSUME DashInv, SummaryArrives \/ OptionsArrive
  PROVE  ServerInv' /\ PageInv' /\ clicks' = clicks
<1> USE DEF DashInv
<1>1. UNCHANGED <<scanVars, ledger, stream, feed, breaks, clicks, acked>>
  BY DEF SummaryArrives, OptionsArrive, liveVars, userVars
<1>2. ServerInv' /\ RowsMove
  BY <1>1, UntouchedHolds DEF ServerInv, LiveTypeOK
<1>3. page \in Pages
  BY DEF PageInv
<1>4. Aside(page, page')
  BY <1>3, SummaryLoadedAside, OptionsLoadedAside DEF SummaryArrives, OptionsArrive, Pages
<1> QED BY <1>1, <1>2, <1>4, AsideHolds

LEMMA RefusedHolds ==
  ASSUME ServerInv, PageInv, Still, acked' = acked, page.post # NoAsk, NEW binding,
         page' = RefreshRefused(page, binding)
  PROVE  PageInv'
<1>1. page \in Pages /\ page.refresh = "requesting" /\ page.target = NoScan
  BY DEF PageInv, Tracks
<1>2. /\ page' \in Pages /\ page'.post = NoAsk /\ page'.refresh \in {"source_changed", "failed"}
      /\ page'.target = page.target /\ page'.status = page.status /\ page'.tuple = page.tuple
  BY <1>1 DEF RefreshRefused, Pages, RefreshStates
<1>3. page.tuple.status <= ledger.status /\ page.tuple.status <= page.tuple.status
  BY <1>1, FeedAssumption DEF PageInv, Pages, Tuples
<1> QED BY <1>1, <1>2, <1>3, RestsHolds

LEMMA RefreshArrivesHolds ==
  ASSUME DashInv, RefreshArrives
  PROVE  ServerInv' /\ PageInv' /\ clicks' = clicks
<1> USE DEF DashInv
<1>1. UNCHANGED <<scanVars, ledger, stream, feed, breaks, clicks>>
  BY DEF RefreshArrives, liveVars
<1>2. ServerInv' /\ Still
  BY <1>1, UntouchedHolds DEF ServerInv, LiveTypeOK, Still
<1>3. CASE page' = RefreshRefused(page, meta.binding) /\ acked' = acked
  BY <1>1, <1>2, <1>3, RefusedHolds DEF RefreshArrives
<1>4. CASE /\ page.post # Failure /\ page' = RefreshAccepted(page, page.post)
           /\ acked' = acked \union {page.post}
  <2>1. /\ page.post \in Nat /\ page.post \in DOMAIN runs /\ page \in Pages
        /\ page.refresh = "requesting" /\ page.target = NoScan
    BY <1>4 DEF RefreshArrives, PageInv, Pages, PostIsOfARow, Tracks
  <2> DEFINE q == [page EXCEPT !.post = NoAsk]
  <2>2. q \in Pages /\ q.post = NoAsk /\ q.tuple = page.tuple
    BY <2>1 DEF Pages
  <2> HIDE DEF q
  <2>3. page' = Track(q, page.post)
    BY <1>4 DEF RefreshAccepted, q
  <2>4. Follows(page', page.post) /\ page'.post = NoAsk /\ page'.tuple = page.tuple
    BY <2>1, <2>2, <2>3, TrackEffect
  <2>5. \A s \in acked : s # NoScan
    BY RowNumbers DEF PageInv, ServerInv, Consistent, TypeOK, NoScan
  <2>6. \A s \in acked' : runs[s].state \in Terminal \/ s = page.post
    BY <1>4, <2>1, <2>5 DEF PageInv, AckedIsFollowed
  <2> QED BY <1>1, <1>2, <1>4, <2>1, <2>4, <2>6, FollowsHolds DEF PageInv
<1> QED BY <1>1, <1>2, <1>3, <1>4 DEF RefreshArrives

\* A request fails on its way.
LEMMA RequestFailsHolds ==
  ASSUME DashInv, RequestFails
  PROVE  ServerInv' /\ PageInv' /\ clicks' = clicks
<1> USE DEF DashInv
<1>1. UNCHANGED <<scanVars, ledger, stream, feed, clicks, acked>> /\ breaks' \in 0..MaxBreaks
  BY FeedAssumption DEF RequestFails, Fault, userVars, ServerInv, LiveTypeOK
<1>2. ServerInv' /\ RowsMove /\ Still
  BY <1>1, UntouchedHolds DEF Still
<1>3. /\ page \in Pages /\ Tracks(page) /\ page.tuple.status <= ledger.status
      /\ page.tuple.status <= page.tuple.status
  BY FeedAssumption DEF PageInv, Pages, Tuples
<1>4. CASE page.status.answer # NoAsk /\ page' = StatusFailed(page)
  <2>1. /\ page' \in Pages /\ page'.target = page.target /\ page'.post = page.post
        /\ page'.tuple.status = page.tuple.status /\ page'.status = NoStatusRequest
        /\ page'.refresh = IF page.target # NoScan THEN "tracking_error" ELSE page.refresh
    BY <1>3, <1>4, StatusFailedEffect
  <2>2. page'.post # NoAsk <=> page'.refresh = "requesting"
    BY <1>3, <2>1 DEF Tracks
  <2>3. IF page'.target = NoScan THEN page'.refresh \notin {"running"} ELSE page'.refresh = "tracking_error"
    BY <1>3, <2>1 DEF Tracks
  <2> QED BY <1>1, <1>2, <1>3, <2>1, <2>2, <2>3, RestsHolds
<1>5. CASE page' = SummaryFailed(page) \/ page' = OptionsFailed(page)
  BY <1>1, <1>2, <1>3, <1>5, SummaryFailedAside, OptionsFailedAside, AsideHolds
<1>6. CASE page.post # NoAsk /\ page' = RefreshRefused(page, "unknown")
  BY <1>1, <1>2, <1>6, RefusedHolds
<1> QED BY <1>4, <1>5, <1>6 DEF RequestFails

\* A tuple reaches the page.
LEMMA TupleHolds ==
  ASSUME ServerInv, ServerInv', PageInv, Still, RowsMove, UNCHANGED ledger, acked' = acked,
         NEW t \in Tuples, t.status <= ledger.status, page' = HandleRevision(page, t)
  PROVE  PageInv'
<1>1. page \in Pages
  BY DEF PageInv
<1>2. /\ page' \in Pages /\ page'.refresh = page.refresh /\ page'.target = page.target
      /\ page'.post = page.post
      /\ \/ page'.status = page.status /\ page'.tuple.status = page.tuple.status
         \/ Asked(page', page.target) /\ page'.tuple.status = t.status
  BY <1>1, RevisionEffect
<1>3. CASE page'.status = page.status /\ page'.tuple.status = page.tuple.status
  BY <1>2, <1>3, AsideHolds DEF Aside, SameTracking
<1>4. CASE Asked(page', page.target) /\ page'.tuple.status = t.status
  BY <1>2, <1>4, AskedHolds
<1> QED BY <1>2, <1>3, <1>4

LEMMA FeedStepHolds ==
  ASSUME DashInv, EventArrives \/ RevisionArrives \/ RevisionFails \/ FeedMoves
  PROVE  ServerInv' /\ PageInv' /\ clicks' = clicks
<1> USE DEF DashInv
<1>1. UNCHANGED <<scanVars, clicks, acked>>
  BY DEF EventArrives, RevisionArrives, RevisionFails, FeedMoves, userVars
<1>2. InOrder /\ UNCHANGED ledger /\ breaks' \in 0..MaxBreaks
  BY TakesHold, FeedMovesHolds DEF EventArrives, RevisionArrives, RevisionFails, FeedMoves
<1>3. ServerInv' /\ RowsMove /\ Still
  BY <1>1, <1>2, OrderHolds DEF Still
<1>4. page \in Pages /\ Aside(page, page)
  BY DEF PageInv, Aside, SameTracking
<1>5. CASE EventArrives
  <2>1. Head(stream.pipe) \in Tuples /\ Head(stream.pipe).status <= ledger.status
    BY <1>5, TakesHold DEF EventArrives
  <2>2. page' = page \/ page' = HandleRevision(page, Head(stream.pipe))
    BY <1>5 DEF EventArrives
  <2> QED BY <1>1, <1>2, <1>3, <1>4, <2>1, <2>2, TupleHolds, AsideHolds
<1>6. CASE RevisionArrives
  <2>1. feed.asked \in Tuples /\ feed.asked.status <= ledger.status
    BY <1>6 DEF RevisionArrives, TakeAnswer, ServerInv, NothingIsAhead
  <2>2. page' = page \/ page' = HandleRevision(page, feed.asked)
    BY <1>6 DEF RevisionArrives
  <2> QED BY <1>1, <1>2, <1>3, <1>4, <2>1, <2>2, TupleHolds, AsideHolds
<1>7. CASE RevisionFails \/ FeedMoves
  <2>1. Aside(page, page')
    BY <1>4, <1>7, RevisionErrorAside DEF RevisionFails, FeedMoves
  <2> QED BY <1>1, <1>3, <2>1, AsideHolds
<1> QED BY <1>5, <1>6, <1>7

\* The feed's own request is sent again by hand.
LEMMA AskByHand ==
  ASSUME ServerInv, feed' \in {feed, [feed EXCEPT !.asked = Waiting]}, UNCHANGED <<ledger, stream>>
  PROVE  InOrder
<1>1. Waiting \notin Tuples
  BY FeedAssumption DEF Tuples
<1>2. /\ feed \in [tuple : Tuples \union {NoTuple}, polling : BOOLEAN, asked : Tuples \union {NoAsk, Waiting}]
      /\ feed.asked \in Tuples => feed.asked.status <= ledger.status
  BY DEF ServerInv, LiveTypeOK, NothingIsAhead
<1>3. /\ feed' \in [tuple : Tuples \union {NoTuple}, polling : BOOLEAN, asked : Tuples \union {NoAsk, Waiting}]
      /\ feed'.asked \in {feed.asked, Waiting}
  BY <1>2
<1>4. feed'.asked \in Tuples => feed'.asked.status <= ledger.status
  BY <1>1, <1>2, <1>3
<1> QED BY <1>3, <1>4 DEF InOrder, Old, ServerInv, LiveTypeOK, NothingIsAhead

LEMMA UserHolds ==
  ASSUME DashInv, User
  PROVE  ServerInv' /\ PageInv' /\ clicks' \in 0..MaxClicks
<1> USE DEF DashInv
<1>1. /\ UNCHANGED <<scanVars, ledger, stream, breaks, acked>> /\ clicks' \in 0..MaxClicks
      /\ feed' \in {feed, [feed EXCEPT !.asked = Waiting]}
  BY DashboardAssumption DEF User, Click
<1>2. ServerInv' /\ RowsMove /\ Still
  BY <1>1, AskByHand, OrderHolds DEF Still, ServerInv, LiveTypeOK
<1>3. /\ page \in Pages /\ Tracks(page) /\ page.tuple.status <= ledger.status
      /\ page.tuple.status <= page.tuple.status /\ page.target \in Nat
  BY FeedAssumption DEF PageInv, Pages, Tuples
<1>4. ASSUME NEW scope \in Scopes, page' = SelectScope(page, scope)
      PROVE  PageInv'
  BY <1>1, <1>2, <1>3, <1>4, SelectScopeAside, AsideHolds
<1>5. CASE MayRefresh(page) /\ page' = RequestRefresh(page)
  <2>1. /\ page' \in Pages /\ page'.refresh = "requesting" /\ page'.post = Waiting
        /\ page'.target = page.target /\ page'.status = page.status /\ page'.tuple = page.tuple
    BY <1>3, <1>5 DEF RequestRefresh, Pages, RefreshStates
  <2>2. page.target = NoScan /\ Waiting # NoAsk
    BY <1>5, FeedAssumption DEF MayRefresh
  <2> QED BY <1>1, <1>2, <1>3, <2>1, <2>2, RestsHolds
<1>6. CASE /\ page.refresh = "tracking_error" /\ page.target # NoScan /\ page' = RetryStatus(page)
  <2> DEFINE q == [page EXCEPT !.trackFailed = FALSE]
  <2>1. q \in Pages /\ q.post = page.post /\ q.tuple = page.tuple
    BY <1>3 DEF Pages
  <2> HIDE DEF q
  <2>2. page' = Track(q, page.target)
    BY <1>6 DEF RetryStatus, q
  <2>3. Follows(page', page.target) /\ page'.post = page.post /\ page'.tuple = page.tuple
    BY <1>3, <2>1, <2>2, TrackEffect
  <2>4. page.post = NoAsk /\ page.target \in DOMAIN runs
    BY <1>3, <1>6 DEF Tracks, PageInv
  <2> QED BY <1>1, <1>2, <1>3, <2>3, <2>4, FollowsHolds DEF PageInv, AckedIsFollowed
<1>7. CASE page' = RetryLoad(page)
  <2>1. PICK q : /\ q \in {page, LoadSummary(page)}
                 /\ page' \in {q, RequestStatus(q, page.target)}
    <3> DEFINE summary == \/ "summary" \in page.failures
                          \/ page.failures = {} /\ Shown(page) = NoShot
               q       == IF summary THEN LoadSummary(page) ELSE page
    <3>1. page' = IF "status" \in page.failures /\ ~page.trackFailed
                  THEN RequestStatus(q, page.target) ELSE q
      BY <1>7 DEF RetryLoad
    <3>2. q \in {page, LoadSummary(page)}
      OBVIOUS
    <3> HIDE DEF q
    <3> QED BY <3>1, <3>2
  <2>2. Aside(page, q) /\ q \in Pages
    BY <1>3, <2>1, LoadSummaryAside DEF Aside, SameTracking
  <2>3. CASE page' = q
    BY <1>1, <1>2, <2>2, <2>3, AsideHolds
  <2>4. CASE page' = RequestStatus(q, page.target)
    <3>1. /\ page' \in Pages /\ Asked(page', page.target) /\ page'.refresh = q.refresh
          /\ page'.target = q.target /\ page'.post = q.post /\ page'.tuple = q.tuple
      BY <1>3, <2>2, <2>4, RequestStatusEffect
    <3> QED BY <1>1, <1>2, <1>3, <2>2, <3>1, AskedHolds DEF Aside, SameTracking
  <2> QED BY <2>1, <2>3, <2>4
<1>8. CASE page' = LoadOptions(page)
  BY <1>1, <1>2, <1>3, <1>8, LoadOptionsAside, AsideHolds
<1>9. PageInv'
  BY <1>4, <1>5, <1>6, <1>7, <1>8 DEF User, Click
<1> QED BY <1>1, <1>2, <1>9

------------------------------------------------------------------------------
(* The invariant. *)

\* A page that is up to date with an idle server.
LEMMA DashStarts ==
  ASSUME DashInit
  PROVE  DashInv
<1> DEFINE zero == [data |-> 0, status |-> 0]
<1>1. /\ ledger = zero /\ zero \in Tuples /\ breaks = 0 /\ clicks = 0 /\ acked = {} /\ runs = << >>
      /\ stream = [up |-> TRUE, seen |-> zero, pipe |-> << >>]
      /\ feed = [tuple |-> zero, polling |-> FALSE, asked |-> zero]
  BY FeedAssumption DEF DashInit, Tuples
<1>2. PICK h \in Homes, binding \in {"ready", "source_changed"} :
        opened = h /\ meta = [InitialMeta EXCEPT !.binding = binding, !.home = h]
  BY DEF DashInit
<1>3. PICK scope \in Scopes : page = LoadedPage(scope, meta.binding)
  BY DEF DashInit
<1>4. DOMAIN runs = {} /\ runs \in Seq(Run)
  BY <1>1, EmptySeq
<1>5. /\ meta = [revision |-> 0, state |-> "idle", active |-> NoScan, slot |-> EmptySlot,
                 lastScan |-> NoScan, lastResult |-> "none", binding |-> binding, home |-> h]
      /\ EmptySlot \in Slot
  BY <1>2 DEF InitialMeta, EmptySlot, Slot, NoScan, Null, ErrorCodes
<1>6. Consistent
  <2>1. TypeOK
    BY <1>2, <1>4, <1>5 DEF TypeOK, Meta, NoScan
  <2>2. ReadableState /\ ProjectionMatchesRows
    BY <1>4, <1>5 DEF ReadableState, ProjectionMatchesRows, ValidScanState, EmptySlot, NoScan
  <2> QED BY <2>1, <2>2 DEF Consistent
<1>7. ServerInv
  <2>1. << >> \in Seq(Tuples) /\ Len(<< >>) = 0 /\ DOMAIN << >> = {}
    BY EmptySeq
  <2>2. LiveTypeOK /\ NothingIsAhead
    BY <1>1, <1>5, <2>1, FeedAssumption DEF LiveTypeOK, NothingIsAhead
  <2> QED BY <1>6, <2>2 DEF ServerInv
<1>8. /\ page \in Pages /\ page.target = NoScan /\ page.post = NoAsk /\ page.status.answer = NoAsk
      /\ page.refresh \in {"idle", "source_changed"} /\ page.tuple = zero
  <2> DEFINE m == MountedPage(scope)
             o == [m.options EXCEPT !.loaded = TRUE, !.request = NoAsk]
             s == [m.status EXCEPT !.answer = NoAsk]
  <2>1. /\ m \in Pages /\ m.target = NoScan /\ m.post = NoAsk /\ m.refresh = "idle" /\ m.tuple = zero
    BY <1>1, FeedAssumption
       DEF MountedPage, Pages, NoShot, NoScan, LoadStates, RefreshStates, Initial
  <2>2. /\ o \in [loaded : BOOLEAN, revision : 0..MaxData, pending : 0..MaxData, stale : BOOLEAN,
                   asked : SUBSET Nat, request : {NoAsk, Waiting} \union 0..MaxData]
        /\ s \in [scan : Nat, tracking : BOOLEAN, answer : {NoAsk, Waiting} \union StatusAnswers]
        /\ s.answer = NoAsk
    BY <2>1 DEF Pages
  <2>3. 0 \in NoShot..MaxData
    BY FeedAssumption DEF NoShot
  <2>4. page = [m EXCEPT !.shots[scope] = 0, !.loading = FALSE, !.load = "ready",
                         !.ready = TRUE, !.open = binding = "ready",
                         !.refresh = IF binding = "ready" THEN "idle" ELSE binding,
                         !.options = o, !.summary = NoAsk, !.status = s]
    BY <1>3, <1>5 DEF LoadedPage
  <2> DEFINE refresh == IF binding = "ready" THEN "idle" ELSE binding
             ready   == binding = "ready"
             q       == [m EXCEPT !.shots[scope] = 0, !.loading = FALSE, !.load = "ready",
                                  !.ready = TRUE, !.open = ready]
  <2> HIDE DEF m, o, s
  <2>5. ready \in BOOLEAN /\ refresh \in {"idle", "source_changed"}
    OBVIOUS
  <2>6. page = [q EXCEPT !.refresh = refresh, !.options = o, !.summary = NoAsk, !.status = s]
    BY <2>4
  <2> HIDE DEF refresh, ready
  <2>7. q \in Pages /\ q.target = m.target /\ q.post = m.post /\ q.tuple = m.tuple
    <3> DEFINE shots == [m.shots EXCEPT ![scope] = 0]
               u     == [m EXCEPT !.shots = shots]
    <3>1. shots \in [Scopes -> NoShot..MaxData]
      BY <2>1, <2>3 DEF Pages
    <3>2. q = [u EXCEPT !.loading = FALSE, !.load = "ready", !.ready = TRUE, !.open = ready]
      OBVIOUS
    <3> HIDE DEF shots
    <3>3. u \in Pages /\ u.target = m.target /\ u.post = m.post /\ u.tuple = m.tuple
      BY <2>1, <3>1 DEF Pages
    <3> HIDE DEF u, q
    <3> QED BY <2>5, <3>2, <3>3 DEF Pages, LoadStates
  <2> HIDE DEF q
  <2> QED BY <2>1, <2>2, <2>5, <2>6, <2>7 DEF Pages, RefreshStates
<1>9. PageInv
  <2>1. NoAsk \notin StatusAnswers /\ NoAsk \notin Nat /\ zero.status <= ledger.status
    BY <1>1, AnswersAssumption
  <2> QED BY <1>1, <1>8, <2>1
          DEF PageInv, Tracks, AnswerIsHonest, PostIsOfARow, AckedIsFollowed, RunningIsAttended
<1> QED BY <1>1, <1>7, <1>9, DashboardAssumption DEF DashInv

LEMMA DashStep ==
  ASSUME DashInv, [DashNext]_dashVars
  PROVE  DashInv'
<1>1. CASE CommitData \/ StartScan \/ QueueFollowup \/ EndScan \/ TurnToFollowup
  BY <1>1, ServerStepHolds DEF DashInv
<1>2. CASE AnswerRead
  BY <1>2, AnswerReadHolds DEF DashInv
<1>3. CASE AnswerRefresh
  BY <1>3, AnswerRefreshHolds DEF DashInv
<1>4. CASE StatusArrives
  BY <1>4, StatusArrivesHolds DEF DashInv
<1>5. CASE SummaryArrives \/ OptionsArrive
  BY <1>5, AnswerArrivesHolds DEF DashInv
<1>6. CASE RefreshArrives
  BY <1>6, RefreshArrivesHolds DEF DashInv
<1>7. CASE RequestFails
  BY <1>7, RequestFailsHolds DEF DashInv
<1>8. CASE EventArrives \/ RevisionArrives \/ RevisionFails \/ FeedMoves
  BY <1>8, FeedStepHolds DEF DashInv
<1>9. CASE User
  BY <1>9, UserHolds DEF DashInv
<1>10. CASE UNCHANGED dashVars
  <2>1. ServerInv' /\ RowsMove
    BY <1>10, UntouchedHolds DEF dashVars, DashInv, scanVars, ServerInv, LiveTypeOK
  <2>2. Aside(page, page') /\ acked' = acked /\ clicks' = clicks
    BY <1>10 DEF dashVars, DashInv, PageInv, Aside, SameTracking
  <2> QED BY <2>1, <2>2, AsideHolds DEF DashInv
<1> QED BY <1>1, <1>2, <1>3, <1>4, <1>5, <1>6, <1>7, <1>8, <1>9, <1>10 DEF DashNext

THEOREM DashboardInvariant == DashSpec => []DashInv
BY DashStarts, DashStep, PTL DEF DashSpec

\* Every variable of the page, the feed and the scans keeps its type.
THEOREM DashboardTyped == DashSpec => []DashTypeOK
<1>1. DashInv => DashTypeOK
  BY DEF DashInv, ServerInv, PageInv, Consistent, DashTypeOK
<1> QED BY <1>1, DashboardInvariant, PTL

\* A refresh that was acknowledged is shown as over only when its scan is over,
\* however scans, follow-ups, lost answers, revisions and clicks interleave
\* (useDashboardController.ts reduceStatus, requestStatus, requestRefresh).
THEOREM RefreshOutlivesItsScan == DashSpec => []RefreshEndsWithTheScan
<1>1. DashInv => RefreshEndsWithTheScan
  <2> SUFFICES ASSUME DashInv, page.refresh \in {"idle", "failed"}, NEW s \in acked
               PROVE  runs[s].state \in Terminal
    BY DEF RefreshEndsWithTheScan
  <2>1. page.target = NoScan
    BY DEF DashInv, PageInv, Tracks
  <2>2. s # NoScan
    BY RowNumbers DEF DashInv, PageInv, ServerInv, Consistent, TypeOK, NoScan
  <2> QED BY <2>1, <2>2 DEF DashInv, PageInv, AckedIsFollowed
<1> QED BY <1>1, DashboardInvariant, PTL

\* A page that shows a running refresh always has something under way that can end
\* it: a live scan, a status request, or a published status it has yet to hear of
\* (useDashboardController.ts requestStatus, handleRevision).
THEOREM RunningAttended == DashSpec => []RunningIsAttended
<1>1. DashInv => RunningIsAttended
  BY DEF DashInv, PageInv
<1> QED BY <1>1, DashboardInvariant, PTL
================================================================================
