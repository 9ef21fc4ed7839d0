------------------------ MODULE ViewsAndServicesProofs ------------------------
(***************************************************************************)
(* What runs beside the scans: the session table and drawer of a page, and *)
(* the update checks and the quota display.                                *)
(***************************************************************************)
EXTENDS SessionView, AppServices, SequenceTheorems, FiniteSetTheorems, TLAPS

------------------------------------------------------------------------------
(***************************************************************************)
(* The background services, for every number of clients, checks, tokens,   *)
(* lives of the process and mishaps: one update check at a time, the       *)
(* credential that is never lost, the page that keeps asking.              *)
(*                                                                         *)
(* OneCheckAtATime is not inductive: that a second caller cannot open a    *)
(* check while one is at the provider needs that the slot of the service   *)
(* stays taken by everyone who has opened one, from before the request to  *)
(* after its answer, and that the status stops saying "checking" before    *)
(* the slot is given up.  CredentialKept is not inductive either: it needs *)
(* that what the CLI is about to write is the newest token, that what this *)
(* program is about to save is the live one as long as nothing went wrong, *)
(* and that no file holds a token that has not been issued.                *)
(***************************************************************************)

\* The caller has opened a check and not yet given its slot up.
InCheck(c) == calls[c].step \in {"owner", "fetching", "answered", "stored"}

\* They are one caller at most, and the slot holds their check.
OneOwner ==
  /\ \A c \in Callers : InCheck(c) => flight # 0 /\ calls[c].of = flight
  /\ \A c, d \in Callers : InCheck(c) /\ InCheck(d) => c = d

\* The status says "checking" from the request to its answer.
CheckingIsOwned ==
  /\ update.checking => flight # 0
  /\ \A c \in Callers : At(c, "fetching") => update.checking
  /\ \A c \in Callers : At(c, "answered") \/ At(c, "stored") => ~update.checking

ChecksInv == UpdateTypeOK /\ OneOwner /\ CheckingIsOwned

------------------------------------------------------------------------------
\* The service as it starts, and as every end of the process leaves it.
LEMMA RestingHolds ==
  ASSUME UpdateInit
  PROVE  ChecksInv
<1>1. UpdateTypeOK
  BY UpdateAssumption DEF UpdateInit, UpdateTypeOK, NoUpdate, NoCall, Callers, Checks, Steps
<1>2. OneOwner /\ CheckingIsOwned
  BY DEF UpdateInit, OneOwner, CheckingIsOwned, InCheck, At, NoCall, NoUpdate
<1> QED BY <1>1, <1>2 DEF ChecksInv

LEMMA StopHolds ==
  ASSUME ChecksInv, StopUpdates
  PROVE  ChecksInv'
<1>1. UpdateTypeOK'
  BY UpdateAssumption DEF ChecksInv, StopUpdates, UpdateTypeOK, NoUpdate, NoCall, Callers, Checks, Steps
<1>2. OneOwner' /\ CheckingIsOwned'
  BY DEF StopUpdates, OneOwner, CheckingIsOwned, InCheck, At, NoCall, NoUpdate
<1> QED BY <1>1, <1>2 DEF ChecksInv

\* What moves one caller on in its check, and what the other callers keep.
LEMMA Moved ==
  ASSUME UpdateTypeOK, NEW c \in Callers, NEW step \in Steps, Go(c, step)
  PROVE  /\ calls' \in [Callers -> [step : Steps, of : 0..MaxChecks]]
         /\ calls'[c].step = step /\ calls'[c].of = calls[c].of
         /\ \A d \in Callers \ {c} : calls'[d] = calls[d]
BY DEF UpdateTypeOK, Go

\* check_now: the slot is free, so that nobody is in a check, or it is shared.
LEMMA CheckNowHolds ==
  ASSUME ChecksInv, NEW c \in Callers, CheckNow(c)
  PROVE  ChecksInv'
<1>1. CASE flight # 0
  <2>1. calls' = [calls EXCEPT ![c] = [step |-> "waiting", of |-> flight]]
    BY <1>1 DEF CheckNow, Joins
  <2>2. UNCHANGED <<flight, checks, result, update, opened, drops>>
    BY <1>1 DEF CheckNow, Joins
  <2>3. flight \in 0..MaxChecks
    BY UpdateAssumption DEF ChecksInv, UpdateTypeOK
  <2>4. calls' \in [Callers -> [step : Steps, of : 0..MaxChecks]]
    BY <2>1, <2>3 DEF ChecksInv, UpdateTypeOK, Steps
  <2>5. UpdateTypeOK'
    BY <2>2, <2>4 DEF ChecksInv, UpdateTypeOK
  <2>6. calls'[c].step = "waiting" /\ \A d \in Callers \ {c} : calls'[d] = calls[d]
    BY <2>1 DEF ChecksInv, UpdateTypeOK
  <2>7. OneOwner' /\ CheckingIsOwned'
    BY <2>2, <2>6 DEF ChecksInv, OneOwner, CheckingIsOwned, InCheck, At
  <2> QED BY <2>5, <2>7 DEF ChecksInv
<1>2. CASE flight = 0
  <2>1. Opens(c) /\ UNCHANGED <<result, update, opened, drops>>
    BY <1>2 DEF CheckNow, Joins
  <2>2. checks' \in 1..MaxChecks /\ flight' = checks'
    BY <2>1, UpdateAssumption DEF Opens, ChecksInv, UpdateTypeOK
  <2>3. calls' \in [Callers -> [step : Steps, of : 0..MaxChecks]]
    BY <2>1, <2>2 DEF Opens, ChecksInv, UpdateTypeOK, Steps
  <2>4. UpdateTypeOK'
    BY <2>1, <2>2, <2>3, UpdateAssumption DEF ChecksInv, UpdateTypeOK
  <2>5. /\ calls'[c].step = "owner" /\ calls'[c].of = flight'
        /\ \A d \in Callers \ {c} : calls'[d] = calls[d]
    BY <2>1, <2>2 DEF Opens, ChecksInv, UpdateTypeOK
  <2>6. \A d \in Callers : ~InCheck(d)
    BY <1>2 DEF ChecksInv, OneOwner
  <2>7. \A d \in Callers : InCheck(d)' => d = c
    BY <2>5, <2>6 DEF InCheck
  <2>8. OneOwner'
    BY <2>2, <2>5, <2>7, UpdateAssumption DEF OneOwner
  <2>9. ~update.checking
    BY <1>2 DEF ChecksInv, CheckingIsOwned
  <2>10. CheckingIsOwned'
    BY <2>1, <2>5, <2>7, <2>9 DEF CheckingIsOwned, At, InCheck
  <2> QED BY <2>4, <2>8, <2>10 DEF ChecksInv
<1> QED BY <1>1, <1>2

\* perform_check: the request and its answer.
LEMMA AttemptHolds ==
  ASSUME ChecksInv, NEW c \in Callers, BeginAttempt(c) \/ Answered(c)
  PROVE  ChecksInv'
<1>1. CASE BeginAttempt(c)
  <2>1. /\ calls' \in [Callers -> [step : Steps, of : 0..MaxChecks]]
        /\ calls'[c].step = "fetching" /\ calls'[c].of = calls[c].of
        /\ \A d \in Callers \ {c} : calls'[d] = calls[d]
    BY <1>1, Moved DEF BeginAttempt, ChecksInv, Steps
  <2>2. /\ update' \in [latest : Releases \union {0}, available : BOOLEAN, checking : BOOLEAN, failed : BOOLEAN]
        /\ update'.checking
    BY <1>1 DEF BeginAttempt, ChecksInv, UpdateTypeOK
  <2>3. InCheck(c) /\ \A d \in Callers \ {c} : ~InCheck(d)
    BY <1>1 DEF BeginAttempt, At, InCheck, ChecksInv, OneOwner
  <2>4. UpdateTypeOK'
    BY <1>1, <2>1, <2>2 DEF BeginAttempt, ChecksInv, UpdateTypeOK
  <2>5. OneOwner'
    BY <1>1, <2>1, <2>3 DEF BeginAttempt, ChecksInv, OneOwner, InCheck
  <2>6. CheckingIsOwned'
    BY <1>1, <2>1, <2>2, <2>3 DEF BeginAttempt, ChecksInv, OneOwner, CheckingIsOwned, InCheck, At
  <2> QED BY <2>4, <2>5, <2>6 DEF ChecksInv
<1>2. CASE Answered(c)
  <2>1. /\ calls' \in [Callers -> [step : Steps, of : 0..MaxChecks]]
        /\ calls'[c].step = "answered" /\ calls'[c].of = calls[c].of
        /\ \A d \in Callers \ {c} : calls'[d] = calls[d]
    BY <1>2, Moved DEF Answered, ChecksInv, Steps
  <2>2. update' \in AnswersOn(update)
    BY <1>2 DEF Answered
  <2>3. /\ update' \in [latest : Releases \union {0}, available : BOOLEAN, checking : BOOLEAN, failed : BOOLEAN]
        /\ ~update'.checking
    <3>1. CASE update' = Failed(update)
      BY <3>1 DEF Failed, ChecksInv, UpdateTypeOK
    <3>2. ASSUME NEW v \in Releases, update' = Succeeded(update, v)
          PROVE  <2>3!1 /\ <2>3!2
      <4>1. (v > Current) \in BOOLEAN
        BY UpdateAssumption
      <4> QED BY <3>2, <4>1 DEF Succeeded
    <3> QED BY <2>2, <3>1, <3>2 DEF AnswersOn
  <2>4. InCheck(c) /\ \A d \in Callers \ {c} : ~InCheck(d)
    BY <1>2 DEF Answered, At, InCheck, ChecksInv, OneOwner
  <2>5. UpdateTypeOK'
    BY <1>2, <2>1, <2>3 DEF Answered, ChecksInv, UpdateTypeOK
  <2>6. OneOwner'
    BY <1>2, <2>1, <2>4 DEF Answered, ChecksInv, OneOwner, InCheck
  <2>7. CheckingIsOwned'
    BY <2>1, <2>3, <2>4 DEF CheckingIsOwned, InCheck, At
  <2> QED BY <2>5, <2>6, <2>7 DEF ChecksInv
<1> QED BY <1>1, <1>2

\* finish, its first half: the slot is still held.
LEMMA StoreHolds ==
  ASSUME ChecksInv, NEW c \in Callers, Store(c)
  PROVE  ChecksInv'
<1>1. /\ calls' \in [Callers -> [step : Steps, of : 0..MaxChecks]]
      /\ calls'[c].step = "stored" /\ calls'[c].of = calls[c].of
      /\ \A d \in Callers \ {c} : calls'[d] = calls[d]
  BY Moved DEF Store, ChecksInv, Steps
<1>2. result' \in [Checks -> {"none", "success", "failure"}]
  BY DEF Store, ChecksInv, UpdateTypeOK
<1>3. InCheck(c) /\ \A d \in Callers \ {c} : ~InCheck(d)
  BY DEF Store, At, InCheck, ChecksInv, OneOwner
<1>4. UpdateTypeOK'
  BY <1>1, <1>2 DEF Store, ChecksInv, UpdateTypeOK
<1>5. OneOwner'
  BY <1>1, <1>3 DEF Store, ChecksInv, OneOwner, InCheck
<1>6. CheckingIsOwned'
  BY <1>1, <1>3 DEF Store, ChecksInv, CheckingIsOwned, InCheck, At
<1> QED BY <1>4, <1>5, <1>6 DEF ChecksInv

\* The slot is given up, and with it the only check.
LEMMA ReleaseHolds ==
  ASSUME ChecksInv, NEW c \in Callers, Release(c)
  PROVE  ChecksInv'
<1>1. InCheck(c) /\ \A d \in Callers \ {c} : ~InCheck(d)
  BY DEF Release, At, InCheck, ChecksInv, OneOwner
<1>2. calls' \in [Callers -> [step : Steps, of : 0..MaxChecks]]
  <2>1. \A d \in Callers : calls'[d] \in [step : Steps, of : 0..MaxChecks]
    <3> TAKE d \in Callers
    <3>1. calls'[d] = IF d = c THEN NoCall
                      ELSE IF At(d, "asleep") /\ calls[d].of = calls[c].of
                           THEN [calls[d] EXCEPT !.step = "waiting"] ELSE calls[d]
      BY DEF Release
    <3>2. NoCall \in [step : Steps, of : 0..MaxChecks]
      BY UpdateAssumption DEF NoCall, Steps
    <3>3. calls[d] \in [step : Steps, of : 0..MaxChecks]
      BY DEF ChecksInv, UpdateTypeOK
    <3>4. [calls[d] EXCEPT !.step = "waiting"] \in [step : Steps, of : 0..MaxChecks]
      BY <3>3 DEF Steps
    <3> QED BY <3>1, <3>2, <3>3, <3>4
  <2>2. calls' = [d \in Callers |-> calls'[d]]
    BY DEF Release
  <2> QED BY <2>1, <2>2
<1>3. \A d \in Callers : ~InCheck(d)'
  <2> TAKE d \in Callers
  <2>1. CASE d = c
    BY <2>1 DEF Release, NoCall, InCheck
  <2>2. CASE d # c
    <3>1. calls'[d] = IF At(d, "asleep") /\ calls[d].of = calls[c].of
                      THEN [calls[d] EXCEPT !.step = "waiting"] ELSE calls[d]
      BY <2>2 DEF Release
    <3>2. calls[d] \in [step : Steps, of : 0..MaxChecks]
      BY DEF ChecksInv, UpdateTypeOK
    <3> QED BY <1>1, <2>2, <3>1, <3>2 DEF InCheck
  <2> QED BY <2>1, <2>2
<1>4. flight' = 0
  BY <1>1 DEF Release, ChecksInv, OneOwner
<1>5. ~update'.checking
  BY DEF Release, ChecksInv, CheckingIsOwned
<1>6. UpdateTypeOK'
  BY <1>2, <1>4 DEF Release, ChecksInv, UpdateTypeOK
<1>7. OneOwner' /\ CheckingIsOwned'
  BY <1>3, <1>5 DEF OneOwner, CheckingIsOwned, InCheck, At
<1> QED BY <1>6, <1>7 DEF ChecksInv

\* A caller that only waits, or goes away: whoever owns the slot goes on.
LEMMA LeavesHolds ==
  ASSUME ChecksInv, NEW c \in Callers, Look(c) \/ Sleep(c) \/ Drop(c)
  PROVE  ChecksInv'
<1>1. /\ calls' \in [Callers -> [step : Steps, of : 0..MaxChecks]]
      /\ calls'[c].step \in {"idle", "unheard", "asleep"}
      /\ \A d \in Callers \ {c} : calls'[d] = calls[d]
  BY UpdateAssumption DEF ChecksInv, UpdateTypeOK, Look, Sleep, Drop, Go, NoCall, Steps
<1>2. UNCHANGED <<flight, checks, result, update, opened>> /\ drops' \in 0..MaxDrops
  BY UpdateAssumption DEF ChecksInv, UpdateTypeOK, Look, Sleep, Drop
<1>3. UpdateTypeOK'
  BY <1>1, <1>2 DEF ChecksInv, UpdateTypeOK
<1>4. OneOwner' /\ CheckingIsOwned'
  BY <1>1, <1>2 DEF ChecksInv, OneOwner, CheckingIsOwned, InCheck, At
<1> QED BY <1>3, <1>4 DEF ChecksInv

\* update_open_release changes nothing of the checks.
LEMMA OpenReleaseHolds ==
  ASSUME ChecksInv, OpenRelease
  PROVE  ChecksInv'
<1>1. UpdateTypeOK'
  BY DEF OpenRelease, ChecksInv, UpdateTypeOK
<1>2. OneOwner' /\ CheckingIsOwned'
  BY DEF OpenRelease, ChecksInv, OneOwner, CheckingIsOwned, InCheck, At
<1> QED BY <1>1, <1>2 DEF ChecksInv

LEMMA UntouchedHolds ==
  ASSUME ChecksInv, UNCHANGED updateVars
  PROVE  ChecksInv'
BY DEF ChecksInv, updateVars, UpdateTypeOK, OneOwner, CheckingIsOwned, InCheck, At

\* One step per action of the process.
LEMMA StepHolds ==
  ASSUME ChecksInv, [Next]_vars
  PROVE  ChecksInv'
<1>1. CASE Start \/ Ready \/ RequestStop \/ QuotaStep
  BY <1>1, UntouchedHolds DEF Start, Ready, RequestStop, QuotaStep
<1>2. CASE NotReady \/ Stop \/ Kill
  BY <1>2, StopHolds DEF NotReady, Stop, Kill
<1>3. CASE UpdateStep
  <2>1. \/ \E c \in Callers : CheckNow(c) \/ Advance(c) \/ Drop(c)
        \/ OpenRelease
    BY <1>3 DEF UpdateStep, Callers
  <2>2. CASE OpenRelease
    BY <2>2, OpenReleaseHolds
  <2>3. ASSUME NEW c \in Callers, CheckNow(c) \/ Advance(c) \/ Drop(c)
        PROVE  ChecksInv'
    BY <2>3, CheckNowHolds, AttemptHolds, StoreHolds, ReleaseHolds, LeavesHolds DEF Advance
  <2> QED BY <2>1, <2>2, <2>3
<1>4. CASE UNCHANGED vars
  BY <1>4, UntouchedHolds DEF vars
<1> QED BY <1>1, <1>2, <1>3, <1>4 DEF Next

\* At most one caller is in a check, so at most one is at the provider.
LEMMA InvariantImplies ==
  ASSUME ChecksInv
  PROVE  OneCheckAtATime
<1> DEFINE Fetching == {c \in Callers : At(c, "fetching")}
<1>1. Cardinality(Fetching) <= 1
  <2>1. CASE Fetching = {}
    BY <2>1, FS_EmptySet
  <2>2. CASE Fetching # {}
    <3>1. PICK c \in Fetching : TRUE
      BY <2>2
    <3>2. \A d \in Fetching : d = c
      BY <3>1 DEF ChecksInv, OneOwner, InCheck, At
    <3>3. Fetching = {c}
      BY <3>1, <3>2
    <3> HIDE DEF Fetching
    <3>4. Cardinality(Fetching) = 1
      BY <3>3, FS_Singleton
    <3> QED BY <3>4
  <2> QED BY <2>1, <2>2
<1>2. update.checking => flight # 0
  BY DEF ChecksInv, CheckingIsOwned
<1>3. \A c \in Callers : At(c, "fetching") => update.checking /\ calls[c].of = flight
  BY DEF ChecksInv, OneOwner, CheckingIsOwned, InCheck, At
<1> QED BY <1>1, <1>2, <1>3 DEF OneCheckAtATime

------------------------------------------------------------------------------
(* The quota.  CredentialKept is not inductive either: the CLI that is about *)
(* to write must be the only one that can still use what the provider        *)
(* accepts, or a refresh by MiniUsage would take it away; and a pair that    *)
(* MiniUsage is about to save must be the one the provider accepts.          *)

\* No token is used before it is issued.
TokensIssued ==
  /\ live \in 1..issued /\ fetch.pair.refresh <= issued
  /\ auth.kind = "pair" => auth.pair.refresh <= issued

\* What the CLI was granted supersedes what the file and MiniUsage have.
CliIsAhead ==
  cli # NoPair =>
    /\ cli.refresh = live /\ fetch.pair.refresh # live
    /\ auth.kind = "pair" => auth.pair.refresh # live

\* MiniUsage saves what the provider accepts.
SavesTheLive == mishaps = 0 /\ Unsaved => fetch.pair.refresh = live

\* An answered page polls; one that was told "loading" only asks again soon.
PageAsks == PageKeepsAsking /\ (page.up /\ page.settled => page.poll)

QuotaInv ==
  QuotaTypeOK /\ TokensIssued /\ CliIsAhead /\ SavesTheLive /\ CredentialKept /\ PageAsks

LEMMA TokensAreNumbers ==
  /\ 0 \in Tokens /\ 1 \in Tokens /\ Tokens \subseteq Nat /\ NoPair \in Pairs /\ 0 \in 0..MaxMishaps
  /\ NoFile.kind = "missing" /\ Torn.kind = "torn" /\ \A p : File(p).kind = "pair" /\ File(p).pair = p
BY QuotaAssumption DEF Tokens, NoPair, Pairs, NoFile, Torn, File

\* What auth.json is, by what its reader sees of it.
LEMMA AuthCases ==
  ASSUME QuotaTypeOK
  PROVE  \/ auth = NoFile /\ auth.kind = "missing"
         \/ auth = Torn /\ auth.kind = "torn"
         \/ auth.kind = "pair" /\ auth.pair \in Pairs /\ auth = File(auth.pair)
BY TokensAreNumbers DEF QuotaTypeOK

LEMMA QuotaStarts ==
  ASSUME QuotaInit
  PROVE  QuotaInv
<1>1. QuotaTypeOK
  BY TokensAreNumbers DEF QuotaInit, QuotaTypeOK, Idle, Loading, NoPage, Pairs
<1>2. TokensIssued /\ CliIsAhead /\ SavesTheLive /\ PageAsks
  BY TokensAreNumbers
     DEF QuotaInit, TokensIssued, CliIsAhead, SavesTheLive, PageAsks, PageKeepsAsking, Unsaved, Idle, NoPage, NoPair
<1>3. CredentialKept
  BY TokensAreNumbers DEF QuotaInit, CredentialKept
<1> QED BY <1>1, <1>2, <1>3 DEF QuotaInv

\* A step of the background task that reads, asks or gives up: the tokens, the
\* file and the CLI stay, and the pair it holds is none, its own or the file's.
LEMMA ReaderHolds ==
  ASSUME QuotaInv, UNCHANGED <<auth, cli, live, issued, worn, revoked, page>>,
         quota'.status \in {"loading", "ready", "auth_required", "unavailable"},
         fetch' \in [step : {"idle", "reload", "post", "request", "reread"}, pair : Pairs, retried : BOOLEAN],
         \/ fetch'.pair.refresh \in {0, fetch.pair.refresh}
         \/ auth.kind = "pair" /\ fetch'.pair.refresh = auth.pair.refresh,
         mishaps' \in 0..MaxMishaps, respent' \in BOOLEAN,
         mishaps' = 0 => mishaps = 0 /\ ~Unsaved
  PROVE  QuotaInv'
<1> USE DEF QuotaInv
<1>1. QuotaTypeOK'
  BY DEF QuotaTypeOK
<1>2. TokensIssued' /\ CliIsAhead'
  BY TokensAreNumbers DEF TokensIssued, CliIsAhead, QuotaTypeOK
<1>3. SavesTheLive' /\ CredentialKept'
  BY DEF SavesTheLive, CredentialKept, Unsaved
<1>4. PageAsks'
  BY DEF PageAsks, PageKeepsAsking
<1> QED BY <1>1, <1>2, <1>3, <1>4

\* What Failing, Holding, AskUsage and Spend leave behind, as ReaderHolds asks for it.
ReaderEffect(p) ==
  /\ quota'.status \in {"loading", "ready", "auth_required", "unavailable"}
  /\ fetch' \in [step : {"idle", "reload", "post", "request", "reread"}, pair : Pairs, retried : BOOLEAN]
  /\ fetch'.pair.refresh \in {0, p.refresh}

LEMMA FailingReads ==
  ASSUME QuotaTypeOK, NEW p, NEW error \in {"auth_required", "unavailable"}, Failing(error)
  PROVE  ReaderEffect(p)
BY TokensAreNumbers DEF QuotaTypeOK, Failing, ReaderEffect, Idle, Loading, NoPair

LEMMA HoldingReads ==
  ASSUME QuotaTypeOK, NEW p \in Pairs, NEW step \in {"reload", "post", "request", "reread"},
         NEW retried \in BOOLEAN, Holding(step, p, retried)
  PROVE  ReaderEffect(p)
BY DEF QuotaTypeOK, Holding, ReaderEffect

LEMMA AskReads ==
  ASSUME QuotaTypeOK, NEW p \in Pairs, AskUsage(p) \/ Spend(p)
  PROVE  ReaderEffect(p)
<1>1. fetch.retried \in BOOLEAN
  BY DEF QuotaTypeOK
<1> QED BY <1>1, FailingReads, HoldingReads DEF AskUsage, Spend

LEMMA ReadHolds ==
  ASSUME QuotaInv, StartFetch \/ Reload \/ Reread \/ RequestUsage
  PROVE  QuotaInv'
<1> DEFINE Kept == /\ UNCHANGED <<auth, cli, live, issued, worn, revoked, page, mishaps, respent>> /\ ~Unsaved
<1>1. QuotaTypeOK
  BY DEF QuotaInv
<1>2. fetch.pair \in Pairs /\ fetch.retried \in BOOLEAN
  BY <1>1 DEF QuotaTypeOK
<1>3. Kept
  BY DEF StartFetch, Reload, Reread, RequestUsage, Unsaved
<1>4. \/ ReaderEffect(fetch.pair)
      \/ auth.kind = "pair" /\ ReaderEffect(auth.pair)
  <2>1. CASE StartFetch \/ Reload \/ Reread
    <3>1. \/ \E error \in {"auth_required", "unavailable"} : Failing(error)
          \/ /\ auth.kind = "pair"
             /\ \/ Holding("reload", auth.pair, FALSE) \/ Holding("request", auth.pair, TRUE)
                \/ AskUsage(auth.pair) \/ Spend(auth.pair)
      BY <2>1 DEF StartFetch, Reload, Reread, ReadAuth
    <3>2. CASE \E error \in {"auth_required", "unavailable"} : Failing(error)
      BY <1>1, <3>2, FailingReads
    <3>3. ASSUME auth.kind = "pair"
          PROVE  auth.pair \in Pairs
      BY <1>1, <3>3, AuthCases, TokensAreNumbers
    <3> QED BY <1>1, <3>1, <3>2, <3>3, HoldingReads, AskReads
  <2>2. CASE RequestUsage
    <3>1. \/ quota'.status = "ready" /\ fetch' = Idle
          \/ \E error \in {"auth_required", "unavailable"} : Failing(error)
          \/ Holding("reread", fetch.pair, TRUE)
      <4>1. CASE \E body \in Bodies :
                   IF Maps(body)
                   THEN /\ fetch' = Idle
                        /\ quota' = [status |-> "ready", session |-> Session(body), weekly |-> Weekly(body)]
                   ELSE Failing("unavailable")
        <5>1. PICK body \in Bodies :
                IF Maps(body)
                THEN /\ fetch' = Idle
                     /\ quota' = [status |-> "ready", session |-> Session(body), weekly |-> Weekly(body)]
                ELSE Failing("unavailable")
          BY <4>1
        <5>2. CASE Maps(body)
          <6>1. fetch' = Idle /\ quota' = [status |-> "ready", session |-> Session(body), weekly |-> Weekly(body)]
            BY <5>1, <5>2
          <6>2. quota'.status = "ready"
            BY <6>1
          <6> QED BY <6>1, <6>2
        <5>3. CASE ~Maps(body)
          BY <5>1, <5>3
        <5> QED BY <5>2, <5>3
      <4> QED BY <2>2, <4>1, Zenon DEF RequestUsage
    <3>2. CASE quota'.status = "ready" /\ fetch' = Idle
      BY <3>2, TokensAreNumbers DEF ReaderEffect, Idle, NoPair
    <3> QED BY <1>1, <1>2, <3>1, <3>2, FailingReads, HoldingReads
  <2> QED BY <2>1, <2>2
<1>5. mishaps' \in 0..MaxMishaps /\ respent' \in BOOLEAN
  BY <1>1, <1>3 DEF QuotaTypeOK
<1> QED BY <1>3, <1>4, <1>5, ReaderHolds DEF ReaderEffect

\* The provider grants what is asked of it only if the CLI has nothing to write.
LEMMA GrantsHolds ==
  ASSUME QuotaInv, fetch.pair.refresh = live, Grants(fetch.pair),
         UNCHANGED <<auth, cli, worn, revoked, quota, page, mishaps, respent>>
  PROVE  QuotaInv'
<1> USE DEF QuotaInv
<1>1. PICK rotated \in BOOLEAN :
        /\ issued < MaxTokens /\ issued' = issued + 1 /\ live' = IF rotated THEN issued + 1 ELSE live
        /\ fetch' = [fetch EXCEPT !.step = "save", !.pair = Granted(fetch.pair, rotated)]
  BY DEF Grants
<1>2. issued \in Nat /\ issued' \in Tokens /\ fetch.pair \in Pairs /\ fetch.pair.refresh \in Tokens
  BY <1>1, QuotaAssumption DEF QuotaTypeOK, Tokens, Pairs
<1>3. /\ Granted(fetch.pair, rotated) \in Pairs
      /\ Granted(fetch.pair, rotated).refresh = live' /\ live' \in 1..issued' /\ live' \in Tokens
  <2>1. live \in 1..issued /\ live \in Tokens
    BY DEF TokensIssued, QuotaTypeOK
  <2>2. live' \in 1..issued' /\ live' \in Tokens
    BY <1>1, <1>2, <2>1
  <2> QED BY <1>1, <1>2, <2>2 DEF Granted, Pairs
<1> HIDE DEF Granted
<1>4. fetch'.step = "save" /\ fetch'.pair = Granted(fetch.pair, rotated) /\ fetch'.retried = fetch.retried
  BY <1>1 DEF QuotaTypeOK
<1>5. QuotaTypeOK'
  <2>1. fetch' \in [step : {"idle", "reload", "post", "save", "write", "request", "reread"},
                    pair : Pairs, retried : BOOLEAN]
    BY <1>1, <1>3 DEF QuotaTypeOK
  <2> QED BY <1>2, <1>3, <2>1 DEF QuotaTypeOK
<1>6. cli = NoPair
  BY DEF CliIsAhead
<1>7. TokensIssued' /\ CliIsAhead' /\ SavesTheLive'
  <2>1. auth.kind = "pair" => auth.pair.refresh \in Nat
    BY AuthCases, TokensAreNumbers DEF Pairs
  <2>2. auth'.kind = "pair" => auth'.pair.refresh <= issued'
    BY <1>1, <1>2, <2>1 DEF TokensIssued
  <2>3. fetch'.pair.refresh <= issued'
    BY <1>2, <1>3, <1>4, QuotaAssumption DEF Tokens
  <2> QED BY <1>3, <1>4, <1>6, <2>2, <2>3 DEF TokensIssued, CliIsAhead, SavesTheLive
<1>8. CredentialKept' /\ PageAsks'
  BY <1>3, <1>4 DEF CredentialKept, Unsaved, PageAsks, PageKeepsAsking
<1> QED BY <1>5, <1>7, <1>8

LEMMA PostHolds ==
  ASSUME QuotaInv, PostRefresh
  PROVE  QuotaInv'
<1>1. QuotaTypeOK /\ fetch.step = "post" /\ ~Unsaved /\ UNCHANGED <<auth, cli, worn, revoked, page>>
  BY DEF QuotaInv, PostRefresh, Unsaved
<1>2. mishaps \in Nat /\ issued \in Nat /\ respent \in BOOLEAN
  BY <1>1, QuotaAssumption DEF QuotaTypeOK, Tokens
<1>3. CASE fetch.pair.refresh = live /\ Grants(fetch.pair) /\ UNCHANGED <<quota, mishaps, respent>>
  BY <1>1, <1>3, GrantsHolds
<1>4. CASE /\ \E error \in {"auth_required", "unavailable"} : Failing(error)
           /\ UNCHANGED <<live, issued, mishaps>> /\ respent' \in BOOLEAN
  <2>1. ReaderEffect(fetch.pair)
    BY <1>1, <1>4, FailingReads
  <2>2. mishaps' \in 0..MaxMishaps
    BY <1>1, <1>4 DEF QuotaTypeOK
  <2> QED BY <1>1, <1>4, <2>1, <2>2, ReaderHolds DEF ReaderEffect
<1>5. CASE /\ fetch.pair.refresh = live /\ issued < MaxTokens /\ mishaps < MaxMishaps
           /\ issued' = issued + 1 /\ live' = issued' /\ mishaps' = mishaps + 1
           /\ Failing("unavailable") /\ UNCHANGED respent
  <2> USE DEF QuotaInv
  <2>1. ReaderEffect(fetch.pair)
    BY <1>1, <1>5, FailingReads
  <2>2. /\ fetch' = Idle /\ mishaps' \in 0..MaxMishaps /\ mishaps' # 0
        /\ issued' \in Tokens /\ live' \in 1..issued' /\ live' \in Tokens
    BY <1>2, <1>5, QuotaAssumption DEF Failing, Tokens
  <2>3. QuotaTypeOK'
    BY <1>1, <1>5, <2>1, <2>2, TokensAreNumbers DEF QuotaTypeOK, ReaderEffect, Idle
  <2>4. auth.kind = "pair" => auth.pair.refresh \in Nat
    BY <1>1, AuthCases, TokensAreNumbers DEF Pairs
  <2>5. TokensIssued'
    BY <1>1, <1>2, <1>5, <2>2, <2>4 DEF TokensIssued, Idle, NoPair
  <2>6. cli = NoPair
    BY <1>5 DEF CliIsAhead
  <2>7. CliIsAhead' /\ SavesTheLive' /\ CredentialKept' /\ PageAsks'
    BY <1>1, <2>2, <2>6 DEF CliIsAhead, SavesTheLive, CredentialKept, PageAsks, PageKeepsAsking
  <2> QED BY <2>3, <2>5, <2>7
<1> QED BY <1>2, <1>3, <1>4, <1>5 DEF PostRefresh

\* The file is emptied, and then filled with the pair.
LEMMA SaveHolds ==
  ASSUME QuotaInv, SaveRefreshed \/ WriteRefreshed
  PROVE  QuotaInv'
<1> USE DEF QuotaInv
<1>1. Unsaved /\ UNCHANGED <<cli, live, issued, worn, revoked, quota, page, respent>>
  BY DEF SaveRefreshed, WriteRefreshed, Unsaved
<1>2. fetch.pair \in Pairs /\ mishaps \in Nat /\ fetch.pair.refresh <= issued
  BY QuotaAssumption DEF QuotaTypeOK, TokensIssued
<1>3. /\ fetch' \in [step : {"write", "request"}, pair : Pairs, retried : BOOLEAN] /\ fetch'.pair = fetch.pair
      /\ \/ auth' = Torn /\ fetch'.step = "write" /\ mishaps' = mishaps
         \/ auth' = auth /\ fetch'.step = "request" /\ mishaps' = mishaps + 1 /\ mishaps < MaxMishaps
         \/ auth' = File(fetch.pair) /\ fetch'.step = "request" /\ mishaps' = mishaps
  BY <1>2 DEF SaveRefreshed, WriteRefreshed, QuotaTypeOK
<1>4. QuotaTypeOK'
  <2>1. auth' \in {NoFile, Torn} \union {File(p) : p \in Pairs}
    BY <1>2, <1>3 DEF QuotaTypeOK
  <2>2. mishaps' \in 0..MaxMishaps
    BY <1>2, <1>3, QuotaAssumption DEF QuotaTypeOK
  <2> QED BY <1>1, <1>3, <2>1, <2>2 DEF QuotaTypeOK
<1>5. TokensIssued' /\ CliIsAhead'
  BY <1>1, <1>2, <1>3, TokensAreNumbers DEF TokensIssued, CliIsAhead
<1>6. mishaps' = 0 => mishaps = 0 /\ fetch.pair.refresh = live
  BY <1>1, <1>2, <1>3 DEF SavesTheLive
<1>7. SavesTheLive'
  BY <1>1, <1>3, <1>6 DEF SavesTheLive
<1>8. CredentialKept'
  <2>1. CASE auth' = auth /\ mishaps' = mishaps + 1
    <3>1. mishaps' # 0
      BY <1>2, <2>1
    <3> QED BY <3>1 DEF CredentialKept
  <2>2. CASE auth' = File(fetch.pair)
    <3>1. auth'.kind = "pair" /\ auth'.pair = fetch.pair
      BY <1>2, <2>2, TokensAreNumbers
    <3> QED BY <1>1, <1>6, <3>1 DEF CredentialKept
  <2>3. CASE auth' = Torn /\ fetch'.step = "write"
    BY <1>1, <1>3, <1>6, <2>3 DEF CredentialKept, Unsaved
  <2>4. (auth' = auth /\ mishaps' = mishaps + 1) \/ auth' = File(fetch.pair) \/ (auth' = Torn /\ fetch'.step = "write")
    BY <1>3
  <2> QED BY <2>1, <2>2, <2>3, <2>4, Zenon
<1>9. PageAsks'
  BY <1>1 DEF PageAsks, PageKeepsAsking
<1> QED BY <1>4, <1>5, <1>7, <1>8, <1>9

\* The CLI is granted a pair, writes it, or the user logs in; tokens age.
LEMMA OutsideHolds ==
  ASSUME QuotaInv, OutsideStep
  PROVE  QuotaInv'
<1> USE DEF QuotaInv
<1>1. /\ UNCHANGED <<fetch, quota, page, respent>>
      /\ issued \in Nat /\ mishaps \in Nat /\ fetch.pair \in Pairs /\ fetch.pair.refresh \in Nat
  BY QuotaAssumption
     DEF OutsideStep, CliRefresh, CliWrite, CliLogin, TokensAge, QuotaTypeOK, Tokens, Pairs
<1>2. PageAsks'
  BY <1>1 DEF PageAsks, PageKeepsAsking
<1>3. auth.kind = "pair" => auth.pair.refresh \in Nat
  BY AuthCases, TokensAreNumbers DEF Pairs
<1>4. CASE CliRefresh \/ CliLogin
  <2> DEFINE new == [access |-> issued', refresh |-> issued']
  <2>1. /\ issued' = issued + 1 /\ live' = issued' /\ issued' \in Tokens /\ cli = NoPair
        /\ UNCHANGED <<worn, revoked>>
        /\ \/ cli' = new /\ auth' = auth /\ auth.kind = "pair"
           \/ cli' = NoPair /\ auth' = File(new)
    BY <1>1, <1>4, QuotaAssumption DEF CliRefresh, CliLogin, Tokens
  <2>2. mishaps' \in 0..MaxMishaps /\ (mishaps' = 0 => mishaps = 0 /\ ~Unsaved)
    BY <1>1, <1>4, QuotaAssumption DEF CliRefresh, CliLogin, Overlaps, QuotaTypeOK
  <2>3. new \in Pairs /\ new.refresh = live' /\ new # NoPair
    BY <1>1, <2>1 DEF Pairs, NoPair
  <2> HIDE DEF new
  <2>4. auth' \in {NoFile, Torn} \union {File(p) : p \in Pairs} /\ cli' \in Pairs
    BY <2>1, <2>3, TokensAreNumbers DEF QuotaTypeOK
  <2>5. QuotaTypeOK'
    BY <1>1, <2>1, <2>2, <2>4 DEF QuotaTypeOK
  <2>6. TokensIssued' /\ CliIsAhead'
    BY <1>1, <1>3, <2>1, <2>3, TokensAreNumbers DEF TokensIssued, CliIsAhead
  <2>7. SavesTheLive' /\ CredentialKept'
    BY <1>1, <2>1, <2>2, <2>3, TokensAreNumbers DEF SavesTheLive, CredentialKept, Unsaved
  <2> QED BY <1>2, <2>5, <2>6, <2>7
<1>5. CASE CliWrite
  <2>1. /\ cli # NoPair /\ auth' = File(cli) /\ cli' = NoPair
        /\ UNCHANGED <<live, issued, worn, revoked, mishaps>> /\ cli \in Pairs
        /\ auth'.kind = "pair" /\ auth'.pair = cli /\ cli.refresh = live
    BY <1>5, TokensAreNumbers DEF CliWrite, CliIsAhead, QuotaTypeOK
  <2>2. QuotaTypeOK'
    BY <1>1, <2>1, TokensAreNumbers DEF QuotaTypeOK
  <2>3. TokensIssued' /\ CliIsAhead' /\ SavesTheLive' /\ CredentialKept'
    BY <1>1, <2>1, QuotaAssumption
       DEF TokensIssued, CliIsAhead, SavesTheLive, CredentialKept, Unsaved, QuotaTypeOK, Tokens
  <2> QED BY <1>2, <2>2, <2>3
<1>6. CASE TokensAge
  <2>1. worn' \subseteq Tokens /\ revoked' \subseteq Tokens /\ UNCHANGED <<auth, cli, live, issued, mishaps>>
    <3>1. (1..issued) \subseteq Tokens
      BY QuotaAssumption DEF QuotaTypeOK, Tokens
    <3>2. worn \subseteq Tokens /\ revoked \subseteq Tokens
      BY DEF QuotaTypeOK
    <3> QED BY <1>6, <3>1, <3>2 DEF TokensAge, Wear, Revoke
  <2>2. QuotaTypeOK'
    BY <1>1, <2>1 DEF QuotaTypeOK
  <2>3. TokensIssued' /\ CliIsAhead' /\ SavesTheLive' /\ CredentialKept'
    BY <1>1, <2>1 DEF TokensIssued, CliIsAhead, SavesTheLive, CredentialKept, Unsaved
  <2> QED BY <1>2, <2>2, <2>3
<1> QED BY <1>4, <1>5, <1>6 DEF OutsideStep

\* The page asks, is answered or waits for a timer: nobody else is touched.
LEMMA PageHolds ==
  ASSUME QuotaInv, PageStep \/ Serve
  PROVE  QuotaInv'
<1> USE DEF QuotaInv
<1> DEFINE Seen   == {"loading", "ready", "auth_required", "unavailable"}
           Page   == [up : BOOLEAN, status : Seen, asked : {"no", "sent"} \union Seen,
                      retry : BOOLEAN, poll : BOOLEAN, settled : BOOLEAN]
           Asks(p) == p.up => (p.asked # "no" \/ p.retry \/ p.poll) /\ (p.settled => p.poll)
<1>1. UNCHANGED <<auth, cli, live, issued, worn, revoked, fetch, quota, mishaps, respent>>
  BY DEF PageStep, Serve
<1>2. page \in Page /\ Asks(page) /\ quota.status \in Seen
  BY DEF QuotaTypeOK, PageAsks, PageKeepsAsking
<1>3. page' \in Page /\ Asks(page')
  <2>1. ASSUME NEW p \in Page
        PROVE  Requested(p) \in Page /\ Requested(p).asked # "no" /\ Requested(p).up = p.up
               /\ Requested(p).settled = p.settled /\ Requested(p).poll = p.poll
    BY DEF Requested
  <2>2. CASE Mount
    <3>1. [NoPage EXCEPT !.up = TRUE] \in Page /\ ~[NoPage EXCEPT !.up = TRUE].settled
      BY DEF NoPage
    <3> QED BY <2>1, <2>2, <3>1 DEF Mount
  <2>3. CASE Unmount
    BY <2>3 DEF Unmount, NoPage
  <2>4. CASE Serve
    BY <1>2, <2>4 DEF Serve
  <2>5. CASE Receive \/ QuotaRequestFails
    <3>1. PICK status \in Seen : page' = ApplyResponse(page, status)
      BY <1>2, <2>5 DEF Receive, QuotaRequestFails
    <3>2. CASE status = "loading"
      BY <1>2, <3>1, <3>2 DEF ApplyResponse
    <3>3. CASE status # "loading"
      BY <1>2, <3>1, <3>3 DEF ApplyResponse
    <3> QED BY <3>2, <3>3
  <2>6. CASE RetryTimer
    <3>1. [page EXCEPT !.retry = FALSE] \in Page
      BY <1>2
    <3>2. /\ [page EXCEPT !.retry = FALSE].up = page.up /\ [page EXCEPT !.retry = FALSE].poll = page.poll
          /\ [page EXCEPT !.retry = FALSE].settled = page.settled
      BY <1>2
    <3> QED BY <1>2, <2>1, <2>6, <3>1, <3>2 DEF RetryTimer
  <2>7. CASE PollTimer
    BY <1>2, <2>1, <2>7 DEF PollTimer
  <2> QED BY <2>2, <2>3, <2>4, <2>5, <2>6, <2>7 DEF PageStep
<1>4. QuotaTypeOK' /\ PageAsks'
  BY <1>1, <1>3 DEF QuotaTypeOK, PageAsks, PageKeepsAsking
<1>5. TokensIssued' /\ CliIsAhead' /\ SavesTheLive' /\ CredentialKept'
  BY <1>1 DEF TokensIssued, CliIsAhead, SavesTheLive, CredentialKept, Unsaved
<1> QED BY <1>4, <1>5

\* The process ends: what the background task held is lost, and if that was a
\* pair to save, it is counted as a mishap.
LEMMA StopQuotaHolds ==
  ASSUME QuotaInv, StopQuota
  PROVE  QuotaInv'
<1>1. fetch' = Idle /\ quota' = Loading /\ UNCHANGED <<auth, cli, live, issued, worn, revoked, page, respent>>
  BY DEF StopQuota
<1>2. /\ mishaps' \in 0..MaxMishaps /\ (mishaps' = 0 => mishaps = 0 /\ ~Unsaved)
      /\ respent' \in BOOLEAN
  BY QuotaAssumption DEF StopQuota, QuotaInv, QuotaTypeOK
<1>3. /\ fetch'.pair.refresh = 0 /\ quota'.status = "loading"
      /\ fetch' \in [step : {"idle", "reload", "post", "request", "reread"}, pair : Pairs, retried : BOOLEAN]
  BY <1>1, TokensAreNumbers DEF Idle, Loading, NoPair
<1> QED BY <1>1, <1>2, <1>3, ReaderHolds

LEMMA QuotaUntouched ==
  ASSUME QuotaInv, UNCHANGED quotaVars
  PROVE  QuotaInv'
BY DEF QuotaInv, quotaVars, QuotaTypeOK, TokensIssued, CliIsAhead, SavesTheLive, CredentialKept,
       PageAsks, PageKeepsAsking, Unsaved

LEMMA QuotaStepHolds ==
  ASSUME QuotaInv, [Next]_vars
  PROVE  QuotaInv'
<1>1. CASE Start \/ Ready \/ NotReady \/ RequestStop \/ UpdateStep \/ UNCHANGED vars
  BY <1>1, QuotaUntouched DEF Start, Ready, NotReady, RequestStop, UpdateStep, vars
<1>2. CASE Stop \/ Kill
  BY <1>2, StopQuotaHolds DEF Stop, Kill
<1>3. CASE QuotaStep
  BY <1>3, ReadHolds, PostHolds, SaveHolds, OutsideHolds, PageHolds DEF QuotaStep, FetchStep
<1> QED BY <1>1, <1>2, <1>3 DEF Next

------------------------------------------------------------------------------
\* The process itself.
LEMMA ProcessHolds ==
  ASSUME process \in {"down", "serving", "ready", "stopping"}, lives \in 0..MaxLives, [Next]_vars
  PROVE  process' \in {"down", "serving", "ready", "stopping"} /\ lives' \in 0..MaxLives
BY LivesAssumption
   DEF Next, vars, appVars, Start, Ready, NotReady, RequestStop, Stop, Kill, UpdateStep, QuotaStep

\* However callers, dropped handlers and ends of the process interleave, at most
\* one request to the release provider is under way (update/mod.rs check_now).
THEOREM OneCheckAlways == Spec => []OneCheckAtATime
<1>1. Init => ChecksInv
  BY RestingHolds DEF Init
<1>2. ChecksInv /\ [Next]_vars => ChecksInv'
  BY StepHolds
<1>3. ChecksInv => OneCheckAtATime
  BY InvariantImplies
<1> QED BY <1>1, <1>2, <1>3, PTL DEF Spec

\* Every variable of the process and of both services keeps its type.
THEOREM ServicesTyped == Spec => []TypeOK
<1> DEFINE Process == process \in {"down", "serving", "ready", "stopping"} /\ lives \in 0..MaxLives
<1>1. Init => ChecksInv /\ QuotaInv /\ Process
  BY RestingHolds, QuotaStarts, LivesAssumption DEF Init
<1>2. ChecksInv /\ QuotaInv /\ Process /\ [Next]_vars => (ChecksInv /\ QuotaInv /\ Process)'
  BY StepHolds, QuotaStepHolds, ProcessHolds
<1>3. ChecksInv /\ QuotaInv /\ Process => TypeOK
  BY DEF ChecksInv, QuotaInv, TypeOK
<1> QED BY <1>1, <1>2, <1>3, PTL DEF Spec

\* For any number of tokens, refreshes by either program, logins, kills and failed
\* saves: as long as nothing went wrong while a fresh pair was not yet in the file,
\* the token the provider accepts is in auth.json or held by the program about to
\* write it (client.rs fetch_inner, refresh_auth; auth.rs save).
THEOREM CredentialStays == Spec => []CredentialKept
<1>1. Init => QuotaInv
  BY QuotaStarts DEF Init
<1>2. QuotaInv /\ [Next]_vars => QuotaInv'
  BY QuotaStepHolds
<1>3. QuotaInv => CredentialKept
  BY DEF QuotaInv
<1> QED BY <1>1, <1>2, <1>3, PTL DEF Spec

\* An open page never stops asking for the quota, whatever it is answered and
\* whichever timer fires first (useCodexQuotaController.ts).
THEOREM PageAlwaysAsks == Spec => []PageKeepsAsking
<1>1. Init => QuotaInv
  BY QuotaStarts DEF Init
<1>2. QuotaInv /\ [Next]_vars => QuotaInv'
  BY QuotaStepHolds
<1>3. QuotaInv => PageKeepsAsking
  BY DEF QuotaInv, PageAsks
<1> QED BY <1>1, <1>2, <1>3, PTL DEF Spec

------------------------------------------------------------------------------
(***************************************************************************)
(* The session table and the session drawer of a page, for any number of   *)
(* scopes, sessions, commits, clicks and faults and any window size.       *)
(*                                                                         *)
(* A snapshot is of one revision because what is about to be merged into   *)
(* it is: the rows of every batch are of the revision the batch was asked  *)
(* for, and a kept snapshot of the revision it was answered at.  A table   *)
(* that rests shows the latest data because an answer is never older than  *)
(* the revision that made the table ask again: the second retry of one     *)
(* revision, which would give up, is never reached.  The drawer settles    *)
(* because an open drawer has asked for the newest revision it knows, and  *)
(* it knows what the table shows and what the feed has announced.          *)
(***************************************************************************)

------------------------------------------------------------------------------
(* The inductive invariant. *)

\* Rows are of the revision they are kept, answered or asked for.
Whole(snapshot) == \A row \in snapshot.rows : row.revision = snapshot.revision

\* A batch asks for one to a window of rows (ROW_BATCH_LIMIT).
Fits(ids) == ids # {} /\ IsFiniteSet(ids) /\ Cardinality(ids) <= WindowPages

RowsFit(t) ==
  /\ \A s \in Scopes : Whole(t.snapshots[s])
  /\ t.request # NoAsk =>
       Whole(t.request.previous) /\ (t.request.answer # Waiting => Whole(t.request.answer))
  /\ \A b \in t.batches :
       /\ Fits(b.ids)
       /\ b.answer \notin {Waiting, Failure} => \A row \in b.answer : row.revision = b.revision

\* Nothing the table has, or is about to get, is newer than the ledger; an answer is
\* not older than what made the table ask again.
Dated(t, data) ==
  /\ \A s \in Scopes : t.snapshots[s].revision <= data /\ t.retried[s] <= data
  /\ t.request # NoAsk =>
       /\ t.request.previous.revision <= data
       /\ t.request.answer # Waiting =>
            /\ 1 <= t.request.answer.revision /\ t.request.answer.revision <= data
            /\ t.retried[t.scope] <= t.request.answer.revision

\* A table that waits for nothing and shows no error shows what the feed has announced,
\* or something newer.
Follows(t, heard) ==
  /\ t.request = NoAsk => t.load = "error" \/ (HasAny(t) /\ heard <= Shown(t).revision)
  /\ t.load \in {"loading", "refreshing"} => t.request # NoAsk
  /\ t.load = "ready" => t.request = NoAsk

TableInv(t, data, heard) == t \in Tables /\ RowsFit(t) /\ Dated(t, data) /\ Follows(t, heard)

\* PageIsAttended of any table, by what will tell the user.
Asked(t) ==
  \E b \in t.batches :
    b.urgent /\ b.revision = Shown(t).revision /\ OnPage(t) \ Cached(t) \subseteq b.ids

Attended(t) ==
  HasAny(t) /\ ~ (OnPage(t) \subseteq Cached(t)) =>
    t.request # NoAsk \/ t.load = "error" \/ t.pageState = "error" \/ Asked(t)

------------------------------------------------------------------------------
(* Types. *)

LEMMA TableFields ==
  ASSUME NEW t \in Tables
  PROVE  /\ t.scope \in Scopes /\ t.snapshots \in [Scopes -> Snapshots] /\ t.page \in Nat \ {0}
         /\ t.order \in Orders /\ t.load \in {"loading", "refreshing", "ready", "error"}
         /\ t.pageState \in {"idle", "loading", "error"} /\ t.why \in {"none", "failed", "revision"}
         /\ t.request \in {NoAsk} \union TableRequests /\ t.batches \subseteq Batches
         /\ t.retried \in [Scopes -> Nat]
         /\ Shown(t) \in Snapshots /\ Shown(t).revision \in Nat /\ Shown(t).rows \subseteq TableRows
BY DEF Tables, Shown, Snapshots

LEMMA AtRankType ==
  ASSUME NEW count \in Nat, NEW order \in Orders, NEW rank \in Int
  PROVE  AtRank(count, order, rank) \in Int
BY DEF AtRank

LEMMA WindowType ==
  ASSUME NEW count \in Nat, NEW order \in Orders, NEW w \in Nat
  PROVE  WindowOf(count, order, w) \subseteq Int
<1>1. w * WindowPages + 1 \in Int /\ (w + 1) * WindowPages \in Int
  BY TableAssumption
<1> QED BY <1>1, AtRankType DEF WindowOf

\* A window has WindowPages ranks, so what is missing of it fits a batch.
LEMMA WindowFits ==
  ASSUME NEW count \in Nat, NEW order \in Orders, NEW w \in Nat,
         NEW ids \in SUBSET WindowOf(count, order, w), ids # {}
  PROVE  Fits(ids)
<1> DEFINE a     == w * WindowPages + 1
           b     == (w + 1) * WindowPages
           ranks == (a..b) \intersect 1..count
           f     == [rank \in ranks |-> AtRank(count, order, rank)]
<1>1. a \in Int /\ b \in Int /\ b - a + 1 = WindowPages /\ WindowPages \in Nat
  BY TableAssumption
<1>2. WindowOf(count, order, w) = {AtRank(count, order, rank) : rank \in ranks}
  BY DEF WindowOf
<1> HIDE DEF a, b
<1>3. IsFiniteSet(a..b) /\ Cardinality(a..b) <= WindowPages /\ Cardinality(a..b) \in Nat
  <2>1. IsFiniteSet(a..b) /\ Cardinality(a..b) = IF a > b THEN 0 ELSE b - a + 1
    BY <1>1, FS_Interval
  <2> QED BY <1>1, <2>1
<1>4. IsFiniteSet(ranks) /\ Cardinality(ranks) <= Cardinality(a..b)
  BY <1>3, FS_Subset
<1>5. f \in Surjection(ranks, WindowOf(count, order, w))
  BY <1>2 DEF Surjection
<1> HIDE DEF f, ranks
<1>6. /\ IsFiniteSet(WindowOf(count, order, w))
      /\ Cardinality(WindowOf(count, order, w)) <= Cardinality(ranks)
  BY <1>4, <1>5, FS_Surjection
<1>7. IsFiniteSet(ids) /\ Cardinality(ids) <= Cardinality(WindowOf(count, order, w))
  BY <1>6, FS_Subset
<1>8. /\ Cardinality(ids) \in Nat /\ Cardinality(ranks) \in Nat
      /\ Cardinality(WindowOf(count, order, w)) \in Nat
  BY <1>4, <1>6, <1>7, FS_CardinalityType
<1> QED BY <1>1, <1>3, <1>4, <1>6, <1>7, <1>8 DEF Fits

\* What changes when rows are asked for, and what does not.
Aside(t, u) ==
  /\ u \in Tables
  /\ u.scope = t.scope /\ u.snapshots = t.snapshots /\ u.page = t.page /\ u.order = t.order
  /\ u.load = t.load /\ u.why = t.why /\ u.request = t.request /\ u.retried = t.retried
  /\ \A b \in u.batches :
       \/ b.answer = Waiting /\ Fits(b.ids)
       \/ \E c \in t.batches : b.answer = c.answer /\ b.revision = c.revision /\ b.ids = c.ids

LEMMA AsideHolds ==
  ASSUME NEW t, NEW u, NEW data, NEW heard, TableInv(t, data, heard), Aside(t, u)
  PROVE  TableInv(u, data, heard)
<1>1. Shown(u) = Shown(t) /\ HasAny(u) = HasAny(t)
  BY DEF Aside, Shown, HasAny
<1>2. RowsFit(u)
  <2>1. ASSUME NEW b \in u.batches, b.answer \notin {Waiting, Failure}
        PROVE  \A row \in b.answer : row.revision = b.revision
    BY <2>1 DEF Aside, TableInv, RowsFit
  <2>2. \A b \in u.batches : Fits(b.ids)
    BY DEF Aside, TableInv, RowsFit
  <2> QED BY <2>1, <2>2 DEF Aside, TableInv, RowsFit
<1>3. Dated(u, data)
  BY DEF Aside, TableInv, Dated
<1>4. Follows(u, heard)
  BY <1>1 DEF Aside, TableInv, Follows
<1> QED BY <1>2, <1>3, <1>4 DEF Aside, TableInv

LEMMA LoadRowsEffect ==
  ASSUME NEW t \in Tables, NEW ids \in SUBSET Int, NEW urgent \in BOOLEAN, Fits(ids)
  PROVE  LET u == LoadRows(t, ids, urgent)
         IN  /\ Aside(t, u)
             /\ urgent => \E b \in u.batches : b.ids = ids /\ b.urgent /\ b.revision = Shown(t).revision
<1> DEFINE same == {b \in t.batches : b.ids = ids /\ b.revision = Shown(t).revision}
           fresh == [ids |-> ids, revision |-> Shown(t).revision, early |-> ~urgent,
                     urgent |-> urgent, answer |-> Waiting]
           hastened == {[b EXCEPT !.urgent = TRUE] : b \in same}
<1>1. Aside(t, t)
  BY DEF Aside
<1>2. fresh \in Batches /\ fresh.answer = Waiting /\ fresh.ids = ids
      /\ fresh.revision = Shown(t).revision /\ (urgent => fresh.urgent)
  BY TableFields DEF Batches
<1>3. \A c \in hastened : /\ c \in Batches /\ c.ids = ids /\ c.urgent /\ c.revision = Shown(t).revision
                          /\ \E b \in t.batches : c.answer = b.answer /\ c.revision = b.revision /\ c.ids = b.ids
  BY TableFields DEF Batches
<1> DEFINE u == LoadRows(t, ids, urgent)
<1>4. ASSUME NEW more \in SUBSET Batches, NEW less \in SUBSET Batches,
             \A c \in more :
               \/ c.answer = Waiting /\ Fits(c.ids)
               \/ \E b \in t.batches : c.answer = b.answer /\ c.revision = b.revision /\ c.ids = b.ids,
             u = IF urgent
                 THEN [[t EXCEPT !.batches = (t.batches \ less) \union more] EXCEPT !.pageState = "loading"]
                 ELSE [t EXCEPT !.batches = (t.batches \ less) \union more]
      PROVE  Aside(t, u) /\ more \subseteq u.batches
  <2> DEFINE batches == (t.batches \ less) \union more
             v == [t EXCEPT !.batches = batches]
  <2>1. batches \subseteq Batches
    BY <1>4, TableFields
  <2>2. \A c \in batches :
          \/ c.answer = Waiting /\ Fits(c.ids)
          \/ \E b \in t.batches : c.answer = b.answer /\ c.revision = b.revision /\ c.ids = b.ids
    BY <1>4
  <2>3. more \subseteq batches
    OBVIOUS
  <2> HIDE DEF batches, u
  <2>4. u = IF urgent THEN [v EXCEPT !.pageState = "loading"] ELSE v
    BY <1>4 DEF batches
  <2>5. u \in Tables /\ u.batches = batches
    BY <2>1, <2>4 DEF Tables
  <2>6. Aside(t, u)
    BY <2>2, <2>4, <2>5 DEF Aside, Tables
  <2> QED BY <2>3, <2>5, <2>6
<1>5. CASE same # {}
  <2>1. CASE ~ urgent
    BY <1>1, <1>5, <2>1 DEF LoadRows
  <2>2. CASE urgent
    <3>1. u = [[t EXCEPT !.batches = (t.batches \ same) \union hastened] EXCEPT !.pageState = "loading"]
      BY <1>5, <2>2 DEF LoadRows
    <3>2. hastened \subseteq Batches /\ same \subseteq Batches /\ hastened # {}
      <4>1. hastened # {}
        BY <1>5, Zenon
      <4>2. same \subseteq t.batches
        OBVIOUS
      <4> HIDE DEF hastened, same
      <4> QED BY <1>3, <4>1, <4>2, TableFields
    <3> HIDE DEF hastened, same, u
    <3>3. Aside(t, u) /\ hastened \subseteq u.batches
      BY <1>3, <1>4, <2>2, <3>1, <3>2
    <3> QED BY <1>3, <3>2, <3>3 DEF u
  <2> QED BY <2>1, <2>2
<1>6. CASE same = {}
  <2>1. CASE ~ urgent /\ \E b \in t.batches : b.early
    BY <1>1, <1>6, <2>1 DEF LoadRows
  <2>2. CASE urgent \/ ~ \E b \in t.batches : b.early
    <3> DEFINE none == {}
    <3>0. t.batches \ none = t.batches
      OBVIOUS
    <3> HIDE DEF none
    <3>1. u = IF urgent
              THEN [[t EXCEPT !.batches = (t.batches \ none) \union {fresh}] EXCEPT !.pageState = "loading"]
              ELSE [t EXCEPT !.batches = (t.batches \ none) \union {fresh}]
      BY <1>6, <2>2, <3>0 DEF LoadRows
    <3> HIDE DEF fresh, u
    <3>2. {fresh} \subseteq Batches /\ none \subseteq Batches
      BY <1>2 DEF none
    <3>3. Aside(t, u) /\ {fresh} \subseteq u.batches
      BY <1>2, <1>4, <3>1, <3>2
    <3> QED BY <1>2, <3>3 DEF u
  <2> QED BY <2>1, <2>2
<1> QED BY <1>5, <1>6
\* The page is in its window.
LEMMA WindowBounds ==
  ASSUME NEW n \in Nat, NEW w \in Nat \ {0}
  PROVE  /\ n \div w \in Nat
         /\ (n \div w) * w <= n
         /\ n < (n \div w + 1) * w
OBVIOUS

LEMMA PageIsOfItsWindow ==
  ASSUME NEW t \in Tables, Pages(t) \in Nat
  PROVE  /\ PageWindow(t) \in Nat
         /\ OnPage(t) \subseteq OfWindow(t, PageWindow(t))
         /\ Missing(t) \subseteq Int /\ MissingNext(t) \subseteq Int
         /\ Missing(t) # {} => Fits(Missing(t))
         /\ MissingNext(t) # {} => Fits(MissingNext(t))
<1> DEFINE w == PageWindow(t)
           n == t.page - 1
<1>1. t.page \in Nat \ {0} /\ t.order \in Orders /\ WindowPages \in Nat \ {0}
  BY TableFields, TableAssumption
<1>2. w \in Nat /\ w * WindowPages <= t.page - 1 /\ t.page - 1 < (w + 1) * WindowPages
  <2>1. n \in Nat
    BY <1>1
  <2> HIDE DEF n
  <2>2. /\ n \div WindowPages \in Nat /\ (n \div WindowPages) * WindowPages <= n
        /\ n < (n \div WindowPages + 1) * WindowPages
    BY <1>1, <2>1, WindowBounds
  <2> QED BY <2>2 DEF PageWindow, n
<1> HIDE DEF w, n
<1>3. w * WindowPages \in Int /\ (w + 1) * WindowPages \in Int
  BY <1>1, <1>2
<1>4. t.page \in (w * WindowPages + 1)..((w + 1) * WindowPages)
  BY <1>1, <1>2, <1>3
<1>5. OnPage(t) \subseteq OfWindow(t, w)
  BY <1>4 DEF OnPage, OfWindow, WindowOf
<1>6. w + 1 \in Nat
  BY <1>2
<1>7. Missing(t) # {} => Fits(Missing(t))
  BY <1>1, <1>2, WindowFits DEF w, Missing, OfWindow
<1>8. MissingNext(t) # {} => Fits(MissingNext(t))
  BY <1>1, <1>6, WindowFits DEF w, MissingNext, OfWindow
<1> QED BY <1>1, <1>2, <1>5, <1>6, <1>7, <1>8, WindowType DEF w, Missing, MissingNext, OfWindow

LEMMA PagesType ==
  ASSUME NEW t, NEW data \in 0..MaxData, NEW heard, TableInv(t, data, heard)
  PROVE  Pages(t) \in Nat /\ t \in Tables
<1>1. Shown(t).revision \in Nat /\ t \in Tables
  BY TableFields DEF TableInv
<1>2. Shown(t).revision <= data
  BY TableFields DEF TableInv, Dated, Shown
<1> QED BY <1>1, <1>2, TableAssumption, FeedAssumption DEF Pages

\* ensureCurrentWindow changes no more than the batches, and leaves the page attended.
LEMMA EnsureEffect ==
  ASSUME NEW t, NEW data \in 0..MaxData, NEW heard, TableInv(t, data, heard)
  PROVE  Aside(t, EnsureWindow(t)) /\ Attended(EnsureWindow(t))
<1>1. t \in Tables /\ Missing(t) \in SUBSET Int /\ MissingNext(t) \in SUBSET Int
      /\ (Missing(t) # {} => Fits(Missing(t))) /\ (MissingNext(t) # {} => Fits(MissingNext(t)))
      /\ OnPage(t) \subseteq OfWindow(t, PageWindow(t))
  BY PagesType, PageIsOfItsWindow
<1>2. ASSUME NEW u, Aside(t, u)
      PROVE  /\ HasAny(u) = HasAny(t) /\ OnPage(u) = OnPage(t) /\ Cached(u) = Cached(t)
             /\ u.request = t.request /\ u.load = t.load /\ Shown(u) = Shown(t)
  BY <1>2 DEF Aside, HasAny, OnPage, Cached, Shown, Pages
<1>3. Aside(t, t)
  BY <1>1 DEF Aside
<1>4. CASE ~ HasAny(t) \/ t.load \in {"loading", "error"}
  BY <1>3, <1>4 DEF EnsureWindow, Attended, TableInv, Follows
<1>5. CASE ~ (~ HasAny(t) \/ t.load \in {"loading", "error"}) /\ Missing(t) # {}
  <2> DEFINE u == LoadRows(t, Missing(t), TRUE)
  <2>1. EnsureWindow(t) = u
    BY <1>5 DEF EnsureWindow
  <2>2. Aside(t, u) /\ \E b \in u.batches : b.ids = Missing(t) /\ b.urgent /\ b.revision = Shown(t).revision
    BY <1>1, <1>5, LoadRowsEffect
  <2> HIDE DEF u
  <2>3. OnPage(u) \ Cached(u) \subseteq Missing(t) /\ Shown(u) = Shown(t)
    BY <1>1, <1>2, <2>2 DEF Missing
  <2>4. Asked(u)
    BY <2>2, <2>3 DEF Asked
  <2> QED BY <2>1, <2>2, <2>4 DEF Attended
<1>6. CASE ~ (~ HasAny(t) \/ t.load \in {"loading", "error"}) /\ Missing(t) = {}
  <2> DEFINE u == EnsureWindow(t)
  <2>1. Aside(t, u)
    BY <1>1, <1>3, <1>6, LoadRowsEffect DEF EnsureWindow
  <2> HIDE DEF u
  <2>2. OnPage(u) \subseteq Cached(u)
    BY <1>1, <1>2, <1>6, <2>1 DEF Missing
  <2> QED BY <2>1, <2>2 DEF Attended, u
<1> QED BY <1>4, <1>5, <1>6

\* What a commit and its effects leave of the invariant.
LEMMA AfterCommitHolds ==
  ASSUME NEW old, NEW new, NEW data \in 0..MaxData, NEW heard, TableInv(new, data, heard),
         Shape(old) = Shape(new) => Attended(new)
  PROVE  /\ TableInv(AfterCommit(old, new), data, heard)
         /\ Attended(AfterCommit(old, new))
         /\ Aside(new, AfterCommit(old, new))
<1>1. Aside(new, new)
  BY DEF Aside, TableInv
<1>2. Aside(new, AfterCommit(old, new)) /\ Attended(AfterCommit(old, new))
  BY <1>1, EnsureEffect DEF AfterCommit
<1> QED BY <1>2, AsideHolds
------------------------------------------------------------------------------
(* The operations of the table. *)

\* What is kept of the scopes.
Kept(t, data) ==
  /\ t \in Tables /\ \A s \in Scopes : Whole(t.snapshots[s])
  /\ \A s \in Scopes : t.snapshots[s].revision <= data /\ t.retried[s] <= data

LEMMA InvKeeps ==
  ASSUME NEW t, NEW data, NEW heard, TableInv(t, data, heard)
  PROVE  Kept(t, data)
BY DEF TableInv, Kept, RowsFit, Dated

\* A snapshot on its way: nothing more can be wrong.
LEMMA LoadSnapshotHolds ==
  ASSUME NEW t, NEW data, NEW heard, NEW force \in BOOLEAN, Kept(t, data)
  PROVE  LET u == LoadSnapshot(t, force)
         IN  /\ TableInv(u, data, heard) /\ Attended(u)
             /\ u.scope = t.scope /\ u.snapshots = t.snapshots
<1> DEFINE u == LoadSnapshot(t, force)
           r == [force |-> force, previous |-> Shown(t), order |-> t.order, answer |-> Waiting]
           load == IF HasAny(t) THEN "refreshing" ELSE "loading"
<1>1. t \in Tables
  BY DEF Kept
<1>2. r \in TableRequests /\ r # NoAsk /\ r.answer = Waiting /\ r.previous = Shown(t)
  BY <1>1, TableFields, ViewAssumption DEF TableRequests
<1>3. Whole(Shown(t)) /\ Shown(t).revision <= data
  BY <1>1, TableFields DEF Kept, Shown
<1>4. load \in {"loading", "refreshing"}
  OBVIOUS
<1>5. u = [t EXCEPT !.load = load, !.pageState = "idle", !.why = "none", !.batches = {}, !.request = r]
  BY DEF LoadSnapshot
<1> HIDE DEF u, r, load
<1>6. /\ u \in Tables /\ u.request = r /\ u.load = load /\ u.batches = {}
      /\ u.scope = t.scope /\ u.snapshots = t.snapshots /\ u.retried = t.retried
  BY <1>1, <1>2, <1>4, <1>5 DEF Tables
<1>7. RowsFit(u) /\ Dated(u, data) /\ Follows(u, heard)
  BY <1>2, <1>3, <1>4, <1>6 DEF Kept, RowsFit, Dated, Follows
<1> QED BY <1>2, <1>6, <1>7 DEF TableInv, Attended, u

\* An answer becomes the snapshot of the scope.
LEMMA MakeSnapshotWhole ==
  ASSUME NEW t \in Tables, t.request # NoAsk, t.request.answer # Waiting,
         Whole(t.request.previous), Whole(t.request.answer)
  PROVE  LET x == MakeSnapshot(t, t.request.answer)
         IN  x \in Snapshots /\ Whole(x) /\ x.revision = t.request.answer.revision
<1>1. t.request.previous \in Snapshots /\ t.request.answer \in Snapshots
  BY TableFields DEF TableRequests
<1> DEFINE answer == t.request.answer
           previous == t.request.previous
           kept == IF t.request.force \/ previous.revision # answer.revision THEN {}
                   ELSE {row \in previous.rows : row.session \notin {r.session : r \in answer.rows}}
<1>2. kept \subseteq previous.rows /\ (kept # {} => previous.revision = answer.revision)
  OBVIOUS
<1>3. MakeSnapshot(t, answer) = [revision |-> answer.revision, rows |-> kept \union answer.rows]
  BY DEF MakeSnapshot
<1> HIDE DEF kept
<1>4. kept \union answer.rows \subseteq TableRows
  BY <1>1, <1>2 DEF Snapshots
<1>5. \A row \in kept \union answer.rows : row.revision = answer.revision
  BY <1>2 DEF Whole
<1> QED BY <1>1, <1>3, <1>4, <1>5 DEF Snapshots, Whole

LEMMA SnapshotLoadedHolds ==
  ASSUME NEW t, NEW data \in 0..MaxData, NEW heard \in Int, TableInv(t, data, heard), heard <= data,
         t.request # NoAsk, t.request.answer # Waiting
  PROVE  LET u == SnapshotLoaded(t, heard)
         IN  TableInv(u, data, heard) /\ (Shape(t) = Shape(u) => Attended(u))
<1> DEFINE answer   == t.request.answer
           required == RequiredRevision(t, heard)
           fresh    == MakeSnapshot(t, answer)
           count    == Sessions[answer.revision]
           u        == SnapshotLoaded(t, heard)
<1>1. /\ t \in Tables /\ t.request.previous \in Snapshots /\ answer \in Snapshots
      /\ Whole(t.request.previous) /\ Whole(answer)
      /\ t.request.previous.revision <= data /\ 1 <= answer.revision /\ answer.revision <= data
      /\ t.retried[t.scope] <= answer.revision
  BY TableFields DEF TableInv, RowsFit, Dated, TableRequests
<1>2. /\ required \in Nat /\ required <= data /\ heard <= required /\ answer.revision \in Nat
      /\ count \in Nat
  BY <1>1, TableAssumption, FeedAssumption DEF RequiredRevision, Larger, Snapshots
<1>3. fresh \in Snapshots /\ Whole(fresh) /\ fresh.revision = answer.revision
  BY <1>1, MakeSnapshotWhole
<1>4. t.load \in {"loading", "refreshing", "error"}
  BY <1>1, TableFields DEF TableInv, Follows
<1>5. CASE answer.revision >= required
  <2> DEFINE wanted == IF count = 0 THEN 1 ELSE IF t.page > count THEN count ELSE t.page
             over == [t EXCEPT !.request = NoAsk, !.pageState = "idle"]
  <2>1. u = [over EXCEPT !.snapshots[t.scope] = fresh, !.retried[t.scope] = 0, !.page = wanted,
                         !.load = "ready", !.why = "none"]
    BY <1>5, <1>1 DEF SnapshotLoaded, Tables
  <2>2. wanted \in Nat \ {0}
    BY <1>1, <1>2, TableFields
  <2>3. /\ over \in Tables /\ over.snapshots = t.snapshots /\ over.retried = t.retried
        /\ over.scope = t.scope /\ over.request = NoAsk /\ over.batches = t.batches
    BY <1>1 DEF Tables
  <2> HIDE DEF wanted, over, fresh, u
  <2> DEFINE snapshots == [over.snapshots EXCEPT ![t.scope] = fresh]
             retried   == [over.retried EXCEPT ![t.scope] = 0]
  <2>4. u = [over EXCEPT !.snapshots = snapshots, !.retried = retried, !.page = wanted,
                         !.load = "ready", !.why = "none"]
    BY <2>1
  <2>5. /\ snapshots \in [Scopes -> Snapshots] /\ retried \in [Scopes -> Nat]
        /\ snapshots[t.scope] = fresh
        /\ \A s \in Scopes : snapshots[s] \in {fresh, t.snapshots[s]}
        /\ \A s \in Scopes : retried[s] \in {0, t.retried[s]}
    BY <1>1, <1>3, <2>3, TableFields
  <2> HIDE DEF snapshots, retried
  <2>6. /\ u \in Tables /\ u.snapshots = snapshots /\ u.retried = retried /\ u.load = "ready"
        /\ u.request = NoAsk /\ u.scope = t.scope /\ u.batches = t.batches
    BY <2>2, <2>3, <2>4, <2>5 DEF Tables
  <2>7. RowsFit(u)
    BY <1>3, <2>5, <2>6 DEF RowsFit, TableInv
  <2>8. Dated(u, data)
    BY <1>1, <1>3, <2>5, <2>6 DEF Dated, TableInv
  <2>9. Follows(u, heard)
    <3>1. Shown(u) = fresh
      BY <2>5, <2>6 DEF Shown
    <3> QED BY <1>1, <1>2, <1>3, <1>5, <2>6, <3>1 DEF Follows, HasAny, Snapshots
  <2>10. Shape(u) # Shape(t)
    BY <1>4, <2>6 DEF Shape
  <2> QED BY <2>6, <2>7, <2>8, <2>9, <2>10 DEF TableInv, u
<1>6. CASE ~ (answer.revision >= required)
  <2> DEFINE again == [t EXCEPT !.retried[t.scope] = required]
             retried == [t.retried EXCEPT ![t.scope] = required]
  <2>1. t.retried[t.scope] # required
    BY <1>1, <1>2, <1>6, TableFields
  <2>2. u = LoadSnapshot(again, TRUE)
    BY <1>6, <2>1 DEF SnapshotLoaded
  <2>3. again = [t EXCEPT !.retried = retried]
    OBVIOUS
  <2>4. retried \in [Scopes -> Nat] /\ \A s \in Scopes : retried[s] \in {required, t.retried[s]}
    BY <1>1, <1>2, TableFields
  <2> HIDE DEF again, retried, u, required
  <2>5. again \in Tables /\ again.snapshots = t.snapshots /\ again.retried = retried
    BY <1>1, <2>3, <2>4 DEF Tables
  <2>6. Kept(again, data)
    BY <1>2, <2>4, <2>5, InvKeeps DEF Kept
  <2> QED BY <2>2, <2>6, LoadSnapshotHolds DEF u
<1> QED BY <1>5, <1>6

LEMMA SnapshotFailedHolds ==
  ASSUME NEW t, NEW data, NEW heard, TableInv(t, data, heard)
  PROVE  TableInv(SnapshotFailed(t), data, heard) /\ Attended(SnapshotFailed(t))
<1> DEFINE u == SnapshotFailed(t)
<1>1. /\ u \in Tables /\ u.snapshots = t.snapshots /\ u.retried = t.retried /\ u.request = NoAsk
      /\ u.load = "error" /\ u.batches = t.batches
  BY DEF TableInv, SnapshotFailed, Tables
<1> HIDE DEF u
<1>2. RowsFit(u) /\ Dated(u, data) /\ Follows(u, heard)
  BY <1>1 DEF TableInv, RowsFit, Dated, Follows
<1> QED BY <1>1, <1>2 DEF TableInv, Attended, u
\* A batch that is over, and the state of the page that comes with it.
LEMMA OverHolds ==
  ASSUME NEW t, NEW data, NEW heard, TableInv(t, data, heard), NEW batch \in t.batches,
         NEW state \in {"idle", "loading", "error"}
  PROVE  LET u == [Over(t, batch) EXCEPT !.pageState = state]
         IN  TableInv(Over(t, batch), data, heard) /\ TableInv(u, data, heard)
<1> DEFINE v == Over(t, batch)
           u == [v EXCEPT !.pageState = state]
           batches == t.batches \ {batch}
<1>1. t \in Tables /\ batches \subseteq t.batches
  BY DEF TableInv
<1> HIDE DEF batches
<1>2. v = [t EXCEPT !.batches = batches]
  BY DEF Over, batches
<1> HIDE DEF v
<1>3. /\ v \in Tables /\ v.batches = batches
      /\ v.scope = t.scope /\ v.snapshots = t.snapshots /\ v.page = t.page /\ v.order = t.order
      /\ v.load = t.load /\ v.why = t.why /\ v.request = t.request /\ v.retried = t.retried
  BY <1>1, <1>2 DEF Tables
<1>4. Aside(t, v)
  BY <1>1, <1>3 DEF Aside
<1>5. Aside(t, u)
  BY <1>1, <1>3 DEF Aside, Tables
<1> QED BY <1>4, <1>5, AsideHolds DEF v

\* A batch of a snapshot that has been replaced does not matter.
LEMMA OutdatedHolds ==
  ASSUME NEW t, NEW data, NEW heard, TableInv(t, data, heard), NEW batch \in t.batches,
         Attended(t), Outdated(t, batch)
  PROVE  TableInv(Over(t, batch), data, heard) /\ Attended(Over(t, batch))
<1> DEFINE v == Over(t, batch)
<1>1. TableInv(v, data, heard)
  BY OverHolds
<1>2. /\ v.batches = t.batches \ {batch} /\ v.scope = t.scope /\ v.snapshots = t.snapshots
      /\ v.page = t.page /\ v.order = t.order /\ v.load = t.load /\ v.pageState = t.pageState
      /\ v.request = t.request
  BY DEF Over, TableInv, Tables
<1> HIDE DEF v
<1>3. Shown(v) = Shown(t) /\ HasAny(v) = HasAny(t) /\ OnPage(v) = OnPage(t) /\ Cached(v) = Cached(t)
  BY <1>2 DEF Shown, HasAny, OnPage, Cached, Pages
<1>4. Asked(t) => Asked(v)
  BY <1>2, <1>3 DEF Asked, Outdated
<1> QED BY <1>1, <1>2, <1>3, <1>4 DEF Attended, v

LEMMA RowsLoadedHolds ==
  ASSUME NEW t, NEW data \in 0..MaxData, NEW heard, TableInv(t, data, heard), Attended(t),
         NEW batch \in t.batches, batch.answer \notin {Waiting, Failure}
  PROVE  TableInv(RowsLoaded(t, batch), data, heard) /\ Attended(RowsLoaded(t, batch))
<1>1. CASE Outdated(t, batch)
  BY <1>1, OutdatedHolds DEF RowsLoaded
<1>2. CASE ~ Outdated(t, batch)
  <2> DEFINE rows == batch.answer
             kept == {row \in Shown(t).rows : row.session \notin {r.session : r \in rows}}
             all  == kept \union rows
             state == IF batch.urgent THEN "idle" ELSE t.pageState
             over == [Over(t, batch) EXCEPT !.pageState = state]
             snapshots == [t.snapshots EXCEPT ![t.scope].rows = all]
             v    == [over EXCEPT !.snapshots = snapshots]
  <2>1. t \in Tables /\ batch \in Batches /\ rows \subseteq TableRows
    BY TableFields DEF TableInv, Batches
  <2>2. all \subseteq TableRows
    BY <2>1, TableFields
  <2>3. \A row \in all : row.revision = Shown(t).revision
    <3>1. \A row \in rows : row.revision = Shown(t).revision
      BY <1>2 DEF Outdated, TableInv, RowsFit
    <3>2. \A row \in Shown(t).rows : row.revision = Shown(t).revision
      BY <2>1, TableFields DEF TableInv, RowsFit, Whole, Shown
    <3> QED BY <3>1, <3>2
  <2>4. state \in {"idle", "loading", "error"}
    BY <2>1, TableFields
  <2>5. over = [[t EXCEPT !.batches = t.batches \ {batch}] EXCEPT !.pageState = state]
    BY DEF Over
  <2> HIDE DEF all, state
  <2>6. /\ TableInv(over, data, heard) /\ over.snapshots = t.snapshots /\ over.scope = t.scope
        /\ over \in Tables
    <3>1. TableInv(over, data, heard)
      BY <2>4, OverHolds
    <3> QED BY <2>1, <2>5, <3>1 DEF TableInv, Tables
  <2>7. RowsLoaded(t, batch) = EnsureWindow(v)
    <3>1. Over(t, batch) = [t EXCEPT !.batches = t.batches \ {batch}]
      BY DEF Over
    <3>2. /\ Over(t, batch).snapshots = t.snapshots /\ Over(t, batch).scope = t.scope
          /\ Over(t, batch).pageState = t.pageState /\ Over(t, batch) \in Tables
      BY <2>1, <3>1 DEF Tables
    <3>3. [Over(t, batch) EXCEPT !.snapshots[t.scope].rows = all, !.pageState = state] = v
      BY <3>2, <2>6 DEF Tables
    <3> QED BY <1>2, <3>2, <3>3 DEF RowsLoaded, all, state
  <2> HIDE DEF over
  <2>8. /\ snapshots \in [Scopes -> Snapshots]
        /\ \A s \in Scopes : snapshots[s].revision = t.snapshots[s].revision
        /\ \A s \in Scopes : snapshots[s].rows = IF s = t.scope THEN all ELSE t.snapshots[s].rows
    BY <2>1, <2>2, TableFields DEF Snapshots
  <2> HIDE DEF snapshots
  <2>9. /\ v \in Tables /\ v.snapshots = snapshots /\ v.scope = over.scope /\ v.load = over.load
        /\ v.request = over.request /\ v.retried = over.retried /\ v.batches = over.batches
    BY <2>6, <2>8 DEF Tables
  <2>10. RowsFit(v)
    <3>1. \A s \in Scopes : Whole(snapshots[s])
      BY <2>3, <2>8 DEF TableInv, RowsFit, Whole, Shown
    <3> QED BY <2>6, <2>9, <3>1 DEF TableInv, RowsFit
  <2>11. Dated(v, data)
    BY <2>6, <2>8, <2>9 DEF TableInv, Dated
  <2>12. Follows(v, heard)
    <3>1. Shown(v).revision = Shown(over).revision
      BY <2>1, <2>6, <2>8, <2>9, TableFields DEF Shown
    <3> QED BY <2>6, <2>9, <3>1 DEF TableInv, Follows, HasAny
  <2>13. TableInv(v, data, heard)
    BY <2>9, <2>10, <2>11, <2>12 DEF TableInv
  <2> HIDE DEF v
  <2> QED BY <2>7, <2>13, EnsureEffect, AsideHolds
<1> QED BY <1>1, <1>2

LEMMA RowsStaleHolds ==
  ASSUME NEW t, NEW data \in 0..MaxData, NEW heard, TableInv(t, data, heard), Attended(t),
         NEW batch \in t.batches
  PROVE  TableInv(RowsStale(t, batch), data, heard) /\ Attended(RowsStale(t, batch))
BY OutdatedHolds, LoadSnapshotHolds, InvKeeps DEF RowsStale

\* A page whose own rows fail says so; others do not matter to it.
LEMMA RowsFailedHolds ==
  ASSUME NEW t, NEW data \in 0..MaxData, NEW heard, TableInv(t, data, heard), Attended(t),
         NEW batch \in t.batches
  PROVE  TableInv(RowsFailed(t, batch), data, heard) /\ Attended(RowsFailed(t, batch))
<1> DEFINE state == IF batch.urgent /\ ~ Outdated(t, batch) THEN "error" ELSE t.pageState
           v == Over(t, batch)
           u == [v EXCEPT !.pageState = state]
<1>1. t \in Tables /\ state \in {"idle", "loading", "error"}
  BY TableFields DEF TableInv
<1>2. TableInv(v, data, heard) /\ TableInv(u, data, heard)
  BY <1>1, OverHolds
<1>3. /\ v.batches = t.batches \ {batch} /\ v.scope = t.scope /\ v.snapshots = t.snapshots
      /\ v.page = t.page /\ v.order = t.order /\ v.load = t.load /\ v.pageState = t.pageState
      /\ v.request = t.request
  BY <1>1 DEF Over, Tables
<1>4. RowsFailed(t, batch) = u
  BY <1>3 DEF RowsFailed
<1> HIDE DEF v, state
<1>5. /\ u.batches = t.batches \ {batch} /\ u.scope = t.scope /\ u.snapshots = t.snapshots
      /\ u.page = t.page /\ u.order = t.order /\ u.load = t.load /\ u.pageState = state
      /\ u.request = t.request
  BY <1>1, <1>2, <1>3 DEF TableInv, Tables
<1> HIDE DEF u
<1>6. Shown(u) = Shown(t) /\ HasAny(u) = HasAny(t) /\ OnPage(u) = OnPage(t) /\ Cached(u) = Cached(t)
  BY <1>5 DEF Shown, HasAny, OnPage, Cached, Pages
<1>7. state = "error" \/ (Asked(t) => Asked(u) /\ state = t.pageState)
  BY <1>5, <1>6 DEF Asked, Outdated, state
<1>8. state = "error" \/ state = t.pageState
  BY DEF state
<1>9. Attended(u)
  BY <1>5, <1>6, <1>7, <1>8 DEF Attended
<1> QED BY <1>2, <1>4, <1>9
\* The listeners of the feed.
LEMMA TableRevisionHolds ==
  ASSUME NEW t, NEW data \in 0..MaxData, NEW heard \in Int, TableInv(t, data, heard), Attended(t),
         NEW tuple \in Tuples, heard <= tuple.data
  PROVE  LET u == HandleTableRevision(t, tuple)
         IN  TableInv(u, data, tuple.data) /\ Attended(u)
<1>1. CASE ~ HasAny(t) \/ tuple.data <= Shown(t).revision
  <2>1. Follows(t, tuple.data)
    BY <1>1 DEF TableInv, Follows
  <2> QED BY <1>1, <2>1 DEF TableInv, HandleTableRevision
<1>2. CASE ~ (~ HasAny(t) \/ tuple.data <= Shown(t).revision)
  BY <1>2, InvKeeps, LoadSnapshotHolds DEF HandleTableRevision
<1> QED BY <1>1, <1>2

LEMMA TableErrorHolds ==
  ASSUME NEW t, NEW data, NEW heard, TableInv(t, data, heard)
  PROVE  TableInv(HandleTableError(t), data, heard) /\ Attended(HandleTableError(t))
<1> DEFINE u == HandleTableError(t)
<1>1. /\ u \in Tables /\ u.snapshots = t.snapshots /\ u.retried = t.retried /\ u.request = t.request
      /\ u.load = "error" /\ u.batches = t.batches /\ u.scope = t.scope
  BY DEF TableInv, HandleTableError, Tables
<1> HIDE DEF u
<1>2. RowsFit(u) /\ Dated(u, data) /\ Follows(u, heard)
  BY <1>1 DEF TableInv, RowsFit, Dated, Follows
<1> QED BY <1>1, <1>2 DEF TableInv, Attended, u

\* The user turns the page, sorts the rows, and selects another scope.
LEMMA GoToPageHolds ==
  ASSUME NEW t, NEW data, NEW heard, TableInv(t, data, heard), NEW wanted \in Nat \ {0}, wanted # t.page
  PROVE  LET u == GoToPage(t, wanted)
         IN  TableInv(u, data, heard) /\ Shape(t) # Shape(u)
<1> DEFINE u == GoToPage(t, wanted)
<1>1. /\ u \in Tables /\ u.snapshots = t.snapshots /\ u.retried = t.retried /\ u.request = t.request
      /\ u.load = t.load /\ u.batches = t.batches /\ u.scope = t.scope /\ u.page = wanted
  BY DEF TableInv, GoToPage, Tables
<1> HIDE DEF u
<1>2. RowsFit(u) /\ Dated(u, data) /\ Follows(u, heard)
  BY <1>1 DEF TableInv, RowsFit, Dated, Follows, HasAny, Shown
<1> QED BY <1>1, <1>2 DEF TableInv, Shape, u

LEMMA SelectSortHolds ==
  ASSUME NEW t, NEW data, NEW heard, TableInv(t, data, heard)
  PROVE  LET u == SelectSort(t)
         IN  TableInv(u, data, heard) /\ Shape(t) # Shape(u)
<1> DEFINE u == SelectSort(t)
           order == IF t.order = "desc" THEN "asc" ELSE "desc"
<1>1. u = [t EXCEPT !.order = order] /\ order \in Orders /\ order # t.order
  BY TableFields DEF TableInv, SelectSort, Orders, Tables
<1> HIDE DEF u, order
<1>2. /\ u \in Tables /\ u.snapshots = t.snapshots /\ u.retried = t.retried /\ u.request = t.request
      /\ u.load = t.load /\ u.batches = t.batches /\ u.scope = t.scope /\ u.order = order
  BY <1>1 DEF TableInv, Tables
<1>3. RowsFit(u) /\ Dated(u, data) /\ Follows(u, heard)
  BY <1>2 DEF TableInv, RowsFit, Dated, Follows, HasAny, Shown
<1> QED BY <1>1, <1>2, <1>3 DEF TableInv, Shape, u

LEMMA SelectScopeHolds ==
  ASSUME NEW t, NEW data, NEW heard, TableInv(t, data, heard), NEW scope \in Scopes
  PROVE  LET u == SelectTableScope(t, scope)
         IN  TableInv(u, data, heard) /\ Attended(u) /\ u.scope = scope /\ u.snapshots = t.snapshots
<1> DEFINE v == [t EXCEPT !.scope = scope, !.page = 1]
<1>0. t \in Tables /\ 1 \in Nat \ {0}
  BY DEF TableInv
<1>1. /\ v \in Tables /\ v.snapshots = t.snapshots /\ v.retried = t.retried /\ v.scope = scope
  BY <1>0 DEF Tables
<1> HIDE DEF v
<1>2. Kept(v, data)
  BY <1>1, InvKeeps DEF Kept
<1> QED BY <1>1, <1>2, LoadSnapshotHolds DEF SelectTableScope, v

------------------------------------------------------------------------------
(* The operations of the drawer. *)

\* An open drawer is about the newest revision it has heard of: it shows that
\* revision, has asked for it, or says that it failed to get it.
DrawerInv(d, data, heard, tableShows) ==
  /\ d \in Drawers
  /\ d.known <= data /\ heard <= d.known /\ tableShows <= d.known
  /\ d.open => d.revision = d.known /\ 1 <= d.known
  /\ d.open /\ d.request = NoAsk => d.failed \/ d.shown = d.known
  /\ d.request # NoAsk =>
       /\ d.open /\ d.request.wanted = d.known
       /\ d.request.answer \in {Waiting, Failure, d.known}
  /\ d.load \in {"loading", "refreshing"} => d.request # NoAsk
  /\ d.open <=> d.load # "closed"

LEMMA LoadDetailHolds ==
  ASSUME NEW d \in Drawers, NEW data, NEW heard, NEW tableShows,
         1 <= d.known, d.known <= data, heard <= d.known, tableShows <= d.known,
         NEW session \in Int, NEW bypass \in BOOLEAN
  PROVE  /\ DrawerInv(LoadDetail(d, session, d.known, bypass), data, heard, tableShows)
         /\ LoadDetail(d, session, d.known, bypass).scope = d.scope
<1> DEFINE u == LoadDetail(d, session, d.known, bypass)
           cached == ~bypass /\ Key(d, session, d.known) \in d.cache
           same   == d.session = session
           shown  == IF cached THEN d.known ELSE IF same THEN d.shown ELSE NoDetail
           load   == IF cached THEN "ready"
                     ELSE IF same /\ d.shown # NoDetail THEN "refreshing" ELSE "loading"
           r      == [session |-> session, wanted |-> d.known, answer |-> Waiting]
           request == IF cached THEN NoAsk ELSE r
           revision == IF d.known > 0 THEN d.known ELSE d.revision
<1>1. d.known \in Nat /\ d.shown \in Nat
  BY DEF Drawers
<1>2. u = [d EXCEPT !.open = TRUE, !.session = session, !.revision = revision, !.shown = shown,
                    !.load = load, !.failed = FALSE, !.request = request]
  BY DEF LoadDetail
<1>3. r \in DetailRequests /\ r # NoAsk /\ r.wanted = d.known /\ r.answer = Waiting
  BY <1>1, ViewAssumption DEF DetailRequests
<1>4. shown \in Nat /\ load \in {"loading", "refreshing", "ready"}
      /\ request \in {NoAsk} \union DetailRequests
      /\ (request # NoAsk => request.wanted = d.known /\ request.answer = Waiting)
      /\ (request = NoAsk => shown = d.known)
      /\ (load \in {"loading", "refreshing"} => request # NoAsk)
      /\ revision = d.known
  BY <1>1, <1>3 DEF NoDetail
<1> HIDE DEF u, shown, load, r, request, revision
<1>5. u \in Drawers /\ u.open = TRUE /\ u.revision = d.known /\ u.shown = shown /\ u.load = load
      /\ u.request = request /\ u.known = d.known /\ u.failed = FALSE /\ u.scope = d.scope
  BY <1>1, <1>2, <1>4 DEF Drawers
<1> QED BY <1>4, <1>5 DEF DrawerInv, u

\* Another tuple is heard of.
LEMMA DetailRevisionHolds ==
  ASSUME NEW d, NEW data \in Nat, NEW heard \in Int, NEW tableShows \in Nat,
         DrawerInv(d, data, heard, tableShows),
         NEW tuple \in Tuples, tuple.data <= data
  PROVE  DrawerInv(HandleDetailRevision(d, tuple), data, tuple.data, tableShows)
<1> DEFINE v == [d EXCEPT !.known = tuple.data, !.cache = {}]
<1>1. d \in Drawers /\ d.known \in Nat /\ d.session \in Int /\ tuple.data \in Nat
  BY FeedAssumption DEF DrawerInv, Drawers, Tuples
<1>2. CASE tuple.data <= d.known
  BY <1>2 DEF DrawerInv, HandleDetailRevision
<1>3. CASE ~ (tuple.data <= d.known)
  <2>1. v \in Drawers /\ v.known = tuple.data /\ v.open = d.open
    BY <1>1 DEF Drawers
  <2>2. tableShows <= tuple.data /\ 1 <= tuple.data
    BY <1>1, <1>3 DEF DrawerInv
  <2>3. CASE d.open
    <3>1. HandleDetailRevision(d, tuple) = LoadDetail(v, d.session, tuple.data, TRUE)
      BY <1>3, <2>3 DEF HandleDetailRevision
    <3> HIDE DEF v
    <3>2. /\ v \in Drawers /\ 1 <= v.known /\ v.known <= data /\ tuple.data <= v.known
          /\ tableShows <= v.known /\ d.session \in Int /\ TRUE \in BOOLEAN
      BY <1>1, <2>1, <2>2
    <3>3. DrawerInv(LoadDetail(v, d.session, v.known, TRUE), data, tuple.data, tableShows)
      BY <3>2, LoadDetailHolds, Zenon
    <3> QED BY <2>1, <3>1, <3>3
  <2>4. CASE ~ d.open
    <3> DEFINE u == [v EXCEPT !.revision = tuple.data]
    <3>1. HandleDetailRevision(d, tuple) = u
      BY <1>3, <2>4 DEF HandleDetailRevision
    <3>2. /\ u \in Drawers /\ u.known = tuple.data /\ u.open = d.open /\ u.request = d.request
          /\ u.load = d.load
      BY <1>1 DEF Drawers
    <3> HIDE DEF u
    <3> QED BY <1>1, <2>2, <2>4, <3>1, <3>2 DEF DrawerInv
  <2> QED BY <2>3, <2>4
<1> QED BY <1>2, <1>3

\* The table is rendered with another snapshot, or with the one it had.
LEMMA DetailRenderedHolds ==
  ASSUME NEW d, NEW data \in Nat, NEW heard \in Int, NEW before \in Nat, NEW now \in Nat,
         NEW scope \in Scopes, DrawerInv(d, data, heard, before), now <= data
  PROVE  /\ DrawerInv(DetailRendered(d, scope, before, now, heard), data, heard, now)
         /\ DetailRendered(d, scope, before, now, heard).scope = scope
<1> DEFINE supplied == IF now > 0 THEN now ELSE Larger(heard, 0)
           known    == Larger(d.known, supplied)
           rendered == [d EXCEPT !.scope = scope, !.known = known]
           renewed  == now # before /\ now > 0
           v        == [rendered EXCEPT !.known = now, !.cache = {}]
<1>1. d \in Drawers /\ d.known \in Nat /\ d.session \in Int /\ d.revision \in Nat
      /\ d.known <= data /\ heard <= d.known /\ before <= d.known
  BY DEF DrawerInv, Drawers
<1>2. CASE renewed /\ d.open /\ now > d.revision
  <2>1. DetailRendered(d, scope, before, now, heard) = LoadDetail(v, d.session, now, TRUE)
    BY <1>2 DEF DetailRendered
  <2>2. v \in Drawers /\ v.known = now /\ v.scope = scope
    BY <1>1 DEF Drawers, Larger
  <2>3. 1 <= now /\ heard <= now
    BY <1>1, <1>2 DEF DrawerInv
  <2> HIDE DEF v
  <2>4. /\ v \in Drawers /\ 1 <= v.known /\ v.known <= data /\ heard <= v.known
        /\ now <= v.known /\ d.session \in Int /\ TRUE \in BOOLEAN
    BY <1>1, <2>2, <2>3
  <2>5. /\ DrawerInv(LoadDetail(v, d.session, v.known, TRUE), data, heard, now)
        /\ LoadDetail(v, d.session, v.known, TRUE).scope = v.scope
    BY <2>4, LoadDetailHolds, Zenon
  <2> QED BY <2>1, <2>2, <2>5
<1>3. CASE ~ (renewed /\ d.open /\ now > d.revision)
  <2>1. DetailRendered(d, scope, before, now, heard) = rendered
    BY <1>3 DEF DetailRendered
  <2>2. known \in Nat /\ d.known <= known /\ known <= data /\ now <= known
    BY <1>1 DEF Larger
  <2>3. d.open => known = d.known
    BY <1>1, <1>3 DEF DrawerInv, Larger
  <2>4. d.request # NoAsk => d.open
    BY DEF DrawerInv
  <2> HIDE DEF known
  <2>5. /\ rendered \in Drawers /\ rendered.known = known /\ rendered.open = d.open
        /\ rendered.request = d.request /\ rendered.load = d.load /\ rendered.shown = d.shown
        /\ rendered.failed = d.failed /\ rendered.revision = d.revision /\ rendered.scope = scope
    BY <1>1, <2>2 DEF Drawers
  <2> HIDE DEF rendered
  <2> QED BY <1>1, <2>1, <2>2, <2>3, <2>4, <2>5 DEF DrawerInv
<1> QED BY <1>2, <1>3

\* A detail arrives, is refused, or fails.
LEMMA DetailLoadedHolds ==
  ASSUME NEW d, NEW data \in Nat, NEW heard, NEW tableShows, DrawerInv(d, data, heard, tableShows),
         d.request # NoAsk, d.request.answer \notin {Waiting, Failure}
  PROVE  DrawerInv(DetailLoaded(d), data, heard, tableShows)
<1> DEFINE u == DetailLoaded(d)
           cache == {c \in d.cache : c.revision >= d.known}
                      \union {Key(d, d.session, d.known)}
<1>1. d \in Drawers /\ d.known \in Nat /\ d.request.answer = d.known /\ d.open
  BY DEF DrawerInv, Drawers
<1>2. u = [d EXCEPT !.request = NoAsk, !.shown = d.known, !.revision = d.known, !.load = "ready",
                    !.failed = FALSE, !.cache = cache]
  <2>1. ~ (d.known > 0 /\ d.known < d.known) /\ ~ (d.known > 0 /\ d.known > d.known)
    BY <1>1
  <2> QED BY <1>1, <2>1, Zenon DEF DetailLoaded
<1>3. cache \subseteq Details
  BY <1>1 DEF Drawers, Details, Key
<1> HIDE DEF u, cache
<1>4. u \in Drawers /\ u.open = d.open /\ u.known = d.known /\ u.request = NoAsk
      /\ u.shown = d.known /\ u.revision = d.known /\ u.load = "ready"
  BY <1>1, <1>2, <1>3 DEF Drawers
<1> QED BY <1>1, <1>4 DEF DrawerInv, u

LEMMA DetailFailedHolds ==
  ASSUME NEW d, NEW data, NEW heard, NEW tableShows, DrawerInv(d, data, heard, tableShows),
         d.request # NoAsk
  PROVE  /\ DrawerInv(DetailFailed(d), data, heard, tableShows)
         /\ DrawerInv(DetailStale(d), data, heard, tableShows)
<1> DEFINE u == DetailFailed(d)
<1>1. d \in Drawers /\ d.known \in Nat /\ d.request.wanted = d.known /\ d.open
  BY DEF DrawerInv, Drawers
<1>2. /\ u \in Drawers /\ u.open = d.open /\ u.known = d.known /\ u.request = NoAsk
      /\ u.failed = TRUE /\ u.revision = d.revision /\ u.load \in {"ready", "error"}
  BY <1>1 DEF DetailFailed, Drawers
<1>3. DetailStale(d) = u
  <2>1. ~ (d.known > d.request.wanted)
    BY <1>1
  <2> QED BY <2>1, Zenon DEF DetailStale
<1> HIDE DEF u
<1> QED BY <1>1, <1>2, <1>3 DEF DrawerInv, u

LEMMA CloseDetailHolds ==
  ASSUME NEW d, NEW data, NEW heard, NEW tableShows, DrawerInv(d, data, heard, tableShows)
  PROVE  DrawerInv(CloseDetail(d), data, heard, tableShows) /\ CloseDetail(d).scope = d.scope
<1> DEFINE u == CloseDetail(d)
           known == d.known
<1>0. d \in Drawers /\ known \in Nat /\ NoSession \in Int /\ NoDetail \in Nat
  BY DEF DrawerInv, Drawers, NoSession, NoDetail
<1>1. u = [d EXCEPT !.open = FALSE, !.session = NoSession, !.shown = NoDetail, !.load = "closed",
                    !.revision = known, !.failed = FALSE, !.request = NoAsk]
  BY DEF CloseDetail
<1> HIDE DEF known, u
<1>2. u \in Drawers
  BY <1>0, <1>1 DEF Drawers
<1>3. ~ u.open /\ u.known = d.known /\ u.request = NoAsk /\ u.load = "closed" /\ u.scope = d.scope
  BY <1>0, <1>1 DEF Drawers, known
<1> QED BY <1>2, <1>3 DEF DrawerInv, u
------------------------------------------------------------------------------
(* The server and the feed. *)

\* What the stream carries is not newer than the ledger.
Old(pipe) == \A i \in DOMAIN pipe : pipe[i].data <= ledger.data

\* Nothing that is on its way to the feed, or that it has taken, is newer either.
FeedInv ==
  /\ LiveTypeOK /\ 1 <= ledger.data
  /\ feed.tuple.data <= ledger.data
  /\ feed.asked \in Tuples => feed.asked.data <= ledger.data
  /\ Old(stream.pipe)

LEMMA FeedTypes ==
  ASSUME FeedInv
  PROVE  /\ ledger \in Tuples /\ ledger.data \in Nat /\ ledger.data \in 0..MaxData
         /\ feed.tuple.data \in Int
         /\ stream.pipe \in Seq(Tuples) /\ Len(stream.pipe) \in Nat
BY LenProperties, FeedAssumption DEF FeedInv, LiveTypeOK, Tuples, NoTuple

LEMMA HeadIsOld ==
  ASSUME NEW pipe \in Seq(Tuples), pipe # << >>, Old(pipe)
  PROVE  /\ Head(pipe) \in Tuples /\ Head(pipe).data <= ledger.data
         /\ Tail(pipe) \in Seq(Tuples) /\ Len(Tail(pipe)) = Len(pipe) - 1 /\ Old(Tail(pipe))
<1>1. /\ Len(pipe) \in Nat \ {0} /\ DOMAIN pipe = 1..Len(pipe) /\ Head(pipe) = pipe[1]
      /\ Head(pipe) \in Tuples
  BY EmptySeq, LenProperties, HeadTailProperties
<1>2. /\ Tail(pipe) \in Seq(Tuples) /\ Len(Tail(pipe)) = Len(pipe) - 1
      /\ \A i \in 1..Len(Tail(pipe)) : Tail(pipe)[i] = pipe[i + 1]
  BY HeadTailProperties
<1>3. DOMAIN Tail(pipe) = 1..(Len(pipe) - 1)
  BY <1>2, LenProperties
<1>4. ASSUME NEW i \in DOMAIN Tail(pipe)
      PROVE  Tail(pipe)[i].data <= ledger.data
  BY <1>1, <1>2, <1>3, <1>4 DEF Old
<1> QED BY <1>1, <1>2, <1>4 DEF Old

LEMMA AppendIsOld ==
  ASSUME NEW pipe \in Seq(Tuples), Old(pipe), ledger \in Tuples
  PROVE  /\ Append(pipe, ledger) \in Seq(Tuples) /\ Len(Append(pipe, ledger)) = Len(pipe) + 1
         /\ Old(Append(pipe, ledger))
<1> DEFINE more == Append(pipe, ledger)
<1>1. /\ more \in Seq(Tuples) /\ Len(more) = Len(pipe) + 1 /\ Len(pipe) \in Nat
      /\ \A i \in 1..Len(pipe) : more[i] = pipe[i]
      /\ more[Len(pipe) + 1] = ledger
  BY AppendProperties, LenProperties
<1>2. DOMAIN more = 1..(Len(pipe) + 1) /\ DOMAIN pipe = 1..Len(pipe)
  BY <1>1, LenProperties
<1>3. ledger.data <= ledger.data
  BY FeedAssumption DEF Tuples
<1> HIDE DEF more
<1>4. ASSUME NEW i \in DOMAIN more
      PROVE  more[i].data <= ledger.data
  <2>1. i \in 1..Len(pipe) \/ i = Len(pipe) + 1
    BY <1>1, <1>2
  <2> QED BY <1>1, <1>2, <1>3, <2>1 DEF Old
<1> QED BY <1>1, <1>4 DEF Old, more

\* The ledger stays, and what is under way is still in order.
FeedFields == [tuple : Tuples \union {NoTuple}, polling : BOOLEAN, asked : Tuples \union {NoAsk, Waiting}]

InOrder ==
  /\ stream' \in [up : BOOLEAN, seen : Tuples \union {NoTuple}, pipe : Seq(Tuples)]
  /\ Len(stream'.pipe) <= MaxPipe /\ Old(stream'.pipe)
  /\ feed' \in FeedFields
  /\ feed'.asked \in Tuples => feed'.asked.data <= ledger.data
  /\ feed'.tuple.data <= ledger.data
  /\ ledger' = ledger /\ breaks' \in 0..MaxBreaks

LEMMA OrderHolds ==
  ASSUME FeedInv, InOrder
  PROVE  FeedInv'
BY DEF FeedInv, InOrder, FeedFields, Old, LiveTypeOK

LEMMA FeedMovesHolds ==
  ASSUME FeedInv, Emit \/ AnswerRevision \/ Reconnect \/ Broken \/ PollTick
  PROVE  InOrder /\ feed'.tuple = feed.tuple
<1>1. /\ stream.pipe \in Seq(Tuples) /\ Old(stream.pipe) /\ ledger \in Tuples
      /\ Len(stream.pipe) \in Nat /\ ledger.data <= ledger.data /\ Len(stream.pipe) <= MaxPipe
      /\ feed.tuple.data <= ledger.data
      /\ stream \in [up : BOOLEAN, seen : Tuples \union {NoTuple}, pipe : Seq(Tuples)]
      /\ feed \in FeedFields /\ breaks \in 0..MaxBreaks
  BY FeedTypes DEF FeedInv, LiveTypeOK, FeedFields
<1>2. /\ feed.asked \in Tuples => feed.asked.data <= ledger.data
      /\ Waiting \notin Tuples /\ NoAsk \notin Tuples
  BY FeedAssumption DEF FeedInv, Tuples
<1>3. CASE Emit
  <2> DEFINE pipe == Append(stream.pipe, ledger)
  <2>1. pipe \in Seq(Tuples) /\ Len(pipe) = Len(stream.pipe) + 1 /\ Old(pipe)
    BY <1>1, AppendIsOld
  <2>2. Len(pipe) <= MaxPipe
    BY <1>1, <1>3, <2>1, FeedAssumption DEF Emit
  <2>3. stream' = [stream EXCEPT !.seen = ledger, !.pipe = pipe] /\ UNCHANGED <<ledger, feed, breaks>>
    BY <1>3 DEF Emit
  <2> HIDE DEF pipe
  <2>4. /\ stream' \in [up : BOOLEAN, seen : Tuples \union {NoTuple}, pipe : Seq(Tuples)]
        /\ stream'.pipe = pipe
    BY <1>1, <2>1, <2>3
  <2> QED BY <1>1, <1>2, <2>1, <2>2, <2>3, <2>4 DEF InOrder
<1>4. CASE AnswerRevision
  BY <1>1, <1>2, <1>4 DEF AnswerRevision, InOrder, FeedFields
<1>5. CASE Reconnect
  <2> DEFINE pipe == << ledger >>
  <2>1. /\ pipe \in Seq(Tuples) /\ Len(pipe) = 1 /\ DOMAIN pipe = {1} /\ pipe[1] = ledger
    BY <1>1
  <2>2. Len(pipe) <= MaxPipe /\ Old(pipe)
    BY <1>1, <2>1, FeedAssumption DEF Old
  <2>3. stream' = [up |-> TRUE, seen |-> ledger, pipe |-> pipe] /\ UNCHANGED <<ledger, feed, breaks>>
    BY <1>5 DEF Reconnect
  <2> HIDE DEF pipe
  <2> QED BY <1>1, <1>2, <2>1, <2>2, <2>3 DEF InOrder
<1>6. CASE Broken
  <2>1. << >> \in Seq(Tuples) /\ Len(<< >>) = 0 /\ Old(<< >>)
    BY EmptySeq DEF Old
  <2>2. breaks' \in 0..MaxBreaks /\ ledger' = ledger
    BY <1>6, <1>1, FeedAssumption DEF Broken
  <2>3. /\ stream' \in [up : BOOLEAN, seen : Tuples \union {NoTuple}, pipe : Seq(Tuples)]
        /\ stream'.pipe = << >>
    BY <1>1, <1>6, <2>1 DEF Broken
  <2>4. feed' \in FeedFields /\ feed'.asked = feed.asked /\ feed'.tuple = feed.tuple
    BY <1>1, <1>6 DEF Broken, FeedFields
  <2>5. 0 <= MaxPipe
    BY FeedAssumption
  <2> QED BY <1>1, <1>2, <2>1, <2>2, <2>3, <2>4, <2>5 DEF InOrder
<1>7. CASE PollTick
  BY <1>1, <1>2, <1>7 DEF PollTick, Ask, InOrder, FeedFields
<1> QED BY <1>3, <1>4, <1>5, <1>6, <1>7

\* The feed takes a tuple, which is not newer than the ledger and, if it is accepted,
\* not older than the one before.
LEMMA TakesHold ==
  ASSUME FeedInv, NEW tuple,
         \/ TakeEvent /\ tuple = Head(stream.pipe)
         \/ TakeAnswer /\ tuple = feed.asked
  PROVE  /\ InOrder /\ tuple \in Tuples /\ tuple.data <= ledger.data
         /\ Accepts(tuple) => feed'.tuple = tuple /\ feed.tuple.data <= tuple.data
         /\ ~ Accepts(tuple) => feed'.tuple = feed.tuple
<1>1. /\ stream.pipe \in Seq(Tuples) /\ Old(stream.pipe) /\ ledger \in Tuples
      /\ Len(stream.pipe) \in Nat /\ Len(stream.pipe) <= MaxPipe
      /\ feed.tuple.data <= ledger.data
      /\ stream \in [up : BOOLEAN, seen : Tuples \union {NoTuple}, pipe : Seq(Tuples)]
      /\ feed \in FeedFields /\ breaks \in 0..MaxBreaks
  BY FeedTypes DEF FeedInv, LiveTypeOK, FeedFields
<1>2. /\ feed.asked \in Tuples => feed.asked.data <= ledger.data
      /\ NoAsk \notin Tuples /\ feed.tuple.data \in Int
  BY FeedAssumption, FeedTypes DEF FeedInv, Tuples
<1>3. ASSUME tuple \in Tuples, Accepts(tuple)
      PROVE  feed.tuple.data <= tuple.data
  BY <1>2, <1>3, FeedAssumption DEF Accepts, Behind, Tuples
<1>4. CASE TakeEvent /\ tuple = Head(stream.pipe)
  <2> DEFINE pipe == Tail(stream.pipe)
  <2>1. /\ tuple \in Tuples /\ tuple.data <= ledger.data
        /\ pipe \in Seq(Tuples) /\ Len(pipe) = Len(stream.pipe) - 1 /\ Old(pipe)
    BY <1>1, <1>4, HeadIsOld DEF TakeEvent
  <2>2. Len(pipe) <= MaxPipe
    BY <1>1, <2>1, FeedAssumption
  <2>3. stream' = [stream EXCEPT !.pipe = pipe] /\ feed' = AfterEvent(tuple) /\ UNCHANGED <<ledger, breaks>>
    BY <1>4 DEF TakeEvent
  <2> HIDE DEF pipe
  <2>4. /\ stream' \in [up : BOOLEAN, seen : Tuples \union {NoTuple}, pipe : Seq(Tuples)]
        /\ stream'.pipe = pipe
    BY <1>1, <2>1, <2>3
  <2>5. /\ feed' \in FeedFields /\ feed'.asked = feed.asked
        /\ feed'.tuple = IF Accepts(tuple) THEN tuple ELSE feed.tuple
    BY <1>1, <2>1, <2>3 DEF AfterEvent, FeedFields
  <2>6. InOrder
    BY <1>1, <1>2, <2>1, <2>2, <2>3, <2>4, <2>5 DEF InOrder
  <2> QED BY <1>3, <2>1, <2>5, <2>6
<1>5. CASE TakeAnswer /\ tuple = feed.asked
  <2>1. tuple \in Tuples /\ tuple.data <= ledger.data
    BY <1>2, <1>5 DEF TakeAnswer
  <2>2. /\ feed' \in FeedFields /\ feed'.asked = NoAsk
        /\ feed'.tuple = IF Accepts(tuple) THEN tuple ELSE feed.tuple
    BY <1>1, <1>5, <2>1 DEF TakeAnswer, AfterAnswer, FeedFields
  <2>3. InOrder
    BY <1>1, <1>2, <1>5, <2>1, <2>2 DEF TakeAnswer, InOrder
  <2> QED BY <1>3, <2>1, <2>2, <2>3
<1> QED BY <1>4, <1>5

LEMMA AskFailsHolds ==
  ASSUME FeedInv, AskFails
  PROVE  InOrder /\ feed'.tuple = feed.tuple
<1>1. /\ stream.pipe \in Seq(Tuples) /\ Old(stream.pipe) /\ Len(stream.pipe) <= MaxPipe
      /\ stream \in [up : BOOLEAN, seen : Tuples \union {NoTuple}, pipe : Seq(Tuples)]
      /\ feed \in FeedFields /\ breaks \in 0..MaxBreaks /\ feed.tuple.data <= ledger.data
      /\ NoAsk \notin Tuples
  BY FeedAssumption DEF FeedInv, LiveTypeOK, FeedFields, Tuples
<1>2. breaks' \in 0..MaxBreaks
  BY <1>1, FeedAssumption DEF AskFails
<1> QED BY <1>1, <1>2 DEF AskFails, InOrder, FeedFields
------------------------------------------------------------------------------
(* The steps. *)

\* The table and the drawer, next to a ledger and a feed.
PageInv(t, d, data, heard) ==
  /\ TableInv(t, data, heard) /\ Attended(t)
  /\ DrawerInv(d, data, heard, Shown(t).revision) /\ d.scope = t.scope

ViewInv ==
  /\ FeedInv /\ PageInv(table, drawer, ledger.data, feed.tuple.data)
  /\ clicks \in 0..MaxClicks

LEMMA ShownBound ==
  ASSUME NEW t, NEW data, NEW heard, TableInv(t, data, heard)
  PROVE  Shown(t).revision \in Nat /\ Shown(t).revision <= data /\ t \in Tables
BY TableFields DEF TableInv, Dated, Shown

\* A commit of the page, with the effects it triggers.
LEMMA RenderedHolds ==
  ASSUME ViewInv, NEW next, NEW d, NEW heard \in Int, Rendered(next, d, heard),
         TableInv(next, ledger.data, heard), Shape(table) = Shape(next) => Attended(next),
         DrawerInv(d, ledger.data, heard, Shown(table).revision)
  PROVE  PageInv(table', drawer', ledger.data, heard)
<1>1. ledger.data \in 0..MaxData /\ ledger.data \in Nat
  BY FeedTypes DEF ViewInv
<1> DEFINE t == AfterCommit(table, next)
<1>2. TableInv(t, ledger.data, heard) /\ Attended(t)
  BY <1>1, AfterCommitHolds
<1>3. table' = t /\ drawer' = DetailRendered(d, t.scope, Shown(table).revision, Shown(t).revision, heard)
  BY DEF Rendered
<1>4. Shown(table).revision \in Nat
  BY ShownBound DEF ViewInv, PageInv
<1> HIDE DEF t
<1>5. Shown(t).revision \in Nat /\ Shown(t).revision <= ledger.data /\ t.scope \in Scopes
  BY <1>2, ShownBound DEF Tables
<1>6. DrawerInv(drawer', ledger.data, heard, Shown(t).revision) /\ drawer'.scope = t.scope
  BY <1>1, <1>3, <1>4, <1>5, DetailRenderedHolds
<1> QED BY <1>2, <1>3, <1>6 DEF PageInv

\* The pieces of ViewInv the steps start from.
LEMMA ViewFacts ==
  ASSUME ViewInv
  PROVE  /\ ledger.data \in 0..MaxData /\ ledger.data \in Nat /\ feed.tuple.data \in Int
         /\ feed.tuple.data <= ledger.data
         /\ TableInv(table, ledger.data, feed.tuple.data) /\ Attended(table) /\ table \in Tables
         /\ Kept(table, ledger.data)
         /\ DrawerInv(drawer, ledger.data, feed.tuple.data, Shown(table).revision)
         /\ drawer.scope = table.scope
BY FeedTypes, InvKeeps DEF ViewInv, PageInv, FeedInv, TableInv

LEMMA CommitHolds ==
  ASSUME ViewInv, Commit
  PROVE  ViewInv'
<1> DEFINE new == ledger.data + 1
<1>1. /\ ledger \in Tuples /\ ledger.data \in Nat /\ ledger.status \in Nat /\ ledger.data < MaxData
  BY FeedTypes DEF ViewInv, Commit, Tuples
<1>2. [ledger EXCEPT !.data = @ + 1] = [data |-> new, status |-> ledger.status]
  BY <1>1 DEF Tuples
<1>3. ledger' = [data |-> new, status |-> ledger.status] /\ UNCHANGED <<stream, feed, breaks, table, drawer, clicks>>
  BY <1>1, <1>2 DEF Commit, Published, Larger
<1>4. ledger' \in Tuples /\ ledger'.data = new /\ ledger.data <= new /\ new \in Nat
  BY <1>1, <1>3, FeedAssumption DEF Tuples
<1> HIDE DEF new
<1>5. FeedInv'
  <2>1. Old(stream.pipe)'
    <3>1. stream.pipe \in Seq(Tuples) /\ Old(stream.pipe)
      BY FeedTypes DEF ViewInv, FeedInv
    <3>2. \A i \in DOMAIN stream.pipe : stream.pipe[i].data \in Nat /\ stream.pipe[i].data <= ledger.data
      <4>1. \A i \in DOMAIN stream.pipe : stream.pipe[i] \in Tuples
        BY <3>1, LenProperties, ElementOfSeq
      <4> QED BY <3>1, <4>1 DEF Old, Tuples
    <3> QED BY <1>1, <1>3, <1>4, <3>2 DEF Old
  <2>2. LiveTypeOK'
    BY <1>3, <1>4 DEF ViewInv, FeedInv, LiveTypeOK
  <2>3. feed.asked \in Tuples => feed.asked.data \in Nat
    BY DEF Tuples
  <2>4. feed.tuple.data \in Int
    BY FeedTypes DEF ViewInv
  <2> QED BY <1>1, <1>3, <1>4, <2>1, <2>2, <2>3, <2>4 DEF ViewInv, FeedInv
<1>6. PageInv(table, drawer, new, feed.tuple.data)
  <2>1. TableInv(table, ledger.data, feed.tuple.data) /\ table \in Tables
    BY ViewFacts
  <2>2. Dated(table, new)
    <3>1. \A s \in Scopes : table.snapshots[s].revision \in Nat /\ table.retried[s] \in Nat
      BY <2>1, TableFields DEF Snapshots
    <3>2. table.request # NoAsk =>
            /\ table.request.previous.revision \in Nat
            /\ table.request.answer # Waiting => table.request.answer.revision \in Nat
      BY <2>1, TableFields DEF TableRequests, Snapshots
    <3> QED BY <1>1, <1>4, <2>1, <3>1, <3>2 DEF TableInv, Dated
  <2>3. drawer.known \in Nat
    BY ViewFacts DEF DrawerInv, Drawers
  <2>4. DrawerInv(drawer, new, feed.tuple.data, Shown(table).revision)
    BY <1>1, <1>4, <2>3, ViewFacts DEF DrawerInv
  <2> QED BY <2>1, <2>2, <2>4, ViewFacts DEF PageInv, TableInv
<1> QED BY <1>3, <1>4, <1>5, <1>6 DEF ViewInv

\* An action of the page that leaves the ledger and the feed alone.
LEMMA PageStepHolds ==
  ASSUME ViewInv, UNCHANGED <<ledger, stream, feed>>, breaks' \in 0..MaxBreaks, clicks' \in 0..MaxClicks,
         PageInv(table', drawer', ledger.data, feed.tuple.data)
  PROVE  ViewInv'
BY DEF ViewInv, FeedInv, LiveTypeOK, Old

LEMMA AnswerSnapshotHolds ==
  ASSUME ViewInv, AnswerSnapshot
  PROVE  PageInv(table', drawer, ledger.data, feed.tuple.data)
<1> DEFINE r == table.request
           rows == Rows(WindowOf(Sessions[ledger.data], r.order, 0), ledger.data)
           answer == [revision |-> ledger.data, rows |-> rows]
           q == [r EXCEPT !.answer = answer]
<1>1. table \in Tables /\ r \in TableRequests /\ r # NoAsk /\ r.answer = Waiting
      /\ ledger.data \in 0..MaxData /\ ledger.data \in Nat /\ 1 <= ledger.data
  BY ViewFacts, TableFields DEF AnswerSnapshot, ViewInv, FeedInv
<1>2. table' = [table EXCEPT !.request = q]
  BY <1>1 DEF AnswerSnapshot, SnapshotAnswer, Tables
<1>3. answer \in Snapshots /\ Whole(answer) /\ answer.revision = ledger.data
  <2>1. WindowOf(Sessions[ledger.data], r.order, 0) \subseteq Int
    BY <1>1, TableAssumption, WindowType DEF TableRequests
  <2>2. rows \subseteq TableRows /\ \A row \in rows : row.revision = ledger.data
    BY <1>1, <2>1 DEF Rows, TableRows
  <2> HIDE DEF rows
  <2> QED BY <1>1, <2>2 DEF Snapshots, Whole
<1> HIDE DEF answer
<1>4. q \in TableRequests /\ q.answer = answer /\ q.previous = r.previous /\ q # NoAsk
  BY <1>1, <1>3, ViewAssumption DEF TableRequests
<1> HIDE DEF q
<1>5. PICK t \in Tables : /\ table' = t /\ t.request = q
        /\ t.scope = table.scope /\ t.snapshots = table.snapshots /\ t.page = table.page
        /\ t.order = table.order /\ t.load = table.load /\ t.pageState = table.pageState
        /\ t.retried = table.retried /\ t.batches = table.batches
  BY <1>1, <1>2, <1>4 DEF Tables
<1>6. RowsFit(t)
  BY <1>1, <1>3, <1>4, <1>5, ViewFacts DEF RowsFit, TableInv
<1>7. Dated(t, ledger.data)
  <2>1. table.retried[table.scope] <= ledger.data
    BY <1>1, ViewFacts, TableFields DEF TableInv, Dated
  <2> QED BY <1>1, <1>3, <1>4, <1>5, <2>1, ViewFacts DEF Dated, TableInv
<1>8. Follows(t, feed.tuple.data) /\ Attended(t) /\ Shown(t) = Shown(table)
  BY <1>1, <1>4, <1>5, ViewFacts DEF Follows, TableInv, HasAny, Shown, Attended
<1> QED BY <1>5, <1>6, <1>7, <1>8, ViewFacts DEF PageInv, TableInv

LEMMA AnswerRowsHolds ==
  ASSUME ViewInv, AnswerRows
  PROVE  PageInv(table', drawer, ledger.data, feed.tuple.data)
<1>1. PICK batch \in table.batches :
        table' = [table EXCEPT !.batches =
                    (table.batches \ {batch}) \union {[batch EXCEPT !.answer = RowsAnswer(batch)]}]
  BY DEF AnswerRows
<1> DEFINE b == [batch EXCEPT !.answer = RowsAnswer(batch)]
           batches == (table.batches \ {batch}) \union {b}
<1>2. table \in Tables /\ batch \in Batches /\ ledger.data \in Nat
  BY ViewFacts, TableFields
<1>3. /\ RowsAnswer(batch) \in {Failure} \union SUBSET TableRows
      /\ RowsAnswer(batch) # Failure => \A row \in RowsAnswer(batch) : row.revision = batch.revision
  BY <1>2 DEF RowsAnswer, Rows, Batches, TableRows
<1>4. b \in Batches /\ b.answer = RowsAnswer(batch) /\ b.ids = batch.ids /\ b.urgent = batch.urgent
      /\ b.revision = batch.revision
  BY <1>2, <1>3 DEF Batches
<1> HIDE DEF b
<1>5. batches \subseteq Batches
  BY <1>2, <1>4, TableFields
<1>6. table' = [table EXCEPT !.batches = batches]
  BY <1>1 DEF b
<1>7. PICK t \in Tables : /\ table' = t /\ t.request = table.request
        /\ t.scope = table.scope /\ t.snapshots = table.snapshots /\ t.page = table.page
        /\ t.order = table.order /\ t.load = table.load /\ t.pageState = table.pageState
        /\ t.retried = table.retried /\ t.batches = batches
  <2> HIDE DEF batches
  <2> QED BY <1>2, <1>5, <1>6 DEF Tables
<1>8. RowsFit(t)
  BY <1>3, <1>4, <1>7, ViewFacts DEF RowsFit, TableInv
<1>9. Dated(t, ledger.data) /\ Follows(t, feed.tuple.data) /\ Shown(t) = Shown(table)
  BY <1>7, ViewFacts DEF Dated, Follows, TableInv, HasAny, Shown
<1>10. Attended(t)
  <2>1. HasAny(t) = HasAny(table) /\ OnPage(t) = OnPage(table) /\ Cached(t) = Cached(table)
    BY <1>7, <1>9 DEF HasAny, OnPage, Cached, Pages
  <2>2. Asked(table) => Asked(t)
    <3>1. ASSUME NEW c \in table.batches
          PROVE  \E e \in batches : e.ids = c.ids /\ e.urgent = c.urgent /\ e.revision = c.revision
      BY <1>4
    <3> HIDE DEF batches
    <3> QED BY <1>7, <1>9, <2>1, <3>1 DEF Asked
  <2> QED BY <1>7, <2>1, <2>2, ViewFacts DEF Attended
<1> QED BY <1>7, <1>8, <1>9, <1>10, ViewFacts DEF PageInv, TableInv

LEMMA AnswerDetailHolds ==
  ASSUME ViewInv, AnswerDetail
  PROVE  PageInv(table, drawer', ledger.data, feed.tuple.data)
<1> DEFINE r == drawer.request
           answer == DetailAnswer(r.wanted)
           q == [r EXCEPT !.answer = answer]
<1>1. /\ drawer \in Drawers /\ r \in DetailRequests /\ r # NoAsk /\ drawer.known \in Nat
      /\ r.wanted = drawer.known /\ 1 <= drawer.known /\ ledger.data \in Nat
  BY ViewFacts DEF AnswerDetail, DrawerInv, Drawers
<1>2. answer \in {Failure, drawer.known} /\ answer \in {Failure} \union Nat
  BY <1>1 DEF DetailAnswer
<1>3. drawer' = [drawer EXCEPT !.request = q]
  BY <1>1 DEF AnswerDetail, Drawers
<1> HIDE DEF answer
<1>4. q \in DetailRequests /\ q.wanted = r.wanted /\ q.answer = answer /\ q # NoAsk
  BY <1>1, <1>2, ViewAssumption DEF DetailRequests
<1> HIDE DEF q
<1>5. PICK d \in Drawers : /\ drawer' = d /\ d.request = q /\ d.open = drawer.open
        /\ d.known = drawer.known /\ d.revision = drawer.revision /\ d.shown = drawer.shown
        /\ d.failed = drawer.failed /\ d.load = drawer.load /\ d.scope = drawer.scope
  BY <1>1, <1>3, <1>4 DEF Drawers
<1>6. DrawerInv(d, ledger.data, feed.tuple.data, Shown(table).revision)
  BY <1>1, <1>2, <1>4, <1>5, ViewFacts DEF DrawerInv
<1> QED BY <1>5, <1>6, ViewFacts DEF PageInv
\* What arrives.
LEMMA SnapshotArrivesHolds ==
  ASSUME ViewInv, SnapshotArrives
  PROVE  PageInv(table', drawer', ledger.data, feed.tuple.data)
BY ViewFacts, SnapshotLoadedHolds, RenderedHolds DEF SnapshotArrives

LEMMA RowsArriveHolds ==
  ASSUME ViewInv, RowsArrive
  PROVE  PageInv(table', drawer', ledger.data, feed.tuple.data)
<1>1. PICK batch \in table.batches :
        /\ batch.answer # Waiting
        /\ Rendered(IF batch.answer = Failure THEN RowsStale(table, batch)
                    ELSE RowsLoaded(table, batch), drawer, feed.tuple.data)
  BY DEF RowsArrive
<1>2. CASE batch.answer = Failure
  BY <1>1, <1>2, ViewFacts, RowsStaleHolds, RenderedHolds
<1>3. CASE batch.answer # Failure
  BY <1>1, <1>3, ViewFacts, RowsLoadedHolds, RenderedHolds
<1> QED BY <1>2, <1>3

LEMMA DetailArrivesHolds ==
  ASSUME ViewInv, DetailArrives
  PROVE  PageInv(table', drawer', ledger.data, feed.tuple.data)
<1>1. drawer.request # NoAsk /\ drawer.request.answer # Waiting
  BY DEF DetailArrives
<1>2. CASE drawer.request.answer = Failure
  <2>1. Rendered(RetryLoadTable(table), DetailStale(drawer), feed.tuple.data)
    BY <1>2 DEF DetailArrives
  <2>2. TableInv(RetryLoadTable(table), ledger.data, feed.tuple.data) /\ Attended(RetryLoadTable(table))
    BY ViewFacts, LoadSnapshotHolds DEF RetryLoadTable
  <2>3. DrawerInv(DetailStale(drawer), ledger.data, feed.tuple.data, Shown(table).revision)
    BY <1>1, ViewFacts, DetailFailedHolds
  <2> QED BY <2>1, <2>2, <2>3, ViewFacts, RenderedHolds
<1>3. CASE drawer.request.answer # Failure
  <2>1. Rendered(table, DetailLoaded(drawer), feed.tuple.data)
    BY <1>3 DEF DetailArrives
  <2>2. DrawerInv(DetailLoaded(drawer), ledger.data, feed.tuple.data, Shown(table).revision)
    BY <1>1, <1>3, ViewFacts, DetailLoadedHolds
  <2> QED BY <2>1, <2>2, ViewFacts, RenderedHolds
<1> QED BY <1>2, <1>3

LEMMA RequestFailsHolds ==
  ASSUME ViewInv, RequestFails
  PROVE  PageInv(table', drawer', ledger.data, feed.tuple.data)
<1>1. CASE table.request # NoAsk /\ Rendered(SnapshotFailed(table), drawer, feed.tuple.data)
  BY <1>1, ViewFacts, SnapshotFailedHolds, RenderedHolds
<1>2. ASSUME NEW batch \in table.batches, Rendered(RowsFailed(table, batch), drawer, feed.tuple.data)
      PROVE  PageInv(table', drawer', ledger.data, feed.tuple.data)
  BY <1>2, ViewFacts, RowsFailedHolds, RenderedHolds
<1>3. CASE drawer.request # NoAsk /\ Rendered(table, DetailFailed(drawer), feed.tuple.data)
  BY <1>3, ViewFacts, DetailFailedHolds, RenderedHolds
<1> QED BY <1>1, <1>2, <1>3 DEF RequestFails

\* Both listeners, and what is rendered after them.
LEMMA HeardHolds ==
  ASSUME ViewInv, NEW tuple, Heard(tuple),
         \/ TakeEvent /\ tuple = Head(stream.pipe)
         \/ TakeAnswer /\ tuple = feed.asked
  PROVE  /\ FeedInv' /\ ledger' = ledger
         /\ PageInv(table', drawer', ledger.data, feed'.tuple.data)
<1>1. /\ InOrder /\ tuple \in Tuples /\ tuple.data <= ledger.data
      /\ Accepts(tuple) => feed'.tuple = tuple /\ feed.tuple.data <= tuple.data
      /\ ~ Accepts(tuple) => feed'.tuple = feed.tuple
  BY TakesHold DEF ViewInv
<1>2. FeedInv' /\ ledger' = ledger
  BY <1>1, OrderHolds DEF ViewInv, InOrder
<1>3. CASE Accepts(tuple)
  <2> DEFINE next == HandleTableRevision(table, tuple)
             d    == HandleDetailRevision(drawer, tuple)
  <2>1. Rendered(next, d, tuple.data)
    BY <1>3 DEF Heard
  <2>2. tuple.data \in Int
    BY <1>1 DEF Tuples
  <2>3. TableInv(next, ledger.data, tuple.data) /\ Attended(next)
    BY <1>1, <1>3, ViewFacts, TableRevisionHolds
  <2>4. Shown(table).revision \in Nat
    BY ViewFacts, ShownBound
  <2>5. DrawerInv(d, ledger.data, tuple.data, Shown(table).revision)
    BY <1>1, <2>4, ViewFacts, DetailRevisionHolds
  <2> HIDE DEF next, d
  <2>6. PageInv(table', drawer', ledger.data, tuple.data)
    BY <2>1, <2>2, <2>3, <2>5, RenderedHolds
  <2> QED BY <1>1, <1>2, <1>3, <2>6
<1>4. CASE ~ Accepts(tuple)
  BY <1>1, <1>2, <1>4 DEF Heard, ViewInv
<1> QED BY <1>3, <1>4

LEMMA FeedStepHolds ==
  ASSUME ViewInv, EventArrives \/ RevisionArrives \/ RevisionFails \/ FeedMoves
  PROVE  ViewInv'
<1>1. CASE EventArrives \/ RevisionArrives
  BY <1>1, HeardHolds DEF EventArrives, RevisionArrives, ViewInv
<1>2. CASE RevisionFails
  <2>1. FeedInv' /\ feed'.tuple = feed.tuple /\ ledger' = ledger
    BY <1>2, AskFailsHolds, OrderHolds DEF RevisionFails, ViewInv, InOrder
  <2>2. PageInv(table', drawer', ledger.data, feed.tuple.data)
    BY <1>2, ViewFacts, TableErrorHolds, RenderedHolds DEF RevisionFails
  <2> QED BY <1>2, <2>1, <2>2 DEF RevisionFails, ViewInv
<1>3. CASE FeedMoves
  <2>1. FeedInv' /\ feed'.tuple = feed.tuple /\ ledger' = ledger
    BY <1>3, FeedMovesHolds, OrderHolds DEF FeedMoves, ViewInv, InOrder
  <2> QED BY <1>3, <2>1 DEF FeedMoves, ViewInv
<1> QED BY <1>1, <1>2, <1>3

------------------------------------------------------------------------------
(* The user. *)

LEMMA TurnHolds ==
  ASSUME ViewInv, Turn
  PROVE  PageInv(table', drawer', ledger.data, feed.tuple.data)
<1>1. PICK wanted \in 1..Pages(table) \ {table.page} : Rendered(GoToPage(table, wanted), drawer, feed.tuple.data)
  BY DEF Turn
<1>2. wanted \in Nat \ {0} /\ wanted # table.page
  BY ViewFacts, PagesType
<1> QED BY <1>1, <1>2, ViewFacts, GoToPageHolds, RenderedHolds

LEMMA RetryRowsHolds ==
  ASSUME ViewInv, RetryRows
  PROVE  PageInv(table', drawer', ledger.data, feed.tuple.data)
<1> DEFINE t == EnsureWindow(table)
<1>1. TableInv(t, ledger.data, feed.tuple.data) /\ Attended(t) /\ Aside(table, t)
  BY ViewFacts, EnsureEffect, AsideHolds
<1>2. Shown(t) = Shown(table) /\ t.scope = table.scope
  BY <1>1 DEF Aside, Shown
<1> HIDE DEF t
<1>3. table' = t /\ drawer' = drawer
  BY DEF RetryRows, t
<1> QED BY <1>1, <1>2, <1>3, ViewFacts DEF PageInv

LEMMA UseDrawerHolds ==
  ASSUME ViewInv, UseDrawer
  PROVE  PageInv(table', drawer', ledger.data, feed.tuple.data)
<1>1. /\ drawer \in Drawers /\ drawer.known <= ledger.data /\ feed.tuple.data <= drawer.known
      /\ Shown(table).revision <= drawer.known /\ drawer.known \in Nat
      /\ drawer.session \in Int /\ Shown(table).revision \in Nat /\ table' = table
  BY ViewFacts, ShownBound DEF DrawerInv, Drawers, UseDrawer
<1>2. ASSUME NEW session \in OnPage(table) \intersect Cached(table), drawer' = OpenDetail(drawer, session)
      PROVE  /\ DrawerInv(drawer', ledger.data, feed.tuple.data, Shown(table).revision)
             /\ drawer'.scope = drawer.scope
  <2>1. session \in Int
    BY ViewFacts, PagesType, PageIsOfItsWindow, TableFields DEF Cached, TableRows
  <2>2. HasAny(table)
    BY <1>1 DEF OnPage, Pages
  <2>3. 1 <= drawer.known /\ FALSE \in BOOLEAN
    BY <1>1, <2>2 DEF HasAny
  <2>4. /\ DrawerInv(LoadDetail(drawer, session, drawer.known, FALSE), ledger.data, feed.tuple.data,
                     Shown(table).revision)
        /\ LoadDetail(drawer, session, drawer.known, FALSE).scope = drawer.scope
    BY <1>1, <2>1, <2>3, LoadDetailHolds, Zenon
  <2> QED BY <1>2, <2>4 DEF OpenDetail
<1>3. CASE drawer' = CloseDetail(drawer)
  BY <1>1, <1>3, ViewFacts, CloseDetailHolds DEF PageInv
<1>4. CASE drawer.open /\ drawer' = RetryDetail(drawer)
  <2>1. 1 <= drawer.known /\ TRUE \in BOOLEAN
    BY <1>4, ViewFacts DEF DrawerInv
  <2>2. /\ DrawerInv(LoadDetail(drawer, drawer.session, drawer.known, TRUE), ledger.data, feed.tuple.data,
                     Shown(table).revision)
        /\ LoadDetail(drawer, drawer.session, drawer.known, TRUE).scope = drawer.scope
    BY <1>1, <2>1, LoadDetailHolds, Zenon
  <2> QED BY <1>1, <1>4, <2>2, ViewFacts DEF RetryDetail, PageInv
<1> QED BY <1>1, <1>2, <1>3, <1>4, ViewFacts DEF UseDrawer, PageInv

LEMMA UserHolds ==
  ASSUME ViewInv, Turn \/ Sort \/ Select \/ RetryRows \/ RetryTable \/ UseDrawer
  PROVE  ViewInv'
<1>1. clicks' \in 0..MaxClicks /\ UNCHANGED <<ledger, stream, breaks>>
  BY ViewAssumption DEF Turn, Sort, Select, RetryRows, RetryTable, UseDrawer, Click, ViewInv
<1>2. PageInv(table', drawer', ledger.data, feed.tuple.data)
  <2>1. CASE Sort
    BY <2>1, ViewFacts, SelectSortHolds, RenderedHolds DEF Sort
  <2>2. CASE Select
    <3>1. PICK scope \in Scopes : Rendered(SelectTableScope(table, scope), drawer, feed.tuple.data)
      BY <2>2 DEF Select
    <3> QED BY <3>1, ViewFacts, SelectScopeHolds, RenderedHolds
  <2>3. CASE RetryTable
    BY <2>3, ViewFacts, LoadSnapshotHolds, RenderedHolds DEF RetryTable, RetryLoadTable
  <2> QED BY <2>1, <2>2, <2>3, TurnHolds, RetryRowsHolds, UseDrawerHolds
<1>3. CASE feed' = feed
  <2>1. breaks' \in 0..MaxBreaks
    BY <1>1 DEF ViewInv, FeedInv, LiveTypeOK
  <2> QED BY <1>1, <1>2, <1>3, <2>1, PageStepHolds
<1>4. CASE feed' = [feed EXCEPT !.asked = Waiting]
  <2>1. feed'.tuple = feed.tuple /\ feed'.asked = Waiting /\ Waiting \notin Tuples
        /\ feed' \in [tuple : Tuples \union {NoTuple}, polling : BOOLEAN, asked : Tuples \union {NoAsk, Waiting}]
    BY <1>4, FeedAssumption DEF ViewInv, FeedInv, LiveTypeOK, Tuples
  <2>2. FeedInv'
    BY <1>1, <2>1 DEF ViewInv, FeedInv, LiveTypeOK, Old
  <2> QED BY <1>1, <1>2, <2>1, <2>2 DEF ViewInv
<1> QED BY <1>3, <1>4 DEF Turn, Sort, Select, RetryRows, RetryTable, UseDrawer

LEMMA ViewStep ==
  ASSUME ViewInv, [ViewNext]_viewVars
  PROVE  ViewInv'
<1>1. CASE UNCHANGED viewVars
  BY <1>1 DEF viewVars, ViewInv, FeedInv, LiveTypeOK, Old
<1>2. CASE Commit
  BY <1>2, CommitHolds
<1>3. CASE AnswerSnapshot \/ AnswerRows \/ AnswerDetail \/ SnapshotArrives \/ RowsArrive \/ DetailArrives
           \/ RequestFails
  <2>1. UNCHANGED <<ledger, stream, feed, clicks>>
    BY <1>3 DEF AnswerSnapshot, AnswerRows, AnswerDetail, SnapshotArrives, RowsArrive, DetailArrives,
       RequestFails, liveVars
  <2>2. breaks' \in 0..MaxBreaks
    <3>1. breaks \in 0..MaxBreaks
      BY DEF ViewInv, FeedInv, LiveTypeOK
    <3> QED BY <1>3, <3>1, FeedAssumption DEF AnswerSnapshot, AnswerRows, AnswerDetail, SnapshotArrives,
            RowsArrive, DetailArrives, RequestFails, liveVars
  <2>3. PageInv(table', drawer', ledger.data, feed.tuple.data)
    BY <1>3, AnswerSnapshotHolds, AnswerRowsHolds, AnswerDetailHolds, SnapshotArrivesHolds,
       RowsArriveHolds, DetailArrivesHolds, RequestFailsHolds DEF AnswerSnapshot, AnswerRows, AnswerDetail
  <2>4. clicks' \in 0..MaxClicks
    BY <2>1 DEF ViewInv
  <2> QED BY <2>1, <2>2, <2>3, <2>4, PageStepHolds
<1> QED BY <1>1, <1>2, <1>3, FeedStepHolds, UserHolds DEF ViewNext

LEMMA ViewStarts ==
  ASSUME ViewInit
  PROVE  ViewInv
<1>1. PICK scope \in Scopes : table = MountedTable(scope) /\ drawer = ClosedDrawer(scope)
  BY DEF ViewInit
<1> DEFINE r == [force |-> FALSE, previous |-> NoSnapshot, order |-> "desc", answer |-> Waiting]
<1>2. NoSnapshot \in Snapshots /\ Whole(NoSnapshot) /\ NoSnapshot.revision = 0
  BY DEF NoSnapshot, Snapshots, Whole
<1>3. r \in TableRequests /\ r # NoAsk
  <2>1. r \in TableRequests
    BY <1>2 DEF TableRequests, Orders
  <2> HIDE DEF r
  <2> QED BY <2>1, ViewAssumption
<1> HIDE DEF r
<1>4. table = [scope |-> scope, snapshots |-> [s \in Scopes |-> NoSnapshot], page |-> 1,
               order |-> "desc", load |-> "loading", pageState |-> "idle", why |-> "none",
               request |-> r, batches |-> {}, retried |-> [s \in Scopes |-> 0]]
  BY <1>1 DEF MountedTable, r
<1>5. table \in Tables
  BY <1>2, <1>3, <1>4 DEF Tables, Orders
<1>6. ledger.data = 1 /\ feed.tuple.data = -1
  BY DEF ViewInit, NoTuple
<1>7. RowsFit(table) /\ Dated(table, 1) /\ Follows(table, -1) /\ Attended(table)
      /\ Shown(table).revision = 0
  <2>1. r.previous = NoSnapshot /\ r.answer = Waiting
    BY DEF r
  <2> QED BY <1>2, <1>3, <1>4, <2>1 DEF RowsFit, Dated, Follows, Attended, Shown
<1>8. DrawerInv(drawer, 1, -1, 0) /\ drawer.scope = table.scope
  BY <1>1, <1>4 DEF ClosedDrawer, NoSession, NoDetail, DrawerInv, Drawers
<1>9. FeedInv
  <2>1. ledger \in Tuples /\ 1 <= ledger.data /\ ledger.data <= ledger.data
    BY FeedAssumption, ViewAssumption DEF ViewInit, Tuples
  <2>2. << >> \in Seq(Tuples) /\ Len(<< >>) = 0 /\ Old(<< >>)
    BY EmptySeq DEF Old
  <2>3. LiveTypeOK
    BY <2>1, <2>2, FeedAssumption DEF ViewInit, LiveTypeOK
  <2> QED BY <1>6, <2>1, <2>2, <2>3 DEF ViewInit, FeedInv
<1> QED BY <1>5, <1>6, <1>7, <1>8, <1>9, ViewAssumption DEF ViewInit, ViewInv, PageInv, TableInv

------------------------------------------------------------------------------
(* Theorems. *)

LEMMA ViewInvariant == ViewSpec => []ViewInv
BY ViewStarts, ViewStep, PTL DEF ViewSpec

\* Whatever is aborted, answered late or refused, the table and the drawer stay typed, an
\* open drawer is in a state of an open drawer, and no batch asks for more than a window of
\* rows (loadRows).
THEOREM ViewTyped == ViewSpec => []ViewTypeOK
<1>1. ViewInv => ViewTypeOK
  <2> SUFFICES ASSUME ViewInv
               PROVE  ViewTypeOK
    OBVIOUS
  <2>1. LiveTypeOK /\ clicks \in 0..MaxClicks
    BY DEF ViewInv, FeedInv
  <2>2. \A b \in table.batches : b.ids # {} /\ Cardinality(b.ids) <= WindowPages
    BY ViewFacts DEF TableInv, RowsFit, Fits
  <2>3. drawer \in Drawers /\ drawer.scope = table.scope /\ (drawer.open <=> drawer.load # "closed")
    BY ViewFacts DEF DrawerInv
  <2> QED BY <2>1, <2>2, <2>3, ViewFacts DEF ViewTypeOK
<1> QED BY <1>1, ViewInvariant, PTL

\* Whatever is aborted, answered late or asked for again when the revision, the scope or
\* the order changes, no table mixes rows of two revisions (makeSnapshot, loadRows,
\* useSessionTableController.ts:126, 278).
THEOREM TablesAreOfOneRevision == ViewSpec => []RowsAreOfTheSnapshot
<1>1. ViewInv => RowsAreOfTheSnapshot
  BY DEF ViewInv, PageInv, TableInv, RowsFit, Whole, RowsAreOfTheSnapshot
<1> QED BY <1>1, ViewInvariant, PTL

\* A table that has come to rest shows the latest data or says that it does not: no
\* event, answer or retry is the one too few (required_revision and the retry of
\* useSessionTableController.ts).
THEOREM TablesSettle == ViewSpec => []TableSettles
<1>1. ViewInv => TableSettles
  <2> SUFFICES ASSUME ViewInv, AtRest, table.load # "error"
               PROVE  Shown(table).revision = ledger.data
    BY DEF TableSettles
  <2>1. feed.tuple.data <= Shown(table).revision /\ feed.tuple = ledger
    BY ViewFacts DEF TableInv, Follows, AtRest
  <2>2. Shown(table).revision \in Nat /\ Shown(table).revision <= ledger.data
    BY ViewFacts, ShownBound
  <2> QED BY <2>1, <2>2, ViewFacts
<1> QED BY <1>1, ViewInvariant, PTL

\* So does the drawer, even if the table failed to follow, and its spinner always has a
\* request behind it (loadDetail, useSessionDetailController.ts:131).
THEOREM DrawersSettle == ViewSpec => [](DrawerSettles /\ DrawerIsAttended)
<1>1. ViewInv => DrawerIsAttended
  BY ViewFacts DEF DrawerInv, DrawerIsAttended
<1>2. ViewInv => DrawerSettles
  <2> SUFFICES ASSUME ViewInv, AtRest, drawer.open, ~ drawer.failed
               PROVE  drawer.shown = ledger.data
    BY DEF DrawerSettles
  <2>1. drawer.shown = drawer.known /\ drawer.known \in Nat /\ drawer.known <= ledger.data
        /\ feed.tuple.data <= drawer.known /\ feed.tuple = ledger
    BY ViewFacts DEF DrawerInv, Drawers, AtRest
  <2> QED BY <2>1, ViewFacts
<1> QED BY <1>1, <1>2, ViewInvariant, PTL

\* No batch that is dropped, superseded or refused leaves a page with missing rows and
\* nothing that could fill them (ensureCurrentWindow, loadRows).
THEOREM PagesAreAttended == ViewSpec => []PageIsAttended
<1>1. ViewInv => PageIsAttended
  BY ViewFacts DEF Attended, Asked, PageIsAttended
<1> QED BY <1>1, ViewInvariant, PTL
==============================================================================
