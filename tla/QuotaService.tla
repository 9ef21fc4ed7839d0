----------------------------- MODULE QuotaService ------------------------------
(***************************************************************************)
(* The weekly quota (src/src/codex/quota): a background task that reads    *)
(* the credentials of the Codex CLI from auth.json, refreshes them when    *)
(* they run out, asks for the usage and keeps the last good answer; and    *)
(* the controller of the page that asks the local API for it               *)
(* (src/frontend/src/dashboard/useCodexQuotaController.ts).                *)
(*                                                                         *)
(* auth.json belongs to the CLI, which refreshes the same credentials.  A  *)
(* refresh token is accepted once when the provider rotates it.  The pairs *)
(* of tokens are numbered as they are issued; what a token says of its     *)
(* expiry, and the eight days of last_refresh, are one fact about it:      *)
(* it is worn.  Only the background task calls refresh_now, so its flight  *)
(* is never shared and is left out.                                        *)
(***************************************************************************)
EXTENDS Naturals, FiniteSets, FiniteSetsExt

CONSTANTS
  Bodies,     \* the rate limits a usage answer may carry
  MaxTokens,  \* bound: pairs of tokens issued
  MaxMishaps  \* bound: things that go wrong while fresh tokens are not yet in the file

ASSUME QuotaAssumption == MaxTokens \in Nat \ {0} /\ MaxMishaps \in Nat

VARIABLES
  auth,     \* auth.json: missing, torn, or a pair of tokens
  cli,      \* the pair the CLI was granted and has not written yet
  live,     \* the refresh token the provider accepts
  issued,   \* the newest token
  worn,     \* access tokens that are about to expire
  revoked,  \* access tokens the provider refuses although they look good
  fetch,    \* the background task: its step, the pair it holds, whether it retried
  quota,    \* the CodexQuotaResponse that is served
  page,     \* the controller: status shown, request, timers
  mishaps,
  respent   \* a consumed refresh token was sent

authVars  == <<auth, cli, live, issued, worn, revoked>>
quotaVars == <<auth, cli, live, issued, worn, revoked, fetch, quota, page, mishaps, respent>>

Tokens   == 0..MaxTokens  \* 0: no such token
Pairs    == [access : Tokens, refresh : Tokens]
NoFile   == [kind |-> "missing"]
Torn     == [kind |-> "torn"]
File(p)  == [kind |-> "pair", pair |-> p]
NoPair   == [access |-> 0, refresh |-> 0]

QuotaTypeOK ==
  /\ auth \in {NoFile, Torn} \union {File(p) : p \in Pairs} /\ cli \in Pairs
  /\ live \in Tokens /\ issued \in Tokens /\ worn \subseteq Tokens /\ revoked \subseteq Tokens
  /\ fetch \in [step : {"idle", "reload", "post", "save", "write", "request", "reread"},
                pair : Pairs, retried : BOOLEAN]
  /\ quota.status \in {"loading", "ready", "auth_required", "unavailable"}
  /\ page \in [up : BOOLEAN, status : {"loading", "ready", "auth_required", "unavailable"},
               asked : {"no", "sent", "loading", "ready", "auth_required", "unavailable"},
               retry : BOOLEAN, poll : BOOLEAN, settled : BOOLEAN]
  /\ mishaps \in 0..MaxMishaps /\ respent \in BOOLEAN

Loading == [status |-> "loading", session |-> 0, weekly |-> 0]
Idle    == [step |-> "idle", pair |-> NoPair, retried |-> FALSE]
NoPage  == [up |-> FALSE, status |-> "loading", asked |-> "no",
            retry |-> FALSE, poll |-> FALSE, settled |-> FALSE]

\* The CLI is logged in, has only an API key, or was never used.
QuotaInit ==
  /\ auth \in {File([access |-> 1, refresh |-> 1]), File(NoPair), NoFile}
  /\ live = 1 /\ issued = 1 /\ cli = NoPair /\ worn = {} /\ revoked = {}
  /\ fetch = Idle /\ quota = Loading /\ page = NoPage /\ mishaps = 0 /\ respent = FALSE

------------------------------------------------------------------------------
(* mapper.rs: which window of the answer is which.  A body holds a primary  *)
(* and a secondary window: absent, or its length and whether its figures    *)
(* can be read.                                                             *)

Absent == [length |-> "none", readable |-> FALSE]

\* A length that is neither decides by position.
IsWeekly(body, i)  == body[i].length = "week" \/ (body[i].length = "other" /\ i = 2)
IsSession(body, i) == body[i].length = "session" \/ (body[i].length = "other" /\ i = 1)

\* The first window of a kind, 0 for none.
FirstOf(S) == IF S = {} THEN 0 ELSE Min(S)
Session(body) == FirstOf({i \in {1, 2} : IsSession(body, i)})
Weekly(body)  == FirstOf({i \in {1, 2} : IsWeekly(body, i)})

Maps(body) ==
  /\ Weekly(body) # 0 /\ body[Weekly(body)].readable
  /\ Session(body) # 0 => body[Session(body)].readable

------------------------------------------------------------------------------
(* perform_fetch and fetch_inner. *)

Failing(error) ==
  /\ quota' = IF quota.status = "ready" THEN quota ELSE [Loading EXCEPT !.status = error]
  /\ fetch' = Idle

NeedsRefresh(p) == p.access # 0 /\ p.access \in worn

\* A read of auth.json, and what is done with a pair that was read.
ReadAuth(then) ==
  \/ auth.kind = "missing" /\ Failing("auth_required")
  \/ auth.kind = "torn" /\ Failing("unavailable")
  \/ auth.kind = "pair" /\ then

Holding(step, p, retried) ==
  fetch' = [step |-> step, pair |-> p, retried |-> retried] /\ UNCHANGED quota

AskUsage(p) == IF p.access = 0 THEN Failing("auth_required") ELSE Holding("request", p, fetch.retried)

StartFetch ==
  /\ fetch.step = "idle"
  /\ ReadAuth(IF NeedsRefresh(auth.pair) THEN Holding("reload", auth.pair, FALSE) ELSE AskUsage(auth.pair))
  /\ UNCHANGED <<auth, cli, live, issued, worn, revoked, page, mishaps, respent>>

Spend(p) == IF p.refresh = 0 THEN Failing("auth_required") ELSE Holding("post", p, fetch.retried)

\* The CLI may have refreshed in the meantime: read again before refreshing.
Reload ==
  /\ fetch.step = "reload"
  /\ ReadAuth(IF NeedsRefresh(auth.pair) THEN Spend(auth.pair) ELSE AskUsage(auth.pair))
  /\ UNCHANGED <<auth, cli, live, issued, worn, revoked, page, mishaps, respent>>

\* Mutant of Granted: the rotated refresh token is not taken over.
GrantedAccess(p, rotated) == [p EXCEPT !.access = issued + 1]

\* apply_refresh: a refresh token comes back only if the provider rotates it.
Granted(p, rotated) ==
  [access |-> issued + 1, refresh |-> IF rotated THEN issued + 1 ELSE p.refresh]

\* The provider accepts the refresh token p and issues what follows it.
Grants(p) ==
  \E rotated \in BOOLEAN :
    /\ issued < MaxTokens /\ issued' = issued + 1
    /\ live' = IF rotated THEN issued + 1 ELSE live
    /\ fetch' = [fetch EXCEPT !.step = "save", !.pair = Granted(p, rotated)]

\* refresh_auth up to the answer: granted, refused, or not answered.
PostRefresh ==
  /\ fetch.step = "post"
  /\ \/ /\ fetch.pair.refresh = live /\ Grants(fetch.pair)
        /\ UNCHANGED <<quota, mishaps, respent>>
     \/ /\ fetch.pair.refresh # live /\ Failing("auth_required") /\ respent' = TRUE
        /\ UNCHANGED <<live, issued, mishaps>>
     \/ /\ Failing("unavailable") /\ UNCHANGED <<live, issued, mishaps, respent>>
     \/ /\ fetch.pair.refresh = live /\ issued < MaxTokens /\ mishaps < MaxMishaps
        /\ issued' = issued + 1 /\ live' = issued' /\ mishaps' = mishaps + 1
        /\ Failing("unavailable") /\ UNCHANGED respent
  /\ UNCHANGED <<auth, cli, worn, revoked, page>>

\* save: fs::write empties the file and then fills it.  It may fail before.
SaveRefreshed ==
  /\ fetch.step = "save"
  /\ \/ /\ auth' = Torn /\ fetch' = [fetch EXCEPT !.step = "write"] /\ UNCHANGED mishaps
     \/ /\ mishaps < MaxMishaps /\ mishaps' = mishaps + 1
        /\ fetch' = [fetch EXCEPT !.step = "request"] /\ UNCHANGED auth
  /\ UNCHANGED <<cli, live, issued, worn, revoked, quota, page, respent>>

WriteRefreshed ==
  /\ fetch.step = "write"
  /\ auth' = File(fetch.pair) /\ fetch' = [fetch EXCEPT !.step = "request"]
  /\ UNCHANGED <<cli, live, issued, worn, revoked, quota, page, mishaps, respent>>

\* request_usage and the answer to it; one 401 or 403 is retried.
RequestUsage ==
  /\ fetch.step = "request"
  /\ LET refused == fetch.pair.access \in revoked
     IN \/ /\ ~refused
           /\ \E body \in Bodies :
                IF Maps(body)
                THEN /\ fetch' = Idle
                     /\ quota' = [status |-> "ready", session |-> Session(body), weekly |-> Weekly(body)]
                ELSE Failing("unavailable")
        \/ refused /\ ~fetch.retried /\ Holding("reread", fetch.pair, TRUE)
        \/ refused /\ fetch.retried /\ Failing("auth_required")
        \/ Failing("unavailable")
  /\ UNCHANGED <<auth, cli, live, issued, worn, revoked, page, mishaps, respent>>

\* A token the CLI wrote since is used as it is; otherwise refresh.
Reread ==
  /\ fetch.step = "reread"
  /\ ReadAuth(IF auth.pair.access \notin {0, fetch.pair.access} /\ ~NeedsRefresh(auth.pair)
              THEN Holding("request", auth.pair, TRUE) ELSE Spend(auth.pair))
  /\ UNCHANGED <<auth, cli, live, issued, worn, revoked, page, mishaps, respent>>

FetchStep ==
  \/ StartFetch \/ Reload \/ PostRefresh \/ SaveRefreshed \/ WriteRefreshed
  \/ RequestUsage \/ Reread

Unsaved == fetch.step \in {"save", "write"}

\* The background task is aborted and the process ends.
StopQuota ==
  /\ Unsaved => mishaps < MaxMishaps
  /\ mishaps' = IF Unsaved THEN mishaps + 1 ELSE mishaps
  /\ fetch' = Idle /\ quota' = Loading
  /\ UNCHANGED <<auth, cli, live, issued, worn, revoked, page, respent>>

------------------------------------------------------------------------------
(* The CLI, the clock and the provider. *)

\* The CLI is granted a pair while MiniUsage has one of its own to save.
Overlaps ==
  /\ Unsaved => mishaps < MaxMishaps
  /\ mishaps' = IF Unsaved THEN mishaps + 1 ELSE mishaps

CliRefresh ==
  /\ cli = NoPair /\ auth.kind = "pair" /\ auth.pair.refresh = live /\ issued < MaxTokens
  /\ issued' = issued + 1 /\ live' = issued' /\ cli' = [access |-> issued', refresh |-> issued']
  /\ Overlaps
  /\ UNCHANGED <<auth, worn, revoked, fetch, quota, page, respent>>

CliWrite ==
  /\ cli # NoPair /\ auth' = File(cli) /\ cli' = NoPair
  /\ UNCHANGED <<live, issued, worn, revoked, fetch, quota, page, mishaps, respent>>

\* The user logs in again, perhaps while MiniUsage is about to save.
CliLogin ==
  /\ cli = NoPair /\ issued < MaxTokens /\ Overlaps
  /\ issued' = issued + 1 /\ live' = issued'
  /\ auth' = File([access |-> issued', refresh |-> issued'])
  /\ UNCHANGED <<cli, worn, revoked, fetch, quota, page, respent>>

Wear   == \E t \in (1..issued) \ worn : worn' = worn \union {t} /\ UNCHANGED revoked
Revoke == \E t \in (1..issued) \ revoked : revoked' = revoked \union {t} /\ UNCHANGED worn

TokensAge ==
  (Wear \/ Revoke) /\ UNCHANGED <<auth, cli, live, issued, fetch, quota, page, mishaps, respent>>

------------------------------------------------------------------------------
(* The controller of the page. *)

\* requestQuota: one request at a time.
Requested(p) == IF p.asked = "no" THEN [p EXCEPT !.asked = "sent"] ELSE p

Mount ==
  /\ ~page.up /\ page' = Requested([NoPage EXCEPT !.up = TRUE])

Unmount == page.up /\ page' = NoPage

\* The handler of the API reads the snapshot and never waits for the provider.
Serve ==
  /\ page.asked = "sent" /\ page' = [page EXCEPT !.asked = quota.status]
  /\ UNCHANGED <<auth, cli, live, issued, worn, revoked, fetch, quota, mishaps, respent>>

\* Mutant of ApplyResponse: only a ready answer starts the polling.
ApplyResponseReady(p, status) ==
  IF status = "loading"
  THEN [p EXCEPT !.asked = "no", !.retry = p.retry \/ ~p.settled]
  ELSE [p EXCEPT !.asked = "no", !.settled = TRUE, !.retry = FALSE, !.poll = p.poll \/ status = "ready",
                 !.status = IF status = "ready" \/ p.status # "ready" THEN status ELSE @]

\* applyResponse: "loading" is asked again soon, everything else every five
\* minutes; a ready view stays when a later answer is not ready.
ApplyResponse(p, status) ==
  IF status = "loading"
  THEN [p EXCEPT !.asked = "no", !.retry = p.retry \/ ~p.settled]
  ELSE [p EXCEPT !.asked = "no", !.settled = TRUE, !.retry = FALSE, !.poll = TRUE,
                 !.status = IF status = "ready" \/ p.status # "ready" THEN status ELSE @]

Receive ==
  page.asked \notin {"no", "sent"} /\ page' = ApplyResponse(page, page.asked)

\* The request fails: shown as unavailable unless a figure is shown.
QuotaRequestFails == page.asked # "no" /\ page' = ApplyResponse(page, "unavailable")

RetryTimer == page.retry /\ page' = Requested([page EXCEPT !.retry = FALSE])
PollTimer  == page.poll /\ page.asked = "no" /\ page' = Requested(page)

PageStep ==
  /\ Mount \/ Unmount \/ Receive \/ QuotaRequestFails \/ RetryTimer \/ PollTimer
  /\ UNCHANGED <<auth, cli, live, issued, worn, revoked, fetch, quota, mishaps, respent>>

OutsideStep == CliRefresh \/ CliWrite \/ CliLogin \/ TokensAge

------------------------------------------------------------------------------
(* Properties. *)

\* Two programs rotate one refresh token through one file.  Unless something
\* goes wrong while a fresh pair is not yet in the file (a failed save, a lost
\* answer, a stop or a login in between), the token the provider accepts is in
\* auth.json or held by the program that is about to write it: MiniUsage never
\* signs the CLI out (client.rs fetch_inner, refresh_auth; auth.rs save).
CredentialKept ==
  mishaps = 0 /\ auth # NoFile /\ auth # File(NoPair) =>
    \/ auth.kind = "pair" /\ auth.pair.refresh = live
    \/ cli.refresh = live
    \/ Unsaved /\ fetch.pair.refresh = live

\* As long as the page is open it has a request under way or a timer that will
\* send one, so what it shows can change (useCodexQuotaController.ts).
PageKeepsAsking == page.up => page.asked # "no" \/ page.retry \/ page.poll

\* What client.rs 140-142 says and a refresh by the CLI between the read and the
\* request refutes: MiniUsage never sends a refresh token that was consumed.
NeverRespends == ~respent
==============================================================================
