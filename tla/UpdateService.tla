----------------------------- MODULE UpdateService -----------------------------
(***************************************************************************)
(* The update check (src/src/update/mod.rs, state.rs, github.rs and the    *)
(* three update handlers of src/src/api.rs): one request to the release    *)
(* provider at a time, shared by everyone who asks while it runs.          *)
(*                                                                         *)
(* A caller is the background timer or an HTTP request.  The runtime has   *)
(* several threads, so the callers interleave wherever one of them gives   *)
(* up a lock.  The server drops the handler of a request whose client is   *)
(* gone, at the await it is at.  A check is named by its number; times and *)
(* URLs follow the numbers and the releases and are left out.              *)
(***************************************************************************)
EXTENDS Naturals, FiniteSets

CONSTANTS
  Timer,      \* the caller of run_background
  Clients,    \* HTTP requests that may be under way at once
  Current,    \* CURRENT_VERSION
  Releases,   \* the stable releases the provider may name as the latest
  MaxChecks,  \* bound: checks started in one life of the process
  MaxDrops    \* bound: clients that go away while their request is served

ASSUME UpdateAssumption ==
  /\ Timer \notin Clients /\ Current \in Nat /\ Releases \subseteq Nat \ {0}
  /\ MaxChecks \in Nat /\ MaxDrops \in Nat

VARIABLES
  flight,   \* the check in UpdateService::flight, 0 for none
  checks,   \* the checks started: the number of the newest one
  result,   \* of every check: what finish stored
  calls,    \* of every caller: where it is in check_now, and in which check
  update,   \* the UpdateSnapshot
  opened,   \* the release the browser was last sent to, 0 for none
  drops

updateVars == <<flight, checks, result, calls, update, opened, drops>>

Callers == {Timer} \union Clients
Checks  == 1..MaxChecks
Steps   == {"idle", "owner", "fetching", "answered", "stored", "waiting", "unheard", "asleep"}

NoCall == [step |-> "idle", of |-> 0]

\* The caller that opened check f and has not left check_now.
Owns(c, f) == calls[c].of = f /\ calls[c].step \in {"owner", "fetching", "answered", "stored"}

UpdateTypeOK ==
  /\ checks \in 0..MaxChecks /\ flight \in 0..checks
  /\ result \in [Checks -> {"none", "success", "failure"}]
  /\ calls \in [Callers -> [step : Steps, of : 0..MaxChecks]]
  /\ update \in [latest : Releases \union {0}, available : BOOLEAN, checking : BOOLEAN, failed : BOOLEAN]
  /\ opened \in Releases \union {0} /\ drops \in 0..MaxDrops

NoUpdate == [latest |-> 0, available |-> FALSE, checking |-> FALSE, failed |-> FALSE]

UpdateInit ==
  /\ flight = 0 /\ checks = 0 /\ result = [f \in Checks |-> "none"]
  /\ calls = [c \in Callers |-> NoCall] /\ update = NoUpdate /\ opened = 0 /\ drops = 0

At(c, step)  == calls[c].step = step
Go(c, step)  == calls' = [calls EXCEPT ![c].step = step]

------------------------------------------------------------------------------
(* check_now. *)

Opens(c) ==
  /\ checks < MaxChecks
  /\ checks' = checks + 1 /\ flight' = checks'
  /\ calls' = [calls EXCEPT ![c] = [step |-> "owner", of |-> checks']]

\* Mutant of Joins: the check under way is looked at outside the lock.
JoinsUnlocked(c) ==
  \/ /\ flight # 0 /\ calls' = [calls EXCEPT ![c] = [step |-> "waiting", of |-> flight]]
     /\ UNCHANGED <<flight, checks>>
  \/ Opens(c)

\* Under the lock of the slot: share the check that is there, or open one.
Joins(c) ==
  IF flight # 0
  THEN /\ calls' = [calls EXCEPT ![c] = [step |-> "waiting", of |-> flight]]
       /\ UNCHANGED <<flight, checks>>
  ELSE Opens(c)

CheckNow(c) == At(c, "idle") /\ Joins(c) /\ UNCHANGED <<result, update, opened, drops>>

\* perform_check up to the request.
BeginAttempt(c) ==
  /\ At(c, "owner") /\ Go(c, "fetching")
  /\ update' = [update EXCEPT !.checking = TRUE, !.failed = FALSE]
  /\ UNCHANGED <<flight, checks, result, opened, drops>>

Succeeded(u, v) == [latest |-> v, available |-> v > Current, checking |-> FALSE, failed |-> FALSE]

\* complete_failure keeps the release that is known.
Failed(u) == [u EXCEPT !.checking = FALSE, !.failed = TRUE]

\* What the provider's answer makes of the snapshot: a stable release, or a
\* failure, which the provider module tells apart only for the log.
AnswersOn(u) == {Succeeded(u, v) : v \in Releases} \union {Failed(u)}

Answered(c) ==
  /\ At(c, "fetching") /\ Go(c, "answered")
  /\ update' \in AnswersOn(update)
  /\ UNCHANGED <<flight, checks, result, opened, drops>>

\* finish, its first half: the result is stored and the lock given up.
Store(c) ==
  /\ At(c, "answered") /\ Go(c, "stored")
  /\ result' = [result EXCEPT ![calls[c].of] = IF update.failed THEN "failure" ELSE "success"]
  /\ UNCHANGED <<flight, checks, update, opened, drops>>

\* finish, its second half, and the rest of check_now: notify_waiters wakes
\* those who are asleep now, and the slot is cleared.
Release(c) ==
  /\ At(c, "stored")
  /\ calls' = [d \in Callers |->
       IF d = c THEN NoCall
       ELSE IF At(d, "asleep") /\ calls[d].of = calls[c].of
            THEN [calls[d] EXCEPT !.step = "waiting"] ELSE calls[d]]
  /\ flight' = IF flight = calls[c].of THEN 0 ELSE flight
  /\ UNCHANGED <<checks, result, update, opened, drops>>

\* CheckFlight::wait: a look under the lock ...
Look(c) ==
  /\ At(c, "waiting")
  /\ IF result[calls[c].of] # "none" THEN calls' = [calls EXCEPT ![c] = NoCall] ELSE Go(c, "unheard")
  /\ UNCHANGED <<flight, checks, result, update, opened, drops>>

\* ... and then notified(), which hears what is notified from now on.
Sleep(c) ==
  /\ At(c, "unheard") /\ Go(c, "asleep")
  /\ UNCHANGED <<flight, checks, result, update, opened, drops>>

------------------------------------------------------------------------------
(* The requests of the page and of other clients. *)

\* The future of the handler is dropped: nothing it still had to do is done.
Drop(c) ==
  /\ ~At(c, "idle") /\ drops < MaxDrops
  /\ calls' = [calls EXCEPT ![c] = NoCall] /\ drops' = drops + 1
  /\ UNCHANGED <<flight, checks, result, update, opened>>

\* update_open_release: only a release that is known to be newer is opened.
OpenRelease ==
  /\ update.available /\ opened' = update.latest
  /\ UNCHANGED <<flight, checks, result, calls, update, drops>>

\* The background task is aborted and the process ends: all of it was memory.
StopUpdates ==
  /\ flight' = 0 /\ checks' = 0 /\ result' = [f \in Checks |-> "none"]
  /\ calls' = [c \in Callers |-> NoCall] /\ update' = NoUpdate
  /\ UNCHANGED <<opened, drops>>

Advance(c) ==
  \/ BeginAttempt(c) \/ Answered(c) \/ Store(c) \/ Release(c)
  \/ Look(c) \/ Sleep(c)

------------------------------------------------------------------------------
(* Properties. *)

\* However the timer, the clients and dropped handlers interleave, at most one
\* request to the provider is under way, and the status says "checking" only
\* while the slot holds the check that will say otherwise (update/mod.rs
\* check_now, perform_check; state.rs).
OneCheckAtATime ==
  /\ Cardinality({c \in Callers : At(c, "fetching")}) <= 1
  /\ update.checking => flight # 0
  /\ \A c \in Callers : At(c, "fetching") => update.checking /\ calls[c].of = flight

\* Everyone who asks for a check is answered (CheckFlight::wait).
EveryCheckReturns == \A c \in Callers : ~At(c, "idle") ~> At(c, "idle")
==============================================================================
