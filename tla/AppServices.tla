------------------------------ MODULE AppServices ------------------------------
(***************************************************************************)
(* The process that runs the two background services (src/src/main.rs):    *)
(* it serves first, starts the services once its own health check answers, *)
(* and ends when the requests under way have been answered, aborting the   *)
(* services wherever they are.  What is in memory is lost, auth.json stays.*)
(***************************************************************************)
EXTENDS UpdateService, QuotaService

CONSTANT MaxLives  \* bound: starts of the process

ASSUME LivesAssumption == MaxLives \in Nat

VARIABLES
  process,  \* down, serving, ready (the services run) or stopping
  lives

appVars == <<process, lives>>
vars    == <<updateVars, quotaVars, appVars>>

TypeOK ==
  /\ UpdateTypeOK /\ QuotaTypeOK
  /\ process \in {"down", "serving", "ready", "stopping"} /\ lives \in 0..MaxLives

Init == UpdateInit /\ QuotaInit /\ process = "down" /\ lives = 0

Listening == process \in {"serving", "ready"}
Running   == process \in {"ready", "stopping"}

\* The listener is bound before anything else exists; then the router serves.
Start ==
  /\ process = "down" /\ lives < MaxLives
  /\ process' = "serving" /\ lives' = lives + 1
  /\ UNCHANGED <<updateVars, quotaVars>>

\* wait_until_ready: the services are spawned after the health check.
Ready ==
  /\ process = "serving" /\ process' = "ready"
  /\ UNCHANGED <<updateVars, quotaVars, lives>>

\* Its own health check does not answer: run returns with the error.
NotReady ==
  /\ process = "serving" /\ process' = "down"
  /\ StopUpdates /\ UNCHANGED <<quotaVars, lives>>

\* A stop was asked for: no request is accepted any more.
RequestStop ==
  /\ process = "ready" /\ process' = "stopping"
  /\ UNCHANGED <<updateVars, quotaVars, lives>>

\* axum's graceful shutdown waits for the handlers under way.
Stop ==
  /\ process = "stopping" /\ \A c \in Clients : At(c, "idle")
  /\ process' = "down" /\ StopUpdates /\ StopQuota /\ UNCHANGED lives

\* The process is killed.
Kill ==
  /\ process # "down" /\ process' = "down"
  /\ StopUpdates /\ StopQuota /\ UNCHANGED lives

UpdateStep ==
  /\ \/ Listening /\ \E c \in Clients : CheckNow(c)
     \/ process = "ready" /\ CheckNow(Timer)
     \/ Running /\ Advance(Timer)
     \/ process # "down" /\ \E c \in Clients : Advance(c) \/ Drop(c)
     \/ Listening /\ OpenRelease
  /\ UNCHANGED <<quotaVars, appVars>>

QuotaStep ==
  /\ \/ Running /\ FetchStep
     \/ OutsideStep
     \/ PageStep
     \/ Listening /\ Serve
  /\ UNCHANGED <<updateVars, appVars>>

Next ==
  \/ Start \/ Ready \/ NotReady \/ RequestStop \/ Stop \/ Kill
  \/ UpdateStep \/ QuotaStep

Spec == Init /\ [][Next]_vars

==============================================================================
