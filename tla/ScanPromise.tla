----------------------------- MODULE ScanPromise -----------------------------
(***************************************************************************)
(* What the scan lifecycle promises to everybody who reads it: scans are   *)
(* numbered in the order they were accepted, at most one of them runs, at  *)
(* most one more waits behind it, and a scan that has been served or       *)
(* refused stays that way.                                                 *)
(*                                                                         *)
(* This is the abstract specification of src/src/storage/lifecycle.rs.  It *)
(* has no app_meta projection, no revisions and no source binding: module  *)
(* ScanLifecycle keeps all three and is shown to implement it.             *)
(***************************************************************************)
EXTENDS Naturals, Sequences

VARIABLE scans      \* the phase of every scan ever accepted, in order

Phases == {"waiting", "running", "served", "refused"}

In(phase) == {s \in DOMAIN scans : scans[s] = phase}

Init == scans = <<>>

\* A scan is accepted and runs at once: nothing runs and nothing waits.
Begin ==
  /\ In("running") = {} /\ In("waiting") = {}
  /\ scans' = Append(scans, "running")

\* A scan is accepted behind the running one: the single place is free.
Wait ==
  /\ In("running") # {} /\ In("waiting") = {}
  /\ scans' = Append(scans, "waiting")

\* The waiting scan takes over.
Promote(s) ==
  /\ s \in In("waiting") /\ In("running") = {}
  /\ scans' = [scans EXCEPT ![s] = "running"]

\* The waiting scan will never run.
Refuse(s) ==
  /\ s \in In("waiting")
  /\ scans' = [scans EXCEPT ![s] = "refused"]

Finish(s) ==
  /\ s \in In("running")
  /\ scans' = [scans EXCEPT ![s] = "served"]

Next ==
  \/ Begin
  \/ Wait
  \/ \E s \in DOMAIN scans : Promote(s) \/ Refuse(s) \/ Finish(s)

Spec == Init /\ [][Next]_scans
==============================================================================
