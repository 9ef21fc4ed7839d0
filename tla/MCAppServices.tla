---------------------------- MODULE MCAppServices ----------------------------
(* Instances of AppServices for TLC.  The two services share nothing but   *)
(* the process, so one of them rests while the other is explored.          *)
EXTENDS AppServices

CONSTANTS timer, first, second

TwoClients == {first, second}

Window(l, r) == [length |-> l, readable |-> r]

\* Both windows, one of them, a body whose first weekly window cannot be read,
\* and a window of unknown length.
MCBodies ==
  {<<Window("session", TRUE), Window("week", TRUE)>>, <<Window("week", TRUE), Absent>>,
   <<Window("week", FALSE), Window("other", TRUE)>>, <<Window("other", TRUE), Absent>>}

UpdatesRest == checks = 0 /\ drops = 0 /\ opened = 0
QuotaRests  == page = NoPage /\ quota = Loading /\ fetch = Idle /\ issued = 1 /\ worn = {} /\ revoked = {}

MCSpec == Init /\ [][Next /\ (UpdatesRest' \/ QuotaRests')]_vars

\* The update check alone.
FairUpdates ==
  /\ Init /\ [][Next /\ QuotaRests']_vars
  /\ \A c \in Callers : WF_vars(Advance(c) /\ UNCHANGED <<quotaVars, appVars>>)
==============================================================================
