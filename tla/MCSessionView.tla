----------------------------- MODULE MCSessionView -----------------------------
(* Instances of SessionView for TLC. *)
EXTENDS SessionView

CONSTANTS today, week

TwoScopes == {today, week}

\* Four sessions fill two windows; the last commit takes one away.
MCSessions == [d \in 0..MaxData |-> IF d = 0 THEN 0 ELSE IF d = MaxData THEN 3 ELSE 4]
==============================================================================
