------------------------------ MODULE MCDashboard ------------------------------
(* Instances of Dashboard for TLC. *)
EXTENDS Dashboard, TLC

CONSTANTS h1, today, week

MCHomes  == {h1}
OneScope == {today}
TwoScopes == {today, week}
ScopeSymmetry == Permutations(TwoScopes)
==============================================================================
