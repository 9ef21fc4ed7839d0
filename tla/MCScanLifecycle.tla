--------------------------- MODULE MCScanLifecycle ---------------------------
(* Bounded instance of ScanLifecycle: at most MaxScans rows are inserted. *)
EXTENDS ScanLifecycle, TLC

CONSTANT MaxScans

BoundedNext == Next /\ Len(runs') <= MaxScans

BoundedSpec == Init /\ [][BoundedNext]_vars

HomeSymmetry == Permutations(Homes)
==============================================================================
