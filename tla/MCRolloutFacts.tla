---------------------------- MODULE MCRolloutFacts ----------------------------
(* A file of a subagent whose ancestor's lines carry another directory and model. *)
EXTENDS RolloutFacts

CONSTANTS HomeDir, WorkDir, ModelA, ModelB, PathA

OwnBorn == [t \in {Own, Other} |-> IF t = Own THEN 5 ELSE 1]

Blank == [is |-> "meta", of |-> None, created |-> None, cwd |-> None, parent |-> None,
          spawn |-> None, fork |-> None, source |-> FALSE, role |-> None, path |-> None,
          spawnPath |-> None]

Id(time, v7) == [time |-> time, v7 |-> v7]

T(id, at, cwd, model) ==
  [is |-> "turn", turn |-> id, at |-> at, cwd |-> cwd, model |-> model]

MetaLines ==
  {Blank,
   [Blank EXCEPT !.of = Own, !.created = 5, !.cwd = HomeDir, !.spawn = Other, !.fork = Own,
                 !.source = TRUE, !.spawnPath = PathA],
   [Blank EXCEPT !.of = Own, !.created = 4, !.cwd = WorkDir, !.parent = Own, !.role = Subagent],
   [Blank EXCEPT !.of = Other, !.created = 1, !.cwd = WorkDir]}

TurnLines ==
  {T(Id(6, TRUE), 9, WorkDir, ModelA),
   T(Id(6, TRUE), 9, None, ModelB),
   T(Id(7, FALSE), 6, None, ModelA),
   T(Id(2, TRUE), 9, WorkDir, ModelB)}

TokenLines == {[is |-> "tokens", own |-> own] : own \in BOOLEAN}

RolloutLines == MetaLines \cup TurnLines \cup TokenLines
==============================================================================
