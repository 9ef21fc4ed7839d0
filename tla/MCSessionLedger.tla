-------------------------- MODULE MCSessionLedger --------------------------
(* Three threads: 3 spawned 1, which spawned 2. *)
EXTENDS SessionLedger

MCTree == [t \in Threads |-> CASE t = 1 -> 3 [] t = 2 -> 1 [] t = 3 -> NoThread]
MCEdges == {<<3, 1>>, <<1, 2>>}
MCStateRows == {[named |-> TRUE, role |-> "none"]}
Of(level, parent, role) == [level |-> level, parent |-> parent, role |-> role, conflict |-> FALSE]
Contradictory == [level |-> "direct", parent |-> NoThread, role |-> "none", conflict |-> TRUE]
MCEvidence ==
  [t \in Threads |-> CASE t = 1 -> {Of("direct", 3, "subagent")}
                       [] t = 2 -> {Of("nested", 1, "subagent"), Of("direct", NoThread, "none")}
                       [] t = 3 -> {Of("direct", NoThread, "none"), Contradictory}]
MCLeft == {[edges |-> {}, facts |-> [t \in Threads |-> {}]],
           [edges |-> {<<3, 1>>}, facts |-> [t \in Threads |-> {f \in MCEvidence[t] : ~f.conflict}]]}

\* All three are there, and nothing says yet that 1 spawned 2.
MCApart == {[edges |-> {}, facts |-> [t \in Threads |->
              {f \in MCEvidence[t] : ~f.conflict /\ f.level = "direct"}]]}

Use(model, at, kind, tokens, write, output) ==
  [model |-> model, at |-> at, kind |-> kind, tokens |-> tokens, cached |-> 0, write |-> write,
   output |-> output]
MCLines ==
  [t \in Threads |->
     CASE t = 1 -> {Use("a", 1, "normal", 1, 1, 0), Use("b", 2, "recovered", 1, NoCount, 0)}
       [] t = 2 -> {Use("b", 1, "normal", 1, 1, 1)}
       [] t = 3 -> {Use("a", 2, "compensation", 3, 0, 1)}]

\* The first list charges a as c, more from three tokens on, and knows no b.  The
\* second charges b, less until time 1, and has no rate for what a writes.  What 2
\* has used is too much for a number by the second list.
Rate(input, write, output) == [input |-> input, cached |-> 0, write |-> write, output |-> output]
Entry(model, from, to, short, long) ==
  [model |-> model, from |-> from, to |-> to, short |-> short, long |-> long]
List(version, models, aliases, prices) ==
  [version |-> version, models |-> models, aliases |-> aliases, prices |-> prices]
MCPrograms ==
  {List(1, {"c"}, [m \in {"a"} |-> "c"],
        <<Entry("c", 0, NoCount, Rate(1, 2, 3), [threshold |-> 2, rates |-> Rate(2, 4, 6)])>>),
   List(2, {"a", "b"}, [m \in {} |-> m],
        <<Entry("b", 0, 1, Rate(1, 1, 1), NoCount), Entry("b", 1, NoCount, Rate(1, 1, 20), NoCount),
          Entry("a", 0, NoCount, Rate(1, NoCount, 1), NoCount)>>)}
MCRanges == {[from |-> 1, to |-> 3], [from |-> 1, to |-> 2]}
MCFilters == {NoFilter, [models |-> {"a"}, kinds |-> {}], [models |-> {"b"}, kinds |-> {"project"}],
              [models |-> {}, kinds |-> {"unknown", "projectless"}]}
=============================================================================
