---------------------------- MODULE LedgerQueries ----------------------------
(***************************************************************************)
(* What the usage ledger answers (usage/aggregate.rs): the summary, the    *)
(* index and rows of the session table, the detail of one session, the     *)
(* models and the filter options.  Each is a function of one snapshot of   *)
(* the database, read in one deferred transaction.                         *)
(*                                                                         *)
(* A snapshot is                                                           *)
(*   events      the usage events of the active epoch,                     *)
(*   rows        the threads table, a function of the thread,              *)
(*   quarantine  the sessions of the active epoch that could not be        *)
(*               counted.                                                  *)
(* Of the six counts of an event we keep two: one that is always known     *)
(* (tokens) and one that may be missing (write); cost is missing when the  *)
(* model has no price.  A project path is its kind.                        *)
(***************************************************************************)
EXTENDS CostEstimation, FiniteSets, FiniteSetsExt, Functions

Kinds == {"project", "projectless", "unknown"}

\* The events of a range of time.
InRange(range, e) == range.from <= e.at /\ e.at < range.to

Priced(e) == e.cost # NoCount

-----------------------------------------------------------------------------
(* Totals *)

Zero == [tokens |-> 0, write |-> 0, cost |-> 0, level |-> "empty"]

SumOf(field, E) == SumFunction([e \in E |-> e[field]])

\* The sum of the count that may be missing: missing if one of the events lacks it.
KnownSum(E) ==
  IF \E e \in E : e.write = NoCount THEN NoCount ELSE SumOf("write", E)

\* How much of the cost is known, and the part that is.
Level(E) ==
  IF E = {} THEN "empty"
  ELSE IF \A e \in E : Priced(e) THEN "complete"
  ELSE IF \E e \in E : Priced(e) THEN "partial"
  ELSE "unknown"

CostSum(E) ==
  IF Level(E) = "unknown" THEN NoCount
  ELSE SumOf("cost", {e \in E : Priced(e)})

\* One SQL aggregate over a set of events.
Totals(E) ==
  [tokens |-> SumOf("tokens", E),
   write |-> KnownSum(E),
   cost |-> CostSum(E), level |-> Level(E)]

MergedLevel(a, b) ==
  IF a = "empty" THEN b ELSE IF b = "empty" THEN a ELSE IF a = b THEN a ELSE "partial"

\* The part of the cost a sum may use.
Usable(t) == IF t.level \in {"complete", "partial"} THEN t.cost ELSE NoCount

\* Mutant of MergedCost: a session without any price makes the sum unknown.
MergedCostStrict(a, b) ==
  IF a.level = "empty" /\ b.level = "empty" THEN 0
  ELSE IF Usable(a) = NoCount \/ Usable(b) = NoCount THEN NoCount
  ELSE Usable(a) + Usable(b)

MergedCost(a, b) ==
  IF Usable(a) # NoCount /\ Usable(b) # NoCount THEN Usable(a) + Usable(b)
  ELSE IF Usable(a) # NoCount THEN Usable(a)
  ELSE IF Usable(b) # NoCount THEN Usable(b)
  ELSE IF a.level = "empty" /\ b.level = "empty" THEN 0
  ELSE NoCount

\* TokenTotals::add_assign
Merge(a, b) ==
  [tokens |-> a.tokens + b.tokens,
   write |-> IF a.write = NoCount \/ b.write = NoCount THEN NoCount ELSE a.write + b.write,
   cost |-> MergedCost(a, b), level |-> MergedLevel(a.level, b.level)]

\* The groups of a query, merged one after the other.
MergeAll(groups) == FoldFunction(Merge, Zero, groups)

\* The events of E by thread, and by thread and model.
ByThread(E) == [t \in {e.thread : e \in E} |-> Totals({e \in E : e.thread = t})]
ByModel(E) ==
  [k \in {<<e.thread, e.model>> : e \in E} |->
     Totals({e \in E : e.thread = k[1] /\ e.model = k[2]})]

LastOf(E) == Max({e.at : e \in E})

-----------------------------------------------------------------------------
(* Filters.  An empty part of a filter lets everything pass. *)

NoFilter == [models |-> {}, kinds |-> {}]

KindPasses(filter, kind) == filter.kinds = {} \/ kind \in filter.kinds

\* A root without a row counts as a session of an unknown project.
ProjectOf(l, root) == IF root \in DOMAIN l.rows THEN l.rows[root].kind ELSE "unknown"

RootPasses(l, filter, root) ==
  KindPasses(filter, ProjectOf(l, root))

Matching(l, range, filter) ==
  {e \in l.events : /\ InRange(range, e)
                    /\ filter.models = {} \/ e.model \in filter.models
                    /\ RootPasses(l, filter, e.root)}

RootsOf(E) == {e.root : e \in E}

OfRoot(l, range, root) == {e \in l.events : InRange(range, e) /\ e.root = root}

\* Sessions that could not be counted; which models they used is not known.
Quarantined(l, range, filter) ==
  {q \in l.quarantine : /\ filter.models = {} /\ q.root \in DOMAIN l.rows
                        /\ InRange(range, q)
                        /\ KindPasses(filter, l.rows[q.root].kind)}

IsMain(l, t) ==
  t \in DOMAIN l.rows /\ l.rows[t].role = "main" /\ l.rows[t].root = t

\* The sessions of the table that have usage.
EligibleRoots(l, range, filter) ==
  {t \in DOMAIN l.rows :
     /\ IsMain(l, t) /\ OfRoot(l, range, t) # {}
     /\ filter.models = {} \/ \E e \in OfRoot(l, range, t) : e.model \in filter.models
     /\ KindPasses(filter, l.rows[t].kind)}

-----------------------------------------------------------------------------
(* Answers *)

\* The sessions all of whose events have a price.
FullyPriced(E) == {e \in E : \A d \in E : d.root = e.root => Priced(d)}

Summary(l, range, filter) ==
  LET E == Matching(l, range, filter)
      incomplete == RootsOf({e \in E : ~Priced(e)})
      errors == Quarantined(l, range, filter)
  IN  [totals |-> Totals(E), sessions |-> Cardinality(RootsOf(E)),
       incomplete |-> Cardinality(incomplete), errors |-> Cardinality(errors),
       complete |-> Cardinality(RootsOf(E)) - Cardinality(incomplete),
       total |-> Cardinality(RootsOf(E)) + Cardinality(errors),
       priced |-> Totals(FullyPriced(E))]

Status(totals) == IF totals.level \in {"partial", "unknown"} THEN "incomplete" ELSE "complete"

\* What the table sorts a session by.
IndexItem(l, range, t) ==
  LET E == OfRoot(l, range, t)
      all == MergeAll(ByThread(E))
  IN  [root |-> t, last |-> LastOf(E),
       self |-> MergeAll(ByThread({e \in E : e.thread = t})).tokens, tokens |-> all.tokens,
       cost |-> Usable(all), status |-> Status(all)]

ErrorItem(q) ==
  [root |-> q.root, last |-> q.at, self |-> NoCount, tokens |-> NoCount, cost |-> NoCount,
   status |-> "error"]

SortIndex(l, range, filter) ==
  {IndexItem(l, range, t) : t \in EligibleRoots(l, range, filter)}
    \cup {ErrorItem(q) : q \in Quarantined(l, range, filter)}

SessionRow(l, range, t) ==
  LET E == OfRoot(l, range, t)
  IN  [root |-> t, last |-> LastOf(E), status |-> Status(Totals(E)),
       inclusive |-> Totals(E), self |-> Totals({e \in E : e.thread = t}),
       subagents |-> Totals({e \in E : e.thread # t}),
       count |-> Cardinality({e.thread : e \in E} \ {t}), models |-> {e.model : e \in E}]

ErrorRow(l, q) ==
  [root |-> q.root, last |-> q.at, status |-> "error", inclusive |-> Zero, self |-> Zero,
   subagents |-> Zero,
   count |-> Cardinality({t \in DOMAIN l.rows \ {q.root} : l.rows[t].root = q.root}),
   models |-> {}]

\* The rows of the sessions asked for; one that is not of the table is refused.
SessionRows(l, range, filter, ids) ==
  LET errors == Quarantined(l, range, filter)
  IN  IF ids = {} \/ ~(ids \subseteq EligibleRoots(l, range, filter) \cup {q.root : q \in errors})
      THEN "INVALID_SESSION_IDS"
      ELSE {IF \E q \in errors : q.root = t
            THEN ErrorRow(l, CHOOSE q \in errors : q.root = t)
            ELSE SessionRow(l, range, t) : t \in ids}

\* One session by thread and model; a session in quarantine has none.
SessionDetail(l, range, filter, t) ==
  LET E == OfRoot(l, range, t)
      groups == ByModel(E)
      of(u) == [k \in {g \in DOMAIN groups : g[1] = u} |-> groups[k]]
      threads == {e.thread : e \in E}
      usage == [u \in threads \cup {t} |-> MergeAll(of(u))]
  IN  IF t \notin EligibleRoots(l, range, filter) THEN "INVALID_SESSION_IDS"
      ELSE [root |-> t, last |-> LastOf(E), self |-> usage[t], inclusive |-> MergeAll(usage),
            subagents |-> {[thread |-> u, last |-> LastOf({e \in E : e.thread = u}),
                            models |-> of(u)] : u \in threads \ {t}}]

ModelRows(l, range) ==
  LET E == {e \in l.events : InRange(range, e)}
  IN  {[model |-> m, totals |-> Totals({e \in E : e.model = m}),
        sessions |-> Cardinality(RootsOf({e \in E : e.model = m}))] : m \in {e.model : e \in E}}

FilterOptions(l) ==
  [models |-> {e.model : e \in l.events},
   kinds |-> {ProjectOf(l, r) : r \in RootsOf(l.events)}]

-----------------------------------------------------------------------------
(* The charts (usage/analytics.rs).  A root without a row is of an unknown *)
(* project, in the groups as in the filter.                                *)

ModelDistribution(l, range, filter) ==
  LET E == Matching(l, range, filter)
  IN  [m \in {e.model : e \in E} |-> Totals({e \in E : e.model = m})]

\* Mutant of ProjectDistribution: the usage of a root's own thread only.
ProjectDistributionOfMains(l, range, filter) ==
  LET E == {e \in Matching(l, range, filter) : e.thread = e.root}
  IN  [k \in {ProjectOf(l, e.root) : e \in E} |-> Totals({e \in E : ProjectOf(l, e.root) = k})]

ProjectDistribution(l, range, filter) ==
  LET E == Matching(l, range, filter)
  IN  [k \in {ProjectOf(l, e.root) : e \in E} |-> Totals({e \in E : ProjectOf(l, e.root) = k})]
=============================================================================
