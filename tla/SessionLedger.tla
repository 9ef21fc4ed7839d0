---------------------------- MODULE SessionLedger ----------------------------
(***************************************************************************)
(* The sessions a reader is shown while rounds run: the threads table of   *)
(* ThreadRows, the usage events of the active epoch, which a commit of the *)
(* metadata half moves with their thread (reconcile_usage_metadata_change),*)
(* and the queries of LedgerQueries over both.                             *)
(*                                                                         *)
(* Of the usage half we keep what a reader can see of it: a thread of      *)
(* which a first batch is committed to the active epoch, and a build that  *)
(* replaces the epoch and leaves the trees with bad data in quarantine.    *)
(* UsageRound models how it gets there.  An event is stored with its cost, *)
(* by the price list of the program that counts it; another program over   *)
(* the same database prices all events again before it runs.  Every query  *)
(* reads one snapshot, so that it is a function of the state.              *)
(***************************************************************************)
EXTENDS ThreadRows, LedgerQueries

CONSTANTS
  Lines,     \* [Threads -> the usage a thread has reported]
  Programs,  \* the programs that open the database, one after the other
  Active,    \* when a session in quarantine was last active
  Ranges, Filters

Line ==
  [model : STRING, kind : {"normal", "recovered", "compensation"}, at : Nat,
   tokens : Nat, cached : Nat, write : Nat \cup {NoCount}, output : Nat]

ASSUME LinesAssumption ==
  Lines \in [Threads -> SUBSET Line] /\ \A t \in Threads : IsFiniteSet(Lines[t])
ASSUME ProgramsAssumption ==
  /\ Programs # {} /\ \A p \in Programs : p.prices \in Seq(Pricing)
  /\ \A p, q \in Programs : p.version = q.version => p = q
ASSUME QueriesAssumption ==
  /\ Active \in Nat
  /\ Ranges \subseteq [from : Nat, to : Nat]
  /\ Filters \subseteq [models : SUBSET STRING, kinds : SUBSET Kinds]

VARIABLES
  quarantine,  \* the sources of each tree in quarantine, by root
  program,     \* the program that has the database open
  priced,      \* the version of the price list that the database remembers
  costs        \* what the events of each thread of the epoch are stored to cost

costVars   == <<program, priced, costs>>
ledgerVars == <<vars, quarantine, costVars>>

LedgerInit ==
  /\ Init /\ quarantine = [r \in {} |-> {}]
  /\ program \in Programs /\ priced = program.version /\ costs = [t \in Threads |-> <<>>]

\* The metadata half leaves quarantine and costs as they are.
Metadata == ThreadNext /\ UNCHANGED <<quarantine, costVars>>

\* The events of the threads of the epoch, with their costs.
CostsOf(threads) ==
  [t \in Threads |-> IF t \in threads THEN CostsBy(program, Lines[t]) ELSE <<>>]

-----------------------------------------------------------------------------
(* The usage half *)

Present(t) == facts[t] # {}
RootOf(t) == IF rows[t] = NoRow THEN NoThread ELSE rows[t].root
Ready(t) == t \in bound /\ RootOf(t) # NoThread

\* Events and quarantine refer to a root that has a row.
HasRootRow(t) == rows[RootOf(t)] # NoRow

\* The present sources of a tree.
SourcesOf(root) == {t \in bound : Present(t) /\ RootOf(t) = root}

\* A tree in quarantine is not what it was when it was put there.
Dirty == \E r \in DOMAIN quarantine : quarantine[r] # SourcesOf(r)

Isolated(t) == \E r \in DOMAIN quarantine : t \in quarantine[r]

\* The first batch of a thread joins the active epoch.
CountThread(t) ==
  /\ pc = "idle" /\ ~Dirty
  /\ usage[t] = NoThread /\ Ready(t) /\ HasRootRow(t) /\ Present(t) /\ ~Isolated(t)
  /\ Estimable(program, Lines[t])
  /\ usage' = [usage EXCEPT ![t] = RootOf(t)]
  /\ costs' = [costs EXCEPT ![t] = CostsBy(program, Lines[t])]
  /\ UNCHANGED <<world, facts, rows, bound, pc, view, patches, todo, roundAt, clock, clean, quiet,
                 changes, faults, quarantine, program, priced>>

\* A build takes the present sources and those the active epoch counts.
Members == {t \in Threads : Ready(t) /\ (Present(t) \/ usage[t] # NoThread)}

Counted(bad) ==
  [t \in Threads |-> IF t \in Members /\ RootOf(t) \notin bad THEN RootOf(t) ELSE NoThread]

\* A build replaces the active epoch.  The trees in bad have data that cannot
\* be counted.
Rebuild(bad) ==
  /\ pc = "idle" /\ \A t \in Members : HasRootRow(t)
  /\ bad \subseteq {RootOf(t) : t \in {u \in Members : Present(u)}}
  /\ \/ bad \subseteq DOMAIN quarantine /\ UNCHANGED faults
     \/ ~(bad \subseteq DOMAIN quarantine) /\ faults < MaxFaults /\ faults' = faults + 1
  /\ usage' = Counted(bad)
  /\ \A t \in Threads : usage'[t] # NoThread => Estimable(program, Lines[t])
  /\ costs' = CostsOf({t \in Threads : usage'[t] # NoThread})
  /\ quarantine' = [r \in bad |-> {t \in Members : RootOf(t) = r}]
  /\ <<usage', quarantine'>> # <<usage, quarantine>>
  /\ UNCHANGED <<world, facts, rows, bound, pc, view, patches, todo, roundAt, clock, clean, quiet,
                 changes, program, priced>>

-----------------------------------------------------------------------------
(* The program starts again, of this version or of another *)

\* Mutant of Repriced: the versions are compared, the events are not read.
RepricedNever(p) == priced' = p.version /\ UNCHANGED costs

\* refresh_usage_costs_if_needed: every event of the database, or none.
Repriced(p) ==
  IF priced = p.version THEN UNCHANGED <<priced, costs>>
  ELSE /\ \A t \in Threads : Estimable(p, DOMAIN costs[t])
       /\ costs' = [t \in Threads |-> CostsBy(p, DOMAIN costs[t])]
       /\ priced' = p.version

\* Ledger::open, of a program that no round of the one before outlives.  A
\* database whose events cannot all be priced is not opened.
Open(p) ==
  /\ pc = "idle" /\ p # program /\ changes < MaxChanges /\ changes' = changes + 1
  /\ program' = p /\ Repriced(p)
  /\ UNCHANGED <<world, facts, rows, bound, usage, pc, view, patches, todo, roundAt, clock, clean,
                 quiet, faults, quarantine>>

LedgerNext ==
  \/ Metadata
  \/ \E t \in Threads : CountThread(t)
  \/ \E bad \in SUBSET Threads : Rebuild(bad)
  \/ \E p \in Programs : Open(p)

LedgerSpec == LedgerInit /\ [][LedgerNext]_ledgerVars

-----------------------------------------------------------------------------
(* The snapshot a reader gets *)

Snap ==
  [events |-> UNION {{[thread |-> t, line |-> e, root |-> usage[t], model |-> e.model,
                       at |-> e.at, tokens |-> e.tokens, write |-> e.write,
                       cost |-> costs[t][e]] :
                        e \in DOMAIN costs[t]} :
                     t \in {u \in Threads : usage[u] # NoThread}},
   rows |-> [t \in {u \in Threads : rows[u] # NoRow} |-> rows[t]],
   quarantine |-> {[root |-> r, at |-> Active] : r \in DOMAIN quarantine}]

\* The rows are current and no round runs.
Settled == pc = "idle" /\ quiet > 0 /\ ~Dirty

-----------------------------------------------------------------------------
(* Properties *)

\* Events and quarantine refer to roots that are in the threads table, whatever
\* order the groups of a round are committed in (foreign_keys).
LedgerTypeOK ==
  /\ TypeOK
  /\ \A t \in Threads : usage[t] # NoThread => rows[usage[t]] # NoRow
  /\ \A r \in DOMAIN quarantine : rows[r] # NoRow
  /\ quarantine \in UNION {[R -> SUBSET Threads] : R \in SUBSET Threads}
  /\ program \in Programs /\ priced \in {p.version : p \in Programs}
  /\ \A t \in Threads :
       /\ DOMAIN costs[t] = IF usage[t] = NoThread THEN {} ELSE Lines[t]
       /\ \A e \in DOMAIN costs[t] : costs[t][e] \in 0..MaxInt64 \cup {NoCount}

\* What the counted events of a session cost by the price list of the running
\* program: the stored costs are not asked.
EstimateOf(range, root) ==
  CostSum(UNION {{[thread |-> t, line |-> e, cost |-> StoredCost(EventCost(program, e))] :
                    e \in {l \in Lines[t] : InRange(range, l)}} :
                 t \in {u \in Threads : usage[u] = root}})

\* The index, the row and the detail of a session, which add the events up in
\* three ways, agree on its usage, its cost and its last activity, whoever asks
\* for the rows of the index gets them, and the cost is that of the running
\* program, also of events that another program has counted.
ViewsOfASessionAgree ==
  LET l == Snap IN
  pc = "idle" => \A range \in Ranges :
    LET index == SortIndex(l, range, NoFilter)
        shown == SessionRows(l, range, NoFilter, {item.root : item \in index})
    IN  \A item \in index :
          item.status # "error" =>
            LET row == SessionRow(l, range, item.root)
                detail == SessionDetail(l, range, NoFilter, item.root)
            IN  /\ detail.inclusive = row.inclusive /\ detail.self = row.self
                /\ item.tokens = row.inclusive.tokens /\ item.self = row.self.tokens
                /\ item.cost = row.inclusive.cost /\ item.status = row.status
                /\ item.cost = EstimateOf(range, item.root)
                /\ item.last = row.last /\ detail.last = row.last
                /\ Cardinality(detail.subagents) = row.count
                /\ row \in shown \/ item.root \in DOMAIN quarantine

\* Filters the page offers (filter_options): one model, or one kind of project.
Offered(l) ==
  {[models |-> {m}, kinds |-> {}] : m \in FilterOptions(l).models}
    \cup {[models |-> {}, kinds |-> {k}] : k \in FilterOptions(l).kinds}

\* Whatever is asked for, the summary counts the sessions the table lists,
\* except those whose root is no main thread in the threads table.
OnlyDemotedRootsAreUnlisted ==
  LET l == Snap IN
  pc = "idle" => \A range \in Ranges : \A filter \in Filters \cup Offered(l) :
    EligibleRoots(l, range, filter) = {r \in RootsOf(Matching(l, range, filter)) : IsMain(l, r)}

\* verify_invariants (usage/aggregate.rs) and the charts: the groups of every
\* chart and the rows of the models table, each summed on its own, add up to the
\* summary, missing prices and all.
ChartsAddUp ==
  LET l == Snap IN
  pc = "idle" => \A range \in Ranges :
    /\ MergeAll([m \in {r.model : r \in ModelRows(l, range)} |->
         (CHOOSE r \in ModelRows(l, range) : r.model = m).totals]) = Summary(l, range, NoFilter).totals
    /\ \A filter \in Filters :
         /\ MergeAll(ModelDistribution(l, range, filter)) = Summary(l, range, filter).totals
         /\ MergeAll(ProjectDistribution(l, range, filter)) = Summary(l, range, filter).totals

\* usage/rebuild.rs 413-415: a tree in quarantine contributes no usage to the
\* epoch, so that a session is listed once.
ListedOnce ==
  LET l == Snap IN
  Settled => \A range \in Ranges : \A q \in Quarantined(l, range, NoFilter) :
    q.root \notin EligibleRoots(l, range, NoFilter)

\* docs/MiniUsage_Codex本地数据口径_v0.2.md:1111: the summary counts the sessions
\* of the table, in every range, once the rows are current.
SummaryCountsTheTable ==
  LET l == Snap IN
  Settled => \A range \in Ranges :
    Summary(l, range, NoFilter).total = Cardinality(SortIndex(l, range, NoFilter))
=============================================================================
