----------------------------- MODULE ThreadRows -----------------------------
(***************************************************************************)
(* The threads table and its resolver (codex/metadata.rs, the thread half  *)
(* of storage/metadata.rs).                                                *)
(*                                                                         *)
(* A round reads four sources one after the other: the state database of   *)
(* Codex (threads and spawn edges), the session index, the global state    *)
(* and the facts of the rollout files.  ThreadMetadataResolver computes    *)
(* from them and from the stored rows one patch per thread; the patches    *)
(* are committed one thread at a time, in the order of the thread ids.     *)
(*                                                                         *)
(* Of a row we keep the relation (parent, root, role), the title as the    *)
(* source it came from, whether project path and times are known, the      *)
(* project kind, the quality and the time of resolution.  The other fields *)
(* are set and kept as these are.                                          *)
(***************************************************************************)
EXTENDS Naturals, FiniteSets

CONSTANTS
  Threads,      \* thread ids, ordered as the code orders them
  NoThread, NoRow, Keep, Clear,
  MaxDepth,     \* MAX_PARENT_DEPTH
  Tree,         \* [Threads -> Threads \cup {NoThread}]: who spawned whom
  Edges,        \* spawn edges the state database may come to hold
  StateRows,    \* rows the state database may come to hold of a thread
  Evidence,     \* [Threads -> facts that may come to stand in its files]
  Left,         \* what Codex may have left before the first start
  MaxChanges, MaxFaults

Roles == {"main", "subagent", "unknown"}

\* What the resolver uses of a RolloutThreadFact.
Fact == [level: {"direct", "nested", "forked"}, parent: Threads \cup {NoThread},
         role: {"none", "main", "subagent"}, conflict: BOOLEAN]
\* What it uses of a StateThreadFact.
StateRow == [named: BOOLEAN, role: {"none", "main", "subagent"}]

ASSUME ThreadsAssumption ==
  /\ Threads \subseteq Nat /\ IsFiniteSet(Threads)
  /\ NoThread \notin Threads /\ Keep \notin Threads /\ Clear \notin Threads
  /\ Keep # Clear /\ Keep # NoThread /\ Clear # NoThread
  /\ Keep \notin Roles
ASSUME DepthAssumption == MaxDepth \in Nat \ {0}
ASSUME SourcesAssumption ==
  /\ Tree \in [Threads -> Threads \cup {NoThread}]
  /\ Edges \subseteq Threads \X Threads
  /\ StateRows \subseteq StateRow
  /\ Evidence \in [Threads -> SUBSET Fact]
  /\ Left \subseteq [edges : SUBSET Edges, facts : [Threads -> SUBSET Fact]]
\* Codex writes the truth, though not all of it at once.
ASSUME TruthAssumption ==
  /\ \A e \in Edges : Tree[e[2]] = e[1]
  /\ \A t \in Threads : \A f \in Evidence[t] : f.parent \in {NoThread, Tree[t]}
  /\ \A l \in Left, t \in Threads : l.facts[t] \subseteq Evidence[t]
ASSUME BoundsAssumption == MaxChanges \in Nat /\ MaxFaults \in Nat

Row == [parent: Threads \cup {NoThread}, root: Threads \cup {NoThread}, role: Roles,
        title: {"none", "state", "index", "path"}, project: BOOLEAN, dated: BOOLEAN,
        kind: {"unknown", "project", "projectless"},
        quality: {"complete", "partial", "conflict"}, at: Nat]

ASSUME RowAssumption == NoRow \notin Row

VARIABLES
  world,    \* state database, session index, global state
  facts,    \* [Threads -> the facts of its present rollout files]
  rows,     \* the threads table
  bound,    \* threads some source_files row is bound to
  usage,    \* root under which the active epoch counts the usage of a thread
  pc,       \* "idle", "files" or "commit"
  view,     \* what the round has read
  patches,  \* [thread -> patch] it resolved
  todo,     \* groups not yet committed
  roundAt,  \* time of the round
  clock,    \* the wall clock
  clean,    \* the round has not failed and its sources have not changed
  quiet,    \* clean rounds in a row since the sources changed
  changes, faults

vars == <<world, facts, rows, bound, usage, pc, view, patches, todo, roundAt, clock, clean, quiet,
          changes, faults>>

World == [db: [Threads -> StateRow \cup {NoRow}], edges: SUBSET (Threads \X Threads),
          stateUp: BOOLEAN, edgesUp: BOOLEAN, index: SUBSET Threads, indexUp: BOOLEAN,
          global: {"complete", "absent", "bad"}, projectless: SUBSET Threads]

\* A source that cannot be read gives an empty snapshot.
Snapshot(w) ==
  [w EXCEPT !.db = IF w.stateUp THEN w.db ELSE [t \in Threads |-> NoRow],
            !.edges = IF w.stateUp /\ w.edgesUp THEN w.edges ELSE {},
            !.edgesUp = w.stateUp /\ w.edgesUp,
            !.index = IF w.indexUp THEN w.index ELSE {}]

-----------------------------------------------------------------------------
(* Relations.  v is a view: the snapshots, the facts and the stored rows. *)

View == [src: World, known: [Threads -> SUBSET Fact], rows: [Threads -> Row \cup {NoRow}],
         blocked: SUBSET Threads]

Exists(v, t) == v.rows[t] # NoRow
InState(v, t) == v.src.db[t] # NoRow
Identified(v, t) == InState(v, t) \/ v.known[t] # {}

Affected(v) ==
  {t \in Threads : \/ Identified(v, t) \/ Exists(v, t) \/ t \in v.src.index
                   \/ \E e \in v.src.edges : t \in {e[1], e[2]}}

Trusted(v) == {t \in Threads : Identified(v, t) \/ Exists(v, t) \/ t \in v.src.index}

Hints(v, t, level) == {f.parent : f \in {g \in v.known[t] : g.level = level}} \ {NoThread}

\* Candidates for the parent, the best source first.
Candidates(v, t) ==
  <<{e[1] : e \in {d \in v.src.edges : d[2] = t}},
    Hints(v, t, "direct"), Hints(v, t, "nested"), Hints(v, t, "forked")>>

HintsRole(v, t, role) == \E f \in v.known[t] : f.role = role
StateRole(v, t, role) == InState(v, t) /\ v.src.db[t].role = role

\* The best source that names a parent decides if it names one only; a worse
\* one that names another is a conflict.
Relationship(v, t) ==
  LET c == Candidates(v, t)
      best == {i \in 1..4 : c[i] # {} /\ \A j \in 1..(i - 1) : c[j] = {}}
      one == {p \in Threads : \E i \in best : c[i] = {p}}
      main == HintsRole(v, t, "main") \/ StateRole(v, t, "main")
  IN  [parent |-> IF one = {} THEN NoThread ELSE CHOOSE p \in one : TRUE,
       main |-> main,
       subagent |-> \/ HintsRole(v, t, "subagent") \/ StateRole(v, t, "subagent")
                    \/ \E f \in v.known[t] : f.parent # NoThread,
       conflict |-> \/ best # {} /\ one = {}
                    \/ one # {} /\ (main \/ \E j \in 1..4 : c[j] \ one # {})
                    \/ \E f \in v.known[t] : f.conflict
                    \/ HintsRole(v, t, "main") /\ HintsRole(v, t, "subagent")]

Relationships(v) == [t \in Affected(v) |-> Relationship(v, t)]

\* The n-th thread up the parents of t, NoThread past the top.
Chain(rel, t) ==
  LET up[n \in 0..MaxDepth] ==
        IF n = 0 THEN t
        ELSE IF up[n - 1] \in DOMAIN rel THEN rel[up[n - 1]].parent ELSE NoThread
  IN [n \in 0..MaxDepth |-> up[n]]

Chains(rel) == [t \in DOMAIN rel |-> Chain(rel, t)]

Conflicting(g, t) == g.rel[t].conflict \/ \E n \in 1..MaxDepth : g.chain[t][n] = t

Role(v, g, t) ==
  IF Conflicting(g, t) THEN "unknown"
  ELSE IF g.rel[t].parent # NoThread THEN "subagent"
  ELSE IF g.rel[t].subagent THEN "unknown"
  ELSE IF g.rel[t].main \/ (v.src.stateUp /\ v.src.edgesUp /\ Identified(v, t)) THEN "main"
  ELSE "none"

-----------------------------------------------------------------------------
(* Roots: walk up over subagents whose parents are known. *)

\* The walk from t reaches its n-th ancestor.
Reaches(g, t, n) ==
  \A m \in 0..(n - 1) : /\ g.role[g.chain[t][m]] = "subagent"
                        /\ g.chain[t][m + 1] \in g.trusted

Root(g, t) ==
  LET top == {n \in 0..MaxDepth : Reaches(g, t, n) /\ g.role[g.chain[t][n]] = "main"}
  IN  IF top = {} THEN NoThread ELSE g.chain[t][CHOOSE n \in top : TRUE]

\* The walk ends at a thread of which too little is known, not at a conflict.
RootUnknown(g, t) ==
  \E n \in 0..MaxDepth :
     LET a == g.chain[t][n]
     IN  /\ Reaches(g, t, n)
         /\ g.role[a] = "none" \/ (g.role[a] = "unknown" /\ ~Conflicting(g, a))

\* What the resolver works out about all threads before it looks at one.
Graph(v) ==
  LET rel == Relationships(v)
      g == [rel |-> rel, chain |-> Chains(rel), trusted |-> Trusted(v)]
      h == [rel |-> rel, chain |-> g.chain, trusted |-> g.trusted,
            role |-> [t \in DOMAIN rel |-> Role(v, g, t)]]
  IN  [rel |-> rel, chain |-> h.chain, role |-> h.role,
       root |-> [t \in DOMAIN rel |-> Root(h, t)],
       unknown |-> [t \in DOMAIN rel |-> RootUnknown(h, t)]]

-----------------------------------------------------------------------------
(* Patches *)

Set(existing, desired) == IF existing = desired THEN Keep ELSE desired
SetIf(known, existing, desired) == IF known THEN Set(existing, desired) ELSE Keep

Blank == [parent |-> NoThread, root |-> NoThread, role |-> "unknown", title |-> "none",
          project |-> FALSE, dated |-> FALSE, kind |-> "unknown", quality |-> "complete", at |-> 0]

Stored(v, t) == IF Exists(v, t) THEN v.rows[t] ELSE Blank

\* The title the round would give, "none" if it gives none.
TitleOf(v, g, t) ==
  IF InState(v, t) /\ v.src.db[t].named THEN "state"
  ELSE IF v.src.stateUp /\ t \in v.src.index THEN "index"
  ELSE IF /\ g.role[t] = "subagent" /\ Stored(v, t).title = "none"
          /\ HintsRole(v, t, "subagent") THEN "path"
  ELSE "none"

KindOf(v, t) ==
  IF v.src.global = "bad" THEN Stored(v, t).kind
  ELSE IF v.src.global = "complete" /\ t \in v.src.projectless THEN "projectless"
  ELSE IF Identified(v, t) THEN "project"
  ELSE "unknown"

Dated(v, t) == v.src.stateUp /\ Identified(v, t)

FullView(v, t) ==
  v.src.stateUp /\ v.src.edgesUp /\ v.src.indexUp /\ t \notin v.blocked

QualityOf(v, g, t) ==
  IF Conflicting(g, t) THEN "conflict"
  ELSE IF /\ FullView(v, t) /\ g.role[t] \in {"main", "subagent"} /\ g.root[t] # NoThread
          /\ TitleOf(v, g, t) # "none" /\ Dated(v, t)
    THEN "complete"
  ELSE "partial"

MainPatch(e, t) ==
  [parent |-> IF e.parent = NoThread THEN Keep ELSE Clear,
   root |-> Set(e.root, t), role |-> Set(e.role, "main")]

SubagentPatch(e, g, t) ==
  [parent |-> Set(e.parent, g.rel[t].parent),
   root |-> SetIf(g.root[t] # NoThread, e.root, g.root[t]), role |-> Set(e.role, "subagent")]

BecomesMain(g, t) ==
  g.rel[t].parent = NoThread /\ g.role[t] = "main" /\ g.root[t] # NoThread

BecomesSubagent(g, t) ==
  g.role[t] = "subagent" /\ (g.root[t] # NoThread \/ g.unknown[t])

\* Mutant of RelationPatch: a conflict makes the role unknown again.
RelationPatchResets(v, g, t) ==
  LET e == Stored(v, t)
  IN  IF BecomesMain(g, t) THEN MainPatch(e, t)
      ELSE IF BecomesSubagent(g, t) THEN SubagentPatch(e, g, t)
      ELSE [parent |-> Keep, root |-> Keep, role |-> Set(e.role, "unknown")]

\* Parent, root and role change together or not at all.
RelationPatch(v, g, t) ==
  LET e == Stored(v, t)
  IN  IF BecomesMain(g, t) THEN MainPatch(e, t)
      ELSE IF BecomesSubagent(g, t) THEN SubagentPatch(e, g, t)
      ELSE [parent |-> Keep, root |-> Keep, role |-> Keep]

Patch(v, g, t) ==
  LET e == Stored(v, t)
      r == RelationPatch(v, g, t)
  IN  [parent |-> r.parent, root |-> r.root, role |-> r.role,
       title |-> SetIf(TitleOf(v, g, t) # "none", e.title, TitleOf(v, g, t)),
       project |-> SetIf(Identified(v, t), e.project, TRUE),
       dated |-> SetIf(Dated(v, t), e.dated, TRUE),
       kind |-> Set(e.kind, KindOf(v, t)),
       quality |-> QualityOf(v, g, t), full |-> FullView(v, t)]

Changes(v, t, p) ==
  \/ ~Exists(v, t)
  \/ v.rows[t].quality # p.quality
  \/ \E f \in {"parent", "root", "role", "title", "project", "dated", "kind"} : p[f] # Keep

\* ResolvedThreadPatch::validate: only a full view may clear.
Legal(p) == p.parent = Clear => p.full

\* The patches of a round, by thread.
Resolve(v) ==
  LET g == Graph(v)
      all == [t \in DOMAIN g.rel \ v.blocked |-> Patch(v, g, t)]
  IN  [t \in {u \in DOMAIN all : Changes(v, u, all[u]) /\ Legal(all[u])} |-> all[t]]

NoPatches == [t \in {} |-> Blank]

-----------------------------------------------------------------------------
(* Commit of one group (commit_group) *)

Apply(current, patch) == IF patch = Keep THEN current ELSE patch

\* The row a patch makes of the stored one.
RowAfter(row, t, p, now) ==
  LET e == IF row = NoRow THEN Blank ELSE row
      role == Apply(e.role, p.role)
  IN  [parent |-> IF p.parent = Clear THEN NoThread ELSE Apply(e.parent, p.parent),
       root |-> IF row = NoRow /\ role = "main" /\ p.root = Keep THEN t ELSE Apply(e.root, p.root),
       role |-> role, title |-> Apply(e.title, p.title), project |-> Apply(e.project, p.project),
       dated |-> Apply(e.dated, p.dated), kind |-> Apply(e.kind, p.kind),
       quality |-> p.quality, at |-> now]

\* validate_thread_row
ValidRow(t, r) ==
  /\ r.role = "main" => r.parent = NoThread /\ r.root = t
  /\ r.role = "subagent" => r.parent # NoThread
  /\ r.role = "unknown" => r.root = NoThread

\* reconcile_usage_metadata_change refuses to clear a confirmed root.
RootCleared(row, r) == row # NoRow /\ row.root # NoThread /\ r.root = NoThread

\* The patch fits the stored row, whatever the clock says.
Fits(row, t, p, now) == ValidRow(t, RowAfter(row, t, p, now)) /\ ~RootCleared(row, RowAfter(row, t, p, now))

Accepted(row, t, p, now) == (row # NoRow => row.at <= now) /\ Fits(row, t, p, now)

-----------------------------------------------------------------------------
(* The round *)

NoView == [src |-> Snapshot([db |-> [t \in Threads |-> NoRow], edges |-> {}, stateUp |-> TRUE,
                             edgesUp |-> TRUE, index |-> {}, indexUp |-> TRUE,
                             global |-> "absent", projectless |-> {}]),
           known |-> [t \in Threads |-> {}], rows |-> [t \in Threads |-> NoRow], blocked |-> {}]

\* The first start meets what Codex has left: some of its edges and files.
Init ==
  /\ \E l \in Left : world = [NoView.src EXCEPT !.edges = l.edges] /\ facts = l.facts
  /\ rows = [t \in Threads |-> NoRow]
  /\ bound = {} /\ usage = [t \in Threads |-> NoThread]
  /\ pc = "idle" /\ view = NoView /\ patches = NoPatches /\ todo = {}
  /\ roundAt = 0 /\ clock = 0 /\ clean = TRUE /\ quiet = 0
  /\ changes = 0 /\ faults = 0

\* The index sources are read before the files are walked.
StartRound ==
  /\ pc = "idle"
  /\ pc' = "files" /\ roundAt' = clock /\ clean' = TRUE
  /\ view' = [NoView EXCEPT !.src = Snapshot(world)]
  /\ UNCHANGED <<world, facts, rows, bound, usage, patches, todo, clock, quiet, changes, faults>>

\* Every group of which all sources were read: a bound thread whose file was
\* not is left out, a thread of which only other sources speak is not.
GroupsOf(v) == (Affected(v) \cup bound) \ v.blocked

\* find_incomplete_rollout_groups: bound files of which this round has no fact.
Incomplete(lost) == lost \cap bound

\* The files of the threads in lost cannot be read in this round.
ReadFiles(lost) ==
  LET v == [view EXCEPT !.known = [t \in Threads |-> IF t \in lost THEN {} ELSE facts[t]],
                        !.rows = rows, !.blocked = Incomplete(lost)]
  IN  /\ pc = "files"
      /\ lost # {} => faults < MaxFaults /\ \A t \in lost : facts[t] # {}
      /\ faults' = faults + (IF lost = {} THEN 0 ELSE 1)
      /\ view' = v /\ patches' = Resolve(v) /\ todo' = GroupsOf(v)
      /\ clean' = (clean /\ lost = {}) /\ pc' = "commit"
      /\ UNCHANGED <<world, facts, rows, bound, usage, roundAt, clock, quiet, changes>>

\* Mutant of Reconciled: usage stays under the root it was first counted for.
ReconciledNever(t, root) == usage

Reconciled(t, root) ==
  IF usage[t] # NoThread /\ usage[t] # root THEN [usage EXCEPT ![t] = root] ELSE usage

\* Usage can only move to a root that has a row (the foreign key of usage_events).
RootStored(t, root) ==
  usage[t] # NoThread /\ usage[t] # root => root = t \/ rows[root] # NoRow

Applicable(t) ==
  t \in DOMAIN patches =>
    /\ Accepted(rows[t], t, patches[t], roundAt)
    /\ RootStored(t, RowAfter(rows[t], t, patches[t], roundAt).root)

\* One transaction: the sources of the group, its row and the roots of its usage.
Commit(t) ==
  /\ \/ t \notin DOMAIN patches /\ UNCHANGED <<rows, usage>>
     \/ /\ t \in DOMAIN patches /\ Applicable(t)
        /\ LET r == RowAfter(rows[t], t, patches[t], roundAt)
           IN  /\ rows' = [rows EXCEPT ![t] = r]
               /\ usage' = Reconciled(t, r.root)
  /\ bound' = IF view.known[t] = {} THEN bound ELSE bound \cup {t}
  /\ UNCHANGED <<faults, clean>>

\* A group that is refused or fails is skipped, the others go on.
Skip(t) ==
  /\ \/ ~Applicable(t) /\ UNCHANGED faults
     \/ faults < MaxFaults /\ faults' = faults + 1
  /\ clean' = FALSE
  /\ UNCHANGED <<rows, usage, bound>>

CommitGroup(t) ==
  /\ pc = "commit" /\ t \in todo /\ \A u \in todo : t <= u
  /\ Commit(t) \/ Skip(t)
  /\ todo' = todo \ {t}
  /\ UNCHANGED <<world, facts, pc, view, patches, roundAt, clock, quiet, changes>>

\* The round leaves nothing in memory.
Rest ==
  /\ pc' = "idle" /\ view' = NoView /\ patches' = NoPatches /\ roundAt' = 0 /\ clean' = TRUE
  /\ UNCHANGED <<world, facts, rows, bound, usage, clock, changes>>

EndRound ==
  /\ pc = "commit" /\ todo = {}
  /\ quiet' = IF ~clean THEN 0 ELSE IF quiet < 2 THEN quiet + 1 ELSE 2
  /\ Rest /\ UNCHANGED <<todo, faults>>

\* Cancelled, or the process ends.
Stop ==
  /\ pc # "idle" /\ faults < MaxFaults /\ faults' = faults + 1
  /\ todo' = {} /\ quiet' = 0
  /\ Rest

-----------------------------------------------------------------------------
(* The environment: Codex writes its sources, the clock moves. *)

WorldChanges ==
  \/ \E t \in Threads, r \in StateRows : world' = [world EXCEPT !.db[t] = r]
  \/ \E e \in Edges : world' = [world EXCEPT !.edges = @ \cup {e}]
  \/ world' = [world EXCEPT !.stateUp = ~@]
  \/ world' = [world EXCEPT !.edgesUp = ~@]
  \/ \E t \in Threads : world' = [world EXCEPT !.index = @ \cup {t}]
  \/ world' = [world EXCEPT !.indexUp = ~@]
  \/ \E t \in Threads :
        world' = [world EXCEPT !.global = "complete", !.projectless = @ \cup {t}]
  \/ world' = [world EXCEPT !.global = "bad"]

FilesChange ==
  \/ \E t \in Threads : \E f \in Evidence[t] : facts' = [facts EXCEPT ![t] = @ \cup {f}]
  \/ \E t \in Threads : facts' = [facts EXCEPT ![t] = {}]

\* A round reads nothing more once it has read, so that a change after the
\* read is the same as one after the round.
Change ==
  /\ changes < MaxChanges /\ changes' = changes + 1
  /\ \/ pc = "idle" /\ WorldChanges /\ world' # world /\ UNCHANGED facts
     \/ pc # "commit" /\ FilesChange /\ facts' # facts /\ UNCHANGED world
  /\ clean' = (pc = "idle") /\ quiet' = 0
  /\ UNCHANGED <<rows, bound, usage, pc, view, patches, todo, roundAt, clock, faults>>

\* The wall clock is set, forwards or back.
SetClock ==
  /\ pc = "idle" /\ faults < MaxFaults /\ faults' = faults + 1
  /\ clock' = 1 - clock
  /\ UNCHANGED <<world, facts, rows, bound, usage, pc, view, patches, todo, roundAt, clean, quiet,
                 changes>>

ThreadNext ==
  \/ StartRound \/ EndRound \/ Stop \/ Change \/ SetClock
  \/ ReadFiles({}) \/ \E t \in Threads : ReadFiles({t})
  \/ \E t \in Threads : CommitGroup(t)

-----------------------------------------------------------------------------
(* Properties *)

TypeOK ==
  /\ world \in World /\ facts \in [Threads -> SUBSET Fact]
  /\ rows \in [Threads -> Row \cup {NoRow}] /\ bound \subseteq Threads
  /\ usage \in [Threads -> Threads \cup {NoThread}] /\ pc \in {"idle", "files", "commit"}
  /\ view \in View /\ todo \subseteq Threads
  /\ roundAt \in Nat /\ clock \in {0, 1} /\ clean \in BOOLEAN /\ quiet \in 0..2

\* No patch the resolver makes is refused by the store, whatever the row it
\* meets was made of: a refused group would never advance its files.  Only a
\* clock set back can make the store wait (apply_existing_patch).
PatchesFit ==
  pc = "commit" => \A t \in todo \cap DOMAIN patches : Fits(rows[t], t, patches[t], roundAt)

\* Rounds over sources that stay the same come to rest: after the second
\* there is nothing to write, so no revision wakes the readers any more.
RoundsComeToRest ==
  pc = "commit" /\ clean /\ quiet >= 2 => DOMAIN patches = {}

\* t, who spawned it, and so on: what is in every set of threads that holds t and, with
\* a thread, who spawned it.
Ancestry(t) ==
  {NoThread} \cup
  {u \in Threads : \A S \in SUBSET Threads :
     t \in S /\ (\A s \in S : Tree[s] \in S \cup {NoThread}) => u \in S}

\* Whatever part of the truth the sources tell at a time, a thread is shown
\* under its own parent and counted for a session of its own ancestry.
OwnAncestry ==
  \A t \in Threads : rows[t] # NoRow =>
     /\ rows[t].parent \in {NoThread, Tree[t]}
     /\ rows[t].root \in Ancestry(t)
     /\ usage[t] \in {NoThread, rows[t].root}
=============================================================================
