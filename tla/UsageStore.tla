------------------------------ MODULE UsageStore ------------------------------
(***************************************************************************)
(* The usage ledger as its transactions leave it: the active epoch, the    *)
(* epoch being built beside it, the manifest of the build, the one usage   *)
(* checkpoint of every source, and the plan the planner derives from them  *)
(* (src/src/storage/usage.rs, src/src/usage/rebuild.rs,                    *)
(* src/src/usage/ledger.rs).                                               *)
(*                                                                         *)
(* A complete line is LineSize bytes, so a raw size that is not a multiple *)
(* of it ends in a half line.  The first line of a rollout is its          *)
(* session_meta and carries no facts; every later line carries one         *)
(* occurrence of one canonical event (with its turn, skill and anomaly     *)
(* rows, which the code writes and deletes together with it).  Copies of a *)
(* rollout belong to one thread and share canonical events.  An epoch      *)
(* number is one more than the active one's and is never used again, so    *)
(* the two live epochs are kept without their numbers.                     *)
(***************************************************************************)
EXTENDS Integers, FiniteSets

CONSTANTS
  Sources,      \* source_file_id
  ThreadOf,     \* source -> the thread its content names
  Threads,      \* thread ids, in the order the work list sorts them
  MaxRaw,       \* bound: bytes of a file
  MaxGen,       \* bound: file_generation
  MaxParser     \* bound: USAGE_PARSER_VERSION of an installed build

LineSize == 2

ASSUME StoreAssumption ==
  /\ Sources \subseteq Nat /\ Threads \subseteq Nat
  /\ ThreadOf \in [Sources -> Threads]
  /\ MaxRaw \in Nat /\ MaxGen \in Nat \ {0} /\ MaxParser \in Nat \ {0}

VARIABLES
  src,       \* source_files: known, present, generation, observed size, bound thread
  root,      \* threads.root_session_id
  app,       \* app_meta: an active epoch exists, its parser, a build exists, its parser
  cp,        \* source_checkpoints of the usage consumer
  act,       \* rows of the active epoch
  bld,       \* rows of the build epoch
  member,    \* usage_build_sources
  rev        \* data_revision, of which only the last bit is kept

store == <<src, root, app, cp, act, bld, member, rev>>

------------------------------------------------------------------------------
(* Rows. *)

Row        == [known : BOOLEAN, present : BOOLEAN, gen : 0..MaxGen, raw : 0..MaxRaw, bound : BOOLEAN]
Tails      == {"unverified", "none", "half_line"}
State      == [gen : 0..MaxGen, root : Threads \union {0}, parser : 0..MaxParser,
               off : 0..MaxRaw, raw : 0..MaxRaw, tail : Tails]
Checkpoint == [status : {"none", "ready", "rebuild_required"}, parser : 0..MaxParser, off : 0..MaxRaw]
Fact       == [gen : 1..MaxGen, line : 2..MaxRaw]
Event      == [thread : Threads, gen : 1..MaxGen, line : 2..MaxRaw]
Proof      == [root : Threads, source : Sources, gen : 0..MaxGen, raw : 0..MaxRaw]
Epoch      == [state : [Sources -> State], occ : [Sources -> SUBSET Fact],
               events : SUBSET Event, quarantine : SUBSET Proof]
Completion == {"pending", "blocked", "rebuilt", "carried", "quarantined"}
Member     == [in : BOOLEAN, gen : 0..MaxGen, bound : BOOLEAN, root : Threads \union {0},
               aoff : 0..MaxRaw, proof : State, required : 0..MaxRaw, raw : 0..MaxRaw,
               tail : Tails, status : Completion,
               phase : {"none", "occurrences", "turns", "anomalies", "finalize"}, through : 0..MaxRaw]

NoRow    == [known |-> FALSE, present |-> FALSE, gen |-> 0, raw |-> 0, bound |-> FALSE]
NoState  == [gen |-> 0, root |-> 0, parser |-> 0, off |-> 0, raw |-> 0, tail |-> "unverified"]
NoCp     == [status |-> "none", parser |-> 0, off |-> 0]
NoMember == [in |-> FALSE, gen |-> 0, bound |-> FALSE, root |-> 0, aoff |-> 0, proof |-> NoState,
             required |-> 0, raw |-> 0, tail |-> "unverified", status |-> "pending",
             phase |-> "none", through |-> 0]
EmptyEpoch == [state |-> [s \in Sources |-> NoState], occ |-> [s \in Sources |-> {}],
               events |-> {}, quarantine |-> {}]

StoreTypeOK ==
  /\ src \in [Sources -> Row]
  /\ root \in [Threads -> Threads]
  /\ app \in [active : BOOLEAN, parser : 0..MaxParser, build : BOOLEAN, target : 0..MaxParser]
  /\ cp \in [Sources -> Checkpoint]
  /\ act \in Epoch /\ bld \in Epoch
  /\ member \in [Sources -> Member]
  /\ rev \in {0, 1}

InitStore ==
  /\ src = [s \in Sources |-> NoRow]
  /\ root = [t \in Threads |-> t]
  /\ app = [active |-> FALSE, parser |-> 0, build |-> FALSE, target |-> 0]
  /\ cp = [s \in Sources |-> NoCp]
  /\ act = EmptyEpoch /\ bld = EmptyEpoch
  /\ member = [s \in Sources |-> NoMember]
  /\ rev = 0

------------------------------------------------------------------------------
(* What lines say. *)

LastComplete(raw) == raw - (raw % LineSize)

Facts(gen, off) == {f \in Fact : f.gen = gen /\ f.line * LineSize <= off}

EventOf(s, f) == [thread |-> ThreadOf[s], gen |-> f.gen, line |-> f.line]

Counted(occ) == UNION {{EventOf(s, f) : f \in occ[s]} : s \in Sources}

Larger(a, b) == IF a > b THEN a ELSE b

------------------------------------------------------------------------------
(* Epochs.  Work goes to the build when there is one. *)

Present       == {s \in Sources : src[s].present}
Working       == IF app.build THEN bld ELSE act
WorkingParser == IF app.build THEN app.target ELSE app.parser
RootOf(s)     == root[ThreadOf[s]]

\* Mutant of ActiveContributors: a file that is gone no longer counts as one.
PresentContributors ==
  IF app.active THEN {s \in Present : act.occ[s] # {} \/ act.state[s] # NoState} ELSE {}

\* active_contributors: whoever has rows that readers see, missing or not.
ActiveContributors ==
  IF app.active THEN {s \in Sources : act.occ[s] # {} \/ act.state[s] # NoState} ELSE {}

\* Mutant of Cleaned: only the states go.
CleanedStates(e, S) ==
  [e EXCEPT !.state = [s \in Sources |-> IF s \in S THEN NoState ELSE @[s]]]

\* Build rows of a source go; canonical rows stay while an occurrence needs them.
Cleaned(e, S) ==
  LET occ == [s \in Sources |-> IF s \in S THEN {} ELSE e.occ[s]]
  IN [e EXCEPT !.occ = occ, !.events = @ \intersect Counted(occ),
               !.state = [s \in Sources |-> IF s \in S THEN NoState ELSE @[s]]]

Reset(parser) == [status |-> "rebuild_required", parser |-> parser, off |-> 0]

\* What a member of a build is frozen to: its identity, the proof that its active
\* rows may be carried, and the bytes that the build has to reach again.
Freeze(st, r, f, c) ==
  LET matches == /\ app.active /\ st.gen = f.gen /\ st # NoState
                 /\ st.parser = app.parser /\ f.bound /\ st.root = r
                 /\ c = [status |-> "ready", parser |-> app.parser, off |-> st.off]
      durable == /\ app.active /\ st # NoState
                 /\ st.gen = f.gen /\ st.raw = f.raw /\ st.tail # "unverified"
  IN [in |-> TRUE, gen |-> f.gen, bound |-> f.bound, root |-> IF f.bound THEN r ELSE 0,
      aoff     |-> IF matches THEN st.off ELSE 0,
      proof    |-> IF matches THEN st ELSE NoState,
      required |-> IF durable THEN st.off ELSE 0,
      raw      |-> f.raw,
      tail     |-> IF durable THEN st.tail ELSE "unverified",
      status   |-> IF f.present /\ f.bound THEN "pending" ELSE "blocked",
      phase    |-> "none", through |-> 0]

\* A member that is replaced keeps the proofs its own checkpoint can no longer give:
\* the checkpoint has belonged to the build since the build began.
Refreeze(old, st, r, f, c) ==
  LET new     == Freeze(st, r, f, c)
      sameGen == old.in /\ old.gen = new.gen
      same    == sameGen /\ old.bound = new.bound /\ old.root = new.root
      rooted  == /\ sameGen /\ app.active /\ st # NoState /\ st.gen = new.gen
                 /\ st.parser = app.parser /\ st.off = old.aoff /\ new.bound /\ st.root = new.root
  IN [new EXCEPT
        !.required = IF sameGen THEN Larger(@, old.required) ELSE @,
        !.aoff     = IF same \/ rooted THEN old.aoff ELSE @,
        !.proof    = IF same THEN old.proof ELSE IF rooted THEN st ELSE @,
        !.tail     = IF sameGen /\ old.raw = new.raw THEN old.tail ELSE @]

------------------------------------------------------------------------------
(* The plan of a source. *)

Matches(s) ==
  LET st == Working.state[s] IN
  /\ st # NoState
  /\ st.gen = src[s].gen /\ st.parser = WorkingParser
  /\ cp[s].status # "none" /\ st.off = cp[s].off
  /\ st.root = RootOf(s)

TailProven(s) ==
  LET st == Working.state[s] IN
  /\ st.raw = src[s].raw /\ st.off = cp[s].off
  /\ \/ st.tail = "none" /\ cp[s].off = src[s].raw
     \/ st.tail = "half_line" /\ cp[s].off < src[s].raw

Unfinished(m) == m.status \in {"pending", "blocked"}

\* Mutant of CarryEligible: the parser is not compared.
CarryEligibleAnyParser(s) ==
  LET m == member[s]  st == act.state[s] IN
  /\ app.active /\ m.required = m.aoff
  /\ m.gen = src[s].gen /\ m.bound = src[s].bound /\ m.root = RootOf(s)
  /\ st # NoState /\ st = m.proof /\ st.off = m.aoff /\ st.raw = m.raw
  /\ st.tail # "unverified"
  /\ cp[s].status = "rebuild_required" /\ cp[s].off = 0 /\ bld.state[s] = NoState

CarryEligible(s) ==
  LET m == member[s]  st == act.state[s] IN
  /\ app.active /\ app.target = app.parser
  /\ m.required = m.aoff
  /\ m.gen = src[s].gen /\ m.bound = src[s].bound /\ m.root = RootOf(s)
  /\ st # NoState /\ st = m.proof /\ st.off = m.aoff
  /\ st.parser = app.parser /\ st.raw = m.raw /\ st.tail # "unverified"
  /\ \/ cp[s].status = "rebuild_required" /\ cp[s].off = 0 /\ bld.state[s] = NoState
     \/ /\ cp[s].status = "ready" /\ bld.state[s] # NoState
        /\ bld.state[s].off <= m.aoff /\ bld.state[s].gen = m.gen
        /\ bld.state[s].parser = app.target

\* A rebuild_required checkpoint of the active epoch may be replayed in place.
LocalReplaySafe(s) ==
  LET st == act.state[s] IN
  /\ ~app.build /\ cp[s].parser = app.parser
  /\ IF st # NoState
     THEN /\ st.gen = src[s].gen /\ st.parser = app.parser /\ st.root = RootOf(s)
          /\ cp[s].off = 0 \/ st.off = cp[s].off
     ELSE cp[s].off = 0 /\ act.occ[s] = {}

BuildPlan(s) ==
  LET m == member[s] IN
  IF m.status \in {"rebuilt", "carried", "quarantined"} THEN "Skip"
  ELSE IF m.phase # "none" THEN "ResumeCarry"
  ELSE IF ~src[s].present
       THEN IF CarryEligible(s) THEN "BeginCarry" ELSE "BlockedRelationship"
  ELSE IF /\ cp[s].status = "ready" /\ Matches(s) /\ cp[s].off = m.required
          /\ m.raw = src[s].raw /\ TailProven(s) /\ bld.state[s].tail = m.tail
       THEN "CompleteOnly"
  ELSE IF cp[s].status = "rebuild_required" /\ cp[s].off = 0 /\ bld.state[s] = NoState
       THEN "BuildFrom"
  ELSE IF cp[s].status = "ready" /\ Matches(s)
       THEN IF cp[s].off = src[s].raw /\ bld.state[s].tail = "unverified"
            THEN "VerifyRawTail" ELSE "BuildFrom"
  ELSE "RebuildRequired"

ActivePlan(s) ==
  IF ~src[s].present THEN "BlockedRelationship"
  ELSE IF cp[s].status = "ready" /\ Matches(s) /\ TailProven(s) THEN "Skip"
  ELSE IF cp[s].off > 0 /\ ~Matches(s) THEN "RebuildRequired"
  ELSE IF cp[s].status = "none" THEN "ReadFrom"
  ELSE IF cp[s].status = "rebuild_required"
       THEN IF LocalReplaySafe(s) THEN "LocalReplay" ELSE "RebuildRequired"
  ELSE IF cp[s].off = src[s].raw
       THEN IF act.state[s].tail = "unverified" THEN "VerifyRawTail" ELSE "RebuildRequired"
  ELSE "ResumeOwningLive"

Plan(s) ==
  IF ~src[s].bound THEN "BlockedRelationship"
  ELSE IF /\ src[s].present
          /\ \/ cp[s].off > src[s].raw
             \/ /\ member[s].in
                /\ \/ member[s].gen # src[s].gen
                   \/ member[s].bound # src[s].bound
                   \/ member[s].root # RootOf(s)
       THEN "RebuildRequired"
  ELSE IF member[s].in THEN BuildPlan(s) ELSE ActivePlan(s)

\* An unchanged source of a tree that the active epoch has quarantined.
Isolated(s) ==
  \E q \in act.quarantine : q.source = s /\ q.gen = src[s].gen /\ q.raw = src[s].raw

\* The sources of the work list.
Listed(s) ==
  /\ src[s].bound
  /\ IF app.build
     THEN IF member[s].in THEN Plan(s) # "Skip" ELSE src[s].present
     ELSE src[s].present /\ ~Isolated(s) /\ Plan(s) # "Skip"

\* Some tree that the active epoch has quarantined is not what it was.
QuarantineIsDirty ==
  \E q \in act.quarantine :
    LET proofs == {p \in act.quarantine : p.root = q.root}
        there  == {s \in Present : src[s].bound /\ RootOf(s) = q.root}
    IN \/ {p.source : p \in proofs} # there
       \/ \E p \in proofs : src[p.source].gen # p.gen \/ src[p.source].raw # p.raw

------------------------------------------------------------------------------
(* Transactions on the build. *)

Bump == rev' = 1 - rev

\* Mutant of BeginBuild: the checkpoint of a contributor that is missing stays.
BeginBuildKeepsMissing(parser) ==
  LET frozen == ActiveContributors \union Present IN
  /\ ~app.build
  /\ app' = [app EXCEPT !.build = TRUE, !.target = parser]
  /\ member' = [s \in Sources |-> IF s \in frozen THEN Freeze(act.state[s], RootOf(s), src[s], cp[s]) ELSE NoMember]
  /\ cp' = [s \in Sources |-> IF s \in Present THEN Reset(parser) ELSE cp[s]]
  /\ UNCHANGED <<src, root, act, bld, rev>>

\* begin_or_resume: a new build freezes every contributor and every present source.
BeginBuild(parser) ==
  LET frozen == ActiveContributors \union Present IN
  /\ ~app.build
  /\ app' = [app EXCEPT !.build = TRUE, !.target = parser]
  /\ member' = [s \in Sources |-> IF s \in frozen THEN Freeze(act.state[s], RootOf(s), src[s], cp[s]) ELSE NoMember]
  /\ cp' = [s \in Sources |-> IF s \in frozen THEN Reset(parser) ELSE cp[s]]
  /\ UNCHANGED <<src, root, act, bld, rev>>

\* replace_build_preserving_all_members: the invalidated, the new and, when the
\* parser changes, all of them start again from zero; nobody leaves the manifest.
ReplaceMembers(parser, invalidated) ==
  LET all   == {s \in Sources : member[s].in} \union ActiveContributors \union Present
      again == {s \in all : app.target # parser \/ s \in invalidated \/ ~member[s].in}
  IN /\ app.build
     /\ app' = [app EXCEPT !.target = parser]
     /\ bld' = Cleaned(bld, again)
     /\ member' = [s \in Sources |->
                     IF s \in again THEN Refreeze(member[s], act.state[s], RootOf(s), src[s], cp[s]) ELSE member[s]]
     /\ cp' = [s \in Sources |-> IF s \in again THEN Reset(parser) ELSE cp[s]]
     /\ UNCHANGED <<src, root, act, rev>>

ReplaceOrBegin(parser, s) == IF app.build THEN ReplaceMembers(parser, {s}) ELSE BeginBuild(parser)

\* The tree of thread t contributes nothing to the build.
QuarantineTree(t) ==
  LET r    == root[t]
      tree == {s \in Sources : member[s].in /\ member[s].root = r}
  IN /\ app.build /\ tree # {}
     /\ bld' = [Cleaned(bld, tree) EXCEPT
                  !.quarantine = {q \in @ : q.root # r} \union
                     {[root |-> r, source |-> s, gen |-> member[s].gen, raw |-> member[s].raw] : s \in tree}]
     /\ member' = [s \in Sources |->
                     IF s \in tree
                     THEN [member[s] EXCEPT !.status = "quarantined", !.phase = "none", !.through = 0]
                     ELSE member[s]]
     /\ cp' = [s \in Sources |-> IF s \in tree THEN Reset(app.target) ELSE cp[s]]
     /\ UNCHANGED <<src, root, app, act, rev>>

\* A missing source may keep the rows of the active epoch.  What a partly built
\* source has already written is part of them; only its state goes.
BeginCarry(s) ==
  /\ app.build /\ Plan(s) = "BeginCarry"
  /\ bld' = [bld EXCEPT !.state[s] = NoState]
  /\ cp' = [cp EXCEPT ![s] = Reset(app.target)]
  /\ member' = [member EXCEPT ![s].phase = "occurrences", ![s].status = "pending", ![s].through = 0]
  /\ UNCHANGED <<src, root, app, act, rev>>

\* Every page is a commit of its own; one page of a kind is enough for a small file.
CarryOccurrences(s) ==
  /\ member[s].phase = "occurrences"
  /\ bld' = [bld EXCEPT !.occ[s] = @ \union act.occ[s],
                        !.events = @ \union {EventOf(s, f) : f \in act.occ[s]}]
  /\ member' = [member EXCEPT ![s].phase = "turns"]
  /\ UNCHANGED <<src, root, app, cp, act, rev>>

\* The rows of turns and anomalies are not kept here: only the cursor moves.
CarryTurns(s) ==
  /\ member[s].phase = "turns"
  /\ member' = [member EXCEPT ![s].phase = "anomalies"]
  /\ UNCHANGED <<src, root, app, cp, act, bld, rev>>

CarryAnomalies(s) ==
  /\ member[s].phase = "anomalies"
  /\ member' = [member EXCEPT ![s].phase = "finalize"]
  /\ UNCHANGED <<src, root, app, cp, act, bld, rev>>

CarryPage(s) == CarryOccurrences(s) \/ CarryTurns(s) \/ CarryAnomalies(s)

\* verify_carry_sets: what the carry copied is what the active epoch has, no more.
SetsAgree(s) == bld.occ[s] = act.occ[s]

FinalizeCarry(s) ==
  LET st     == act.state[s]
      proven == st.tail # "unverified" /\ st.raw = member[s].raw
      fresh  == IF src[s].present THEN src[s].raw = st.raw ELSE proven
  IN /\ member[s].phase = "finalize"
     /\ SetsAgree(s)
     /\ bld' = [bld EXCEPT !.state[s] =
                  [st EXCEPT !.parser = app.target,
                             !.raw = IF src[s].present \/ ~proven THEN src[s].raw ELSE @,
                             !.tail = IF fresh THEN @ ELSE "unverified"]]
     /\ cp' = [cp EXCEPT ![s] = [status |-> "ready", parser |-> app.target, off |-> member[s].aoff]]
     /\ member' = [member EXCEPT
                     ![s].phase = "none",
                     ![s].status = IF src[s].present THEN "pending"
                                   ELSE IF proven THEN "carried" ELSE "blocked",
                     ![s].through = IF ~src[s].present /\ proven THEN member[s].aoff ELSE 0]
     /\ UNCHANGED <<src, root, app, act, rev>>

\* verify_carry_db_proof: the frozen proof still describes the active rows.
CarryProofHolds(s) ==
  LET st == act.state[s] IN
  /\ app.target = app.parser
  /\ member[s].required = member[s].aoff
  /\ st # NoState /\ st = member[s].proof /\ st.off = member[s].aoff
  /\ st.gen = member[s].gen /\ st.root = member[s].root /\ st.parser = app.parser
  /\ cp[s] = Reset(app.target) /\ bld.state[s] = NoState

ResumeCarry(s) ==
  /\ app.build /\ Plan(s) = "ResumeCarry" /\ CarryProofHolds(s)
  /\ CarryPage(s) \/ FinalizeCarry(s)

CompleteOnly(s) ==
  /\ app.build /\ Plan(s) = "CompleteOnly"
  /\ member' = [member EXCEPT ![s].status = "rebuilt", ![s].through = member[s].required]
  /\ UNCHANGED <<src, root, app, cp, act, bld, rev>>

\* verify_completion_row_for_storage and verify_quarantined_source.
Provable(s) ==
  LET m == member[s]  st == bld.state[s] IN
  IF m.status = "quarantined"
  THEN /\ [root |-> m.root, source |-> s, gen |-> m.gen, raw |-> m.raw] \in bld.quarantine
       /\ bld.occ[s] = {} /\ st = NoState
  ELSE /\ m.status \in {"rebuilt", "carried"}
       /\ src[s].gen = m.gen
       /\ cp[s] = [status |-> "ready", parser |-> app.target, off |-> st.off]
       /\ st.gen = m.gen /\ st.parser = app.target /\ st.raw = m.raw
       /\ st.root = m.root /\ st.tail = m.tail
       /\ m.status = "carried" => ~src[s].present
       /\ m.through = st.off /\ st.off >= m.required /\ m.tail # "unverified"

Finished == \A s \in Sources : member[s].in => ~Unfinished(member[s])

\* verify_complete_present_set, and every member's proof.
Activatable ==
  /\ Finished
  /\ Present \union ActiveContributors \subseteq {s \in Sources : member[s].in}
  /\ \A s \in Sources : member[s].in => Provable(s)

Activate ==
  /\ app.build /\ Activatable
  /\ app' = [active |-> TRUE, parser |-> app.target, build |-> FALSE, target |-> 0]
  /\ act' = bld /\ bld' = EmptyEpoch
  /\ member' = [s \in Sources |-> NoMember]
  /\ Bump
  /\ UNCHANGED <<src, root, cp>>

------------------------------------------------------------------------------
(* commit_usage: batches b[s] = [end, tail] of the sources of one thread. *)

\* A source that is replayed in place loses its rows before it writes them again.
Retired(e, b) ==
  [e EXCEPT !.occ = [s \in Sources |-> IF s \in DOMAIN b /\ Plan(s) = "LocalReplay" THEN {} ELSE @[s]]]

\* Occurrences are inserted or compared, canonical rows are written once; those that
\* lose their last occurrence in a replay go at the end.
Written(e, b) ==
  LET occ == [s \in Sources |-> IF s \in DOMAIN b THEN e.occ[s] \union Facts(src[s].gen, b[s].end) ELSE e.occ[s]]
  IN [e EXCEPT !.occ = occ, !.events = (@ \union Counted(occ)) \intersect Counted(occ)]

StateAfter(s, b) ==
  [gen |-> src[s].gen, root |-> RootOf(s), parser |-> WorkingParser,
   off |-> b.end, raw |-> src[s].raw, tail |-> b.tail]

CheckpointAfter(b) == [status |-> "ready", parser |-> WorkingParser, off |-> b.end]

Committed(e, b) ==
  [Written(Retired(e, b), b) EXCEPT
     !.state = [s \in Sources |-> IF s \in DOMAIN b THEN StateAfter(s, b[s]) ELSE @[s]]]

\* update_build_progress: a batch that ends the fixed view completes the member.
Progressed(s, b) ==
  [member[s] EXCEPT !.required = Larger(@, b.end), !.tail = b.tail,
     !.status = IF b.tail # "unverified" THEN "rebuilt" ELSE "pending",
     !.through = IF b.tail # "unverified" THEN b.end ELSE 0]

\* The source is what the batch was read from.
SourceUnchanged(s) == src[s].present /\ src[s].bound

\* validate_source_payload: the batch starts where its checkpoint and its state say,
\* ends in the observed view, and claims a tail only where the view ends.
PayloadIsValid(s, b) ==
  LET replay == Plan(s) = "LocalReplay"
      start  == IF replay THEN 0 ELSE cp[s].off
      st     == Working.state[s]
  IN /\ start <= b.end /\ b.end <= src[s].raw
     /\ b.tail = "none" => b.end = src[s].raw
     /\ b.tail = "half_line" => b.end < src[s].raw
     /\ IF replay THEN b.tail # "unverified"
        ELSE IF start = 0 THEN st = NoState
        ELSE /\ st.off = start /\ st.gen = src[s].gen
             /\ st.parser = WorkingParser /\ st.root = RootOf(s)

\* A batch below the required boundary cannot complete its member.
ProgressAccepted(s, b) ==
  LET m == member[s] IN
  /\ m.in /\ Unfinished(m) /\ m.phase = "none"
  /\ m.gen = src[s].gen /\ m.raw = src[s].raw
  /\ b.tail # "unverified" => b.end >= m.required

CommitAccepted(b) ==
  \A s \in DOMAIN b :
    PayloadIsValid(s, b[s]) /\ SourceUnchanged(s) /\ (app.build => ProgressAccepted(s, b[s]))

\* data_revision advances with what a reader of the active epoch can see.
Announce(changed) == IF changed THEN Bump ELSE UNCHANGED rev

CommitUsage(b) ==
  /\ CommitAccepted(b)
  /\ IF app.build
     THEN /\ bld' = Committed(bld, b) /\ UNCHANGED <<act, rev>>
          /\ member' = [s \in Sources |-> IF s \in DOMAIN b THEN Progressed(s, b[s]) ELSE member[s]]
     ELSE /\ act' = Committed(act, b) /\ UNCHANGED <<bld, member>>
          /\ Announce(Committed(act, b).events # act.events)
  /\ cp' = [s \in Sources |-> IF s \in DOMAIN b THEN CheckpointAfter(b[s]) ELSE cp[s]]
  /\ UNCHANGED <<src, root, app>>

------------------------------------------------------------------------------
(* What the other halves of a scan do to these tables. *)

\* apply_source_observations_to_build for a source observed as f with checkpoint c.
ObservedMember(s, f, c) ==
  LET m == member[s] IN
  IF ~m.in THEN Freeze(act.state[s], RootOf(s), f, c)
  ELSE IF m.gen # f.gen \/ m.bound # f.bound \/ (f.bound /\ m.root # RootOf(s))
       THEN Refreeze(m, act.state[s], RootOf(s), f, c)
  ELSE LET grown  == m.raw # f.raw
           viewed == [m EXCEPT !.raw = f.raw, !.tail = IF grown THEN "unverified" ELSE @]
       IN IF m.phase # "none" THEN viewed
          ELSE IF m.status = "carried" \/ grown
               THEN [viewed EXCEPT !.status = "pending", !.through = 0]
          ELSE m

\* Members that the observation starts from zero.
Restarted(s, f) ==
  \/ ~member[s].in
  \/ member[s].gen # f.gen \/ member[s].bound # f.bound
  \/ f.bound /\ member[s].root # RootOf(s)

\* A missing member is blocked until a carry proves that it can be copied.
MissingMember(m) == IF Unfinished(m) /\ m.phase = "none" THEN [m EXCEPT !.status = "blocked"] ELSE m

\* record_source_observations: the rows of the observed sources become seen[s]; of a
\* complete discovery the others are missing.
ObserveSources(seen, complete) ==
  LET after == [s \in Sources |->
                  IF s \in DOMAIN seen THEN seen[s]
                  ELSE IF complete THEN [src[s] EXCEPT !.present = FALSE] ELSE src[s]]
      replaced == {s \in DOMAIN seen : src[s].known /\ seen[s].gen # src[s].gen}
      base == [s \in Sources |-> IF s \in replaced /\ cp[s].status # "none"
                                 THEN [cp[s] EXCEPT !.status = "rebuild_required", !.off = 0]
                                 ELSE cp[s]]
      again == IF app.build THEN {s \in DOMAIN seen : Restarted(s, seen[s])} ELSE {}
  IN /\ src' = after
     /\ cp' = [s \in Sources |-> IF s \in again THEN Reset(app.target) ELSE base[s]]
     /\ bld' = Cleaned(bld, {s \in again : member[s].in})
     /\ member' = IF ~app.build THEN member
                  ELSE [s \in Sources |->
                          IF s \in DOMAIN seen THEN ObservedMember(s, seen[s], base[s])
                          ELSE IF after[s].known /\ ~after[s].present /\ member[s].in
                               THEN MissingMember(member[s]) ELSE member[s]]
     /\ UNCHANGED <<root, app, act, rev>>

\* A metadata commit binds a source; a member of the build starts again.
BindSource(s) ==
  LET f == [src[s] EXCEPT !.bound = TRUE] IN
  /\ src[s].present /\ ~src[s].bound
  /\ src' = [src EXCEPT ![s] = f]
  /\ IF app.build
     THEN /\ bld' = Cleaned(bld, {s})
          /\ member' = [member EXCEPT ![s] = Refreeze(@, act.state[s], RootOf(s), f, cp[s])]
          /\ cp' = [cp EXCEPT ![s] = Reset(app.target)]
     ELSE UNCHANGED <<bld, member, cp>>
  /\ UNCHANGED <<root, app, act, rev>>

\* The root of a thread becomes known.  Active rows are rewritten in place; members
\* of the thread start again.
Reroot(t, r) ==
  LET states == [s \in Sources |->
                   IF ThreadOf[s] = t /\ act.state[s] # NoState
                   THEN [act.state[s] EXCEPT !.root = r] ELSE act.state[s]]
      again  == {s \in Sources : app.build /\ member[s].in /\ ThreadOf[s] = t
                                 /\ (member[s].bound \/ src[s].bound)}
  IN /\ root[t] = t /\ r # t
     /\ root' = [root EXCEPT ![t] = r]
     /\ act' = [act EXCEPT !.state = states]
     /\ bld' = Cleaned(bld, again)
     /\ member' = [s \in Sources |->
                     IF s \in again THEN Refreeze(member[s], states[s], r, src[s], cp[s]) ELSE member[s]]
     /\ cp' = [s \in Sources |-> IF s \in again THEN Reset(app.target) ELSE cp[s]]
     /\ Bump
     /\ UNCHANGED <<src, app>>
==============================================================================
