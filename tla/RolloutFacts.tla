------------------------------ MODULE RolloutFacts ------------------------------
(***************************************************************************)
(* Whose lines a rollout file holds: the ownership machine of              *)
(* src/src/codex/rollout.rs, driven by the two readers of a file, the      *)
(* metadata scanner, which keeps one fact per file                         *)
(* (src/src/scanner/mod.rs, src/src/storage/metadata.rs), and the usage    *)
(* consumer, which counts the owner's token lines                          *)
(* (src/src/scanner/usage_consumer.rs, src/src/usage/pipeline.rs).         *)
(*                                                                         *)
(* A subagent's file begins with its own session_meta and may then repeat  *)
(* its ancestor's history, session_meta first, before the thread's own     *)
(* turns.  Both readers resume at a checkpoint, wherever an earlier round  *)
(* ended, and must still tell the two apart.                               *)
(*                                                                         *)
(* Line n starts at offset n: `through' is the number of lines read.  Own  *)
(* is the thread the file really belongs to.                               *)
(***************************************************************************)
EXTENDS Integers, SequencesExt, FiniteSetsExt

CONSTANTS
  Own, Other,   \* the file's thread and its ancestor
  None,         \* an absent value
  Subagent,     \* the role "subagent"
  Lines,        \* the lines a file may hold
  Named,        \* whether the file's name contains Own
  Listings,     \* whose path the state index may say this is
  Born,         \* the creation time in a thread's UUIDv7
  LateReplay,   \* whether a replay may start after own turns and tokens
  MaxLines      \* bound: lines of the file

Nowhere == 0  \* no offset

ASSUME RolloutAssumption ==
  /\ Own # Other /\ None \notin {Own, Other, Subagent}
  /\ {Named, LateReplay} \subseteq BOOLEAN /\ MaxLines \in Nat
  /\ Listings \subseteq {Own, Other, None}
ASSUME LinesAssumption ==
  /\ Born \in [{Own, Other} -> Nat]
  /\ \A l \in Lines : CASE l.is = "meta" -> l.of \in {Own, Other, None}
                        [] l.is = "turn" -> \/ l.turn = None
                                            \/ l.turn.v7 \in BOOLEAN /\ l.turn.time \in Nat
                        [] OTHER         -> l.own \in BOOLEAN

VARIABLES
  file,   \* the complete lines of the file
  listed, \* what the state index of this round says
  view,   \* the lines this round has discovered
  meta,   \* the metadata checkpoint and the stored fact
  usage,  \* the usage checkpoint of the newest epoch and the lines counted in it
  misled  \* the usage reader has found a fact it contradicts (InvalidSessionData)

vars == <<file, listed, view, meta, usage, misled>>

------------------------------------------------------------------------------
(* Claims: what a line says of a thread, and how a later claim is merged.  *)

\* By field: whether any difference is a conflict, or only one at equal rank.
Strict == [cwd |-> FALSE, role |-> FALSE, parent |-> TRUE, path |-> TRUE]
Fields == DOMAIN Strict

\* The fields whose conflict casts doubt on the thread's relations.
Relations == {"parent", "role"}

Claim(field, rank, value) == [field |-> field, rank |-> rank, value |-> value]

\* The claims of a session_meta, in the order they are applied; an absent value
\* claims nothing.
MetaClaims(l) ==
  LET forked == l.source \/ l.role = Subagent IN
  <<Claim("cwd", 2, l.cwd), Claim("parent", 3, l.parent), Claim("parent", 2, l.spawn),
    Claim("parent", 1, IF forked THEN l.fork ELSE None),
    IF l.source THEN Claim("role", 2, Subagent) ELSE Claim("role", 1, l.role),
    Claim("path", 2, l.path), Claim("path", 1, l.spawnPath)>>

NoModel == [value |-> None, turn |-> None, at |-> None, line |-> Nowhere]

EmptyFact(owner) ==
  [owner    |-> owner,
   claims   |-> [f \in Fields |-> None],
   created  |-> None,
   model    |-> NoModel,
   replay   |-> Nowhere,  \* replay_start_offset
   boundary |-> Nowhere,  \* owning_records_start_offset
   conflict |-> FALSE,
   doubtful |-> FALSE]    \* relationship_conflict

Conflicting(old, c) == old.value # c.value /\ (Strict[c.field] \/ old.rank = c.rank)

MergeClaim(fact, c) ==
  LET old == fact.claims[c.field]
      new == [rank |-> c.rank, value |-> c.value] IN
  IF c.value = None THEN fact
  ELSE IF old = None THEN [fact EXCEPT !.claims[c.field] = new]
  ELSE LET clash == Conflicting(old, c) IN
       [fact EXCEPT !.claims[c.field] = IF c.rank > old.rank THEN new ELSE old,
                    !.conflict = @ \/ clash,
                    !.doubtful = @ \/ (clash /\ c.field \in Relations)]

Merged(fact, claims) ==
  LET merged[i \in 0..Len(claims)] == IF i = 0 THEN fact ELSE MergeClaim(merged[i - 1], claims[i])
  IN  merged[Len(claims)]

ApplySessionMeta(fact, l) ==
  LET dated == IF l.created = None THEN fact
               ELSE [fact EXCEPT !.created = IF @ = None \/ l.created < @ THEN l.created ELSE @]
  IN  Merged(dated, MetaClaims(l))

\* A UUIDv7 turn id carries its time; for another id the line's time is taken.
OrderOf(turn, at) == IF turn # None /\ turn.v7 THEN turn.time ELSE at

Newer(l, n, model) ==
  LET new == OrderOf(l.turn, l.at)
      old == OrderOf(model.turn, model.at) IN
  IF new # None /\ old # None /\ new # old THEN new > old
  ELSE IF new # None /\ old = None THEN TRUE
  ELSE IF new = None /\ old # None THEN FALSE
  ELSE n > model.line

ApplyTurnContext(fact, l, n) ==
  LET placed == MergeClaim(fact, Claim("cwd", 1, l.cwd))
      clash  == l.turn = placed.model.turn /\ l.model # placed.model.value
      told   == [placed EXCEPT !.conflict = @ \/ clash] IN
  IF l.model = None THEN placed
  ELSE IF Newer(l, n, told.model)
  THEN [told EXCEPT !.model = [value |-> l.model, turn |-> l.turn, at |-> l.at, line |-> n]]
  ELSE told

------------------------------------------------------------------------------
(* The parser.  class holds the ownership of each line pushed. *)

\* The owner known before the first line: the state index first, then the file's name.
External(who) == IF who # None THEN who ELSE IF Named THEN Own ELSE None

\* The state index and the name disagree.
Disputed(who) == who # None /\ Named /\ who # Own

Parser(who, owner, machine, fact, resumed, rebuild) ==
  [owner |-> owner, machine |-> machine, fact |-> fact, resumed |-> resumed,
   rebuild |-> rebuild \/ Disputed(who), class |-> <<>>]

FromStart(who) ==
  LET owner == External(who) IN
  IF owner = None THEN Parser(who, None, "await", None, FALSE, FALSE)
  ELSE Parser(who, owner, "bootstrap", EmptyFact(owner), FALSE, FALSE)

\* fact is the stored one; its owner is the thread the file is bound to.
Resumed(who, fact, at) ==
  Parser(who, fact.owner, at, fact, TRUE, External(who) \notin {None, fact.owner})

Owns(machine) == machine \in {"bootstrap", "live"}

DefaultClass(p) ==
  CASE p.machine = "await"    -> "unknown"
    [] p.machine = "replayed" -> "replayed"
    [] OTHER                  -> "owning"

Classed(p, class) == [p EXCEPT !.class = Append(@, class)]

\* The first session_meta names the owner if nothing else did.
Adopt(p, l) ==
  IF p.owner # None THEN p
  ELSE [p EXCEPT !.owner = l.of, !.fact = EmptyFact(l.of), !.machine = "bootstrap"]

OwnMeta(p, l, n) ==
  LET back  == p.machine = "replayed"
      first == p.fact.boundary = Nowhere /\ p.fact.replay = Nowhere
      fact  == IF back \/ first THEN [p.fact EXCEPT !.boundary = n] ELSE p.fact IN
  [Classed(p, "owning") EXCEPT !.machine = IF back THEN "live" ELSE @,
                               !.fact    = ApplySessionMeta(fact, l)]

\* Mutant of ForeignMeta: the start of the replay is noted as the owner's.
ForeignMetaBoundary(p, n) ==
  [Classed(p, "replayed") EXCEPT !.machine = "replayed",
                                 !.fact.boundary = n,
                                 !.rebuild = @ \/ (p.resumed /\ p.machine # "replayed")]

ForeignMeta(p, n) ==
  [Classed(p, "replayed") EXCEPT !.machine = "replayed",
                                 !.fact.replay = IF @ = Nowhere THEN n ELSE @,
                                 !.rebuild = @ \/ (p.resumed /\ p.machine # "replayed")]

SessionMeta(p, l, n) ==
  IF l.of = None THEN Classed(p, "unknown")
  ELSE LET q == Adopt(p, l) IN
       IF l.of = q.owner THEN OwnMeta(q, l, n) ELSE ForeignMeta(q, n)

\* uuid7_is_not_earlier: the turn began no earlier than the owning thread.
EndsReplay(p, turn) == turn # None /\ turn.v7 /\ turn.time >= Born[p.owner]

TurnContext(p, l, n) ==
  LET back == p.machine = "replayed" /\ EndsReplay(p, l.turn)
      q    == IF back THEN [p EXCEPT !.machine = "live", !.fact.boundary = n] ELSE p
      r    == Classed(q, DefaultClass(q)) IN
  IF Owns(q.machine) /\ l.turn # None THEN [r EXCEPT !.fact = ApplyTurnContext(@, l, n)] ELSE r

\* A line of another kind, one that is not JSON, or one too long to be kept.
OpaqueLine(p) == Classed(p, DefaultClass(p))

Push(p, l, n) ==
  CASE l.is = "meta" -> SessionMeta(p, l, n)
    [] l.is = "turn" -> TurnContext(p, l, n)
    [] OTHER         -> OpaqueLine(p)

\* The parser after the lines from+1 .. to.
Read(lines, p, from, to) ==
  LET after[n \in from..to] == IF n = from THEN p ELSE Push(after[n - 1], lines[n], n)
  IN  after[to]

Continuation(p) ==
  IF p.rebuild \/ p.owner = None THEN "unstable"
  ELSE IF p.machine = "replayed" THEN "replayed" ELSE "live"

------------------------------------------------------------------------------
(* The metadata scanner. *)

\* classify_safe_fact: a fact whose checkpoint asks for a rebuild is stale.
HasFact == meta.fact # None /\ ~meta.rebuild

\* Mutant of Rehydrated: the model is remembered as of the next line.
RehydratedAhead(fact, through) ==
  IF fact.model.value = None THEN fact ELSE [fact EXCEPT !.model.line = through + 1]

\* from_safe_fact: where the model was read is not stored, only that it was before the seam.
Rehydrated(fact, through) ==
  IF fact.model.value = None THEN fact ELSE [fact EXCEPT !.model.line = through]

\* plan_one: the stored fact is resumed, anything else is read from the start.
MetadataResumes == HasFact /\ meta.through > 0

MetadataParser(who) ==
  IF MetadataResumes THEN Resumed(who, Rehydrated(meta.fact, meta.through), meta.at)
  ELSE FromStart(who)

MetadataStart == IF MetadataResumes THEN meta.through ELSE 0

\* What a stored fact keeps of the parser that read up to this line.
Stored(p, upto) == [through |-> upto, rebuild |-> FALSE, at |-> Continuation(p), fact |-> p.fact]

CommitFact(p) == meta' = Stored(p, view')

\* The metadata half of a round; who is what this round's state index says of the path.
MetadataRound(who) ==
  /\ listed' = who
  /\ view' = Len(file)
  /\ IF MetadataResumes /\ meta.through = view' THEN meta' = meta
     ELSE LET p == Read(file, MetadataParser(who), MetadataStart, view') IN
          IF p.rebuild THEN meta' = [meta EXCEPT !.through = 0, !.rebuild = TRUE]
          ELSE IF p.fact = None THEN meta' = meta
          ELSE CommitFact(p)
  /\ UNCHANGED <<file, usage, misled>>

------------------------------------------------------------------------------
(* The usage consumer, in the same round. *)

NoUsage == [through |-> 0, at |-> "live", counted |-> {}]

Establishing == usage.through = 0

UsageParser ==
  IF Establishing THEN FromStart(listed)
  ELSE Resumed(listed, Rehydrated(meta.fact, meta.through), usage.at)

AllowReplayTail ==
  \/ HasFact /\ meta.at = "replayed"
  \/ ~Establishing /\ usage.at = "replayed"

\* The ownership of each unread line, as this reader's own parser finds it.
Classes ==
  LET p == Read(file, UsageParser, usage.through, view) IN
  [n \in (usage.through + 1)..view |-> p.class[n - usage.through]]

\* A source whose progress cannot be trusted is built again from its first line.
UsageRebuild == usage' = NoUsage /\ UNCHANGED misled

\* Mutant of Counts: every token line of a batch is counted.
CountsAll(class, n) == file[n].is = "tokens"

Counts(class, n) == file[n].is = "tokens" /\ class[n] = "owning"

CommitUsage(class, first, last) ==
  /\ usage' = [through |-> last,
               at      |-> IF class[last] = "replayed" THEN "replayed" ELSE "live",
               counted |-> usage.counted \cup {n \in first..last : Counts(class, n)}]
  /\ UNCHANGED misled

\* The first line that is not replayed; without a fact only a session_meta counts.
FirstOwned(class) ==
  LET owned == {n \in DOMAIN class : class[n] # "replayed"} IN
  IF owned = {} THEN Nowhere
  ELSE LET n == Min(owned) IN
       IF class[n] = "owning" /\ file[n].is = "meta" THEN n ELSE Nowhere

Promised == IF HasFact THEN meta.fact.boundary ELSE Nowhere

EstablishedAt(class) == IF Promised # Nowhere THEN Promised ELSE FirstOwned(class)

\* The first batch: the boundary line alone, or with the replay that ends the file.
Establish(class, last) ==
  LET first == EstablishedAt(class) IN
  /\ Establishing
  /\ IF Promised # Nowhere /\ class[Promised] # "owning"
     THEN misled' = TRUE /\ usage' = usage
     ELSE /\ first # Nowhere
          /\ last >= first /\ (last = first \/ AllowReplayTail)
          /\ IF \E n \in first..last : class[n] = "unknown" THEN UsageRebuild
             ELSE CommitUsage(class, first, last)

\* A replayed line after an owned one, or one of unknown ownership.
Unexpected(class, n) ==
  \/ class[n] = "unknown"
  \/ /\ class[n] = "replayed"
     /\ usage.at = "live" \/ \E k \in (usage.through + 1)..(n - 1) : class[k] = "owning"

\* A later batch, which the budgets may end after any line.
Advance(class, last) ==
  /\ ~Establishing
  /\ IF \E n \in (usage.through + 1)..last : Unexpected(class, n) THEN UsageRebuild
     ELSE CommitUsage(class, usage.through + 1, last)

\* Usage is read once a metadata commit has bound the file to its thread; a resumed read
\* needs a fact that is not stale.
UsageBatch ==
  /\ meta.fact # None /\ usage.through < view
  /\ IF ~Establishing /\ ~HasFact THEN UsageRebuild
     ELSE LET class == Classes IN
          \E last \in DOMAIN class : Establish(class, last) \/ Advance(class, last)
  /\ UNCHANGED <<file, listed, view, meta>>

------------------------------------------------------------------------------
(* The file, as a thread writes it. *)

OfOwn(l) == CASE l.is = "meta"   -> l.of # Other
              [] l.is = "turn"   -> l.turn = None \/ l.turn.time >= Born[Own]
              [] OTHER           -> l.own

\* A replay is open after an ancestor's session_meta, until an own line.
Replaying == file # <<>> /\ ~OfOwn(Last(file))

\* Whether the file may go on with this line.
Fits(l) ==
  IF l.is = "meta"
  THEN \/ l.of = Own
       \/ l.of = None /\ file # <<>> /\ ~Replaying
       \/ l.of = Other /\ (file # <<>> \/ Named)
          /\ (LateReplay \/ Replaying \/ \A n \in DOMAIN file : file[n].is = "meta")
  ELSE IF ~OfOwn(l) THEN Replaying
  ELSE IF Replaying THEN l.is = "turn" /\ l.turn # None /\ l.turn.v7
  ELSE file # <<>>

Append1(l) ==
  /\ Len(file) < MaxLines /\ Fits(l)
  /\ file' = Append(file, l)
  /\ UNCHANGED <<listed, view, meta, usage, misled>>

------------------------------------------------------------------------------
Init ==
  /\ file = <<>> /\ listed = None /\ view = 0
  /\ meta = [through |-> 0, rebuild |-> FALSE, at |-> "unstable", fact |-> None]
  /\ usage = NoUsage /\ misled = FALSE

Next ==
  \/ \E l \in Lines : Append1(l)
  \/ \E who \in Listings : MetadataRound(who)
  \/ UsageBatch

Spec == Init /\ [][Next]_vars
------------------------------------------------------------------------------
(* Properties.  OfOwn tells the truth about a line, which no reader is told. *)

OwnLines(upto) == {n \in 1..upto : OfOwn(file[n])}

FactType ==
  [owner    : {Own, Other},
   claims   : [Fields -> {None} \cup [rank : 1..3, value : {None, Own, Other, Subagent} \cup
                          UNION {{l.cwd} : l \in {k \in Lines : k.is \in {"meta", "turn"}}}
                          \cup UNION {{l.role, l.path, l.spawnPath} : l \in {k \in Lines : k.is = "meta"}}]],
   created  : Nat \cup {None},
   model    : [value : {None} \cup {l.model : l \in {k \in Lines : k.is = "turn"}},
               turn  : {None} \cup {l.turn : l \in {k \in Lines : k.is = "turn"}},
               at    : Nat \cup {None},
               line  : 0..MaxLines],
   replay   : 0..MaxLines,
   boundary : 0..MaxLines,
   conflict : BOOLEAN,
   doubtful : BOOLEAN]

\* The offsets of a fact lie before the line it was resolved through, and only a stable
\* fact is stored (RolloutMetadataFact::validate, validate_fact_offsets).
TypeOK ==
  /\ file \in Seq(Lines) /\ Len(file) <= MaxLines
  /\ listed \in Listings \cup {None} /\ view \in 0..Len(file)
  /\ meta.through \in 0..view /\ meta.rebuild \in BOOLEAN
  /\ meta.at \in {"unstable", "live", "replayed"}
  /\ meta.fact \in FactType \cup {None}
  /\ HasFact => /\ meta.at # "unstable"
                /\ {meta.fact.replay, meta.fact.boundary, meta.fact.model.line} \subseteq 0..meta.through
  /\ meta.rebuild => meta.through = 0
  /\ usage.through \in 0..view /\ usage.at \in {"live", "replayed"}
  /\ usage.counted \subseteq 1..usage.through
  /\ misled \in BOOLEAN

\* Where the rounds happened to end does not matter: the stored fact, put together from
\* resumed reads, is the one a single read of the file gives (from_safe_fact, initialize;
\* a late replay forces that single read, Spec_02 11.4 rule 7).
CutsDoNotMatter ==
  HasFact =>
    LET p == Read(file, FromStart(Own), 0, meta.through) IN
    /\ [meta.fact EXCEPT !.model.line = 0] = [p.fact EXCEPT !.model.line = 0]
    /\ meta.at = Continuation(p)

\* What the owner's lines say of a field, in the order of the file.
Said(field, upto) ==
  LET OfLine(n) == CASE file[n].is = "meta" /\ file[n].of = Own -> MetaClaims(file[n])
                     [] file[n].is = "turn" /\ file[n].turn # None /\ file[n].cwd # None ->
                          <<Claim("cwd", 1, file[n].cwd)>>
                     [] OTHER -> <<>>
      owned == SelectSeq([n \in 1..upto |-> n], LAMBDA n : n \in OwnLines(upto)) IN
  SelectSeq(FlattenSeq([i \in DOMAIN owned |-> OfLine(owned[i])]), LAMBDA c : c.field = field /\ c.value # None)

\* The fact is the owner's and no ancestor's: each field is the first of the best claims the
\* owner's own lines make, the model is one of the owner's turns, and parents or paths that
\* differ are never forgotten (merge_candidate, merge_parent_candidate, apply_turn_context).
FactIsTheOwners ==
  HasFact =>
    /\ meta.fact.owner = Own
    /\ \A f \in Fields :
         LET said == Said(f, meta.through)
             best == SelectSeq(said, LAMBDA c : \A i \in DOMAIN said : said[i].rank <= c.rank) IN
         /\ IF said = <<>> THEN meta.fact.claims[f] = None
            ELSE meta.fact.claims[f] = [rank |-> best[1].rank, value |-> best[1].value]
         /\ Strict[f] /\ ~meta.fact.conflict => Cardinality({said[i].value : i \in DOMAIN said}) <= 1
    /\ meta.fact.model.value # None =>
         \E n \in OwnLines(meta.through) :
           file[n].is = "turn" /\ file[n].turn = meta.fact.model.turn
                               /\ file[n].model = meta.fact.model.value

\* The usage reader never counts what an ancestor used (RecordOwnership, process_chunk).
OnlyOwnUsage == \A n \in usage.counted : OfOwn(file[n])

Tokens(n) == file[n].is = "tokens"

\* It counts all the owner used in the lines it has read, however the batches and the
\* metadata rounds were cut, unless an ancestor's history follows (establish_ownership).
OwnUsageIsCounted ==
  \A n \in 1..usage.through :
    Tokens(n) /\ OfOwn(file[n]) /\ (\A k \in n..Len(file) : OfOwn(file[k])) => n \in usage.counted

\* "只统计 ownership=`Owning` 的记录" (Spec_04 2): the lines the classifier gives the owner,
\* and they are what is counted.  Not so: own usage before a late replay is skipped by a
\* reader that begins after it, and counted by one that ends before it.
CountedAreTheOwned ==
  usage.counted = {n \in 1..usage.through :
                     Tokens(n) /\ Read(file, FromStart(Own), 0, n).class[n] = "owning"}

\* The boundary a fact promises is found again by the usage reader's own parser
\* (InvalidSessionData in process_source_batch quarantines the whole session).
BoundaryIsFoundAgain == ~misled
==============================================================================
