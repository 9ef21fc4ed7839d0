------------------------------ MODULE TokenLedger ------------------------------
(***************************************************************************)
(* What a rollout's token_count lines are counted as: the record processor *)
(* (src/src/usage/processor.rs), which works on one line at a time, and    *)
(* the batches in which its state, its turns and its events go to the      *)
(* database and come back (src/src/usage/pipeline.rs,                      *)
(* src/src/usage/ledger.rs, src/src/storage/usage.rs).                     *)
(*                                                                         *)
(* A usage has two of the code's six counts: input stands for every count  *)
(* that is only added and compared, cached for the ones that may not       *)
(* exceed another.  Line n is at offset n.  The provider that writes the   *)
(* file really spends tokens (spent) and reports a running total (shown),  *)
(* which it may start over.  What a subagent's file reports before its     *)
(* first model is its parent's.                                            *)
(***************************************************************************)
EXTENDS Integers, FiniteSets, Sequences, Functions

CONSTANTS
  Models, Ids,  \* models, and the turn ids a file may name
  None,         \* an absent model, id, total or turn
  UnknownModel, \* the model of usage that has none
  Mixed,        \* the model of a turn that used several
  Amounts,      \* what one request may spend
  MaxTokens,    \* i64::MAX
  MaxLines,     \* bound: lines of the file
  MaxBatch,     \* lines of one batch, at most
  MaxOdd,       \* bound: lines that are missing something or break the chain
  ReusedIds,    \* whether a turn id may be started again
  BadPrefix     \* whether the parent's totals may be unreadable, or follow the first turn's start

Usage == {u \in [input : 0..MaxTokens, cached : 0..MaxTokens] : u.cached <= u.input}
ZeroUsage  == [input |-> 0, cached |-> 0]

ASSUME LedgerAssumption ==
  /\ MaxTokens \in Nat \ {0} /\ Amounts \subseteq Usage \ {ZeroUsage}
  /\ MaxLines \in Nat /\ MaxBatch \in Nat \ {0} /\ MaxOdd \in Nat
  /\ {ReusedIds, BadPrefix} \subseteq BOOLEAN
  /\ None \notin Models \cup Ids \cup Nat /\ Ids \cap Nat = {}
  /\ {UnknownModel, Mixed} \cap (Models \cup {None}) = {}

VARIABLES
  subagent,  \* the rollout belongs to a thread that another one started
  pending,   \* complete lines after the checkpoint
  db,        \* the rows of this source: state, turns, events
  straight,  \* the same lines processed without a stop
  spent,     \* what was really spent
  shown,     \* the running total of the provider
  latest,    \* what was spent last
  started,   \* the turns the file has started, the last one first
  lossy,     \* a line was written whose usage nobody can know
  odd

tokenVars == <<subagent, pending, db, straight, spent, shown, latest, started, lossy, odd>>

------------------------------------------------------------------------------
(* Arithmetic on usages (src/src/usage/normalized.rs). *)

Plus(a, b)  == [input |-> a.input + b.input, cached |-> a.cached + b.cached]
Minus(a, b) == [input |-> a.input - b.input, cached |-> a.cached - b.cached]
Leq(a, b)   == a.input <= b.input /\ a.cached <= b.cached

\* checked_sub fails on a negative difference, and on one that is not a usage.
Negative(a, b)  == ~Leq(b, a)
NotAUsage(a, b) == ~Negative(a, b) /\ Minus(a, b) \notin Usage

------------------------------------------------------------------------------
(* Lines, turns and the processor. *)

Tokens == [kind : {"valid", "invalid", "missing"}, usage : Usage]
Valid(u)    == [kind |-> "valid", usage |-> u]
Other(kind) == [kind |-> kind, usage |-> ZeroUsage]

Record ==
       [is : {"context"}, model : Models]
  \cup [is : {"started", "ended"}, id : Ids \cup {None}, timed : BOOLEAN]
  \cup [is : {"tokens"}, timed : BOOLEAN, total : Tokens, last : Tokens]
  \cup [is : {"gap"}]

Blocks == {"start_missing", "time_missing", "reset", "parser_gap", "required_invalid",
           "model_unresolved"}

Turn ==
  [key        : Ids \cup (1..MaxLines),
   id         : Ids \cup {None},
   at         : 1..MaxLines,
   start      : Usage \cup {None},
   last       : Usage \cup {None},
   accounted  : Usage,
   count      : Nat,
   model      : Models \cup {None, Mixed},
   unresolved : BOOLEAN,
   blocks     : SUBSET Blocks,
   status     : {"open", "ended", "aborted"},
   timed      : BOOLEAN]  \* it has an end time

ASSUME AbsenceAssumption == None \notin Usage /\ None \notin Turn

Event ==
  [at    : 1..MaxLines,
   kind  : {"normal", "recovered", "compensation"},
   turn  : Ids \cup (1..MaxLines) \cup {None},
   model : Models \cup {UnknownModel},
   usage : Usage]

\* chain is "continuous", or the block that the interruption puts on a turn.
NewProcessor(sub) ==
  [subagent |-> sub, chain |-> "continuous", prev |-> None, model |-> None,
   turn |-> None, closed |-> <<>>, events |-> {}]

Block(p, why) == IF p.turn = None THEN p ELSE [p EXCEPT !.turn.blocks = @ \cup {why}]

Interrupt(p, why) == [Block(p, why) EXCEPT !.chain = why]

SetBaseline(p, total) ==
  LET q == [p EXCEPT !.prev = total, !.chain = "continuous"] IN
  IF q.turn = None THEN q ELSE [q EXCEPT !.turn.last = total]

Close(p, turn, how, timed) ==
  [p EXCEPT !.turn = None,
            !.closed = Append(@, [turn EXCEPT !.status = how, !.timed = timed])]

Opened(p, n, line, start, blocks) ==
  [p EXCEPT !.turn =
    [key |-> IF line.id = None THEN n ELSE line.id, id |-> line.id, at |-> n,
     start |-> start, last |-> None, accounted |-> ZeroUsage, count |-> 0,
     model |-> None, unresolved |-> FALSE, status |-> "open", timed |-> FALSE,
     blocks |-> blocks \cup (IF line.timed THEN {} ELSE {"time_missing"})]]

Replaced(p, line) ==
  IF p.turn = None THEN p
  ELSE Close(p, [p.turn EXCEPT !.blocks = @ \cup {"required_invalid"}], "aborted", line.timed)

\* Mutant of StartTurn: the interruption before the turn is forgotten.
StartTurnAfterGap(p, n, line) == Opened(Replaced(p, line), n, line, p.prev, {})

\* start_turn: a turn that is still open is aborted; the new one starts from the
\* last trusted total, which there is only while the chain is continuous.
StartTurn(p, n, line) ==
  IF p.chain = "continuous" /\ p.prev # None
    THEN Opened(Replaced(p, line), n, line, p.prev, {})
    ELSE Opened(Replaced(p, line), n, line, None,
                {"start_missing"} \cup ({p.chain} \ {"continuous"}))

\* Mutant of ObserveModel: the last model of the turn is kept.
ObserveLastModel(turn, m) ==
  IF m = UnknownModel
    THEN [turn EXCEPT !.unresolved = TRUE, !.blocks = @ \cup {"model_unresolved"}]
    ELSE [turn EXCEPT !.model = m]

ObserveModel(turn, m) ==
  IF m = UnknownModel
    THEN [turn EXCEPT !.unresolved = TRUE, !.blocks = @ \cup {"model_unresolved"}]
    ELSE [turn EXCEPT !.model = IF @ \in {None, m} THEN m ELSE Mixed]

AddAccounted(turn, usage) ==
  LET sum == IF turn.count = 0 THEN usage ELSE Plus(turn.accounted, usage) IN
  IF sum \in Usage
    THEN [turn EXCEPT !.accounted = sum, !.count = @ + 1]
    ELSE [turn EXCEPT !.blocks = @ \cup {"required_invalid"}]

\* emit_candidate
Emit(p, n, kind, usage) ==
  LET m == IF p.model = None THEN UnknownModel ELSE p.model
      e == [at |-> n, kind |-> kind, model |-> m, usage |-> usage,
            turn |-> IF p.turn = None THEN None ELSE p.turn.key]
  IN  [p EXCEPT !.events = @ \cup {e},
                !.turn = IF @ = None THEN None ELSE AddAccounted(ObserveModel(@, m), usage)]

------------------------------------------------------------------------------
(* One line (processor.rs: apply, token_count, end_turn, compensate). *)

\* A last usage that is there counts, one that cannot be read blocks the turn.
CountLast(p, n, last) ==
  CASE last.kind = "valid"   -> Emit(p, n, "normal", last.usage)
    [] last.kind = "invalid" -> Block(p, "required_invalid")
    [] last.kind = "missing" -> p

\* Mutant of Recover: only inside a turn.
RecoverInTurn(p, n, total) ==
  IF p.prev = None \/ p.turn = None THEN p ELSE Emit(p, n, "recovered", Minus(total, p.prev))

\* A missing last usage is the difference of the two totals.
Recover(p, n, total) ==
  IF p.prev = None THEN p ELSE Emit(p, n, "recovered", Minus(total, p.prev))

CountTokens(p, n, line) ==
  LET total == line.total.usage
      reset == p.prev # None /\ Negative(total, p.prev)
  IN
  IF p.subagent /\ p.model = None THEN
    IF line.total.kind = "valid" THEN SetBaseline(p, total) ELSE p
  ELSE IF line.total.kind # "valid" THEN Interrupt(p, "required_invalid")
  ELSE IF ~line.timed THEN
    SetBaseline(Block(IF line.last.kind = "invalid" THEN Block(p, "required_invalid") ELSE p,
                      "time_missing"), total)
  ELSE IF p.chain # "continuous" \/ p.prev = total THEN SetBaseline(p, total)
  ELSE IF reset THEN SetBaseline(CountLast(Block(p, "reset"), n, line.last), total)
  ELSE IF line.last.kind # "missing" THEN SetBaseline(CountLast(p, n, line.last), total)
  ELSE IF p.prev # None /\ NotAUsage(total, p.prev) THEN Block(p, "required_invalid")
  ELSE SetBaseline(Recover(p, n, total), total)

MayCompensate(turn, timed) ==
  turn.blocks = {} /\ turn.start # None /\ turn.last # None /\ timed

\* compensate: what the totals say the turn spent and nothing accounted for yet.
Compensate(p, n, turn) ==
  LET delta   == Minus(turn.last, turn.start)
      missing == Minus(delta, turn.accounted)
      event   == [at |-> n, kind |-> "compensation", turn |-> turn.key, usage |-> missing,
                  model |-> IF turn.model = Mixed THEN UnknownModel ELSE turn.model]
  IN  IF \/ Negative(turn.last, turn.start) \/ Negative(delta, turn.accounted)
         \/ missing = ZeroUsage \/ turn.model = None
        THEN Close(p, turn, "ended", TRUE)
        ELSE Close([p EXCEPT !.events = @ \cup {event}], AddAccounted(turn, missing), "ended", TRUE)

\* compensate returns the error of a difference that is not a usage.
CompensateFails(turn) ==
  LET delta == Minus(turn.last, turn.start) IN
  \/ NotAUsage(turn.last, turn.start)
  \/ ~Negative(turn.last, turn.start) /\ NotAUsage(delta, turn.accounted)

\* end_turn: an end with another id leaves the turn open.  The turn is taken out of the
\* state first, so an error of compensate drops it: it is neither open nor closed.
EndTurn(p, n, line) ==
  IF p.turn = None \/ (line.id # None /\ p.turn.id # line.id) THEN p
  ELSE IF ~MayCompensate(p.turn, line.timed)
    THEN Close(p, IF line.timed THEN p.turn
                  ELSE [p.turn EXCEPT !.blocks = @ \cup {"time_missing"}], "ended", line.timed)
  ELSE IF CompensateFails(p.turn) THEN [p EXCEPT !.turn = None]
  ELSE Compensate(p, n, p.turn)

ApplyRecord(p, n, line) ==
  CASE line.is = "context" -> [p EXCEPT !.model = line.model]
    [] line.is = "started" -> StartTurn(p, n, line)
    [] line.is = "ended"   -> EndTurn(p, n, line)
    [] line.is = "tokens"  -> CountTokens(p, n, line)
    [] line.is = "gap"     -> Interrupt(p, "parser_gap")

\* The lines after offset, one after the other.
Process(p, offset, lines) ==
  LET after[i \in 0..Len(lines)] ==
        IF i = 0 THEN p ELSE ApplyRecord(after[i - 1], offset + i, lines[i])
  IN  after[Len(lines)]

------------------------------------------------------------------------------
(* The database: what a batch writes, and what the next one starts from. *)

Db ==
  [offset : 0..MaxLines,
   chain  : {"continuous", "parser_gap", "required_invalid"},
   prev   : Usage \cup {None},
   model  : Models \cup {None},
   active : Ids \cup (1..MaxLines) \cup {None},
   turns  : SUBSET Turn,
   events : SUBSET Event]

OpenTurns(turns) == {t \in turns : t.status = "open"}

\* Mutant of ReadBack: the active model is not read.
ReadBackModelless ==
  [NewProcessor(subagent) EXCEPT
     !.chain = db.chain, !.prev = db.prev,
     !.turn = IF OpenTurns(db.turns) = {} THEN None
              ELSE CHOOSE t \in OpenTurns(db.turns) : TRUE]

\* load_source_plan: the state row and the open turn.
ReadBack ==
  [NewProcessor(subagent) EXCEPT
     !.chain = db.chain, !.prev = db.prev, !.model = db.model,
     !.turn = IF OpenTurns(db.turns) = {} THEN None
              ELSE CHOOSE t \in OpenTurns(db.turns) : TRUE]

\* The turns a batch writes, in this order: the closed ones, then the open one.
Written(p) == p.closed \o (IF p.turn = None THEN <<>> ELSE <<p.turn>>)

\* write_turn: what ON CONFLICT lets a row become.
MayBecome(old, new) ==
  /\ <<new.at, new.id, new.start>> = <<old.at, old.id, old.start>>
  /\ old.status \in {"open", new.status}
  /\ old.blocks \subseteq new.blocks
  /\ old.unresolved => new.unresolved
  /\ old.count <= new.count

WriteTurn(turns, new) == {t \in turns : t.key # new.key} \cup {new}

\* The rows after each of the turns of a batch.
RowsAfter(turns, new) ==
  LET rows[i \in 0..Len(new)] == IF i = 0 THEN turns ELSE WriteTurn(rows[i - 1], new[i])
  IN  rows

WriteTurns(turns, new) == RowsAfter(turns, new)[Len(new)]

TurnsAccepted(turns, new) ==
  \A i \in 1..Len(new) :
    \A old \in RowsAfter(turns, new)[i - 1] : old.key = new[i].key => MayBecome(old, new[i])

\* verify_source_postconditions: the open rows are the active turn of the state.
OpenRowMatches(p) ==
  LET open == OpenTurns(WriteTurns(db.turns, Written(p))) IN
  IF p.turn = None THEN open = {} ELSE {t.key : t \in open} = {p.turn.key}

Batch(k) == Process(ReadBack, db.offset, SubSeq(pending, 1, k))

BatchAccepted(k) == TurnsAccepted(db.turns, Written(Batch(k))) /\ OpenRowMatches(Batch(k))

\* commit_usage
CommitUsage(k) ==
  /\ BatchAccepted(k)
  /\ LET p == Batch(k) IN
     db' = [offset |-> db.offset + k, chain |-> p.chain, prev |-> p.prev, model |-> p.model,
            active |-> IF p.turn = None THEN None ELSE p.turn.key,
            turns  |-> WriteTurns(db.turns, Written(p)),
            events |-> db.events \cup p.events]
  /\ straight' = Process(straight, db.offset, SubSeq(pending, 1, k))
  /\ pending' = SubSeq(pending, k + 1, Len(pending))
  /\ UNCHANGED <<subagent, spent, shown, latest, started, lossy, odd>>

\* A batch may end after any line: it does where the pending lines ended before the next was
\* written.
CommitBatch == pending # <<>> /\ CommitUsage(Len(pending))

------------------------------------------------------------------------------
(* The program that writes the file: every total includes what was spent since *)
(* the last one, and a last usage is never more than what was spent.           *)

Written1(line, odds, loses) ==
  /\ db.offset + Len(pending) < MaxLines
  /\ odd + odds <= MaxOdd
  /\ pending' = Append(pending, line)
  /\ odd' = odd + odds
  /\ lossy' = (lossy \/ loses)
  /\ UNCHANGED <<subagent, db, straight>>

\* The parent's usage, or this rollout's.
Owned == ~subagent \/ db.model # None \/ \E i \in DOMAIN pending : pending[i].is = "context"

Spend(amount, restart) ==
  LET total == IF restart THEN amount ELSE Plus(shown, amount) IN
  /\ total \in Usage
  /\ Owned \/ BadPrefix \/ started = <<>>
  /\ shown' = total
  /\ spent' = IF Owned THEN Plus(spent, amount) ELSE spent
  /\ latest' = amount
  /\ UNCHANGED started

NothingSpent == UNCHANGED <<spent, shown, latest>>

WriteContext(m) ==
  /\ Written1([is |-> "context", model |-> m], 0, FALSE)
  /\ NothingSpent /\ UNCHANGED started

WriteStarted(id, timed) ==
  /\ ReusedIds \/ id = None \/ \A i \in DOMAIN started : started[i].id # id
  /\ Written1([is |-> "started", id |-> id, timed |-> timed],
              (IF id = None THEN 1 ELSE 0) + (IF timed THEN 0 ELSE 1), FALSE)
  /\ started' = <<[id |-> id, at |-> db.offset + Len(pending) + 1, spent |-> spent]>> \o started
  /\ NothingSpent

WriteEnded(id, timed) ==
  /\ started # <<>> /\ id \in {None} \cup {started[i].id : i \in DOMAIN started}
  /\ Written1([is |-> "ended", id |-> id, timed |-> timed],
              (IF id = started[1].id THEN 0 ELSE 1) + (IF timed THEN 0 ELSE 1), FALSE)
  /\ NothingSpent /\ UNCHANGED started

\* A line with everything in it, of a provider that may start its total over.  A new total
\* that happens to be the last one cannot be told from a repeated line.
WriteTokens(amount, restart) ==
  /\ Spend(amount, restart)
  /\ Written1([is |-> "tokens", timed |-> TRUE, total |-> Valid(shown'), last |-> Valid(amount)],
              IF restart THEN 1 ELSE 0, shown' = shown)

\* The snapshot of before once more.
WriteRepeated ==
  /\ shown # ZeroUsage
  /\ Written1([is |-> "tokens", timed |-> TRUE, total |-> Valid(shown), last |-> Valid(latest)],
              1, FALSE)
  /\ NothingSpent /\ UNCHANGED started

\* A last usage that is absent, unreadable or too small, or a line without a time.
WritePartial(amount, restart, last, timed) ==
  /\ ~timed \/ last # Valid(amount)
  /\ last.kind = "valid" => Leq(last.usage, amount)
  /\ Spend(amount, restart)
  /\ Written1([is |-> "tokens", timed |-> timed, total |-> Valid(shown'), last |-> last],
              IF restart THEN 2 ELSE 1,
              last.kind # "missing" \/ ~timed \/ restart \/ shown = ZeroUsage)

\* Usage whose total cannot be read, or whose whole line cannot.
WriteUnreadable(amount, line) ==
  /\ Owned \/ BadPrefix
  /\ Spend(amount, FALSE)
  /\ Written1(line, 1, TRUE)

Unreadable == {[is |-> "gap"],
               [is |-> "tokens", timed |-> TRUE, total |-> Other("invalid"),
                last |-> Other("missing")]}

Write ==
  \/ \E m \in Models : WriteContext(m)
  \/ \E id \in Ids \cup {None}, timed \in BOOLEAN : WriteStarted(id, timed) \/ WriteEnded(id, timed)
  \/ \E amount \in Amounts, restart \in BOOLEAN : WriteTokens(amount, restart)
  \/ WriteRepeated
  \/ \E amount \in Amounts, restart, timed \in BOOLEAN,
        last \in {Valid(u) : u \in Amounts} \cup {Other("invalid"), Other("missing")} :
        WritePartial(amount, restart, last, timed)
  \/ \E amount \in Amounts, line \in Unreadable : WriteUnreadable(amount, line)

------------------------------------------------------------------------------

TokenInit ==
  /\ subagent \in BOOLEAN
  /\ pending = <<>>
  /\ db = [offset |-> 0, chain |-> "continuous", prev |-> None, model |-> None,
           active |-> None, turns |-> {}, events |-> {}]
  /\ straight = NewProcessor(subagent)
  /\ spent = ZeroUsage /\ shown = ZeroUsage /\ latest = ZeroUsage
  /\ started = <<>> /\ lossy = FALSE /\ odd = 0

TokenNext == CommitBatch \/ (Len(pending) < MaxBatch /\ Write)

TokenSpec == TokenInit /\ [][TokenNext]_tokenVars

------------------------------------------------------------------------------
(* Properties. *)

TokenTypeOK ==
  /\ subagent \in BOOLEAN
  /\ pending \in Seq(Record) /\ Len(pending) <= MaxBatch
  /\ db \in Db
  /\ spent.cached <= spent.input /\ {shown, latest} \subseteq Usage
  /\ started \in Seq([id : Ids \cup {None}, at : 1..MaxLines, spent : {[input |-> i, cached |-> c] :
                        i \in 0..spent.input, c \in 0..spent.cached}])
  /\ lossy \in BOOLEAN /\ odd \in 0..MaxOdd

UsageOf(events) ==
  [input  |-> SumFunction([e \in events |-> e.usage.input]),
   cached |-> SumFunction([e \in events |-> e.usage.cached])]

\* What is counted was spent, and what a turn counts was spent in that turn: no interplay of last
\* usages, differences of totals, end-of-turn compensation, gaps, repeated snapshots and totals
\* that start over counts a token twice, for the wrong turn, or for a subagent that its parent
\* spent (processor.rs: start_turn, token_count, end_turn).
NeverOvercounts ==
  /\ Leq(UsageOf(db.events), spent)
  /\ \A t \in db.turns, i \in DOMAIN started :
       started[i].at = t.at =>
         Leq(Plus(started[i].spent, UsageOf({e \in db.events : e.turn = t.key})),
             IF i = 1 THEN spent ELSE started[i - 1].spent)

\* And while every line can be read and is complete, or lacks only a last usage that the totals
\* give back, all of it is counted once the lines are committed.
CountsEverythingReadable ==
  pending = <<>> /\ ~lossy => UsageOf(db.events) = spent

\* The rows of the two tables agree: a turn has accounted for exactly the events that name it
\* (unless that sum overflowed, which blocks the turn), and a turn that closed with nothing in
\* the way of compensation has accounted for the difference of its two totals, or for more.
TurnsBalance ==
  \A t \in db.turns :
    LET own == UsageOf({e \in db.events : e.turn = t.key}) IN
    /\ own # t.accounted => "required_invalid" \in t.blocks
    /\ t.status = "ended" /\ MayCompensate(t, t.timed) /\ Leq(t.start, t.last)
         => \/ Leq(Minus(t.last, t.start), t.accounted)
            \/ ~Leq(t.accounted, Minus(t.last, t.start))
            \/ t.model = None /\ subagent

\* Compensated usage goes to a model only when that model produced every counted line of the
\* turn (processor.rs: observe_turn_model, compensate).
CompensationIsAttributed ==
  \A e \in db.events : e.kind = "compensation" =>
    LET models == {f.model : f \in {g \in db.events : g.turn = e.turn /\ g.at < e.at}} IN
    e.model = UnknownModel \/ models = {e.model}

\* Wherever the batches end, and whatever process commits the next one, the rows are those of
\* a run that never stopped: the state, the open turn with its blocks and sums, the events.
ResumesExactly ==
  /\ <<db.chain, db.prev, db.model, db.events>> =
       <<straight.chain, straight.prev, straight.model, straight.events>>
  /\ db.turns = {Written(straight)[i] : i \in DOMAIN Written(straight)}
  /\ db.active = IF straight.turn = None THEN None ELSE straight.turn.key

\* No batch that can be read is refused for good: the rows a batch writes are rows that the
\* tables take (storage/usage.rs: write_turn, verify_source_postconditions).
EveryBatchCommits == pending # <<>> => BatchAccepted(Len(pending))

==============================================================================
