--------------------------- MODULE UsageRoundProofs ---------------------------
(***************************************************************************)
(* The usage ledger for every number of sources, threads, parsers, bytes,  *)
(* changes of files and faults: its rows are those of the lines its states *)
(* have read, the one checkpoint of a source belongs to the epoch that     *)
(* work goes to, and activation takes nothing from readers.                *)
(*                                                                         *)
(* None of the three is inductive alone.  Around them, what a state and a  *)
(* manifest row say of a source has to fit what was last observed of it    *)
(* (StatesFit, MembersFit), which in turn never runs ahead of the file     *)
(* (FilesGrow), and an epoch that does not exist has no rows.              *)
(***************************************************************************)
EXTENDS UsageRound, TLAPS

------------------------------------------------------------------------------
(* The inductive invariant. *)

\* A state has read a part of some observed view of its generation, and the end of
\* its last complete line when it claims to know the tail.
StateFits(st, row) ==
  st # NoState =>
    /\ 1 <= st.gen /\ st.gen <= row.gen
    /\ st.gen = row.gen => st.raw <= row.raw
    /\ st.off <= st.raw
    /\ st.tail # "unverified" => st.off = LastComplete(st.raw)

StatesFit == \A s \in Sources : StateFits(act.state[s], src[s]) /\ StateFits(bld.state[s], src[s])

\* A manifest row describes what was last observed; whoever has none has built nothing.
MemberFits(m, row) ==
  IF m.in THEN /\ m.gen = row.gen /\ m.raw = row.raw
               /\ m.proof # NoState => m.proof.gen = m.gen
          ELSE m.phase = "none"

MembersFit ==
  \A s \in Sources : /\ MemberFits(member[s], src[s])
                     /\ ~member[s].in => bld.state[s] = NoState

\* Epochs that do not exist.
NothingElse ==
  \A s \in Sources : /\ ~app.active => act.state[s] = NoState
                     /\ ~app.build => ~member[s].in

\* What is bound has been seen.
PresentIsReal == \A s \in Sources : src[s].present => src[s].gen >= 1

\* A file only grows while it is one generation.
FilesGrow ==
  \A s \in Sources : /\ src[s].gen <= disk[s].gen
                     /\ src[s].gen = disk[s].gen => src[s].raw <= disk[s].raw

StoreInv == /\ StoreTypeOK /\ StatesFit /\ MembersFit /\ NothingElse /\ PresentIsReal
            /\ FactsAreTheReadPrefix /\ CheckpointFollowsWork

\* Threads are worked on in an epoch.
GroupHasEpoch == pc = "group" => app.build \/ app.active

IInv == TypeOK /\ StoreInv /\ FilesGrow /\ GroupHasEpoch

------------------------------------------------------------------------------
(* Rows and epochs. *)

LEMMA Blanks ==
  NoRow \in Row /\ NoState \in State /\ NoCp \in Checkpoint /\ NoMember \in Member /\ EmptyEpoch \in Epoch
<1>1. 0 \in 0..MaxGen /\ 0 \in 0..MaxRaw /\ 0 \in 0..MaxParser
  BY StoreAssumption
<1>2. NoState \in State
  BY <1>1 DEF NoState, State, Tails
<1>3. NoRow \in Row /\ NoCp \in Checkpoint
  BY <1>1 DEF NoRow, Row, NoCp, Checkpoint
<1>4. NoMember \in Member
  BY <1>1, <1>2 DEF NoMember, Member, Tails, Completion
<1>5. EmptyEpoch \in Epoch
  BY <1>2 DEF EmptyEpoch, Epoch
<1> QED BY <1>2, <1>3, <1>4, <1>5

LEMMA Resets ==
  ASSUME NEW parser \in 0..MaxParser
  PROVE  Reset(parser) \in Checkpoint /\ Reset(parser).status = "rebuild_required"
BY StoreAssumption DEF Reset, Checkpoint

\* Facts and events of an epoch are about its sources.
LEMMA CountedTyped ==
  ASSUME NEW occ \in [Sources -> SUBSET Fact]
  PROVE  Counted(occ) \subseteq Event
<1>1. ASSUME NEW s \in Sources, NEW f \in occ[s]
      PROVE  EventOf(s, f) \in Event
  <2>1. f \in Fact
    OBVIOUS
  <2> QED BY <2>1, StoreAssumption DEF EventOf, Event, Fact
<1> QED BY <1>1 DEF Counted

NewEpoch(e, occ, events, states) == [e EXCEPT !.occ = occ, !.events = events, !.state = states]

LEMMA EpochUpdate ==
  ASSUME NEW e \in Epoch, NEW occ \in [Sources -> SUBSET Fact], NEW events \in SUBSET Event,
         NEW states \in [Sources -> State]
  PROVE  /\ NewEpoch(e, occ, events, states) \in Epoch
         /\ NewEpoch(e, occ, events, states).occ = occ
         /\ NewEpoch(e, occ, events, states).state = states
BY DEF NewEpoch, Epoch

LEMMA CleanedRows ==
  ASSUME NEW e \in Epoch, NEW S
  PROVE  /\ Cleaned(e, S) \in Epoch
         /\ \A s \in Sources : s \in S => Cleaned(e, S).state[s] = NoState /\ Cleaned(e, S).occ[s] = {}
         /\ \A s \in Sources : s \notin S => Cleaned(e, S).state[s] = e.state[s] /\ Cleaned(e, S).occ[s] = e.occ[s]
BY Blanks DEF Cleaned, Epoch

\* What is frozen describes the source as it is now.
LEMMA FreezeFits ==
  ASSUME NEW st \in State, NEW r \in Threads, NEW f \in Row, NEW c \in Checkpoint
  PROVE  /\ Freeze(st, r, f, c) \in Member
         /\ Freeze(st, r, f, c).in /\ Freeze(st, r, f, c).phase = "none"
         /\ Freeze(st, r, f, c).gen = f.gen /\ Freeze(st, r, f, c).raw = f.raw
         /\ MemberFits(Freeze(st, r, f, c), f)
BY Blanks, StoreAssumption DEF Freeze, Member, MemberFits, State, Row, Checkpoint, Completion, Tails

NewRow(m, required, aoff, proof, tail) ==
  [m EXCEPT !.required = required, !.aoff = aoff, !.proof = proof, !.tail = tail]

LEMMA RefreezeFits ==
  ASSUME NEW old \in Member, NEW st \in State, NEW r \in Threads, NEW f \in Row, NEW c \in Checkpoint,
         old.in /\ old.proof # NoState => old.proof.gen = old.gen
  PROVE  /\ Refreeze(old, st, r, f, c) \in Member
         /\ Refreeze(old, st, r, f, c).in /\ Refreeze(old, st, r, f, c).phase = "none"
         /\ MemberFits(Refreeze(old, st, r, f, c), f)
<1> DEFINE new == Freeze(st, r, f, c)
<1>1. /\ new \in Member /\ new.in /\ new.phase = "none" /\ new.gen = f.gen /\ new.raw = f.raw
      /\ new.proof # NoState => new.proof.gen = new.gen
  BY FreezeFits DEF MemberFits
<1> HIDE DEF new
<1> DEFINE sameGen == old.in /\ old.gen = new.gen
           same    == sameGen /\ old.bound = new.bound /\ old.root = new.root
           rooted  == /\ sameGen /\ app.active /\ st # NoState /\ st.gen = new.gen
                      /\ st.parser = app.parser /\ st.off = old.aoff /\ new.bound /\ st.root = new.root
           required == IF sameGen THEN Larger(new.required, old.required) ELSE new.required
           aoff  == IF same \/ rooted THEN old.aoff ELSE new.aoff
           proof == IF same THEN old.proof ELSE IF rooted THEN st ELSE new.proof
           tail  == IF sameGen /\ old.raw = new.raw THEN old.tail ELSE new.tail
<1>2. Refreeze(old, st, r, f, c) = NewRow(new, required, aoff, proof, tail)
  BY DEF Refreeze, NewRow, new
<1>3. required \in 0..MaxRaw /\ aoff \in 0..MaxRaw /\ proof \in State /\ tail \in Tails
  BY <1>1 DEF Member, Larger
<1>4. proof # NoState => proof.gen = f.gen
  BY <1>1
<1> HIDE DEF required, aoff, proof, tail
<1>5. /\ NewRow(new, required, aoff, proof, tail) \in Member
      /\ NewRow(new, required, aoff, proof, tail).in = new.in
      /\ NewRow(new, required, aoff, proof, tail).phase = new.phase
      /\ NewRow(new, required, aoff, proof, tail).gen = new.gen
      /\ NewRow(new, required, aoff, proof, tail).raw = new.raw
      /\ NewRow(new, required, aoff, proof, tail).proof = proof
  BY <1>1, <1>3 DEF NewRow, Member
<1> QED BY <1>1, <1>2, <1>4, <1>5 DEF MemberFits

\* Manifest rows stay rows when their progress changes.
Phases == {"none", "occurrences", "turns", "anomalies", "finalize"}

LEMMA ProgressRow ==
  ASSUME NEW m \in Member, NEW status \in Completion, NEW phase \in Phases, NEW n \in 0..MaxRaw
  PROVE  [m EXCEPT !.phase = phase, !.status = status, !.through = n] \in Member
BY DEF Member, Phases

LEMMA Zeros == 0 \in 0..MaxRaw
BY StoreAssumption

LEMMA MemberRows ==
  ASSUME NEW s \in Sources, NEW row \in Member,
         member \in [Sources -> Member], member' = [member EXCEPT ![s] = row]
  PROVE  /\ member' \in [Sources -> Member] /\ member'[s] = row
         /\ \A x \in Sources \ {s} : member'[x] = member[x]
OBVIOUS

------------------------------------------------------------------------------
(* Transactions that let some sources start again.  S are those sources; what *)
(* is observed of a source may have grown meanwhile, and the root of its      *)
(* active state may be another.                                               *)

Grows(old, new) ==
  /\ old.gen <= new.gen
  /\ old.gen = new.gen => old.raw <= new.raw
  /\ new.present => new.gen >= 1

SameButRoot(old, new) ==
  old # new => old # NoState /\ \E r \in Threads : new = [old EXCEPT !.root = r]

LEMMA RootsAreThreads ==
  ASSUME StoreTypeOK, NEW s \in Sources
  PROVE  RootOf(s) \in Threads
BY StoreAssumption DEF StoreTypeOK, RootOf

LEMMA GrownFits ==
  ASSUME NEW st \in State, NEW new \in State, NEW a \in Row, NEW b \in Row,
         StateFits(st, a), Grows(a, b), SameButRoot(st, new)
  PROVE  StateFits(new, b) /\ (st # NoState <=> new # NoState)
<1>1. CASE st = NoState
  BY <1>1 DEF StateFits, SameButRoot
<1>2. CASE st # NoState
  <2>1. /\ 1 <= st.gen /\ st.gen <= a.gen
        /\ st.gen = a.gen => st.raw <= a.raw
        /\ st.off <= st.raw
        /\ st.tail # "unverified" => st.off = LastComplete(st.raw)
    BY <1>2 DEF StateFits
  <2>2. /\ new.gen = st.gen /\ new.raw = st.raw /\ new.off = st.off /\ new.tail = st.tail
    BY DEF SameButRoot, State
  <2>3. new.gen # NoState.gen
    BY <2>1, <2>2, StoreAssumption DEF NoState, State
  <2>4. new.gen <= b.gen /\ (new.gen = b.gen => new.raw <= b.raw)
    BY <2>1, <2>2, StoreAssumption DEF Grows, State, Row
  <2> QED BY <1>2, <2>1, <2>2, <2>3, <2>4 DEF StateFits
<1> QED BY <1>1, <1>2

LEMMA RestartHolds ==
  ASSUME StoreInv, StoreTypeOK', NEW S \in SUBSET Sources,
         app'.build = app.build, app'.active = app.active, app'.parser = app.parser,
         \A s \in Sources : Grows(src[s], src'[s]) /\ SameButRoot(act.state[s], act'.state[s]),
         act'.occ = act.occ,
         \A s \in S : bld'.state[s] = NoState /\ bld'.occ[s] = {} /\ cp'[s].status # "ready",
         \A s \in Sources \ S :
           /\ bld'.state[s] = bld.state[s] /\ bld'.occ[s] = bld.occ[s]
           /\ member'[s].phase = member[s].phase
           /\ cp'[s].status = "ready" => cp'[s] = cp[s] /\ (app'.target = app.target \/ ~member[s].in),
         \A s \in Sources :
           /\ MemberFits(member'[s], src'[s])
           /\ ~member'[s].in => ~member[s].in
           /\ ~app.build => ~member'[s].in
  PROVE  StoreInv'
<1> USE DEF StoreInv
<1>1. \A s \in Sources : /\ act.state[s] \in State /\ act'.state[s] \in State /\ bld.state[s] \in State
                         /\ src[s] \in Row /\ src'[s] \in Row
  BY DEF StoreTypeOK, Epoch
<1>2. \A s \in Sources : /\ StateFits(act'.state[s], src'[s])
                         /\ act.state[s] # NoState <=> act'.state[s] # NoState
  BY <1>1, GrownFits DEF StatesFit
<1>3. \A s \in Sources : StateFits(bld'.state[s], src'[s])
  <2> TAKE s \in Sources
  <2>1. CASE s \in S
    BY <2>1 DEF StateFits
  <2>2. CASE s \notin S
    BY <1>1, <2>2, GrownFits DEF StatesFit, SameButRoot
  <2> QED BY <2>1, <2>2
<1>4. StatesFit'
  BY <1>2, <1>3 DEF StatesFit
<1>5. MembersFit'
  BY DEF MembersFit
<1>6. NothingElse' /\ PresentIsReal'
  BY <1>2 DEF NothingElse, PresentIsReal, Grows
<1>7. FactsAreTheReadPrefix'
  <2>1. ASSUME NEW s \in Sources
        PROVE  act'.occ[s] = IF act'.state[s] = NoState THEN {} ELSE Facts(act'.state[s].gen, act'.state[s].off)
    <3>1. act'.state[s].gen = act.state[s].gen /\ act'.state[s].off = act.state[s].off
      BY <1>1, ZenonT(40) DEF SameButRoot, State
    <3> QED BY <1>2, <3>1 DEF FactsAreTheReadPrefix
  <2>2. ASSUME NEW s \in Sources
        PROVE  IF bld'.state[s] # NoState THEN bld'.occ[s] = Facts(bld'.state[s].gen, bld'.state[s].off)
               ELSE IF member'[s].phase = "none" THEN bld'.occ[s] = {} ELSE bld'.occ[s] \subseteq act'.occ[s]
    BY DEF FactsAreTheReadPrefix
  <2> QED BY <2>1, <2>2 DEF FactsAreTheReadPrefix
<1>8. CheckpointFollowsWork'
  <2> SUFFICES ASSUME NEW s \in Sources, cp'[s].status = "ready"
               PROVE  /\ Working'.state[s] # NoState /\ cp'[s].off = Working'.state[s].off
                      /\ cp'[s].parser = WorkingParser' /\ Working'.state[s].parser = WorkingParser'
    BY DEF CheckpointFollowsWork
  <2>1. s \notin S /\ cp'[s] = cp[s] /\ (app'.target = app.target \/ ~member[s].in)
    OBVIOUS
  <2>2. /\ Working.state[s] # NoState /\ cp[s].off = Working.state[s].off
        /\ cp[s].parser = WorkingParser /\ Working.state[s].parser = WorkingParser
    BY <2>1 DEF CheckpointFollowsWork
  <2>3. CASE app.build
    <3>1. Working.state[s] = bld.state[s] /\ Working'.state[s] = bld.state[s]
      BY <2>1, <2>3 DEF Working
    <3>2. WorkingParser' = WorkingParser
      BY <2>1, <2>2, <2>3, <3>1 DEF MembersFit, WorkingParser
    <3> QED BY <2>1, <2>2, <3>1, <3>2
  <2>4. CASE ~app.build
    <3>1. Working.state[s] = act.state[s] /\ Working'.state[s] = act'.state[s]
      BY <2>4 DEF Working
    <3>2. WorkingParser' = WorkingParser
      BY <2>4 DEF WorkingParser
    <3>3. act'.state[s].off = act.state[s].off /\ act'.state[s].parser = act.state[s].parser
      BY <1>1, ZenonT(40) DEF SameButRoot, State
    <3> QED BY <1>2, <2>1, <2>2, <3>1, <3>2, <3>3
  <2> QED BY <2>3, <2>4
<1> QED BY <1>4, <1>5, <1>6, <1>7, <1>8

------------------------------------------------------------------------------
(* The transactions on the build. *)

LEMMA BeginBuildHolds ==
  ASSUME StoreInv, NEW parser \in 0..MaxParser, BeginBuild(parser)
  PROVE  StoreInv'
<1> USE DEF StoreInv
<1> DEFINE frozen == ActiveContributors \union Present
<1>1. /\ ~app.build /\ app'.build /\ app'.active = app.active
      /\ src' = src /\ root' = root /\ act' = act /\ bld' = bld /\ rev' = rev
  BY DEF BeginBuild, StoreTypeOK
<1>2. \A s \in Sources : bld.state[s] = NoState /\ bld.occ[s] = {} /\ ~member[s].in
  BY <1>1 DEF NothingElse, MembersFit, MemberFits, FactsAreTheReadPrefix
<1>3. \A s \in Sources :
        /\ s \in frozen => /\ member'[s] = Freeze(act.state[s], RootOf(s), src[s], cp[s])
                           /\ cp'[s] = Reset(parser)
        /\ s \notin frozen => member'[s] = NoMember /\ cp'[s] = cp[s]
  BY DEF BeginBuild
<1>4. \A s \in Sources : /\ member'[s] \in Member /\ MemberFits(member'[s], src[s])
                         /\ member'[s].phase = "none"
  <2> TAKE s \in Sources
  <2>1. CASE s \in frozen
    <3>1. act.state[s] \in State /\ RootOf(s) \in Threads /\ src[s] \in Row /\ cp[s] \in Checkpoint
      BY RootsAreThreads DEF StoreTypeOK, Epoch
    <3> QED BY <1>3, <2>1, <3>1, FreezeFits
  <2>2. CASE s \notin frozen
    BY <1>3, <2>2, Blanks DEF NoMember, MemberFits
  <2> QED BY <2>1, <2>2
<1>5. StoreTypeOK'
  <2>1. member' \in [Sources -> Member]
    BY <1>4 DEF BeginBuild
  <2>2. cp' \in [Sources -> Checkpoint]
    BY Resets DEF BeginBuild, StoreTypeOK
  <2>3. app' \in [active : BOOLEAN, parser : 0..MaxParser, build : BOOLEAN, target : 0..MaxParser]
    BY DEF BeginBuild, StoreTypeOK
  <2> QED BY <1>1, <2>1, <2>2, <2>3 DEF StoreTypeOK
<1>6. StatesFit' /\ MembersFit' /\ NothingElse' /\ PresentIsReal' /\ FactsAreTheReadPrefix'
  BY <1>1, <1>2, <1>4 DEF StatesFit, MembersFit, NothingElse, PresentIsReal, FactsAreTheReadPrefix
<1>7. CheckpointFollowsWork'
  <2> SUFFICES ASSUME NEW s \in Sources, cp'[s].status = "ready"
               PROVE  FALSE
    BY DEF CheckpointFollowsWork
  <2>1. s \notin frozen /\ cp[s].status = "ready"
    BY <1>3, Resets
  <2>2. act.state[s] # NoState
    BY <1>1, <2>1 DEF CheckpointFollowsWork, Working
  <2> QED BY <2>1, <2>2 DEF NothingElse, ActiveContributors
<1> QED BY <1>5, <1>6, <1>7

LEMMA ReplaceMembersHolds ==
  ASSUME StoreInv, NEW parser \in 0..MaxParser, NEW invalidated, ReplaceMembers(parser, invalidated)
  PROVE  StoreInv'
<1> USE DEF StoreInv
<1> DEFINE all   == {s \in Sources : member[s].in} \union ActiveContributors \union Present
           again == {s \in all : app.target # parser \/ s \in invalidated \/ ~member[s].in}
           fresh(s) == Refreeze(member[s], act.state[s], RootOf(s), src[s], cp[s])
<1>1. /\ app.build /\ app' = [app EXCEPT !.target = parser] /\ bld' = Cleaned(bld, again)
      /\ src' = src /\ root' = root /\ act' = act /\ rev' = rev
      /\ member' = [s \in Sources |-> IF s \in again THEN fresh(s) ELSE member[s]]
      /\ cp' = [s \in Sources |-> IF s \in again THEN Reset(parser) ELSE cp[s]]
  BY DEF ReplaceMembers
<1>2. again \subseteq Sources
  BY DEF ActiveContributors, Present
<1>3. \A s \in Sources : /\ fresh(s) \in Member /\ fresh(s).in /\ fresh(s).phase = "none"
                         /\ MemberFits(fresh(s), src[s])
  <2> TAKE s \in Sources
  <2>1. /\ member[s] \in Member /\ act.state[s] \in State /\ RootOf(s) \in Threads
        /\ src[s] \in Row /\ cp[s] \in Checkpoint
        /\ member[s].in /\ member[s].proof # NoState => member[s].proof.gen = member[s].gen
    BY RootsAreThreads DEF StoreTypeOK, Epoch, MembersFit, MemberFits
  <2> QED BY <2>1, RefreezeFits
<1>4. \A s \in Sources : s \notin again => member[s].in \/ s \notin all
  OBVIOUS
<1>5. \A s \in Sources \ again : parser = app.target \/ ~member[s].in
  OBVIOUS
<1> HIDE DEF again, fresh
<1>6. bld \in Epoch
  BY DEF StoreTypeOK
<1>7. StoreTypeOK'
  <2>1. member' \in [Sources -> Member] /\ cp' \in [Sources -> Checkpoint]
    BY <1>1, <1>3, Resets DEF StoreTypeOK
  <2> QED BY <1>1, <1>6, <2>1, CleanedRows DEF StoreTypeOK
<1>8. /\ \A s \in Sources : Grows(src[s], src'[s]) /\ SameButRoot(act.state[s], act'.state[s])
      /\ act'.occ = act.occ
  BY <1>1, StoreAssumption DEF Grows, SameButRoot, PresentIsReal, StoreTypeOK, Row
<1>9. \A s \in again : bld'.state[s] = NoState /\ bld'.occ[s] = {} /\ cp'[s].status # "ready"
  BY <1>1, <1>2, <1>6, CleanedRows, Resets
<1>10. \A s \in Sources \ again :
        /\ bld'.state[s] = bld.state[s] /\ bld'.occ[s] = bld.occ[s]
        /\ member'[s].phase = member[s].phase
        /\ cp'[s].status = "ready" => cp'[s] = cp[s] /\ (app'.target = app.target \/ ~member[s].in)
  BY <1>1, <1>5, <1>6, CleanedRows DEF StoreTypeOK
<1>11. \A s \in Sources :
         /\ MemberFits(member'[s], src'[s])
         /\ ~member'[s].in => ~member[s].in
         /\ ~app.build => ~member'[s].in
  BY <1>1, <1>3 DEF MembersFit
<1>12. app'.build = app.build /\ app'.active = app.active /\ app'.parser = app.parser
  BY <1>1 DEF StoreTypeOK
<1> QED BY <1>2, <1>7, <1>8, <1>9, <1>10, <1>11, <1>12, RestartHolds

LEMMA ReplaceOrBeginHolds ==
  ASSUME StoreInv, NEW parser \in 0..MaxParser, NEW s, ReplaceOrBegin(parser, s)
  PROVE  StoreInv'
BY BeginBuildHolds, ReplaceMembersHolds DEF ReplaceOrBegin

LEMMA QuarantineTreeHolds ==
  ASSUME StoreInv, NEW t \in Threads, QuarantineTree(t)
  PROVE  StoreInv'
<1> USE DEF StoreInv
<1> DEFINE r    == root[t]
           tree == {s \in Sources : member[s].in /\ member[s].root = r}
           row(s) == [member[s] EXCEPT !.status = "quarantined", !.phase = "none", !.through = 0]
           proofs == {[root |-> r, source |-> s, gen |-> member[s].gen, raw |-> member[s].raw] : s \in tree}
           isolated == {q \in Cleaned(bld, tree).quarantine : q.root # r} \union proofs
<1>1. /\ app.build /\ app' = app /\ src' = src /\ root' = root /\ act' = act /\ rev' = rev
      /\ bld' = [Cleaned(bld, tree) EXCEPT !.quarantine = isolated]
      /\ member' = [s \in Sources |-> IF s \in tree THEN row(s) ELSE member[s]]
      /\ cp' = [s \in Sources |-> IF s \in tree THEN Reset(app.target) ELSE cp[s]]
  BY DEF QuarantineTree
<1>2. tree \subseteq Sources /\ r \in Threads /\ app.target \in 0..MaxParser /\ bld \in Epoch
  BY DEF StoreTypeOK
<1>3. \A s \in Sources : /\ row(s) \in Member /\ row(s).phase = "none" /\ (row(s).in <=> member[s].in)
                         /\ MemberFits(row(s), src[s])
  <2> TAKE s \in Sources
  <2>1. member[s] \in Member /\ MemberFits(member[s], src[s])
    BY SMTT(20) DEF StoreTypeOK, MembersFit
  <2>2. row(s) \in Member
    <3>1. row(s) = [member[s] EXCEPT !.phase = "none", !.status = "quarantined", !.through = 0]
      BY <2>1 DEF Member
    <3> HIDE DEF row
    <3> QED BY <2>1, <3>1, ProgressRow, Zeros, ZenonT(40) DEF Completion, Phases
  <2> QED BY <2>1, <2>2 DEF Member, MemberFits
<1>4. proofs \subseteq Proof
  <2> SUFFICES ASSUME NEW s \in tree
               PROVE  [root |-> r, source |-> s, gen |-> member[s].gen, raw |-> member[s].raw] \in Proof
    OBVIOUS
  <2>1. member[s] \in Member /\ s \in Sources
    BY <1>2 DEF StoreTypeOK
  <2> QED BY <1>2, <2>1 DEF Proof, Member
<1> HIDE DEF tree, row, proofs, r
<1>5. /\ bld' \in Epoch
      /\ bld'.state = Cleaned(bld, tree).state /\ bld'.occ = Cleaned(bld, tree).occ
  <2>1. Cleaned(bld, tree) \in Epoch
    BY <1>2, CleanedRows
  <2>2. isolated \subseteq Proof
    BY <1>4, <2>1 DEF Epoch
  <2> HIDE DEF isolated
  <2> QED BY <1>1, <2>1, <2>2 DEF Epoch
<1>6. StoreTypeOK'
  BY <1>1, <1>2, <1>3, <1>5, Resets DEF StoreTypeOK
<1>7. /\ \A s \in Sources : Grows(src[s], src'[s]) /\ SameButRoot(act.state[s], act'.state[s])
      /\ act'.occ = act.occ
  BY <1>1, StoreAssumption DEF Grows, SameButRoot, PresentIsReal, StoreTypeOK, Row
<1>8. \A s \in tree : bld'.state[s] = NoState /\ bld'.occ[s] = {} /\ cp'[s].status # "ready"
  BY <1>1, <1>2, <1>5, CleanedRows, Resets
<1>9. \A s \in Sources \ tree :
        /\ bld'.state[s] = bld.state[s] /\ bld'.occ[s] = bld.occ[s]
        /\ member'[s].phase = member[s].phase
        /\ cp'[s].status = "ready" => cp'[s] = cp[s] /\ (app'.target = app.target \/ ~member[s].in)
  BY <1>1, <1>2, <1>5, CleanedRows
<1>10. \A s \in Sources :
         /\ MemberFits(member'[s], src'[s])
         /\ ~member'[s].in => ~member[s].in
         /\ ~app.build => ~member'[s].in
  BY <1>1, <1>3 DEF MembersFit
<1> QED BY <1>1, <1>2, <1>6, <1>7, <1>8, <1>9, <1>10, RestartHolds

\* A step of a carry changes the build's rows of one source; it is enough that they
\* stay what FactsAreTheReadPrefix and CheckpointFollowsWork ask of them.
LEMMA CarryStepHolds ==
  ASSUME StoreInv, StoreTypeOK', NEW s \in Sources, app.build,
         UNCHANGED <<src, root, app, act, rev>>,
         \A x \in Sources \ {s} : /\ bld'.state[x] = bld.state[x] /\ bld'.occ[x] = bld.occ[x]
                                  /\ member'[x] = member[x] /\ cp'[x] = cp[x],
         StateFits(bld'.state[s], src[s]), MemberFits(member'[s], src[s]), member'[s].in,
         IF bld'.state[s] # NoState THEN bld'.occ[s] = Facts(bld'.state[s].gen, bld'.state[s].off)
         ELSE IF member'[s].phase = "none" THEN bld'.occ[s] = {} ELSE bld'.occ[s] \subseteq act.occ[s],
         cp'[s].status = "ready" =>
           /\ bld'.state[s] # NoState /\ cp'[s].off = bld'.state[s].off
           /\ cp'[s].parser = app.target /\ bld'.state[s].parser = app.target
  PROVE  StoreInv'
<1> USE DEF StoreInv
<1>1. StatesFit' /\ MembersFit' /\ NothingElse' /\ PresentIsReal'
  BY DEF StatesFit, MembersFit, NothingElse, PresentIsReal
<1>2. FactsAreTheReadPrefix'
  BY DEF FactsAreTheReadPrefix
<1>3. CheckpointFollowsWork'
  BY DEF CheckpointFollowsWork, Working, WorkingParser
<1> QED BY <1>1, <1>2, <1>3

\* Planned as a carry, a source is a member that has copied nothing yet, and what it
\* has built is a part of its active rows.
LEMMA BeginCarryIsSafe ==
  ASSUME StoreInv, NEW s \in Sources, Plan(s) = "BeginCarry"
  PROVE  member[s].in /\ bld.occ[s] \subseteq act.occ[s]
<1> USE DEF StoreInv
<1>1. member[s].in /\ BuildPlan(s) = "BeginCarry"
  BY DEF Plan, ActivePlan
<1>2. member[s].phase = "none" /\ CarryEligible(s)
  BY <1>1 DEF BuildPlan
<1>3. CASE bld.state[s] = NoState
  BY <1>1, <1>2, <1>3 DEF FactsAreTheReadPrefix
<1>4. CASE bld.state[s] # NoState
  <2>1. /\ act.state[s] # NoState /\ act.state[s] = member[s].proof /\ act.state[s].off = member[s].aoff
        /\ bld.state[s].off <= member[s].aoff /\ bld.state[s].gen = member[s].gen
    BY <1>2, <1>4 DEF CarryEligible
  <2>2. act.state[s].gen = bld.state[s].gen
    BY <1>1, <2>1 DEF MembersFit, MemberFits
  <2>3. bld.state[s].off \in Nat /\ act.state[s].off \in Nat /\ bld.state[s].off <= act.state[s].off
    BY <2>1, StoreAssumption DEF StoreTypeOK, Epoch, State
  <2>4. /\ bld.occ[s] = Facts(bld.state[s].gen, bld.state[s].off)
        /\ act.occ[s] = Facts(act.state[s].gen, act.state[s].off)
    BY <1>4, <2>1 DEF FactsAreTheReadPrefix
  <2> QED BY <1>1, <2>2, <2>3, <2>4 DEF Facts, Fact, LineSize
<1> QED BY <1>3, <1>4

LEMMA BeginCarryHolds ==
  ASSUME StoreInv, NEW s \in Sources, BeginCarry(s)
  PROVE  StoreInv'
<1>1. member[s].in /\ bld.occ[s] \subseteq act.occ[s]
  BY BeginCarryIsSafe DEF BeginCarry
<1>2. /\ bld \in Epoch /\ member \in [Sources -> Member] /\ cp \in [Sources -> Checkpoint]
      /\ app.target \in 0..MaxParser /\ MemberFits(member[s], src[s])
  BY DEF StoreInv, StoreTypeOK, MembersFit
<1>3. bld' \in Epoch /\ bld'.state[s] = NoState /\ bld'.occ = bld.occ
  BY <1>2, Blanks, SMTT(20) DEF BeginCarry, Epoch
<1>4. /\ member' \in [Sources -> Member] /\ member'[s].phase = "occurrences"
      /\ member'[s].in /\ MemberFits(member'[s], src[s])
  <2> DEFINE row == [member[s] EXCEPT !.phase = "occurrences", !.status = "pending", !.through = 0]
  <2>1. row \in Member
    BY <1>2, ProgressRow, Zeros DEF Completion, Phases
  <2>2. row.phase = "occurrences" /\ row.in /\ MemberFits(row, src[s])
    BY <1>1, <1>2 DEF Member, MemberFits
  <2>3. member' = [member EXCEPT ![s] = row]
    BY <1>2 DEF BeginCarry
  <2> HIDE DEF row
  <2> QED BY <1>2, <2>1, <2>2, <2>3
<1>5. cp' \in [Sources -> Checkpoint] /\ cp'[s].status # "ready"
  BY <1>2, Resets DEF BeginCarry
<1>6. StoreTypeOK'
  BY <1>3, <1>4, <1>5 DEF BeginCarry, StoreInv, StoreTypeOK
<1>7. \A x \in Sources \ {s} : /\ bld'.state[x] = bld.state[x] /\ bld'.occ[x] = bld.occ[x]
                               /\ member'[x] = member[x] /\ cp'[x] = cp[x]
  BY <1>2 DEF BeginCarry, Epoch
<1> QED BY <1>1, <1>3, <1>4, <1>5, <1>6, <1>7, CarryStepHolds DEF BeginCarry, StateFits

\* Only a member resumes a carry.
LEMMA ResumeIsOfMember ==
  ASSUME StoreInv, NEW s \in Sources, ResumeCarry(s)
  PROVE  /\ app.build /\ member[s].in /\ CarryProofHolds(s)
         /\ cp[s].status # "ready" /\ bld.state[s] = NoState /\ act.state[s] # NoState
<1>1. app.build /\ Plan(s) = "ResumeCarry" /\ CarryProofHolds(s)
  BY DEF ResumeCarry
<1>2. member[s].in
  BY <1>1 DEF Plan, ActivePlan
<1>3. cp[s].status # "ready" /\ bld.state[s] = NoState /\ act.state[s] # NoState
  BY <1>1, Resets DEF CarryProofHolds, StoreInv, StoreTypeOK
<1> QED BY <1>1, <1>2, <1>3

LEMMA CarryOccurrencesHolds ==
  ASSUME StoreInv, NEW s \in Sources, ResumeCarry(s), CarryOccurrences(s)
  PROVE  StoreInv'
<1>1. /\ app.build /\ member[s].in /\ bld.state[s] = NoState /\ cp[s].status # "ready"
      /\ member[s].phase = "occurrences"
  BY ResumeIsOfMember DEF CarryOccurrences
<1>2. /\ act \in Epoch /\ bld \in Epoch /\ member \in [Sources -> Member] /\ MemberFits(member[s], src[s])
      /\ bld.occ[s] \subseteq act.occ[s]
  BY <1>1 DEF StoreInv, StoreTypeOK, MembersFit, FactsAreTheReadPrefix
<1>3. {EventOf(s, f) : f \in act.occ[s]} \subseteq Event
  <2> SUFFICES ASSUME NEW f \in act.occ[s]
               PROVE  EventOf(s, f) \in Event
    OBVIOUS
  <2>1. f \in Fact
    BY <1>2 DEF Epoch
  <2> QED BY <2>1, StoreAssumption DEF EventOf, Event, Fact
<1> DEFINE events == bld.events \union {EventOf(s, f) : f \in act.occ[s]}
           row    == [member[s] EXCEPT !.phase = "turns"]
<1>4. events \subseteq Event
  BY <1>2, <1>3 DEF Epoch
<1>5. /\ bld' = [bld EXCEPT !.occ[s] = bld.occ[s] \union act.occ[s], !.events = events]
      /\ member' = [member EXCEPT ![s] = row]
  BY <1>2 DEF CarryOccurrences, Epoch
<1>6. row \in Member /\ row.phase = "turns" /\ row.in /\ MemberFits(row, src[s])
  BY <1>1, <1>2 DEF Member, MemberFits
<1> HIDE DEF events, row
<1>7. /\ bld' \in Epoch /\ bld'.state = bld.state
      /\ bld'.occ[s] = bld.occ[s] \union act.occ[s]
      /\ \A x \in Sources \ {s} : bld'.occ[x] = bld.occ[x]
  BY <1>2, <1>4, <1>5 DEF Epoch
<1>8. member' \in [Sources -> Member] /\ member'[s] = row /\ \A x \in Sources \ {s} : member'[x] = member[x]
  BY <1>2, <1>5, <1>6
<1>9. StoreTypeOK'
  BY <1>7, <1>8 DEF CarryOccurrences, StoreInv, StoreTypeOK
<1> QED BY <1>1, <1>2, <1>6, <1>7, <1>8, <1>9, CarryStepHolds DEF CarryOccurrences, StateFits

\* The pages of turns and anomalies only move the cursor on.
LEMMA CursorHolds ==
  ASSUME StoreInv, NEW s \in Sources, ResumeCarry(s), NEW next \in {"anomalies", "finalize"},
         member' = [member EXCEPT ![s].phase = next], UNCHANGED <<src, root, app, cp, act, bld, rev>>,
         member[s].phase # "none"
  PROVE  StoreInv'
<1>1. /\ app.build /\ member[s].in /\ bld.state[s] = NoState /\ cp[s].status # "ready"
  BY ResumeIsOfMember
<1>2. /\ act \in Epoch /\ bld \in Epoch /\ member \in [Sources -> Member] /\ MemberFits(member[s], src[s])
      /\ bld.occ[s] \subseteq act.occ[s]
  BY <1>1 DEF StoreInv, StoreTypeOK, MembersFit, FactsAreTheReadPrefix
<1> DEFINE row == [member[s] EXCEPT !.phase = next]
<1>3. member' = [member EXCEPT ![s] = row]
  BY <1>2
<1>4. row \in Member /\ row.phase # "none" /\ row.in /\ MemberFits(row, src[s])
  BY <1>1, <1>2 DEF Member, MemberFits
<1> HIDE DEF row
<1>5. member' \in [Sources -> Member] /\ member'[s] = row /\ \A x \in Sources \ {s} : member'[x] = member[x]
  BY <1>2, <1>3, <1>4
<1>6. StoreTypeOK'
  BY <1>5 DEF StoreInv, StoreTypeOK
<1> QED BY <1>1, <1>2, <1>4, <1>5, <1>6, CarryStepHolds DEF StateFits

LEMMA CarryPageHolds ==
  ASSUME StoreInv, NEW s \in Sources, ResumeCarry(s), CarryPage(s)
  PROVE  StoreInv'
<1>1. CASE CarryOccurrences(s)
  BY <1>1, CarryOccurrencesHolds
<1>2. CASE CarryTurns(s)
  BY <1>2, CursorHolds DEF CarryTurns
<1>3. CASE CarryAnomalies(s)
  BY <1>3, CursorHolds DEF CarryAnomalies
<1> QED BY <1>1, <1>2, <1>3 DEF CarryPage

LEMMA FinalizeCarryHolds ==
  ASSUME StoreInv, NEW s \in Sources, ResumeCarry(s), FinalizeCarry(s)
  PROVE  StoreInv'
<1> DEFINE st     == act.state[s]
           proven == st.tail # "unverified" /\ st.raw = member[s].raw
           fresh  == IF src[s].present THEN src[s].raw = st.raw ELSE proven
           raw    == IF src[s].present \/ ~proven THEN src[s].raw ELSE st.raw
           tail   == IF fresh THEN st.tail ELSE "unverified"
           new    == [st EXCEPT !.parser = app.target, !.raw = raw, !.tail = tail]
           status == IF src[s].present THEN "pending" ELSE IF proven THEN "carried" ELSE "blocked"
           upto   == IF ~src[s].present /\ proven THEN member[s].aoff ELSE 0
           row    == [member[s] EXCEPT !.phase = "none", !.status = status, !.through = upto]
           ready  == [status |-> "ready", parser |-> app.target, off |-> member[s].aoff]
<1>1. /\ app.build /\ member[s].in /\ st # NoState /\ st \in State
      /\ src[s] \in Row /\ member[s] \in Member /\ bld \in Epoch
      /\ member \in [Sources -> Member] /\ cp \in [Sources -> Checkpoint]
      /\ app.target \in 0..MaxParser /\ MemberFits(member[s], src[s])
  BY ResumeIsOfMember DEF StoreInv, StoreTypeOK, Epoch, MembersFit
<1>2. /\ st.gen = member[s].gen /\ st.off = member[s].aoff /\ bld.occ[s] = act.occ[s]
      /\ member[s].gen = src[s].gen /\ member[s].raw = src[s].raw
  BY <1>1, ResumeIsOfMember DEF CarryProofHolds, FinalizeCarry, SetsAgree, MemberFits
<1>3. /\ 1 <= st.gen /\ st.raw <= src[s].raw /\ st.off <= st.raw
      /\ st.tail # "unverified" => st.off = LastComplete(st.raw)
  BY <1>1, <1>2 DEF StoreInv, StatesFit, StateFits
<1>4. /\ bld' = [bld EXCEPT !.state[s] = new] /\ member' = [member EXCEPT ![s] = row]
      /\ cp' = [cp EXCEPT ![s] = ready]
  BY <1>1 DEF FinalizeCarry, Member, Epoch
<1>5. /\ raw \in 0..MaxRaw /\ st.off <= raw /\ raw <= src[s].raw
      /\ tail \in Tails
      /\ tail # "unverified" => st.off = LastComplete(raw)
  BY <1>1, <1>2, <1>3, StoreAssumption DEF State, Row, Tails
<1>6. status \in Completion /\ upto \in 0..MaxRaw /\ ready \in Checkpoint
  BY <1>1, Zeros DEF Completion, Member, Checkpoint
<1> HIDE DEF raw, tail, status, upto
<1>7. /\ new \in State /\ new.gen = st.gen /\ new.off = st.off /\ new.raw = raw /\ new.tail = tail
      /\ new.parser = app.target
  <2> HIDE DEF st
  <2>1. new \in State
    BY <1>1, <1>5 DEF State
  <2> QED BY <1>1, <2>1 DEF State
<1>8. /\ row \in Member
      /\ row.phase = "none" /\ row.in /\ MemberFits(row, src[s])
  <2>1. row \in Member
    BY <1>1, <1>6, ProgressRow DEF Phases
  <2> QED BY <1>1, <2>1 DEF Member, MemberFits
<1> HIDE DEF new, row
<1>9. new # NoState
  BY <1>1, <1>3, <1>7, StoreAssumption DEF NoState, State
<1>10. StateFits(new, src[s])
  BY <1>1, <1>2, <1>3, <1>5, <1>7, StoreAssumption DEF StateFits, State, Row
<1>11. new.off = member[s].aoff /\ act.occ[s] = Facts(new.gen, new.off)
  BY <1>1, <1>2, <1>7 DEF StoreInv, FactsAreTheReadPrefix
<1>12. /\ bld' \in Epoch /\ bld'.state[s] = new /\ bld'.occ = bld.occ
       /\ \A x \in Sources \ {s} : bld'.state[x] = bld.state[x]
  BY <1>1, <1>4, <1>7 DEF Epoch
<1>13. /\ member' \in [Sources -> Member] /\ member'[s] = row
       /\ cp' \in [Sources -> Checkpoint] /\ cp'[s] = ready
       /\ \A x \in Sources \ {s} : member'[x] = member[x] /\ cp'[x] = cp[x]
  BY <1>1, <1>4, <1>6, <1>8
<1>14. StoreTypeOK'
  BY <1>12, <1>13 DEF FinalizeCarry, StoreInv, StoreTypeOK
<1>15. UNCHANGED <<src, root, app, act, rev>>
  BY DEF FinalizeCarry
<1> QED BY <1>1, <1>2, <1>7, <1>8, <1>9, <1>10, <1>11, <1>12, <1>13, <1>14, <1>15, CarryStepHolds

LEMMA CompleteOnlyHolds ==
  ASSUME StoreInv, NEW s \in Sources, CompleteOnly(s)
  PROVE  StoreInv'
<1> DEFINE row == [member[s] EXCEPT !.status = "rebuilt", !.through = member[s].required]
<1>1. member[s].in /\ BuildPlan(s) = "CompleteOnly"
  BY DEF CompleteOnly, Plan, ActivePlan
<1>2. /\ member \in [Sources -> Member] /\ MemberFits(member[s], src[s]) /\ StateFits(bld.state[s], src[s])
  BY DEF StoreInv, StoreTypeOK, MembersFit, StatesFit
<1>3. /\ app.build /\ UNCHANGED <<src, root, app, cp, act, bld, rev>>
      /\ member' = [member EXCEPT ![s] = row]
  BY <1>2 DEF CompleteOnly, Member
<1>4. row \in Member /\ row.phase = member[s].phase /\ row.in /\ MemberFits(row, src[s])
  <2>1. member[s] \in Member
    BY <1>2
  <2>2. row \in Member
    BY <2>1 DEF Member, Completion
  <2>3. /\ row.phase = member[s].phase /\ row.in = member[s].in /\ row.proof = member[s].proof
        /\ row.gen = member[s].gen /\ row.raw = member[s].raw
    BY <2>1 DEF Member
  <2> HIDE DEF row
  <2> QED BY <1>1, <1>2, <2>2, <2>3 DEF MemberFits
<1> HIDE DEF row
<1>5. member' \in [Sources -> Member] /\ member'[s] = row /\ \A x \in Sources \ {s} : member'[x] = member[x]
  <2>1. member \in [Sources -> Member] /\ row \in Member
    BY <1>2, <1>4
  <2>2. member' = [member EXCEPT ![s] = row]
    BY <1>3
  <2> QED BY <2>1, <2>2, MemberRows
<1>6. StoreTypeOK'
  BY <1>3, <1>5 DEF StoreInv, StoreTypeOK
<1>7. /\ IF bld.state[s] # NoState THEN bld.occ[s] = Facts(bld.state[s].gen, bld.state[s].off)
         ELSE IF member[s].phase = "none" THEN bld.occ[s] = {} ELSE bld.occ[s] \subseteq act.occ[s]
      /\ cp[s].status = "ready" =>
           /\ bld.state[s] # NoState /\ cp[s].off = bld.state[s].off
           /\ cp[s].parser = app.target /\ bld.state[s].parser = app.target
  BY <1>3 DEF StoreInv, FactsAreTheReadPrefix, CheckpointFollowsWork, Working, WorkingParser
<1> QED BY <1>2, <1>3, <1>4, <1>5, <1>6, <1>7, CarryStepHolds

\* What an activatable member has built, and for whom nothing has been built.
LEMMA ActivatableMembers ==
  ASSUME StoreInv, app.build, Activatable, NEW s \in Sources
  PROVE  /\ bld.occ[s] = IF bld.state[s] = NoState THEN {} ELSE Facts(bld.state[s].gen, bld.state[s].off)
         /\ member[s].in /\ member[s].status # "quarantined" =>
              /\ bld.state[s] # NoState
              /\ bld.state[s].gen = src[s].gen
              /\ bld.state[s].off = LastComplete(src[s].raw)
         /\ cp[s].status = "ready" => bld.state[s].parser = app.target
<1> USE DEF StoreInv
<1>1. CASE ~member[s].in
  BY <1>1 DEF MembersFit, MemberFits, FactsAreTheReadPrefix, CheckpointFollowsWork, Working, WorkingParser
<1>2. CASE member[s].in /\ member[s].status = "quarantined"
  <2>1. bld.occ[s] = {} /\ bld.state[s] = NoState
    BY <1>2 DEF Activatable, Provable
  <2> QED BY <1>2, <2>1 DEF CheckpointFollowsWork, Working, WorkingParser
<1>3. CASE member[s].in /\ member[s].status # "quarantined"
  <2>1. /\ cp[s].status = "ready"
        /\ bld.state[s].gen = member[s].gen /\ bld.state[s].raw = member[s].raw
        /\ bld.state[s].tail = member[s].tail /\ member[s].tail # "unverified"
    <3>1. Provable(s)
      BY <1>3 DEF Activatable
    <3> QED BY <1>3, <3>1 DEF Provable
  <2>2. bld.state[s] # NoState /\ bld.state[s].parser = app.target
    BY <2>1 DEF CheckpointFollowsWork, Working, WorkingParser
  <2>3. bld.state[s].off = LastComplete(bld.state[s].raw)
    BY <2>1, <2>2 DEF StatesFit, StateFits
  <2>4. member[s].gen = src[s].gen /\ member[s].raw = src[s].raw
    BY <1>3 DEF MembersFit, MemberFits
  <2> QED BY <2>1, <2>2, <2>3, <2>4 DEF FactsAreTheReadPrefix
<1> QED BY <1>1, <1>2, <1>3

LEMMA ActivateHolds ==
  ASSUME StoreInv, Activate
  PROVE  StoreInv'
<1>1. /\ app.build /\ Activatable /\ src' = src /\ root' = root /\ cp' = cp
      /\ act' = bld /\ bld' = EmptyEpoch /\ member' = [s \in Sources |-> NoMember]
      /\ app'.active /\ ~app'.build /\ app'.parser = app.target
  BY DEF Activate, Bump
<1>2. \A s \in Sources : bld'.state[s] = NoState /\ bld'.occ[s] = {} /\ member'[s] = NoMember
  BY <1>1 DEF EmptyEpoch
<1>3. NoMember.phase = "none" /\ ~NoMember.in
  BY DEF NoMember
<1>4. StoreTypeOK'
  <2>1. member' \in [Sources -> Member] /\ bld' \in Epoch
    BY <1>1, Blanks
  <2>2. app' \in [active : BOOLEAN, parser : 0..MaxParser, build : BOOLEAN, target : 0..MaxParser]
    BY StoreAssumption DEF Activate, StoreInv, StoreTypeOK
  <2>3. rev' \in {0, 1}
    BY DEF Activate, Bump, StoreInv, StoreTypeOK
  <2> QED BY <1>1, <2>1, <2>2, <2>3 DEF StoreInv, StoreTypeOK
<1>5. StatesFit' /\ MembersFit' /\ NothingElse' /\ PresentIsReal'
  BY <1>1, <1>2, <1>3
  DEF StoreInv, StatesFit, StateFits, MembersFit, MemberFits, NothingElse, PresentIsReal
<1>6. FactsAreTheReadPrefix'
  BY <1>1, <1>2, <1>3, ActivatableMembers DEF FactsAreTheReadPrefix
<1>7. CheckpointFollowsWork'
  BY <1>1 DEF StoreInv, CheckpointFollowsWork, Working, WorkingParser
<1> QED BY <1>4, <1>5, <1>6, <1>7 DEF StoreInv

------------------------------------------------------------------------------
(* A committed batch. *)

\* Reading stops at the end of a complete line, and knows the tail only at the last.
ReadBatch(s, b) ==
  /\ b \in [end : 0..MaxRaw, tail : Tails]
  /\ b.tail # "unverified" => b.end = LastComplete(src[s].raw)

\* The epoch that a batch is written to holds, for each of its sources, the lines up
\* to the end of the batch.
LEMMA CommittedRows ==
  ASSUME StoreInv, NEW b, DOMAIN b \subseteq Sources, CommitAccepted(b),
         \A s \in DOMAIN b : ReadBatch(s, b[s])
  PROVE  /\ Committed(Working, b) \in Epoch
         /\ \A s \in Sources \ DOMAIN b : /\ Committed(Working, b).state[s] = Working.state[s]
                                          /\ Committed(Working, b).occ[s] = Working.occ[s]
         /\ \A s \in DOMAIN b : /\ Committed(Working, b).state[s] = StateAfter(s, b[s])
                                /\ StateAfter(s, b[s]) # NoState
                                /\ StateFits(StateAfter(s, b[s]), src[s])
                                /\ Committed(Working, b).occ[s] = Facts(src[s].gen, b[s].end)
<1> USE DEF StoreInv
<1> DEFINE e == Working
           retired == [s \in Sources |-> IF s \in DOMAIN b /\ Plan(s) = "LocalReplay" THEN {} ELSE e.occ[s]]
           occ     == [s \in Sources |-> IF s \in DOMAIN b THEN retired[s] \union Facts(src[s].gen, b[s].end) ELSE retired[s]]
           states  == [s \in Sources |-> IF s \in DOMAIN b THEN StateAfter(s, b[s]) ELSE e.state[s]]
           events  == (e.events \union Counted(occ)) \intersect Counted(occ)
<1>1. e \in Epoch /\ WorkingParser \in 0..MaxParser
  BY DEF Working, WorkingParser, StoreTypeOK
<1>2. ASSUME NEW s \in DOMAIN b
      PROVE  /\ s \in Sources /\ src[s] \in Row /\ src[s].present /\ src[s].gen >= 1
             /\ ReadBatch(s, b[s]) /\ PayloadIsValid(s, b[s]) /\ RootOf(s) \in Threads
  BY RootsAreThreads DEF CommitAccepted, SourceUnchanged, StoreTypeOK, PresentIsReal
<1>3. ASSUME NEW s \in DOMAIN b
      PROVE  /\ StateAfter(s, b[s]) \in State /\ StateAfter(s, b[s]) # NoState
             /\ StateFits(StateAfter(s, b[s]), src[s])
  BY <1>1, <1>2, StoreAssumption
  DEF StateAfter, State, NoState, StateFits, ReadBatch, PayloadIsValid, Row
<1>4. ASSUME NEW s \in DOMAIN b
      PROVE  retired[s] \union Facts(src[s].gen, b[s].end) = Facts(src[s].gen, b[s].end)
  <2>1. CASE Plan(s) = "LocalReplay"
    BY <1>2, <2>1
  <2>2. CASE Plan(s) # "LocalReplay" /\ e.state[s] = NoState
    <3>1. app.build => member[s].phase = "none"
      BY DEF CommitAccepted, ProgressAccepted
    <3>2. e.occ[s] = {}
      BY <1>2, <2>2, <3>1 DEF Working, FactsAreTheReadPrefix
    <3> QED BY <1>2, <2>2, <3>2
  <2>3. CASE Plan(s) # "LocalReplay" /\ e.state[s] # NoState
    <3>1. e.state[s].gen = src[s].gen /\ e.state[s].off <= b[s].end
      BY <1>2, <2>3 DEF PayloadIsValid
    <3>2. e.occ[s] = Facts(src[s].gen, e.state[s].off)
      BY <1>2, <2>3, <3>1 DEF Working, FactsAreTheReadPrefix
    <3>3. e.state[s].off \in Nat /\ b[s].end \in Nat
      <4>1. e.state[s] \in State
        BY <1>1, <1>2 DEF Epoch
      <4>2. b[s].end \in 0..MaxRaw
        BY <1>2 DEF ReadBatch
      <4> HIDE DEF e
      <4> QED BY <4>1, <4>2, StoreAssumption DEF State
    <3>4. Facts(src[s].gen, e.state[s].off) \subseteq Facts(src[s].gen, b[s].end)
      BY <3>1, <3>3 DEF Facts, Fact, LineSize
    <3> QED BY <1>2, <2>3, <3>2, <3>4
  <2> QED BY <2>1, <2>2, <2>3
<1>5. occ \in [Sources -> SUBSET Fact] /\ states \in [Sources -> State]
  BY <1>1, <1>3 DEF Epoch, Facts
<1>6. events \subseteq Event
  BY <1>5, CountedTyped
<1>7. Committed(e, b) = NewEpoch(e, occ, events, states)
  BY <1>1 DEF Committed, Written, Retired, Epoch, NewEpoch
<1>8. Committed(e, b) \in Epoch /\ Committed(e, b).occ = occ /\ Committed(e, b).state = states
  <2> HIDE DEF e, occ, states, events
  <2> QED BY <1>1, <1>5, <1>6, <1>7, EpochUpdate
<1>9. ASSUME NEW s \in DOMAIN b
      PROVE  occ[s] = Facts(src[s].gen, b[s].end) /\ states[s] = StateAfter(s, b[s])
  BY <1>2, <1>4
<1>10. \A s \in Sources \ DOMAIN b : occ[s] = e.occ[s] /\ states[s] = e.state[s]
  OBVIOUS
<1> HIDE DEF occ, states, retired
<1> QED BY <1>2, <1>3, <1>8, <1>9, <1>10

LEMMA ProgressedFits ==
  ASSUME NEW s \in Sources, NEW b, ReadBatch(s, b), member[s] \in Member, member[s].in,
         MemberFits(member[s], src[s])
  PROVE  /\ Progressed(s, b) \in Member /\ Progressed(s, b).in
         /\ Progressed(s, b).phase = member[s].phase /\ MemberFits(Progressed(s, b), src[s])
<1> DEFINE status == IF b.tail # "unverified" THEN "rebuilt" ELSE "pending"
           upto   == IF b.tail # "unverified" THEN b.end ELSE 0
           needed == Larger(member[s].required, b.end)
           row    == [member[s] EXCEPT !.required = needed, !.tail = b.tail, !.status = status, !.through = upto]
<1>1. status \in Completion /\ upto \in 0..MaxRaw /\ needed \in 0..MaxRaw /\ b.tail \in Tails
  BY Zeros DEF Completion, ReadBatch, Larger, Member
<1>2. Progressed(s, b) = row
  BY DEF Progressed, Member
<1> HIDE DEF status, upto, needed
<1>3. row \in Member
  BY <1>1 DEF Member
<1> QED BY <1>2, <1>3 DEF Member, MemberFits

LEMMA CommitUsageHolds ==
  ASSUME StoreInv, app.build \/ app.active,
         NEW b, DOMAIN b \subseteq Sources, CommitUsage(b),
         \A s \in DOMAIN b : ReadBatch(s, b[s])
  PROVE  StoreInv'
<1> USE DEF StoreInv
<1> DEFINE new == Committed(Working, b)
<1>1. CommitAccepted(b) /\ UNCHANGED <<src, root, app>>
  BY DEF CommitUsage
<1>2. /\ new \in Epoch
      /\ \A s \in Sources \ DOMAIN b : new.state[s] = Working.state[s] /\ new.occ[s] = Working.occ[s]
      /\ \A s \in DOMAIN b : /\ new.state[s] = StateAfter(s, b[s]) /\ new.state[s] # NoState
                             /\ StateFits(new.state[s], src[s])
                             /\ new.occ[s] = Facts(src[s].gen, b[s].end)
  BY <1>1, CommittedRows
<1> HIDE DEF new
<1>3. ASSUME NEW s \in DOMAIN b
      PROVE  /\ cp'[s] = CheckpointAfter(b[s]) /\ cp'[s] \in Checkpoint
             /\ new.state[s].gen = src[s].gen /\ new.state[s].off = b[s].end
             /\ new.state[s].parser = WorkingParser
             /\ cp'[s].off = b[s].end /\ cp'[s].parser = WorkingParser
  <2>1. s \in Sources /\ WorkingParser \in 0..MaxParser /\ b[s].end \in 0..MaxRaw
    BY DEF ReadBatch, WorkingParser, StoreTypeOK
  <2>2. cp'[s] = CheckpointAfter(b[s])
    BY <2>1 DEF CommitUsage
  <2>3. /\ CheckpointAfter(b[s]) \in Checkpoint
        /\ CheckpointAfter(b[s]).off = b[s].end /\ CheckpointAfter(b[s]).parser = WorkingParser
    BY <2>1 DEF CheckpointAfter, Checkpoint
  <2>4. new.state[s] = StateAfter(s, b[s])
    BY <1>2
  <2> QED BY <2>2, <2>3, <2>4 DEF StateAfter
<1>4. \A s \in Sources \ DOMAIN b : cp'[s] = cp[s]
  BY DEF CommitUsage
<1>5. cp' \in [Sources -> Checkpoint]
  BY <1>3, <1>4 DEF CommitUsage, StoreTypeOK
<1>6. /\ \A s \in Sources : StateFits(new.state[s], src[s])
      /\ \A s \in Sources :
           IF new.state[s] # NoState THEN new.occ[s] = Facts(new.state[s].gen, new.state[s].off)
           ELSE new.state[s] = Working.state[s] /\ new.occ[s] = Working.occ[s]
  <2>1. \A s \in Sources :
          /\ StateFits(Working.state[s], src[s])
          /\ Working.state[s] # NoState => Working.occ[s] = Facts(Working.state[s].gen, Working.state[s].off)
    BY DEF Working, StatesFit, FactsAreTheReadPrefix
  <2> QED BY <1>2, <1>3, <2>1
<1>7. CheckpointFollowsWork' <=>
        \A s \in Sources : cp'[s].status = "ready" =>
          /\ Working'.state[s] # NoState /\ cp'[s].off = Working'.state[s].off
          /\ cp'[s].parser = WorkingParser /\ Working'.state[s].parser = WorkingParser
  BY <1>1 DEF CheckpointFollowsWork, WorkingParser
<1>8. \A s \in Sources : cp'[s].status = "ready" =>
          /\ new.state[s] # NoState /\ cp'[s].off = new.state[s].off
          /\ cp'[s].parser = WorkingParser /\ new.state[s].parser = WorkingParser
  BY <1>2, <1>3, <1>4 DEF CheckpointFollowsWork
<1>9. CASE app.build
  <2>1. bld' = new /\ act' = act /\ rev' = rev /\ Working = bld /\ Working' = new
    BY <1>1, <1>9 DEF CommitUsage, Working, new
  <2>2. ASSUME NEW s \in Sources
        PROVE  /\ member'[s] \in Member /\ MemberFits(member'[s], src[s])
               /\ (member'[s].in <=> member[s].in) /\ member'[s].phase = member[s].phase
    <3>1. CASE s \in DOMAIN b
      <4>1. member[s].in /\ member[s] \in Member /\ MemberFits(member[s], src[s])
        BY <1>1, <1>9, <3>1 DEF CommitAccepted, ProgressAccepted, StoreTypeOK, MembersFit
      <4>2. member'[s] = Progressed(s, b[s])
        BY <1>9, <3>1 DEF CommitUsage
      <4> QED BY <3>1, <4>1, <4>2, ProgressedFits
    <3>2. CASE s \notin DOMAIN b
      BY <1>9, <3>2 DEF CommitUsage, StoreTypeOK, MembersFit
    <3> QED BY <3>1, <3>2
  <2>3. \A s \in DOMAIN b : member[s].in
    BY <1>1, <1>9 DEF CommitAccepted, ProgressAccepted
  <2>4. member' \in [Sources -> Member]
    BY <1>9, <2>2 DEF CommitUsage
  <2>5. StoreTypeOK'
    BY <1>1, <1>2, <1>5, <2>1, <2>4 DEF StoreTypeOK
  <2>6. StatesFit' /\ MembersFit' /\ NothingElse' /\ PresentIsReal'
    BY <1>1, <1>2, <1>6, <1>9, <2>1, <2>2, <2>3
    DEF StatesFit, MembersFit, NothingElse, PresentIsReal
  <2>7. FactsAreTheReadPrefix'
    BY <1>6, <2>1, <2>2 DEF FactsAreTheReadPrefix
  <2> QED BY <1>7, <1>8, <2>1, <2>5, <2>6, <2>7
<1>10. CASE ~app.build
  <2>1. act' = new /\ bld' = bld /\ member' = member /\ Working = act /\ Working' = new
    BY <1>1, <1>10 DEF CommitUsage, Working, new
  <2>2. rev' \in {0, 1}
    BY <1>10 DEF CommitUsage, Announce, Bump, StoreTypeOK
  <2>3. StoreTypeOK'
    BY <1>1, <1>2, <1>5, <2>1, <2>2 DEF StoreTypeOK
  <2>4. StatesFit' /\ MembersFit' /\ NothingElse' /\ PresentIsReal'
    BY <1>1, <1>2, <1>6, <1>10, <2>1
    DEF StatesFit, MembersFit, NothingElse, PresentIsReal
  <2>5. FactsAreTheReadPrefix'
    BY <1>6, <1>10, <2>1 DEF FactsAreTheReadPrefix, NothingElse, MembersFit, MemberFits
  <2> QED BY <1>7, <1>8, <2>1, <2>3, <2>4, <2>5
<1> QED BY <1>9, <1>10

------------------------------------------------------------------------------
(* Observation and metadata. *)

LEMMA BindSourceHolds ==
  ASSUME StoreInv, NEW s \in Sources, BindSource(s)
  PROVE  StoreInv'
<1> USE DEF StoreInv
<1> DEFINE f     == [src[s] EXCEPT !.bound = TRUE]
           again == IF app.build THEN {s} ELSE {}
           fresh == Refreeze(member[s], act.state[s], RootOf(s), f, cp[s])
<1>1. /\ src[s] \in Row /\ member[s] \in Member /\ act.state[s] \in State /\ RootOf(s) \in Threads
      /\ cp[s] \in Checkpoint /\ bld \in Epoch /\ app.target \in 0..MaxParser
      /\ member[s].in /\ member[s].proof # NoState => member[s].proof.gen = member[s].gen
  BY RootsAreThreads DEF StoreTypeOK, Epoch, MembersFit, MemberFits
<1>2. f \in Row /\ f.gen = src[s].gen /\ f.raw = src[s].raw /\ f.present = src[s].present
  BY <1>1 DEF Row
<1>3. /\ src' = [src EXCEPT ![s] = f] /\ root' = root /\ app' = app /\ act' = act /\ rev' = rev
      /\ app.build => /\ bld' = Cleaned(bld, {s})
                      /\ member' = [member EXCEPT ![s] = fresh]
                      /\ cp' = [cp EXCEPT ![s] = Reset(app.target)]
      /\ ~app.build => bld' = bld /\ member' = member /\ cp' = cp
  BY DEF BindSource, StoreTypeOK
<1> HIDE DEF f
<1>4. fresh \in Member /\ fresh.in /\ fresh.phase = "none" /\ MemberFits(fresh, f)
  BY <1>1, <1>2, RefreezeFits
<1> HIDE DEF fresh
<1>5. src' \in [Sources -> Row] /\ src'[s] = f /\ \A x \in Sources \ {s} : src'[x] = src[x]
  BY <1>2, <1>3 DEF StoreTypeOK
<1>6. /\ bld' \in Epoch /\ member' \in [Sources -> Member] /\ cp' \in [Sources -> Checkpoint]
  BY <1>1, <1>3, <1>4, CleanedRows, Resets DEF StoreTypeOK
<1>7. StoreTypeOK'
  BY <1>3, <1>5, <1>6 DEF StoreTypeOK
<1>8. \A x \in Sources : Grows(src[x], src'[x]) /\ SameButRoot(act.state[x], act'.state[x])
  BY <1>2, <1>3, <1>5, StoreAssumption DEF Grows, SameButRoot, PresentIsReal, StoreTypeOK, Row
<1>9. again \subseteq Sources
  OBVIOUS
<1>10. \A x \in again : bld'.state[x] = NoState /\ bld'.occ[x] = {} /\ cp'[x].status # "ready"
  BY <1>1, <1>3, CleanedRows, Resets DEF StoreTypeOK
<1>11. \A x \in Sources \ again :
        /\ bld'.state[x] = bld.state[x] /\ bld'.occ[x] = bld.occ[x]
        /\ member'[x].phase = member[x].phase
        /\ cp'[x].status = "ready" => cp'[x] = cp[x] /\ (app'.target = app.target \/ ~member[x].in)
  BY <1>1, <1>3, CleanedRows DEF StoreTypeOK
<1>12. \A x \in Sources :
        /\ MemberFits(member'[x], src'[x])
        /\ ~member'[x].in => ~member[x].in
        /\ ~app.build => ~member'[x].in
  <2> TAKE x \in Sources
  <2>1. CASE x = s /\ app.build
    BY <1>3, <1>4, <1>5, <2>1 DEF StoreTypeOK
  <2>2. CASE x # s \/ ~app.build
    <3>1. member'[x] = member[x] /\ src'[x].gen = src[x].gen /\ src'[x].raw = src[x].raw
      BY <1>2, <1>3, <1>5, <2>2 DEF StoreTypeOK
    <3> QED BY <3>1 DEF MembersFit, MemberFits, NothingElse
  <2> QED BY <2>1, <2>2
<1>13. /\ app'.build = app.build /\ app'.active = app.active /\ app'.parser = app.parser
       /\ act'.occ = act.occ
  BY <1>3
<1> HIDE DEF again
<1> QED BY <1>7, <1>8, <1>9, <1>10, <1>11, <1>12, <1>13, RestartHolds

LEMMA RerootHolds ==
  ASSUME StoreInv, NEW t \in Threads, NEW r \in Threads, Reroot(t, r)
  PROVE  StoreInv'
<1> USE DEF StoreInv
<1> DEFINE states == [s \in Sources |->
                        IF ThreadOf[s] = t /\ act.state[s] # NoState
                        THEN [act.state[s] EXCEPT !.root = r] ELSE act.state[s]]
           again  == {s \in Sources : app.build /\ member[s].in /\ ThreadOf[s] = t
                                      /\ (member[s].bound \/ src[s].bound)}
           fresh(s) == Refreeze(member[s], states[s], r, src[s], cp[s])
<1>1. /\ src' = src /\ app' = app /\ root' = [root EXCEPT ![t] = r] /\ rev' = 1 - rev
      /\ act' = [act EXCEPT !.state = states] /\ bld' = Cleaned(bld, again)
      /\ member' = [s \in Sources |-> IF s \in again THEN fresh(s) ELSE member[s]]
      /\ cp' = [s \in Sources |-> IF s \in again THEN Reset(app.target) ELSE cp[s]]
  BY DEF Reroot, Bump
<1>2. \A s \in Sources : /\ act.state[s] \in State /\ member[s] \in Member /\ src[s] \in Row
                         /\ cp[s] \in Checkpoint
                         /\ member[s].in /\ member[s].proof # NoState => member[s].proof.gen = member[s].gen
  BY DEF StoreTypeOK, Epoch, MembersFit, MemberFits
<1>3. bld \in Epoch /\ act \in Epoch /\ app.target \in 0..MaxParser /\ again \subseteq Sources
  BY DEF StoreTypeOK
<1>4. \A s \in Sources : states[s] \in State /\ SameButRoot(act.state[s], states[s])
  BY <1>2 DEF SameButRoot, State
<1>5. states \in [Sources -> State]
  BY <1>4
<1> HIDE DEF states, again
<1>6. \A s \in Sources : /\ fresh(s) \in Member /\ fresh(s).in /\ fresh(s).phase = "none"
                         /\ MemberFits(fresh(s), src[s])
  BY <1>2, <1>4, RefreezeFits
<1> HIDE DEF fresh
<1>7. act' \in Epoch /\ act'.state = states /\ act'.occ = act.occ
  BY <1>1, <1>3, <1>5 DEF Epoch
<1>8. StoreTypeOK'
  <2>1. member' \in [Sources -> Member] /\ cp' \in [Sources -> Checkpoint]
    BY <1>1, <1>3, <1>6, Resets DEF StoreTypeOK
  <2>2. bld' \in Epoch /\ root' \in [Threads -> Threads] /\ rev' \in {0, 1}
    BY <1>1, <1>3, CleanedRows DEF StoreTypeOK
  <2> QED BY <1>1, <1>7, <2>1, <2>2 DEF StoreTypeOK
<1>9. \A s \in Sources : Grows(src[s], src'[s]) /\ SameButRoot(act.state[s], act'.state[s])
  BY <1>1, <1>4, <1>7, StoreAssumption DEF Grows, PresentIsReal, StoreTypeOK, Row
<1>10. \A s \in again : bld'.state[s] = NoState /\ bld'.occ[s] = {} /\ cp'[s].status # "ready"
  BY <1>1, <1>3, CleanedRows, Resets
<1>11. \A s \in Sources \ again :
        /\ bld'.state[s] = bld.state[s] /\ bld'.occ[s] = bld.occ[s]
        /\ member'[s].phase = member[s].phase
        /\ cp'[s].status = "ready" => cp'[s] = cp[s] /\ (app'.target = app.target \/ ~member[s].in)
  BY <1>1, <1>3, CleanedRows
<1>12. \A s \in Sources :
        /\ MemberFits(member'[s], src'[s])
        /\ ~member'[s].in => ~member[s].in
        /\ ~app.build => ~member'[s].in
  BY <1>1, <1>6 DEF MembersFit, NothingElse, again
<1> QED BY <1>1, <1>3, <1>7, <1>8, <1>9, <1>10, <1>11, <1>12, RestartHolds

\* A row that an observation sees, and an observation as a round makes it.
Observation(s, f) == f \in Row /\ f.present /\ Grows(src[s], f)

LEMMA ObservedMemberFits ==
  ASSUME StoreInv, NEW s \in Sources, NEW f, Observation(s, f), NEW c \in Checkpoint
  PROVE  /\ ObservedMember(s, f, c) \in Member /\ ObservedMember(s, f, c).in
         /\ MemberFits(ObservedMember(s, f, c), f)
         /\ ObservedMember(s, f, c).phase = IF Restarted(s, f) THEN "none" ELSE member[s].phase
<1> DEFINE m == member[s]
<1>1. /\ m \in Member /\ act.state[s] \in State /\ RootOf(s) \in Threads /\ f \in Row
      /\ m.in => /\ m.gen = src[s].gen /\ m.raw = src[s].raw
                 /\ m.proof # NoState => m.proof.gen = m.gen
  BY RootsAreThreads DEF Observation, StoreInv, StoreTypeOK, Epoch, MembersFit, MemberFits
<1>2. CASE ~m.in
  <2>1. ObservedMember(s, f, c) = Freeze(act.state[s], RootOf(s), f, c)
    BY <1>2 DEF ObservedMember
  <2> QED BY <1>1, <1>2, <2>1, FreezeFits DEF Restarted
<1>3. CASE m.in /\ (m.gen # f.gen \/ m.bound # f.bound \/ (f.bound /\ m.root # RootOf(s)))
  <2>1. ObservedMember(s, f, c) = Refreeze(m, act.state[s], RootOf(s), f, c)
    BY <1>3 DEF ObservedMember
  <2> QED BY <1>1, <1>3, <2>1, RefreezeFits DEF Restarted
<1>4. CASE m.in /\ ~(m.gen # f.gen \/ m.bound # f.bound \/ (f.bound /\ m.root # RootOf(s)))
  <2> DEFINE tail   == IF m.raw # f.raw THEN "unverified" ELSE m.tail
             viewed == [m EXCEPT !.raw = f.raw, !.tail = tail]
             again  == [viewed EXCEPT !.status = "pending", !.through = 0]
  <2>1. f.raw \in 0..MaxRaw /\ tail \in Tails /\ "pending" \in Completion /\ 0 \in 0..MaxRaw
    BY <1>1, Zeros DEF Row, Member, Tails, Completion
  <2>2. \/ ObservedMember(s, f, c) = viewed
        \/ ObservedMember(s, f, c) = again
        \/ ObservedMember(s, f, c) = m /\ m.raw = f.raw
    BY <1>1, <1>4 DEF ObservedMember, Member
  <2>0. ~Restarted(s, f)
    BY <1>4 DEF Restarted
  <2> HIDE DEF tail, m
  <2>3. viewed \in Member
    BY <1>1, <2>1 DEF Member
  <2>4. /\ viewed.in /\ viewed.phase = m.phase /\ MemberFits(viewed, f)
    BY <1>1, <1>4 DEF Member, MemberFits
  <2> HIDE DEF viewed
  <2>5. again \in Member
    BY <2>1, <2>3 DEF Member
  <2>6. again.in /\ again.phase = viewed.phase /\ MemberFits(again, f)
    BY <2>3, <2>4 DEF Member, MemberFits
  <2>7. m.raw = f.raw => MemberFits(m, f)
    BY <1>1, <1>4 DEF MemberFits
  <2> HIDE DEF again
  <2> QED BY <1>1, <1>4, <2>0, <2>2, <2>3, <2>4, <2>5, <2>6, <2>7 DEF m
<1> QED BY <1>2, <1>3, <1>4

LEMMA MissingMemberFits ==
  ASSUME NEW m \in Member, NEW f
  PROVE  /\ MissingMember(m) \in Member /\ (MissingMember(m).in <=> m.in)
         /\ MissingMember(m).phase = m.phase
         /\ MemberFits(m, f) => MemberFits(MissingMember(m), f)
<1>1. [m EXCEPT !.status = "blocked"] \in Member
  BY DEF Member, Completion
<1> QED BY <1>1 DEF MissingMember, Member, MemberFits

LEMMA ObserveSourcesHolds ==
  ASSUME StoreInv, NEW obs, DOMAIN obs \subseteq Sources, NEW whole \in BOOLEAN,
         \A s \in DOMAIN obs : Observation(s, obs[s]),
         ObserveSources(obs, whole)
  PROVE  StoreInv'
<1> USE DEF StoreInv
<1> DEFINE after == [s \in Sources |->
                       IF s \in DOMAIN obs THEN obs[s]
                       ELSE IF whole THEN [src[s] EXCEPT !.present = FALSE] ELSE src[s]]
           replaced == {s \in DOMAIN obs : src[s].known /\ obs[s].gen # src[s].gen}
           base == [s \in Sources |-> IF s \in replaced /\ cp[s].status # "none"
                                      THEN [cp[s] EXCEPT !.status = "rebuild_required", !.off = 0]
                                      ELSE cp[s]]
           again == IF app.build THEN {s \in DOMAIN obs : Restarted(s, obs[s])} ELSE {}
           cleaned == {s \in again : member[s].in}
           rows == IF ~app.build THEN member
                   ELSE [s \in Sources |->
                           IF s \in DOMAIN obs THEN ObservedMember(s, obs[s], base[s])
                           ELSE IF after[s].known /\ ~after[s].present /\ member[s].in
                                THEN MissingMember(member[s]) ELSE member[s]]
<1>1. /\ src' = after /\ bld' = Cleaned(bld, cleaned) /\ member' = rows
      /\ cp' = [s \in Sources |-> IF s \in again THEN Reset(app.target) ELSE base[s]]
      /\ root' = root /\ app' = app /\ act' = act /\ rev' = rev
  BY DEF ObserveSources
<1>2. ASSUME NEW s \in Sources
      PROVE  /\ src[s] \in Row /\ cp[s] \in Checkpoint /\ member[s] \in Member
             /\ MemberFits(member[s], src[s])
  BY DEF StoreTypeOK, MembersFit
<1>3. bld \in Epoch /\ app.target \in 0..MaxParser /\ again \subseteq Sources /\ cleaned \subseteq again
  BY DEF StoreTypeOK
<1>4. ASSUME NEW s \in Sources
      PROVE  after[s] \in Row /\ Grows(src[s], after[s])
  <2>1. CASE s \in DOMAIN obs
    BY <2>1 DEF Observation
  <2>2. CASE s \notin DOMAIN obs
    <3>1. after[s] = [src[s] EXCEPT !.present = FALSE] \/ after[s] = src[s]
      BY <2>2
    <3>2. [src[s] EXCEPT !.present = FALSE] \in Row
      BY <1>2 DEF Row
    <3> HIDE DEF after
    <3> QED BY <1>2, <3>1, <3>2, StoreAssumption DEF Row, Grows, PresentIsReal
  <2> QED BY <2>1, <2>2
<1>5. ASSUME NEW s \in Sources
      PROVE  base[s] \in Checkpoint /\ (base[s].status = "ready" => base[s] = cp[s])
  BY <1>2, Zeros DEF Checkpoint
<1>6. ASSUME NEW s \in Sources
      PROVE  /\ rows[s] \in Member /\ MemberFits(rows[s], after[s])
             /\ ~rows[s].in => ~member[s].in
             /\ ~app.build => ~rows[s].in
             /\ rows[s].phase = IF s \in again THEN "none" ELSE member[s].phase
  <2> HIDE DEF base
  <2>1. CASE ~app.build
    BY <1>2, <2>1 DEF NothingElse, MemberFits
  <2>2. CASE app.build /\ s \in DOMAIN obs
    <3>1. rows[s] = ObservedMember(s, obs[s], base[s]) /\ after[s] = obs[s]
      BY <2>2
    <3>2. s \in again <=> Restarted(s, obs[s])
      BY <2>2
    <3> HIDE DEF rows, after, again
    <3> QED BY <1>5, <2>2, <3>1, <3>2, ObservedMemberFits
  <2>3. CASE app.build /\ s \notin DOMAIN obs
    <3>1. after[s].gen = src[s].gen /\ after[s].raw = src[s].raw
      BY <1>2, <2>3 DEF Row
    <3>2. MemberFits(member[s], after[s])
      BY <1>2, <3>1 DEF MemberFits
    <3>3. rows[s] = MissingMember(member[s]) \/ rows[s] = member[s]
      BY <2>3
    <3>4. s \notin again
      BY <2>3
    <3> HIDE DEF rows, after, again
    <3>5. CASE rows[s] = member[s]
      BY <1>2, <2>3, <3>2, <3>4, <3>5
    <3>6. CASE rows[s] = MissingMember(member[s])
      <4>1. member[s] \in Member
        BY <1>2
      <4>2. /\ rows[s] \in Member /\ (rows[s].in <=> member[s].in)
            /\ rows[s].phase = member[s].phase /\ MemberFits(rows[s], after[s])
        BY <3>2, <3>6, <4>1, MissingMemberFits, ZenonT(40)
      <4> QED BY <2>3, <3>4, <4>2
    <3> QED BY <3>3, <3>5, <3>6
  <2> QED BY <2>1, <2>2, <2>3
<1>7. rows \in [Sources -> Member]
  BY <1>6 DEF StoreTypeOK
<1>8. after \in [Sources -> Row] /\ base \in [Sources -> Checkpoint]
  BY <1>4, <1>5
<1> HIDE DEF after, base, rows
<1>9. cleaned \subseteq Sources /\ \A s \in Sources \ cleaned : s \in again => ~member[s].in
  OBVIOUS
<1> HIDE DEF again, cleaned
<1>10. cp' \in [Sources -> Checkpoint]
  BY <1>1, <1>3, <1>8, Resets
<1>11. StoreTypeOK'
  BY <1>1, <1>3, <1>7, <1>8, <1>10, CleanedRows DEF StoreTypeOK
<1>12. \A s \in cleaned : bld'.state[s] = NoState /\ bld'.occ[s] = {} /\ cp'[s].status # "ready"
  BY <1>1, <1>3, <1>9, CleanedRows, Resets
<1>13. \A s \in Sources \ cleaned :
        /\ bld'.state[s] = bld.state[s] /\ bld'.occ[s] = bld.occ[s]
        /\ member'[s].phase = member[s].phase
        /\ cp'[s].status = "ready" => cp'[s] = cp[s] /\ (app'.target = app.target \/ ~member[s].in)
  <2> SUFFICES ASSUME NEW s \in Sources \ cleaned
               PROVE  /\ bld'.state[s] = bld.state[s] /\ bld'.occ[s] = bld.occ[s]
                      /\ member'[s].phase = member[s].phase
                      /\ cp'[s].status = "ready" => cp'[s] = cp[s]
    BY <1>1
  <2>1. bld'.state[s] = bld.state[s] /\ bld'.occ[s] = bld.occ[s]
    BY <1>1, <1>3, CleanedRows
  <2>2. cp'[s].status = "ready" => cp'[s] = cp[s]
    BY <1>1, <1>3, <1>5, Resets
  <2>3. CASE s \in again
    <3>1. member[s].phase = "none"
      BY <1>2, <1>9, <2>3 DEF MemberFits
    <3> QED BY <1>1, <1>6, <2>1, <2>2, <2>3, <3>1
  <2>4. CASE s \notin again
    BY <1>1, <1>6, <2>1, <2>2, <2>4
  <2> QED BY <2>3, <2>4
<1>14. \A s \in Sources : Grows(src[s], src'[s]) /\ SameButRoot(act.state[s], act'.state[s])
  BY <1>1, <1>4 DEF SameButRoot
<1>15. \A s \in Sources :
        /\ MemberFits(member'[s], src'[s])
        /\ ~member'[s].in => ~member[s].in
        /\ ~app.build => ~member'[s].in
  BY <1>1, <1>6
<1>16. /\ app'.build = app.build /\ app'.active = app.active /\ app'.parser = app.parser
       /\ act'.occ = act.occ
  BY <1>1
<1> QED BY <1>9, <1>11, <1>12, <1>13, <1>14, <1>15, <1>16, RestartHolds

------------------------------------------------------------------------------
(* The steps of a round. *)

\* The store as it was.
LEMMA QuietStore ==
  ASSUME StoreInv, UNCHANGED store
  PROVE  StoreInv'
BY DEF store, StoreInv, StoreTypeOK, StatesFit, StateFits, MembersFit, MemberFits, NothingElse,
       PresentIsReal, FactsAreTheReadPrefix, CheckpointFollowsWork, Working, WorkingParser

LEMMA InitHolds ==
  ASSUME Init
  PROVE  IInv
<1>1. /\ \A s \in Sources : /\ src[s] = NoRow /\ cp[s] = NoCp /\ member[s] = NoMember
                            /\ act.state[s] = NoState /\ act.occ[s] = {}
                            /\ bld.state[s] = NoState /\ bld.occ[s] = {}
      /\ app = [active |-> FALSE, parser |-> 0, build |-> FALSE, target |-> 0]
      /\ pc = "idle"
  BY DEF Init, InitStore, EmptyEpoch
<1>2. StoreTypeOK
  <2>1. /\ src \in [Sources -> Row] /\ cp \in [Sources -> Checkpoint] /\ member \in [Sources -> Member]
        /\ act \in Epoch /\ bld \in Epoch /\ root \in [Threads -> Threads] /\ rev \in {0, 1}
    BY Blanks DEF Init, InitStore
  <2>2. app \in [active : BOOLEAN, parser : 0..MaxParser, build : BOOLEAN, target : 0..MaxParser]
    BY <1>1, StoreAssumption
  <2> QED BY <2>1, <2>2 DEF StoreTypeOK
<1>3. NoRow.gen = 0 /\ ~NoRow.present /\ ~NoMember.in /\ NoMember.phase = "none" /\ NoCp.status # "ready"
  BY DEF NoRow, NoMember, NoCp
<1>4. StatesFit /\ MembersFit /\ NothingElse /\ PresentIsReal
  BY <1>1, <1>3 DEF StatesFit, StateFits, MembersFit, MemberFits, NothingElse, PresentIsReal
<1>5. FactsAreTheReadPrefix /\ CheckpointFollowsWork
  BY <1>1, <1>3 DEF FactsAreTheReadPrefix, CheckpointFollowsWork
<1>6. disk \in [Sources -> File]
  <2>1. 1 \in 1..MaxGen
    BY StoreAssumption
  <2> QED BY <2>1, RoundAssumption DEF Init, File
<1>7. TypeOK
  <2>1. version \in 1..MaxParser /\ changes \in 0..MaxChanges /\ faults \in 0..MaxFaults
    BY StoreAssumption, RoundAssumption DEF Init
  <2> QED BY <1>2, <1>6, <2>1 DEF Init, TypeOK
<1>8. FilesGrow
  BY <1>1, <1>3, RoundAssumption DEF FilesGrow, Init
<1>9. GroupHasEpoch
  BY <1>1 DEF GroupHasEpoch
<1> QED BY <1>2, <1>4, <1>5, <1>7, <1>8, <1>9 DEF IInv, StoreInv

\* Variables of the round.
RoundOK ==
  /\ version \in 1..MaxParser
  /\ pc \in {"idle", "metadata", "global", "group", "finish"}
  /\ seen \subseteq Sources /\ complete \in BOOLEAN
  /\ todo \subseteq Threads /\ listed \subseteq Sources /\ skip \subseteq Threads
  /\ changes \in 0..MaxChanges /\ faults \in 0..MaxFaults

LEMMA FaultCounts ==
  ASSUME RoundOK, Fault
  PROVE  faults' \in 0..MaxFaults
BY RoundAssumption DEF RoundOK, Fault

\* A step that leaves the files alone, keeps the store sound and observes nothing.
LEMMA WorkHolds ==
  ASSUME IInv, StoreInv', RoundOK', UNCHANGED disk,
         \A s \in Sources : src'[s].gen = src[s].gen /\ src'[s].raw = src[s].raw,
         pc' = "group" => app'.build \/ app'.active
  PROVE  IInv'
<1>1. TypeOK'
  BY DEF IInv, TypeOK, StoreInv, RoundOK
<1>2. FilesGrow' /\ GroupHasEpoch'
  BY DEF IInv, FilesGrow, GroupHasEpoch
<1> QED BY <1>1, <1>2 DEF IInv

\* Transactions other than an observation leave what was observed alone.
SameView == \A s \in Sources : src'[s].gen = src[s].gen /\ src'[s].raw = src[s].raw

LEMMA ViewsStay ==
  ASSUME StoreInv
  PROVE  /\ UNCHANGED src => SameView
         /\ \A s \in Sources : BindSource(s) => SameView
<1>1. src \in [Sources -> Row]
  BY DEF StoreInv, StoreTypeOK
<1> QED BY <1>1 DEF SameView, BindSource, Row

\* Another program changes one file, and never makes a generation shorter.
LEMMA OneFileChanges ==
  ASSUME disk \in [Sources -> File], NEW s \in Sources, NEW f \in File, disk' = [disk EXCEPT ![s] = f],
         disk[s].gen <= f.gen, disk[s].gen = f.gen => disk[s].raw <= f.raw,
         UNCHANGED src, src \in [Sources -> Row], FilesGrow
  PROVE  disk' \in [Sources -> File] /\ FilesGrow'
<1>1. disk' \in [Sources -> File] /\ disk'[s] = f
  OBVIOUS
<1>2. ASSUME NEW x \in Sources
      PROVE  /\ src[x].gen <= disk'[x].gen
             /\ src[x].gen = disk'[x].gen => src[x].raw <= disk'[x].raw
  <2>1. CASE x = s
    <3>1. src[s].gen <= disk[s].gen /\ (src[s].gen = disk[s].gen => src[s].raw <= disk[s].raw)
      BY DEF FilesGrow
    <3>2. /\ src[s].gen \in Nat /\ src[s].raw \in Nat /\ disk[s].gen \in Nat /\ disk[s].raw \in Nat
          /\ f.gen \in Nat /\ f.raw \in Nat
      <4>1. src[s] \in Row /\ disk[s] \in File
        OBVIOUS
      <4> QED BY <4>1, StoreAssumption DEF Row, File
    <3> QED BY <1>1, <2>1, <3>1, <3>2
  <2>2. CASE x # s
    BY <2>2 DEF FilesGrow
  <2> QED BY <2>1, <2>2
<1> QED BY <1>1, <1>2 DEF FilesGrow

LEMMA ChangeHolds ==
  ASSUME IInv, NEW s \in Sources, Change(s)
  PROVE  IInv'
<1>1. /\ StoreInv' /\ UNCHANGED <<store, version, round, faults>>
      /\ disk \in [Sources -> File] /\ src \in [Sources -> Row] /\ FilesGrow
      /\ changes' = changes + 1 /\ changes < MaxChanges /\ UNCHANGED src
  BY QuietStore DEF IInv, TypeOK, StoreTypeOK, Change, store
<1>2. disk' \in [Sources -> File] /\ FilesGrow'
  <2>1. /\ disk[s] \in File /\ disk[s].gen \in 1..MaxGen /\ disk[s].raw \in 0..MaxRaw
        /\ MaxGen \in Nat /\ MaxRaw \in Nat
    BY <1>1, StoreAssumption DEF File
  <2>2. ASSUME NEW n \in {1, 2}, disk[s].raw + n <= MaxRaw, disk' = [disk EXCEPT ![s].raw = @ + n]
        PROVE  disk' \in [Sources -> File] /\ FilesGrow'
    <3> DEFINE f == [disk[s] EXCEPT !.raw = disk[s].raw + n]
    <3>1. f \in File /\ disk[s].gen <= f.gen /\ (disk[s].gen = f.gen => disk[s].raw <= f.raw)
      BY <2>1, <2>2 DEF File
    <3>2. disk' = [disk EXCEPT ![s] = f]
      BY <2>2
    <3> HIDE DEF f
    <3> QED BY <1>1, <2>1, <3>1, <3>2, OneFileChanges
  <2>3. ASSUME NEW there \in BOOLEAN, disk' = [disk EXCEPT ![s].there = there]
        PROVE  disk' \in [Sources -> File] /\ FilesGrow'
    <3> DEFINE f == [disk[s] EXCEPT !.there = there]
    <3>1. f \in File /\ disk[s].gen <= f.gen /\ (disk[s].gen = f.gen => disk[s].raw <= f.raw)
      BY <2>1 DEF File
    <3>2. disk' = [disk EXCEPT ![s] = f]
      BY <2>3
    <3> HIDE DEF f
    <3> QED BY <1>1, <2>1, <3>1, <3>2, OneFileChanges
  <2>4. ASSUME disk[s].gen < MaxGen, NEW r \in RewriteRaws,
               disk' = [disk EXCEPT ![s] = [there |-> TRUE, gen |-> @.gen + 1, raw |-> r]]
        PROVE  disk' \in [Sources -> File] /\ FilesGrow'
    <3> DEFINE f == [there |-> TRUE, gen |-> disk[s].gen + 1, raw |-> r]
    <3>1. r \in 0..MaxRaw
      BY RoundAssumption, <2>1
    <3>2. f \in File /\ disk[s].gen <= f.gen /\ (disk[s].gen = f.gen => disk[s].raw <= f.raw)
      BY <2>1, <2>4, <3>1 DEF File
    <3>3. disk' = [disk EXCEPT ![s] = f]
      BY <2>4
    <3> HIDE DEF f
    <3> QED BY <1>1, <2>1, <3>2, <3>3, OneFileChanges
  <2> QED BY <2>2, <2>3, <2>4 DEF Change
<1>3. TypeOK'
  BY <1>1, <1>2, RoundAssumption DEF IInv, TypeOK, StoreInv, round
<1>4. GroupHasEpoch'
  BY <1>1 DEF IInv, GroupHasEpoch, store, round
<1> QED BY <1>1, <1>2, <1>3, <1>4 DEF IInv

------------------------------------------------------------------------------
(* The steps of a round. *)

\* What an observation sees continues what was seen before.
LEMMA SeenIsObservation ==
  ASSUME IInv, NEW s \in Sources
  PROVE  Observation(s, Seen(s)) /\ Seen(s).gen = disk[s].gen /\ Seen(s).raw = disk[s].raw
<1>1. /\ disk[s] \in File /\ src[s] \in Row
      /\ src[s].gen <= disk[s].gen /\ (src[s].gen = disk[s].gen => src[s].raw <= disk[s].raw)
  BY DEF IInv, TypeOK, StoreTypeOK, FilesGrow
<1>2. Seen(s) \in Row
  BY <1>1, StoreAssumption DEF Seen, Row, File
<1>3. Seen(s).gen = disk[s].gen /\ Seen(s).raw = disk[s].raw /\ Seen(s).present
  BY DEF Seen
<1>4. disk[s].gen >= 1
  BY <1>1, StoreAssumption DEF File
<1> QED BY <1>1, <1>2, <1>3, <1>4 DEF Observation, Grows

LEMMA ObserveStep ==
  ASSUME IInv, Observe
  PROVE  IInv'
<1>1. PICK some \in SUBSET {s \in Sources : disk[s].there} :
        /\ \/ complete' = TRUE /\ UNCHANGED faults
           \/ complete' = FALSE /\ Fault
        /\ ObserveSources([s \in some |-> Seen(s)], complete')
        /\ seen' = some
  BY DEF Observe
<1> DEFINE obs == [s \in some |-> Seen(s)]
<1>2. DOMAIN obs \subseteq Sources /\ complete' \in BOOLEAN /\ StoreInv
      /\ \A s \in DOMAIN obs : Observation(s, obs[s]) /\ obs[s].gen = disk[s].gen /\ obs[s].raw = disk[s].raw
  BY <1>1, SeenIsObservation DEF IInv
<1>3. ObserveSources(obs, complete') /\ DOMAIN obs = some
  BY <1>1
<1> HIDE DEF obs
<1>4. StoreInv'
  BY <1>2, <1>3, ObserveSourcesHolds
<1>5. \A s \in Sources : \/ src'[s].gen = disk[s].gen /\ src'[s].raw = disk[s].raw
                         \/ src'[s].gen = src[s].gen /\ src'[s].raw = src[s].raw
  <2>1. \A s \in Sources : src'[s] = IF s \in DOMAIN obs THEN obs[s]
                                     ELSE IF complete' THEN [src[s] EXCEPT !.present = FALSE] ELSE src[s]
    BY <1>3 DEF ObserveSources
  <2>2. \A s \in Sources : src[s] \in Row
    BY DEF IInv, TypeOK, StoreTypeOK
  <2>3. \A r \in Row : [r EXCEPT !.present = FALSE].gen = r.gen /\ [r EXCEPT !.present = FALSE].raw = r.raw
    BY DEF Row
  <2> QED BY <1>2, <2>1, <2>2, <2>3
<1>6. FilesGrow'
  <2>1. UNCHANGED disk /\ \A s \in Sources : disk[s] \in File
    BY DEF Observe, IInv, TypeOK
  <2>2. \A s \in Sources : disk[s].gen <= disk[s].gen /\ disk[s].raw <= disk[s].raw
    BY <2>1, StoreAssumption DEF File
  <2> QED BY <1>5, <2>1, <2>2 DEF IInv, FilesGrow
<1>7. TypeOK'
  <2>1. faults' \in 0..MaxFaults
    BY <1>1, RoundAssumption DEF IInv, TypeOK, Fault
  <2> QED BY <1>1, <1>2, <1>4, <2>1 DEF IInv, TypeOK, StoreInv, Observe
<1>8. GroupHasEpoch'
  BY DEF Observe, GroupHasEpoch
<1> QED BY <1>4, <1>6, <1>7, <1>8 DEF IInv

\* Steps that move the round and leave the store alone.
LEMMA RoundMoves ==
  ASSUME IInv, UNCHANGED <<store, disk>>, RoundOK', pc' = "group" => app.build \/ app.active
  PROVE  IInv'
<1>1. StoreInv' /\ UNCHANGED src /\ UNCHANGED app
  BY QuietStore DEF IInv, store
<1> QED BY <1>1, WorkHolds

LEMMA RoundTyped ==
  ASSUME IInv
  PROVE  RoundOK /\ StoreInv /\ (pc = "group" => app.build \/ app.active)
BY DEF IInv, TypeOK, RoundOK, GroupHasEpoch

LEMMA QuietSteps ==
  ASSUME IInv, StartUsage \/ LoadWorkList \/ AllThreadsDone \/ Interrupt \/ Upgrade
               \/ \E t \in Threads : Completed(t) \/ NothingToRead(t) \/ ThreadFails(t)
  PROVE  IInv'
<1>1. RoundOK /\ UNCHANGED <<store, disk>>
  BY RoundTyped DEF StartUsage, LoadWorkList, AllThreadsDone, Interrupt, Upgrade, Completed,
                    NothingToRead, ThreadFails
<1>2. CASE StartUsage
  <2>1. RoundOK' /\ pc' # "group"
    BY <1>1, <1>2 DEF StartUsage, RoundOK, Goto
  <2> QED BY <1>1, <2>1, RoundMoves
<1>3. CASE LoadWorkList
  <2>1. ThreadOf \in [Sources -> Threads]
    BY StoreAssumption
  <2>2. RoundOK'
    BY <1>1, <1>3, <2>1 DEF LoadWorkList, RoundOK, Goto
  <2>3. app.build \/ app.active
    BY <1>3 DEF LoadWorkList, NeedsBuild
  <2> QED BY <1>1, <2>2, <2>3, RoundMoves
<1>4. CASE AllThreadsDone
  <2>1. RoundOK' /\ pc' # "group"
    BY <1>1, <1>4 DEF AllThreadsDone, RoundOK, Goto, EndRound
  <2> QED BY <1>1, <2>1, RoundMoves
<1>5. CASE Interrupt
  <2>1. RoundOK' /\ pc' # "group"
    BY <1>1, <1>5, FaultCounts DEF Interrupt, RoundOK, EndRound
  <2> QED BY <1>1, <2>1, RoundMoves
<1>6. CASE Upgrade
  <2>1. version' \in 1..MaxParser
    BY <1>1, <1>6, StoreAssumption DEF Upgrade, RoundOK
  <2>2. RoundOK' /\ pc' # "group"
    BY <1>1, <1>6, <2>1 DEF Upgrade, RoundOK, round
  <2> QED BY <1>1, <2>2, RoundMoves
<1>7. ASSUME NEW t \in Threads, Completed(t) \/ NothingToRead(t) \/ ThreadFails(t)
      PROVE  IInv'
  <2>1. pc = "group" /\ ThreadDone(t) /\ UNCHANGED <<version, changes>>
    BY <1>7 DEF Completed, NothingToRead, ThreadFails, Working1, CanRead
  <2>2. faults' \in 0..MaxFaults
    BY <1>1, <1>7, FaultCounts DEF Completed, NothingToRead, ThreadFails, RoundOK
  <2>3. RoundOK'
    BY <1>1, <2>1, <2>2 DEF ThreadDone, RoundOK
  <2> QED BY <1>1, <2>1, <2>3, RoundMoves, RoundTyped
<1> QED BY <1>2, <1>3, <1>4, <1>5, <1>6, <1>7

LEMMA MetadataSteps ==
  ASSUME IInv, \/ \E s \in Sources : Bind(s)
               \/ \E t, r \in Threads : FindParent(t, r)
  PROVE  IInv'
<1>1. /\ pc = "metadata" /\ UNCHANGED <<disk, version, round, changes, faults>>
      /\ \/ \E s \in Sources : BindSource(s)
         \/ \E t, r \in Threads : Reroot(t, r)
  BY DEF Bind, FindParent
<1>2. RoundOK' /\ pc' # "group"
  BY <1>1, RoundTyped DEF RoundOK, round
<1>3. StoreInv
  BY RoundTyped
<1>4. ASSUME NEW s \in Sources, BindSource(s)
      PROVE  StoreInv' /\ SameView
  BY <1>3, <1>4, ViewsStay, BindSourceHolds
<1>5. ASSUME NEW t \in Threads, NEW r \in Threads, Reroot(t, r)
      PROVE  StoreInv' /\ SameView
  <2>1. UNCHANGED src
    BY <1>5 DEF Reroot
  <2> QED BY <1>3, <1>5, <2>1, ViewsStay, RerootHolds
<1>6. StoreInv' /\ SameView
  BY <1>1, <1>4, <1>5
<1> QED BY <1>1, <1>2, <1>6, WorkHolds DEF SameView

LEMMA RoundEnds ==
  ASSUME RoundOK, UNCHANGED <<version, changes, faults>>
  PROVE  /\ EndRound => RoundOK' /\ pc' # "group"
         /\ \A S \in SUBSET Threads : Replan(S) => RoundOK' /\ pc' # "group"
         /\ \A t : ThreadDone(t) => RoundOK' /\ pc' = pc
         /\ UNCHANGED round => RoundOK' /\ pc' = pc
BY DEF RoundOK, EndRound, Replan, Goto, ThreadDone, round

\* The two transactions that start members of a build again.
LEMMA BuildSteps ==
  ASSUME IInv
  PROVE  /\ BeginBuild(version) => StoreInv' /\ UNCHANGED src
         /\ \A S : ReplaceMembers(version, S) => StoreInv' /\ UNCHANGED src
         /\ \A s : ReplaceOrBegin(version, s) => StoreInv' /\ UNCHANGED src
         /\ \A t \in Threads : QuarantineTree(t) => StoreInv' /\ UNCHANGED src
<1>1. version \in 0..MaxParser /\ StoreInv
  BY StoreAssumption DEF IInv, TypeOK
<1>2. BeginBuild(version) => StoreInv' /\ UNCHANGED src
  BY <1>1, BeginBuildHolds DEF BeginBuild
<1>3. ASSUME NEW S, ReplaceMembers(version, S)
      PROVE  StoreInv' /\ UNCHANGED src
  <2>1. StoreInv'
    BY <1>1, <1>3, ReplaceMembersHolds
  <2> QED BY <1>3, <2>1 DEF ReplaceMembers
<1>4. \A s : ReplaceOrBegin(version, s) => StoreInv' /\ UNCHANGED src
  BY <1>2, <1>3 DEF ReplaceOrBegin
<1>5. \A t \in Threads : QuarantineTree(t) => StoreInv' /\ UNCHANGED src
  BY <1>1, QuarantineTreeHolds DEF QuarantineTree
<1> QED BY <1>2, <1>3, <1>4, <1>5

\* A step of a thread that keeps the epochs that there are.
LEMMA ThreadStep ==
  ASSUME IInv, StoreInv', RoundOK', UNCHANGED <<disk, src>>,
         pc' # "group" \/ (pc = "group" /\ app'.build = app.build /\ app'.active = app.active)
  PROVE  IInv'
BY WorkHolds, RoundTyped

LEMMA GlobalStep ==
  ASSUME IInv, GlobalTransition
  PROVE  IInv'
<1>1. RoundOK /\ UNCHANGED <<disk, version, changes, faults>>
  BY RoundTyped DEF GlobalTransition
<1>2. CASE complete
  <2>1. StoreInv' /\ UNCHANGED src
    BY <1>2, BuildSteps DEF GlobalTransition
  <2>2. RoundOK' /\ pc' # "group"
    BY <1>1, <1>2, RoundEnds DEF GlobalTransition
  <2> QED BY <1>1, <2>1, <2>2, ThreadStep
<1>3. CASE ~complete
  <2>1. UNCHANGED <<store, disk>> /\ RoundOK' /\ pc' # "group"
    BY <1>1, <1>3, RoundEnds DEF GlobalTransition
  <2> QED BY <2>1, RoundMoves
<1> QED BY <1>2, <1>3

LEMMA BlockedStep ==
  ASSUME IInv, NEW t \in Threads, Blocked(t)
  PROVE  IInv'
<1>1. RoundOK /\ UNCHANGED <<disk, version, changes, faults>>
  BY RoundTyped DEF Blocked
<1>2. CASE app.build
  <2>1. StoreInv' /\ UNCHANGED src
    BY <1>2, BuildSteps DEF Blocked
  <2>2. RoundOK' /\ pc' # "group"
    BY <1>1, <1>2, RoundEnds DEF Blocked
  <2> QED BY <1>1, <2>1, <2>2, ThreadStep
<1>3. CASE ~app.build
  <2>1. UNCHANGED <<store, disk>> /\ RoundOK' /\ pc' # "group"
    BY <1>1, <1>3, RoundEnds DEF Blocked
  <2> QED BY <2>1, RoundMoves
<1> QED BY <1>2, <1>3

LEMMA ControlStep ==
  ASSUME IInv, NEW t \in Threads, NEW s \in Sources, Control(t, s)
  PROVE  IInv'
<1>1. /\ RoundOK /\ StoreInv /\ UNCHANGED <<disk, version, changes, faults>> /\ pc = "group"
      /\ skip \in SUBSET Threads
  BY RoundTyped DEF Control, Working1, RoundOK
<1>2. CASE ThreadDone(t) /\ UNCHANGED store
  <2>1. RoundOK' /\ UNCHANGED <<store, disk>> /\ (pc' = "group" => app.build \/ app.active)
    BY <1>1, <1>2, RoundEnds, RoundTyped
  <2> QED BY <2>1, RoundMoves
<1>3. CASE UNCHANGED round /\ (BeginCarry(s) \/ ResumeCarry(s) \/ CompleteOnly(s))
  <2>1. UNCHANGED <<src, app>>
    BY <1>3 DEF BeginCarry, ResumeCarry, CarryPage, CarryOccurrences, CarryTurns, CarryAnomalies,
         FinalizeCarry, CompleteOnly
  <2>2. StoreInv'
    BY <1>1, <1>3, BeginCarryHolds, CarryPageHolds, FinalizeCarryHolds, CompleteOnlyHolds DEF ResumeCarry
  <2>3. RoundOK' /\ pc' = pc
    BY <1>1, <1>3, RoundEnds
  <2> QED BY <1>1, <2>1, <2>2, <2>3, ThreadStep
<1>4. CASE Replan(skip) /\ (ReplaceMembers(version, {s}) \/ ReplaceOrBegin(version, s))
  <2>1. StoreInv' /\ UNCHANGED src
    BY <1>4, BuildSteps
  <2>2. RoundOK' /\ pc' # "group"
    BY <1>1, <1>4, RoundEnds
  <2> QED BY <1>1, <2>1, <2>2, ThreadStep
<1> QED BY <1>2, <1>3, <1>4 DEF Control

LEMMA ReadFailsStep ==
  ASSUME IInv, NEW t \in Threads, NEW s \in Sources, ReadFails(t, s)
  PROVE  IInv'
<1>1. /\ RoundOK /\ StoreInv /\ UNCHANGED <<disk, version, changes, faults>> /\ pc = "group"
      /\ skip \in SUBSET Threads /\ skip \union {t} \in SUBSET Threads /\ {} \in SUBSET Threads
  BY RoundTyped DEF ReadFails, FirstUnsound, CanRead, Working1, RoundOK
<1>2. CASE ThreadDone(t) /\ UNCHANGED store
  <2>1. RoundOK' /\ UNCHANGED <<store, disk>> /\ (pc' = "group" => app.build \/ app.active)
    BY <1>1, <1>2, RoundEnds, RoundTyped
  <2> QED BY <2>1, RoundMoves
<1>3. ASSUME NEW S \in SUBSET Threads, Replan(S), ReplaceOrBegin(version, s) \/ QuarantineTree(t)
      PROVE  IInv'
  <2>1. StoreInv' /\ UNCHANGED src
    BY <1>3, BuildSteps
  <2>2. RoundOK' /\ pc' # "group"
    BY <1>1, <1>3, RoundEnds
  <2> QED BY <1>1, <2>1, <2>2, ThreadStep
<1> QED BY <1>1, <1>2, <1>3 DEF ReadFails

\* What is read ends where a line of the fixed view ends.
LEMMA BatchesAreRead ==
  ASSUME StoreInv, NEW s \in Sources, NEW b \in Batches(s), b.end <= src[s].raw
  PROVE  ReadBatch(s, b)
<1>1. src[s].raw \in 0..MaxRaw /\ MaxRaw \in Nat /\ cp[s].off \in 0..MaxRaw
  BY StoreAssumption DEF StoreInv, StoreTypeOK, Row, Checkpoint
<1>2. LastComplete(src[s].raw) \in 0..src[s].raw
  BY <1>1 DEF LastComplete, LineSize
<1>3. b \in BoundaryBatches(s) => LineSize \in 0..MaxRaw
  BY <1>1 DEF BoundaryBatches, LineSize
<1>4. b \in [end : 0..MaxRaw, tail : Tails]
  <2>1. EndOfView(s) \in [end : 0..MaxRaw, tail : Tails]
    BY <1>1, <1>2 DEF EndOfView, Tails
  <2>2. \A e \in 0..MaxRaw : [end |-> e, tail |-> "unverified"] \in [end : 0..MaxRaw, tail : Tails]
    BY DEF Tails
  <2>3. \A e \in (cp[s].off + 1)..LastComplete(src[s].raw) : e \in 0..MaxRaw
    BY <1>1, <1>2
  <2> QED BY <1>3, <2>1, <2>2, <2>3 DEF Batches, ReplayBatches, BoundaryBatches, ChunkBatches
<1>5. b.tail # "unverified" => b = EndOfView(s)
  BY DEF Batches, ReplayBatches, BoundaryBatches, ChunkBatches
<1> QED BY <1>4, <1>5 DEF ReadBatch, EndOfView

LEMMA ReadGroupStep ==
  ASSUME IInv, NEW t \in Threads, ReadGroup(t)
  PROVE  IInv'
<1>1. /\ RoundOK /\ StoreInv /\ UNCHANGED <<disk, version, round, changes, faults>> /\ pc = "group"
      /\ app.build \/ app.active
  BY RoundTyped DEF ReadGroup, CanRead, Working1
<1>2. PICK b : /\ DOMAIN b \subseteq Readable(t) /\ \A s \in DOMAIN b : b[s] \in Batches(s)
               /\ CommitUsage(b)
  <2>1. PICK S \in SUBSET Readable(t) :
          \E b \in [S -> UNION {Batches(s) : s \in S}] :
            /\ \A s \in S : b[s] \in Batches(s)
            /\ CommitUsage(b)
    BY DEF ReadGroup
  <2> QED BY <2>1
<1>3. DOMAIN b \subseteq Sources
  BY <1>1, <1>2 DEF Readable, Group, RoundOK
<1>4. \A s \in DOMAIN b : b[s].end <= src[s].raw
  BY <1>2 DEF CommitUsage, CommitAccepted, PayloadIsValid
<1>5. \A s \in DOMAIN b : ReadBatch(s, b[s])
  BY <1>1, <1>2, <1>3, <1>4, BatchesAreRead
<1>6. StoreInv'
  BY <1>1, <1>2, <1>3, <1>5, CommitUsageHolds
<1>7. UNCHANGED <<src, app>>
  BY <1>2 DEF CommitUsage
<1>8. RoundOK' /\ pc' = pc
  BY <1>1, RoundEnds
<1> QED BY <1>1, <1>6, <1>7, <1>8, ThreadStep

LEMMA FinishStep ==
  ASSUME IInv, Finish
  PROVE  IInv'
<1>1. RoundOK /\ StoreInv /\ UNCHANGED <<disk, version, changes, faults>> /\ EndRound
  BY RoundTyped DEF Finish
<1>2. RoundOK' /\ pc' # "group"
  BY <1>1, RoundEnds
<1>3. CASE Activate
  BY <1>1, <1>2, <1>3, ActivateHolds, ThreadStep DEF Activate
<1>4. CASE UNCHANGED store
  BY <1>1, <1>2, <1>4, RoundMoves
<1> QED BY <1>3, <1>4 DEF Finish

LEMMA NextHolds ==
  ASSUME IInv, [Next]_vars
  PROVE  IInv'
<1>1. CASE Step
  BY <1>1, ObserveStep, QuietSteps, GlobalStep, FinishStep, MetadataSteps, BlockedStep, ReadGroupStep,
     ControlStep, ReadFailsStep DEF Step
<1>2. CASE \E s \in Sources : Change(s)
  BY <1>2, ChangeHolds
<1>3. CASE Upgrade \/ (\E t \in Threads : ThreadFails(t)) \/ Interrupt
  BY <1>3, QuietSteps
<1>4. CASE \E t, r \in Threads : FindParent(t, r)
  BY <1>4, MetadataSteps
<1>5. CASE UNCHANGED vars
  <2>1. RoundOK' /\ UNCHANGED <<store, disk>> /\ (pc' = "group" => app.build \/ app.active)
    BY <1>5, RoundTyped DEF vars, round, RoundOK
  <2> QED BY <2>1, RoundMoves
<1> QED BY <1>1, <1>2, <1>3, <1>4, <1>5 DEF Next

\* Every state of the round satisfies the inductive invariant.
THEOREM RoundInvariant == Spec => []IInv
<1>1. Init => IInv
  BY InitHolds
<1>2. IInv /\ [Next]_vars => IInv'
  BY NextHolds
<1> QED BY <1>1, <1>2, PTL DEF Spec

------------------------------------------------------------------------------
(* The theorems. *)

\* Every variable of the usage ledger and of the round keeps its type.
THEOREM RoundTypes == Spec => []TypeOK
<1>1. IInv => TypeOK
  BY DEF IInv
<1> QED BY <1>1, RoundInvariant, PTL

\* commit_usage, the carry and the clean-up of build rows never leave a source with
\* rows of lines its state has not read, nor without rows of lines it has.
THEOREM RowsAreTheReadPrefix == Spec => []FactsAreTheReadPrefix
<1>1. IInv => FactsAreTheReadPrefix
  BY DEF IInv, StoreInv
<1> QED BY <1>1, RoundInvariant, PTL

\* The one usage checkpoint of a source is never left pointing into the epoch that
\* work no longer goes to.
THEOREM OneCheckpoint == Spec => []CheckpointFollowsWork
<1>1. IInv => CheckpointFollowsWork
  BY DEF IInv, StoreInv
<1> QED BY <1>1, RoundInvariant, PTL

\* Only an activation ends a build.
LEMMA BuildEnds ==
  ASSUME IInv, [Next]_vars, app.build, ~app'.build
  PROVE  Activate
<1>1. app \in [active : BOOLEAN, parser : 0..MaxParser, build : BOOLEAN, target : 0..MaxParser]
  BY DEF IInv, TypeOK, StoreTypeOK
<1>2. \A p, S : ~BeginBuild(p) /\ ~ReplaceMembers(p, S) /\ ~ReplaceOrBegin(p, S)
  BY <1>1 DEF BeginBuild, ReplaceMembers, ReplaceOrBegin
<1>3. ~UNCHANGED app
  OBVIOUS
<1>4. ~UNCHANGED store
  BY <1>3 DEF store
<1>5. ~UNCHANGED vars
  BY <1>4 DEF vars
<1>6. /\ \A obs, whole : ~ObserveSources(obs, whole)
      /\ \A t : ~QuarantineTree(t)
      /\ \A b : ~CommitUsage(b)
  BY <1>3 DEF ObserveSources, QuarantineTree, CommitUsage
<1>7. \A s : ~BindSource(s) /\ ~BeginCarry(s) /\ ~ResumeCarry(s) /\ ~CompleteOnly(s)
  BY <1>3 DEF BindSource, BeginCarry, ResumeCarry, CarryPage, CarryOccurrences, CarryTurns, CarryAnomalies,
         FinalizeCarry, CompleteOnly
<1>8. \A t, r : ~Reroot(t, r)
  BY <1>3 DEF Reroot
<1>9. CASE Observe \/ StartUsage \/ GlobalTransition \/ LoadWorkList \/ AllThreadsDone \/ Interrupt \/ Upgrade
  BY <1>2, <1>4, <1>6, <1>9 DEF Observe, StartUsage, GlobalTransition, LoadWorkList, AllThreadsDone,
     Interrupt, Upgrade
<1>10. ASSUME NEW s \in Sources, NEW t \in Threads, Control(t, s) \/ ReadFails(t, s)
      PROVE  FALSE
  BY <1>2, <1>4, <1>6, <1>7, <1>10 DEF Control, ReadFails
<1>11. Finish => Activate
  BY <1>4 DEF Finish
<1>12. Next
  BY <1>5
<1>13. ~(\E t, r \in Threads : FindParent(t, r))
  BY <1>8 DEF FindParent
<1>14. ~(\E s \in Sources : Bind(s) \/ Change(s))
  BY <1>4, <1>7 DEF Bind, Change
<1>15. ~(\E t \in Threads : Completed(t) \/ Blocked(t) \/ ReadGroup(t) \/ NothingToRead(t) \/ ThreadFails(t))
  BY <1>4, <1>6 DEF Completed, Blocked, ReadGroup, NothingToRead, ThreadFails
<1>16. Step \/ Upgrade \/ Interrupt
  BY <1>12, <1>13, <1>14, <1>15 DEF Next
<1> QED BY <1>9, <1>10, <1>11, <1>14, <1>15, <1>16 DEF Step

LEMMA FactsGrow ==
  ASSUME NEW gen, NEW off \in Nat, NEW raw \in Nat, off <= raw
  PROVE  Facts(gen, off) \subseteq Facts(gen, LastComplete(raw))
<1>1. ASSUME NEW f \in Fact, f.line * LineSize <= off
      PROVE  f.line * LineSize <= LastComplete(raw)
  <2>1. f.line \in Nat
    BY StoreAssumption DEF Fact
  <2> QED BY <1>1, <2>1 DEF LastComplete, LineSize
<1> QED BY <1>1 DEF Facts

\* Whoever was counted and is not replaced or isolated is a member of the build, and
\* its member has been built to the last line of the same content.
LEMMA ActivationKeeps ==
  ASSUME IInv, Activate, NEW s \in Sources,
         act.state[s].gen = src[s].gen, member[s].status # "quarantined"
  PROVE  act.occ[s] \subseteq act'.occ[s]
<1>1. StoreInv /\ app.build /\ Activatable /\ act' = bld
  BY DEF IInv, Activate
<1>2. CASE act.state[s] = NoState
  BY <1>1, <1>2 DEF StoreInv, FactsAreTheReadPrefix
<1>3. CASE act.state[s] # NoState
  <2>1. member[s].in
    BY <1>1, <1>3 DEF StoreInv, NothingElse, Activatable, ActiveContributors
  <2>2. /\ bld.state[s] # NoState /\ bld.state[s].gen = src[s].gen
        /\ bld.state[s].off = LastComplete(src[s].raw)
        /\ bld.occ[s] = Facts(bld.state[s].gen, bld.state[s].off)
    BY <1>1, <2>1, ActivatableMembers
  <2>3. act.occ[s] = Facts(src[s].gen, act.state[s].off)
    BY <1>1, <1>3 DEF StoreInv, FactsAreTheReadPrefix
  <2>4. act.state[s].off <= act.state[s].raw /\ act.state[s].raw <= src[s].raw
    BY <1>1, <1>3 DEF StoreInv, StatesFit, StateFits
  <2>5. act.state[s] \in State /\ src[s] \in Row
    BY <1>1 DEF StoreInv, StoreTypeOK, Epoch
  <2>6. act.state[s].off \in Nat /\ src[s].raw \in Nat /\ act.state[s].off <= src[s].raw
    BY <2>4, <2>5, StoreAssumption DEF State, Row
  <2> QED BY <1>1, <2>2, <2>3, <2>6, FactsGrow
<1> QED BY <1>2, <1>3

\* activate_build: unless its tree is isolated or its content was replaced, a source
\* keeps every line that readers have counted.
THEOREM NothingIsLost == Spec => ActivationLosesNothing
<1>1. IInv /\ [Next]_vars =>
        [~app.build \/ app'.build \/
         \A s \in Sources :
           act.state[s].gen = src[s].gen /\ member[s].status # "quarantined"
             => act.occ[s] \subseteq act'.occ[s]]_vars
  BY BuildEnds, ActivationKeeps
<1> QED BY <1>1, RoundInvariant, PTL DEF Spec, ActivationLosesNothing
==============================================================================
