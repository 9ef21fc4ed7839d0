--------------------------- MODULE RolloutFactsProofs ---------------------------
(***************************************************************************)
(* What the two readers of a rollout file find, for files of any length,   *)
(* made of any lines, cut by any rounds and batches: the fact put together *)
(* from resumed reads is the one a single read gives, the usage reader     *)
(* counts no line of an ancestor, and it finds the promised boundary again.*)
(* The state index may name the file's thread or none, but not another.    *)
(***************************************************************************)
EXTENDS RolloutFacts, WellFoundedInduction, TLAPS

------------------------------------------------------------------------------
(* Induction over the natural numbers, as a fact about sets of them. *)

LEMMA LeastElement ==
  ASSUME NEW S \in SUBSET Nat, S # {}
  PROVE  \E n \in S : \A m \in S : n <= m
<1> DEFINE R == OpToRel(<, Nat)
<1>1. PICK n \in S : \A m \in S : ~ (<<m, n>> \in R)
  BY WFMin, NatLessThanWellFounded
<1>2. ASSUME NEW m \in S
      PROVE  n <= m
  <2>1. <<m, n>> \in Nat \X Nat /\ <<m, n>>[1] = m /\ <<m, n>>[2] = n
    OBVIOUS
  <2>2. m < n => <<m, n>> \in R
    BY <2>1 DEF OpToRel
  <2> HIDE DEF R
  <2> QED BY <1>1, <2>2
<1> QED BY <1>2

LEMMA Induction ==
  ASSUME NEW S, S \subseteq Nat, 0 \in S, \A n \in S : n + 1 \in S
  PROVE  S = Nat
<1> DEFINE rest == Nat \ S
<1>1. ASSUME rest # {}
      PROVE  FALSE
  <2>1. PICK n \in rest : \A m \in rest : n <= m
    BY <1>1, LeastElement
  <2>2. n # 0 /\ n - 1 \in Nat /\ n - 1 \notin rest
    BY <2>1
  <2> QED BY <2>2
<1> QED BY <1>1

------------------------------------------------------------------------------
(* Reading, line by line. *)

\* a holds the parser after each line.
Reading(a, lines, p, from, to) ==
  a = [n \in from..to |-> IF n = from THEN p ELSE Push(a[n - 1], lines[n], n)]

\* The recursion of Read has a value, since it looks back one line only.
LEMMA ReadIs ==
  ASSUME NEW lines, NEW p, NEW from \in Nat, NEW to \in Nat, from <= to
  PROVE  \E a : Reading(a, lines, p, from, to) /\ Read(lines, p, from, to) = a[to]
<1> DEFINE Steps(f, k) == f = [n \in from..(from + k) |->
                                 IF n = from THEN p ELSE Push(f[n - 1], lines[n], n)]
           S == {k \in Nat : \E f : Steps(f, k)}
           after[n \in from..to] == IF n = from THEN p ELSE Push(after[n - 1], lines[n], n)
<1>1. 0 \in S
  <2> DEFINE f == [n \in from..from |-> p]
  <2>1. Steps(f, 0)
    OBVIOUS
  <2> QED BY <2>1
<1>2. ASSUME NEW k \in S
      PROVE  k + 1 \in S
  <2>1. PICK f : Steps(f, k)
    OBVIOUS
  <2> DEFINE g == [n \in from..(from + k + 1) |->
                     IF n = from + k + 1 THEN Push(f[n - 1], lines[n], n) ELSE f[n]]
  <2>2. ASSUME NEW n \in from..(from + k + 1)
        PROVE  g[n] = IF n = from THEN p ELSE Push(g[n - 1], lines[n], n)
    <3>1. CASE n = from + k + 1
      <4>1. n - 1 \in from..(from + k) /\ n # from /\ n - 1 # from + k + 1
        BY <3>1
      <4>2. g[n - 1] = f[n - 1] /\ g[n] = Push(f[n - 1], lines[n], n)
        BY <3>1, <4>1
      <4> HIDE DEF g
      <4> QED BY <4>1, <4>2
    <3>2. CASE n # from + k + 1
      <4>1. n \in from..(from + k) /\ (n # from => n - 1 \in from..(from + k) /\ n - 1 # from + k + 1)
        BY <3>2
      <4>2. g[n] = f[n] /\ (n # from => g[n - 1] = f[n - 1])
        BY <4>1
      <4>3. f[n] = IF n = from THEN p ELSE Push(f[n - 1], lines[n], n)
        BY <2>1, <4>1
      <4> HIDE DEF g, Steps
      <4> QED BY <4>2, <4>3
    <3> QED BY <3>1, <3>2
  <2>3. g = [n \in from..(from + k + 1) |-> g[n]]
    OBVIOUS
  <2> HIDE DEF g
  <2>4. g = [n \in from..(from + k + 1) |-> IF n = from THEN p ELSE Push(g[n - 1], lines[n], n)]
    BY <2>2, <2>3
  <2>5. Steps(g, k + 1)
    <3>1. from + (k + 1) = from + k + 1
      OBVIOUS
    <3> QED BY <2>4, <3>1
  <2>6. k + 1 \in Nat
    OBVIOUS
  <2> HIDE DEF Steps
  <2> QED BY <2>5, <2>6
<1>3. to - from \in S /\ from + (to - from) = to
  <2>1. S \subseteq Nat /\ to - from \in Nat /\ from + (to - from) = to
    OBVIOUS
  <2> HIDE DEF S
  <2> QED BY <1>1, <1>2, <2>1, Induction
<1>4. \E f : f = [n \in from..to |-> IF n = from THEN p ELSE Push(f[n - 1], lines[n], n)]
  BY <1>3
<1>5. after = [n \in from..to |-> IF n = from THEN p ELSE Push(after[n - 1], lines[n], n)]
  BY <1>4
<1>6. Read(lines, p, from, to) = after[to]
  BY DEF Read
<1> HIDE DEF after
<1> QED BY <1>5, <1>6 DEF Reading

LEMMA ReadNothing ==
  ASSUME NEW lines, NEW p, NEW from \in Nat
  PROVE  Read(lines, p, from, from) = p
<1>1. PICK a : Reading(a, lines, p, from, from) /\ Read(lines, p, from, from) = a[from]
  BY ReadIs
<1>2. from \in from..from
  OBVIOUS
<1> QED BY <1>1, <1>2 DEF Reading

\* Two readings of the same lines go through the same parsers.
LEMMA ReadOneMore ==
  ASSUME NEW lines, NEW p, NEW from \in Nat, NEW to \in Nat, from < to
  PROVE  Read(lines, p, from, to) = Push(Read(lines, p, from, to - 1), lines[to], to)
<1>1. PICK a : Reading(a, lines, p, from, to) /\ Read(lines, p, from, to) = a[to]
  BY ReadIs
<1>2. PICK b : Reading(b, lines, p, from, to - 1) /\ Read(lines, p, from, to - 1) = b[to - 1]
  <2>1. to - 1 \in Nat /\ from <= to - 1
    OBVIOUS
  <2> QED BY <2>1, ReadIs
<1> DEFINE S == {k \in Nat : from + k <= to - 1 => a[from + k] = b[from + k]}
<1>3. 0 \in S
  BY <1>1, <1>2 DEF Reading
<1>4. ASSUME NEW k \in S
      PROVE  k + 1 \in S
  <2> SUFFICES ASSUME from + (k + 1) <= to - 1
               PROVE  a[from + (k + 1)] = b[from + (k + 1)]
    OBVIOUS
  <2> DEFINE n == from + (k + 1)
  <2>1. n \in from..to /\ n \in from..(to - 1) /\ n # from /\ n - 1 = from + k /\ from + k <= to - 1
    OBVIOUS
  <2>2. a[n - 1] = b[n - 1]
    BY <2>1
  <2>3. a[n] = Push(a[n - 1], lines[n], n)
    BY <1>1, <2>1 DEF Reading
  <2>4. b[n] = Push(b[n - 1], lines[n], n)
    BY <1>2, <2>1 DEF Reading
  <2> QED BY <2>2, <2>3, <2>4
<1>5. to - 1 - from \in S
  <2>1. to - 1 - from \in Nat
    OBVIOUS
  <2> HIDE DEF S
  <2> QED BY <1>3, <1>4, <2>1, Induction DEF S
<1>6. a[to - 1] = b[to - 1]
  <2>1. from + (to - 1 - from) = to - 1
    OBVIOUS
  <2> QED BY <1>5, <2>1
<1>7. a[to] = Push(a[to - 1], lines[to], to)
  <2>1. to \in from..to /\ to # from
    OBVIOUS
  <2> QED BY <1>1, <2>1 DEF Reading
<1> QED BY <1>1, <1>2, <1>6, <1>7
------------------------------------------------------------------------------
(* Facts, and two facts that differ in where the model was read. *)

FactOf(owner, claims, created, model, replay, boundary, conflict, doubtful) ==
  [owner |-> owner, claims |-> claims, created |-> created, model |-> model, replay |-> replay,
   boundary |-> boundary, conflict |-> conflict, doubtful |-> doubtful]

ModelOf(value, turn, at, line) == [value |-> value, turn |-> turn, at |-> at, line |-> line]

IsFact(f) ==
  /\ f = FactOf(f.owner, f.claims, f.created, f.model, f.replay, f.boundary, f.conflict, f.doubtful)
  /\ f.model = ModelOf(f.model.value, f.model.turn, f.model.at, f.model.line)
  /\ f.conflict \in BOOLEAN /\ f.doubtful \in BOOLEAN

Alike(f, g) ==
  /\ g.owner = f.owner /\ g.claims = f.claims /\ g.created = f.created
  /\ g.model.value = f.model.value /\ g.model.turn = f.model.turn /\ g.model.at = f.model.at
  /\ g.replay = f.replay /\ g.boundary = f.boundary
  /\ g.conflict = f.conflict /\ g.doubtful = f.doubtful

LEMMA FactParts ==
  \A owner, claims, created, model, replay, boundary, conflict, doubtful :
    LET f == FactOf(owner, claims, created, model, replay, boundary, conflict, doubtful)
    IN  /\ f.owner = owner /\ f.claims = claims /\ f.created = created /\ f.model = model
        /\ f.replay = replay /\ f.boundary = boundary /\ f.conflict = conflict /\ f.doubtful = doubtful
BY DEF FactOf

LEMMA ModelParts ==
  \A value, turn, at, line :
    LET m == ModelOf(value, turn, at, line)
    IN  m.value = value /\ m.turn = turn /\ m.at = at /\ m.line = line
BY DEF ModelOf

LEMMA FactMade ==
  ASSUME NEW owner, NEW claims, NEW created, NEW model, NEW replay, NEW boundary,
         NEW conflict \in BOOLEAN, NEW doubtful \in BOOLEAN,
         model = ModelOf(model.value, model.turn, model.at, model.line)
  PROVE  IsFact(FactOf(owner, claims, created, model, replay, boundary, conflict, doubtful))
<1> DEFINE f == FactOf(owner, claims, created, model, replay, boundary, conflict, doubtful)
<1>1. /\ f.owner = owner /\ f.claims = claims /\ f.created = created /\ f.model = model
      /\ f.replay = replay /\ f.boundary = boundary /\ f.conflict = conflict /\ f.doubtful = doubtful
  BY FactParts
<1> HIDE DEF f
<1>2. IsFact(f)
  BY <1>1 DEF IsFact, f
<1> QED BY <1>2 DEF f

\* A fact with one part replaced.
LEMMA FactUpdates ==
  ASSUME NEW f, IsFact(f), NEW x
  PROVE  /\ [f EXCEPT !.claims = x] =
              FactOf(f.owner, x, f.created, f.model, f.replay, f.boundary, f.conflict, f.doubtful)
         /\ [f EXCEPT !.created = x] =
              FactOf(f.owner, f.claims, x, f.model, f.replay, f.boundary, f.conflict, f.doubtful)
         /\ [f EXCEPT !.model = x] =
              FactOf(f.owner, f.claims, f.created, x, f.replay, f.boundary, f.conflict, f.doubtful)
         /\ [f EXCEPT !.replay = x] =
              FactOf(f.owner, f.claims, f.created, f.model, x, f.boundary, f.conflict, f.doubtful)
         /\ [f EXCEPT !.boundary = x] =
              FactOf(f.owner, f.claims, f.created, f.model, f.replay, x, f.conflict, f.doubtful)
         /\ [f EXCEPT !.conflict = x] =
              FactOf(f.owner, f.claims, f.created, f.model, f.replay, f.boundary, x, f.doubtful)
BY DEF IsFact, FactOf

\* What a claim makes of the claims of a fact, and whether it clashes with them.
ClaimsAfter(claims, c) ==
  LET old == claims[c.field]
      new == [rank |-> c.rank, value |-> c.value] IN
  IF c.value = None THEN claims
  ELSE IF old = None THEN [claims EXCEPT ![c.field] = new]
  ELSE [claims EXCEPT ![c.field] = IF c.rank > old.rank THEN new ELSE old]

Clashes(claims, c) ==
  c.value # None /\ claims[c.field] # None /\ Conflicting(claims[c.field], c)

LEMMA MergeMakes ==
  ASSUME NEW f, IsFact(f), NEW c
  PROVE  MergeClaim(f, c) =
           FactOf(f.owner, ClaimsAfter(f.claims, c), f.created, f.model, f.replay, f.boundary,
                  f.conflict \/ Clashes(f.claims, c),
                  f.doubtful \/ (Clashes(f.claims, c) /\ c.field \in Relations))
<1> DEFINE old == f.claims[c.field]
           new == [rank |-> c.rank, value |-> c.value]
           clash == Conflicting(old, c)
           kept == IF c.rank > old.rank THEN new ELSE old
           first == [f.claims EXCEPT ![c.field] = new]
           later == [f.claims EXCEPT ![c.field] = kept]
<1>1. CASE c.value = None
  <2>1. MergeClaim(f, c) = f /\ ClaimsAfter(f.claims, c) = f.claims /\ ~ Clashes(f.claims, c)
    BY <1>1 DEF MergeClaim, ClaimsAfter, Clashes
  <2> QED BY <2>1 DEF IsFact
<1>2. CASE c.value # None /\ old = None
  <2>1. ClaimsAfter(f.claims, c) = first /\ ~ Clashes(f.claims, c)
    BY <1>2 DEF ClaimsAfter, Clashes
  <2>2. MergeClaim(f, c) = [f EXCEPT !.claims[c.field] = new]
    BY <1>2 DEF MergeClaim
  <2>3. MergeClaim(f, c) = [f EXCEPT !.claims = first]
    BY <2>2
  <2> HIDE DEF first
  <2>4. MergeClaim(f, c) =
          FactOf(f.owner, first, f.created, f.model, f.replay, f.boundary, f.conflict, f.doubtful)
    BY <2>3, FactUpdates
  <2> QED BY <2>1, <2>4 DEF IsFact
<1>3. CASE c.value # None /\ old # None
  <2>1. ClaimsAfter(f.claims, c) = later /\ (Clashes(f.claims, c) <=> clash)
    BY <1>3 DEF ClaimsAfter, Clashes
  <2>2. MergeClaim(f, c) =
          [f EXCEPT !.claims[c.field] = kept, !.conflict = @ \/ clash,
                    !.doubtful = @ \/ (clash /\ c.field \in Relations)]
    BY <1>3 DEF MergeClaim
  <2>3. MergeClaim(f, c) =
          [f EXCEPT !.claims = later, !.conflict = f.conflict \/ clash,
                    !.doubtful = f.doubtful \/ (clash /\ c.field \in Relations)]
    BY <2>2 DEF IsFact, FactOf
  <2> HIDE DEF later, clash
  <2>4. MergeClaim(f, c) =
          FactOf(f.owner, later, f.created, f.model, f.replay, f.boundary, f.conflict \/ clash,
                 f.doubtful \/ (clash /\ c.field \in Relations))
    BY <2>3 DEF IsFact, FactOf
  <2> QED BY <2>1, <2>4
<1> QED BY <1>1, <1>2, <1>3
\* What a claim leaves alone.
Untouched(f, g) ==
  /\ IsFact(g) /\ g.owner = f.owner /\ g.model = f.model
  /\ g.replay = f.replay /\ g.boundary = f.boundary

LEMMA MergeHolds ==
  ASSUME NEW f, IsFact(f), NEW c
  PROVE  Untouched(f, MergeClaim(f, c)) /\ MergeClaim(f, c).created = f.created
<1> DEFINE claims == ClaimsAfter(f.claims, c)
           conflict == f.conflict \/ Clashes(f.claims, c)
           doubtful == f.doubtful \/ (Clashes(f.claims, c) /\ c.field \in Relations)
<1>1. conflict \in BOOLEAN /\ doubtful \in BOOLEAN
  OBVIOUS
<1>2. MergeClaim(f, c) =
        FactOf(f.owner, claims, f.created, f.model, f.replay, f.boundary, conflict, doubtful)
  BY MergeMakes
<1> HIDE DEF claims, conflict, doubtful
<1>3. IsFact(MergeClaim(f, c))
  BY <1>1, <1>2, FactMade DEF IsFact
<1> QED BY <1>2, <1>3, FactParts DEF Untouched

LEMMA MergeAlike ==
  ASSUME NEW f, NEW g, IsFact(f), IsFact(g), Alike(f, g), NEW c
  PROVE  Alike(MergeClaim(f, c), MergeClaim(g, c))
<1> DEFINE claims == ClaimsAfter(f.claims, c)
           conflict == f.conflict \/ Clashes(f.claims, c)
           doubtful == f.doubtful \/ (Clashes(f.claims, c) /\ c.field \in Relations)
<1>1. /\ MergeClaim(f, c) =
           FactOf(f.owner, claims, f.created, f.model, f.replay, f.boundary, conflict, doubtful)
      /\ MergeClaim(g, c) =
           FactOf(g.owner, ClaimsAfter(g.claims, c), g.created, g.model, g.replay, g.boundary,
                  g.conflict \/ Clashes(g.claims, c),
                  g.doubtful \/ (Clashes(g.claims, c) /\ c.field \in Relations))
  BY MergeMakes
<1>2. ClaimsAfter(g.claims, c) = claims /\ (g.conflict \/ Clashes(g.claims, c)) = conflict
      /\ (g.doubtful \/ (Clashes(g.claims, c) /\ c.field \in Relations)) = doubtful
  BY DEF Alike
<1> HIDE DEF claims, conflict, doubtful
<1>3. MergeClaim(g, c) =
        FactOf(g.owner, claims, g.created, g.model, g.replay, g.boundary, conflict, doubtful)
  BY <1>1, <1>2
<1> QED BY <1>1, <1>3, FactParts DEF Alike

\* m holds the fact after each claim.
Merging(m, fact, claims) ==
  m = [i \in 0..Len(claims) |-> IF i = 0 THEN fact ELSE MergeClaim(m[i - 1], claims[i])]

LEMMA MergedIs ==
  ASSUME NEW fact, NEW claims, Len(claims) \in Nat
  PROVE  \E m : Merging(m, fact, claims) /\ Merged(fact, claims) = m[Len(claims)]
<1> DEFINE Steps(f, k) == f = [i \in 0..k |-> IF i = 0 THEN fact ELSE MergeClaim(f[i - 1], claims[i])]
           S == {k \in Nat : \E f : Steps(f, k)}
           merged[i \in 0..Len(claims)] == IF i = 0 THEN fact ELSE MergeClaim(merged[i - 1], claims[i])
<1>1. 0 \in S
  <2> DEFINE f == [i \in 0..0 |-> fact]
  <2>1. Steps(f, 0)
    OBVIOUS
  <2> QED BY <2>1
<1>2. ASSUME NEW k \in S
      PROVE  k + 1 \in S
  <2>1. PICK f : Steps(f, k)
    OBVIOUS
  <2> DEFINE g == [i \in 0..(k + 1) |-> IF i = k + 1 THEN MergeClaim(f[i - 1], claims[i]) ELSE f[i]]
  <2>2. ASSUME NEW i \in 0..(k + 1)
        PROVE  g[i] = IF i = 0 THEN fact ELSE MergeClaim(g[i - 1], claims[i])
    <3>1. CASE i = k + 1
      <4>1. i - 1 \in 0..k /\ i # 0 /\ i - 1 # k + 1 /\ i - 1 \in 0..(k + 1)
        BY <3>1
      <4>2. g[i - 1] = f[i - 1] /\ g[i] = MergeClaim(f[i - 1], claims[i])
        BY <3>1, <4>1
      <4> HIDE DEF g
      <4> QED BY <4>1, <4>2
    <3>2. CASE i # k + 1
      <4>1. i \in 0..k /\ (i # 0 => i - 1 \in 0..k /\ i - 1 # k + 1 /\ i - 1 \in 0..(k + 1))
        BY <3>2
      <4>2. g[i] = f[i] /\ (i # 0 => g[i - 1] = f[i - 1])
        BY <4>1
      <4>3. f[i] = IF i = 0 THEN fact ELSE MergeClaim(f[i - 1], claims[i])
        BY <2>1, <4>1
      <4> HIDE DEF g, Steps
      <4> QED BY <4>2, <4>3
    <3> QED BY <3>1, <3>2
  <2>3. g = [i \in 0..(k + 1) |-> g[i]]
    OBVIOUS
  <2> HIDE DEF g
  <2>4. Steps(g, k + 1)
    BY <2>2, <2>3
  <2>5. k + 1 \in Nat
    OBVIOUS
  <2> HIDE DEF Steps
  <2> QED BY <2>4, <2>5
<1>3. Len(claims) \in S
  <2>1. S \subseteq Nat
    OBVIOUS
  <2> HIDE DEF S
  <2> QED BY <1>1, <1>2, <2>1, Induction
<1>4. \E f : f = [i \in 0..Len(claims) |-> IF i = 0 THEN fact ELSE MergeClaim(f[i - 1], claims[i])]
  BY <1>3
<1>5. merged = [i \in 0..Len(claims) |-> IF i = 0 THEN fact ELSE MergeClaim(merged[i - 1], claims[i])]
  BY <1>4
<1>6. Merged(fact, claims) = merged[Len(claims)]
  BY DEF Merged
<1> HIDE DEF merged
<1> QED BY <1>5, <1>6 DEF Merging

\* Claims, one after the other, on a fact and on one alike.
LEMMA MergedHolds ==
  ASSUME NEW f, IsFact(f), NEW claims, Len(claims) \in Nat
  PROVE  /\ Untouched(f, Merged(f, claims)) /\ Merged(f, claims).created = f.created
         /\ \A g : IsFact(g) /\ Alike(f, g) => Alike(Merged(f, claims), Merged(g, claims))
<1>1. PICK m : Merging(m, f, claims) /\ Merged(f, claims) = m[Len(claims)]
  BY MergedIs
<1> DEFINE S == {k \in Nat : k <= Len(claims) => Untouched(f, m[k]) /\ m[k].created = f.created}
<1>2. 0 \in S
  <2>1. m[0] = f
    BY <1>1 DEF Merging
  <2> QED BY <2>1 DEF Untouched
<1>3. ASSUME NEW k \in S
      PROVE  k + 1 \in S
  <2> SUFFICES ASSUME k + 1 <= Len(claims)
               PROVE  Untouched(f, m[k + 1]) /\ m[k + 1].created = f.created
    OBVIOUS
  <2>1. m[k + 1] = MergeClaim(m[k], claims[k + 1])
    <3>1. k + 1 \in 0..Len(claims) /\ k + 1 # 0 /\ (k + 1) - 1 = k
      OBVIOUS
    <3> QED BY <1>1, <3>1 DEF Merging
  <2>2. Untouched(f, m[k]) /\ m[k].created = f.created
    OBVIOUS
  <2>3. Untouched(m[k], m[k + 1]) /\ m[k + 1].created = m[k].created
    BY <2>1, <2>2, MergeHolds DEF Untouched
  <2> QED BY <2>2, <2>3 DEF Untouched
<1>4. S = Nat
  <2>1. S \subseteq Nat
    OBVIOUS
  <2> HIDE DEF S
  <2> QED BY <1>2, <1>3, <2>1, Induction
<1>5. ASSUME NEW k \in Nat, k <= Len(claims)
      PROVE  Untouched(f, m[k]) /\ m[k].created = f.created
  BY <1>4, <1>5
<1> HIDE DEF S
<1>6. ASSUME NEW g, IsFact(g), Alike(f, g)
      PROVE  Alike(Merged(f, claims), Merged(g, claims))
  <2>1. PICK h : Merging(h, g, claims) /\ Merged(g, claims) = h[Len(claims)]
    BY MergedIs
  <2> DEFINE T == {k \in Nat : k <= Len(claims) => IsFact(h[k]) /\ Alike(m[k], h[k])}
  <2>2. 0 \in T
    <3>1. m[0] = f /\ h[0] = g
      BY <1>1, <2>1 DEF Merging
    <3> QED BY <1>6, <3>1
  <2>3. ASSUME NEW k \in T
        PROVE  k + 1 \in T
    <3> SUFFICES ASSUME k + 1 <= Len(claims)
                 PROVE  IsFact(h[k + 1]) /\ Alike(m[k + 1], h[k + 1])
      OBVIOUS
    <3>1. m[k + 1] = MergeClaim(m[k], claims[k + 1]) /\ h[k + 1] = MergeClaim(h[k], claims[k + 1])
      <4>1. k + 1 \in 0..Len(claims) /\ k + 1 # 0 /\ (k + 1) - 1 = k
        OBVIOUS
      <4> QED BY <1>1, <2>1, <4>1 DEF Merging
    <3>2. IsFact(h[k]) /\ Alike(m[k], h[k])
      OBVIOUS
    <3>3. IsFact(m[k])
      BY <1>5 DEF Untouched
    <3> HIDE DEF T
    <3>4. Untouched(h[k], h[k + 1])
      BY <3>1, <3>2, MergeHolds
    <3>5. Alike(m[k + 1], h[k + 1])
      BY <3>1, <3>2, <3>3, MergeAlike
    <3> QED BY <3>4, <3>5 DEF Untouched
  <2>4. T = Nat
    <3>1. T \subseteq Nat
      OBVIOUS
    <3> HIDE DEF T
    <3> QED BY <2>2, <2>3, <3>1, Induction
  <2> QED BY <1>1, <2>1, <2>4
<1> QED BY <1>1, <1>5, <1>6

LEMMA SessionMetaHolds ==
  ASSUME NEW f, IsFact(f), NEW l
  PROVE  /\ Untouched(f, ApplySessionMeta(f, l))
         /\ \A g : IsFact(g) /\ Alike(f, g) => Alike(ApplySessionMeta(f, l), ApplySessionMeta(g, l))
<1> DEFINE created(h) == IF h.created = None \/ l.created < h.created THEN l.created ELSE h.created
           dated(h) == IF l.created = None THEN h ELSE [h EXCEPT !.created = created(h)]
           claims == MetaClaims(l)
<1>1. \A h : ApplySessionMeta(h, l) = Merged(dated(h), claims)
  BY DEF ApplySessionMeta
<1>2. Len(claims) \in Nat
  BY DEF MetaClaims
<1>3. ASSUME NEW h, IsFact(h)
      PROVE  dated(h) = FactOf(h.owner, h.claims, IF l.created = None THEN h.created ELSE created(h),
                               h.model, h.replay, h.boundary, h.conflict, h.doubtful)
  <2> HIDE DEF created
  <2> QED BY <1>3, FactUpdates DEF IsFact
<1>4. \A g : Alike(f, g) => created(g) = created(f)
  BY DEF Alike
<1> HIDE DEF created, dated, claims
<1>5. ASSUME NEW h, IsFact(h)
      PROVE  Untouched(h, dated(h))
  <2>1. IsFact(dated(h))
    BY <1>3, <1>5, FactMade DEF IsFact
  <2> QED BY <1>3, <1>5, <2>1, FactParts DEF Untouched
<1>6. ASSUME NEW g, IsFact(g), Alike(f, g)
      PROVE  Alike(dated(f), dated(g))
  BY <1>3, <1>4, <1>6, FactParts DEF Alike
<1>7. Untouched(f, ApplySessionMeta(f, l))
  <2>1. Untouched(f, dated(f)) /\ IsFact(dated(f))
    BY <1>5 DEF Untouched
  <2>2. Untouched(dated(f), Merged(dated(f), claims))
    BY <1>2, <2>1, MergedHolds
  <2>3. ApplySessionMeta(f, l) = Merged(dated(f), claims)
    BY <1>1
  <2> QED BY <2>1, <2>2, <2>3 DEF Untouched
<1>8. ASSUME NEW g, IsFact(g), Alike(f, g)
      PROVE  Alike(ApplySessionMeta(f, l), ApplySessionMeta(g, l))
  BY <1>1, <1>2, <1>5, <1>6, <1>8, MergedHolds DEF Untouched
<1> QED BY <1>7, <1>8

\* A turn with a model: the model is replaced or kept, whichever line it was read from.
LEMMA TurnContextHolds ==
  ASSUME NEW f, IsFact(f), NEW l, NEW n \in Nat, f.model.line \in 0..(n - 1)
  PROVE  /\ IsFact(ApplyTurnContext(f, l, n))
         /\ ApplyTurnContext(f, l, n).owner = f.owner
         /\ ApplyTurnContext(f, l, n).boundary = f.boundary
         /\ ApplyTurnContext(f, l, n).model.line \in 0..n
         /\ \A g : IsFact(g) /\ Alike(f, g) /\ g.model.line \in 0..(n - 1) =>
                     Alike(ApplyTurnContext(f, l, n), ApplyTurnContext(g, l, n))
<1> DEFINE placed(h) == MergeClaim(h, Claim("cwd", 1, l.cwd))
           clash(h) == l.turn = placed(h).model.turn /\ l.model # placed(h).model.value
           told(h) == [placed(h) EXCEPT !.conflict = @ \/ clash(h)]
           new == ModelOf(l.model, l.turn, l.at, n)
           Read_(h) == IsFact(h) /\ h.model.line \in 0..(n - 1)
<1>1. \A h : ApplyTurnContext(h, l, n) =
               IF l.model = None THEN placed(h)
               ELSE IF Newer(l, n, told(h).model) THEN [told(h) EXCEPT !.model = new]
               ELSE told(h)
  BY DEF ApplyTurnContext, ModelOf
<1>2. ASSUME NEW h, IsFact(h)
      PROVE  Untouched(h, placed(h)) /\ placed(h).created = h.created
  BY <1>2, MergeHolds
<1>3. Alike(f, f) /\ \A g : IsFact(g) /\ Alike(f, g) => Alike(placed(f), placed(g))
  BY MergeAlike DEF Alike
<1> HIDE DEF placed
<1>4. ASSUME NEW h, IsFact(h)
      PROVE  /\ told(h) = FactOf(placed(h).owner, placed(h).claims, placed(h).created, h.model,
                                 placed(h).replay, placed(h).boundary, placed(h).conflict \/ clash(h),
                                 placed(h).doubtful)
             /\ IsFact(told(h)) /\ told(h).model = h.model
  <2>1. IsFact(placed(h)) /\ placed(h).model = h.model
    BY <1>2, <1>4 DEF Untouched
  <2>2. told(h) = [placed(h) EXCEPT !.conflict = placed(h).conflict \/ clash(h)]
    BY <2>1 DEF IsFact, FactOf
  <2> DEFINE c == placed(h).conflict \/ clash(h)
  <2>3. c \in BOOLEAN
    OBVIOUS
  <2> HIDE DEF c
  <2>4. told(h) = FactOf(placed(h).owner, placed(h).claims, placed(h).created, h.model,
                         placed(h).replay, placed(h).boundary, c, placed(h).doubtful)
    <3>1. told(h) = [placed(h) EXCEPT !.conflict = c]
      BY <2>2 DEF c
    <3> HIDE DEF told
    <3> QED BY <2>1, <3>1, FactUpdates
  <2> HIDE DEF told
  <2>5. IsFact(told(h))
    BY <1>4, <2>1, <2>3, <2>4, FactMade DEF IsFact
  <2> QED BY <2>4, <2>5, FactParts DEF c
<1>5. \A g : IsFact(g) /\ Alike(f, g) => clash(g) = clash(f)
  BY <1>2 DEF Alike, Untouched
<1> HIDE DEF clash, told
<1>6. ASSUME NEW h, IsFact(h)
      PROVE  /\ [told(h) EXCEPT !.model = new] =
                  FactOf(told(h).owner, told(h).claims, told(h).created, new, told(h).replay,
                         told(h).boundary, told(h).conflict, told(h).doubtful)
             /\ IsFact([told(h) EXCEPT !.model = new])
  <2>1. new = ModelOf(new.value, new.turn, new.at, new.line)
    BY ModelParts
  <2> HIDE DEF new
  <2>2. [told(h) EXCEPT !.model = new] =
          FactOf(told(h).owner, told(h).claims, told(h).created, new, told(h).replay,
                 told(h).boundary, told(h).conflict, told(h).doubtful)
    BY <1>4, <1>6, FactUpdates
  <2> QED BY <1>4, <1>6, <2>1, <2>2, FactMade DEF IsFact
<1>7. \A g : IsFact(g) /\ Alike(f, g) => Alike(told(f), told(g))
  BY <1>3, <1>4, <1>5, FactParts DEF Alike
<1>8. new.line = n
  BY ModelParts
<1> HIDE DEF new
<1>9. ASSUME NEW h, Read_(h)
      PROVE  LET k == ApplyTurnContext(h, l, n)
             IN  IsFact(k) /\ k.owner = h.owner /\ k.boundary = h.boundary /\ k.model.line \in 0..n
  <2>1. /\ IsFact(placed(h)) /\ placed(h).owner = h.owner /\ placed(h).boundary = h.boundary
        /\ placed(h).model = h.model
    BY <1>2, <1>9 DEF Untouched
  <2>2. /\ IsFact(told(h)) /\ told(h).owner = h.owner /\ told(h).boundary = h.boundary
        /\ told(h).model = h.model
    BY <1>4, <1>9, <2>1, FactParts
  <2>3. LET k == [told(h) EXCEPT !.model = new]
        IN  IsFact(k) /\ k.owner = h.owner /\ k.boundary = h.boundary /\ k.model = new
    BY <1>6, <1>9, <2>2, FactParts
  <2>4. CASE l.model = None
    BY <1>1, <1>9, <2>1, <2>4
  <2>5. CASE l.model # None /\ Newer(l, n, told(h).model)
    <3>1. ApplyTurnContext(h, l, n) = [told(h) EXCEPT !.model = new]
      BY <1>1, <2>5
    <3>2. n \in 0..n
      OBVIOUS
    <3> QED BY <1>8, <2>3, <3>1, <3>2
  <2>6. CASE l.model # None /\ ~ Newer(l, n, told(h).model)
    <3>1. ApplyTurnContext(h, l, n) = told(h)
      BY <1>1, <2>6
    <3> QED BY <1>9, <2>2, <3>1
  <2> QED BY <2>4, <2>5, <2>6
<1>10. ASSUME NEW g, Read_(f), Read_(g), Alike(f, g)
       PROVE  Alike(ApplyTurnContext(f, l, n), ApplyTurnContext(g, l, n))
  <2>1. Newer(l, n, told(f).model) <=> Newer(l, n, told(g).model)
    <3>1. told(f).model = f.model /\ told(g).model = g.model
      BY <1>4, <1>10
    <3>2. n > f.model.line /\ n > g.model.line
      BY <1>10
    <3> QED BY <1>10, <3>1, <3>2 DEF Newer, Alike
  <2>2. Alike([told(f) EXCEPT !.model = new], [told(g) EXCEPT !.model = new])
    BY <1>6, <1>7, <1>10, FactParts DEF Alike
  <2> QED BY <1>1, <1>3, <1>7, <1>10, <2>1, <2>2
<1> QED BY <1>9, <1>10
------------------------------------------------------------------------------
(* One line. *)

Added(class, c) == Append(class, c)

ParserOf(owner, machine, fact, resumed, rebuild, class) ==
  [owner |-> owner, machine |-> machine, fact |-> fact, resumed |-> resumed,
   rebuild |-> rebuild, class |-> class]

IsParser(p) == p = ParserOf(p.owner, p.machine, p.fact, p.resumed, p.rebuild, p.class)

\* What each line is to the owner, whoever reads it.
ClassOf(l) ==
  IF l.is = "meta" /\ l.of = None THEN "unknown" ELSE IF OfOwn(l) THEN "owning" ELSE "replayed"

\* A replay is open after n lines.
Foreign(lines, n) == n > 0 /\ ~ OfOwn(lines[n])

\* Line n may stand where it stands (Fits).
Goes(lines, n) ==
  LET l == lines[n] IN
  /\ l \in Lines
  /\ n = 1 => l.is = "meta" /\ (l.of = Own \/ (Named /\ l.of = Other))
  /\ Foreign(lines, n - 1) =>
       IF l.is = "meta" THEN l.of # None
       ELSE OfOwn(l) => l.is = "turn" /\ l.turn # None /\ l.turn.v7
  /\ n > 1 /\ ~ Foreign(lines, n - 1) => (l.is # "meta" => OfOwn(l))

\* A parser that has read n lines knows the owner and whether a replay is open.
Sound(lines, p, n) ==
  /\ IsParser(p) /\ p.owner = Own /\ p.machine \in {"bootstrap", "live", "replayed"}
  /\ IsFact(p.fact) /\ p.fact.owner = Own /\ p.fact.model.line \in 0..n
  /\ p.machine = "replayed" <=> Foreign(lines, n)

LEMMA ParserParts ==
  \A owner, machine, fact, resumed, rebuild, class :
    LET p == ParserOf(owner, machine, fact, resumed, rebuild, class)
    IN  /\ p.owner = owner /\ p.machine = machine /\ p.fact = fact /\ p.resumed = resumed
        /\ p.rebuild = rebuild /\ p.class = class
BY DEF ParserOf

LEMMA ParserMade ==
  ASSUME NEW owner, NEW machine, NEW fact, NEW resumed, NEW rebuild, NEW class
  PROVE  IsParser(ParserOf(owner, machine, fact, resumed, rebuild, class))
BY DEF ParserOf, IsParser

LEMMA ClassedMakes ==
  ASSUME NEW p, IsParser(p), NEW class
  PROVE  Classed(p, class) =
           ParserOf(p.owner, p.machine, p.fact, p.resumed, p.rebuild, Added(p.class, class))
BY DEF Classed, IsParser, ParserOf, Added

\* What a line may do to a parser.
Step(lines, p, q, n) ==
  /\ Sound(lines, q, n)
  /\ q.class = Added(p.class, ClassOf(lines[n]))
  /\ \/ q.fact.boundary = p.fact.boundary
     \/ q.fact.boundary = n /\ ClassOf(lines[n]) = "owning"
  /\ ~ p.resumed /\ ~ p.rebuild => ~ q.resumed /\ ~ q.rebuild

LEMMA UnknownMetaHolds ==
  ASSUME NEW lines, NEW n \in Nat \ {0}, Goes(lines, n), NEW p, Sound(lines, p, n - 1),
         lines[n].is = "meta", lines[n].of = None
  PROVE  Step(lines, p, Push(p, lines[n], n), n) /\ Push(p, lines[n], n).fact = p.fact
<1> DEFINE q == ParserOf(p.owner, p.machine, p.fact, p.resumed, p.rebuild, Added(p.class, "unknown"))
<1>1. Push(p, lines[n], n) = q
  BY ClassedMakes DEF Push, SessionMeta, Sound
<1>2. ~ Foreign(lines, n - 1) /\ ~ Foreign(lines, n) /\ ClassOf(lines[n]) = "unknown"
  BY RolloutAssumption DEF Goes, Foreign, OfOwn, ClassOf
<1>3. /\ q.owner = p.owner /\ q.machine = p.machine /\ q.fact = p.fact /\ q.resumed = p.resumed
      /\ q.rebuild = p.rebuild /\ q.class = Added(p.class, "unknown") /\ IsParser(q)
  BY ParserParts, ParserMade
<1> HIDE DEF q
<1>4. Sound(lines, q, n)
  BY <1>2, <1>3 DEF Sound
<1> QED BY <1>1, <1>2, <1>3, <1>4 DEF Step

LEMMA OwnMetaHolds ==
  ASSUME NEW lines, NEW n \in Nat \ {0}, Goes(lines, n), NEW p, Sound(lines, p, n - 1),
         lines[n].is = "meta", lines[n].of = Own
  PROVE  /\ Step(lines, p, Push(p, lines[n], n), n)
         /\ \A r : Sound(lines, r, n - 1) /\ Alike(p.fact, r.fact) =>
              Alike(Push(p, lines[n], n).fact, Push(r, lines[n], n).fact)
<1> DEFINE l == lines[n]
           bounded(r) == [r.fact EXCEPT !.boundary = n]
           fact(r) == IF r.machine = "replayed" \/ (r.fact.boundary = Nowhere /\ r.fact.replay = Nowhere)
                      THEN bounded(r) ELSE r.fact
           machine(r) == IF r.machine = "replayed" THEN "live" ELSE r.machine
           q(r) == ParserOf(r.owner, machine(r), ApplySessionMeta(fact(r), l), r.resumed, r.rebuild,
                            Added(r.class, "owning"))
<1>1. ASSUME NEW r, Sound(lines, r, n - 1)
      PROVE  Push(r, l, n) = q(r)
  <2>1. Own # None /\ r.owner = Own /\ Adopt(r, l) = r
    BY <1>1, RolloutAssumption DEF Sound, Adopt
  <2>2. Push(r, l, n) = OwnMeta(r, l, n)
    BY <2>1 DEF Push, SessionMeta
  <2>3. OwnMeta(r, l, n) = [Classed(r, "owning") EXCEPT !.machine = machine(r),
                                                        !.fact = ApplySessionMeta(fact(r), l)]
    <3>1. Classed(r, "owning").machine = r.machine
      BY <1>1, ClassedMakes, ParserParts DEF Sound
    <3>2. OwnMeta(r, l, n) =
            [Classed(r, "owning") EXCEPT !.machine = IF r.machine = "replayed" THEN "live" ELSE @,
                                         !.fact = ApplySessionMeta(fact(r), l)]
      BY DEF OwnMeta
    <3> HIDE DEF fact
    <3> QED BY <3>1, <3>2
  <2> HIDE DEF machine, fact, bounded
  <2>4. Classed(r, "owning") =
          ParserOf(r.owner, r.machine, r.fact, r.resumed, r.rebuild, Added(r.class, "owning"))
    BY <1>1, ClassedMakes DEF Sound
  <2> DEFINE told == ApplySessionMeta(fact(r), l)
  <2> HIDE DEF told
  <2> DEFINE base == ParserOf(r.owner, r.machine, r.fact, r.resumed, r.rebuild,
                              Added(r.class, "owning"))
             after == machine(r)
  <2> HIDE DEF base, after
  <2>5. Push(r, l, n) = [base EXCEPT !.machine = after, !.fact = told]
    BY <2>2, <2>3, <2>4 DEF told, base, after
  <2>6. Push(r, l, n) = ParserOf(r.owner, after, told, r.resumed, r.rebuild, Added(r.class, "owning"))
    BY <2>5 DEF ParserOf, base
  <2> QED BY <2>6 DEF told, after
<1>2. ASSUME NEW r, Sound(lines, r, n - 1)
      PROVE  /\ IsFact(fact(r)) /\ fact(r).owner = Own /\ fact(r).model = r.fact.model
             /\ fact(r).boundary \in {r.fact.boundary, n}
  <2>1. /\ bounded(r) = FactOf(r.fact.owner, r.fact.claims, r.fact.created, r.fact.model,
                               r.fact.replay, n, r.fact.conflict, r.fact.doubtful)
        /\ IsFact(bounded(r))
    <3>1. bounded(r) = FactOf(r.fact.owner, r.fact.claims, r.fact.created, r.fact.model,
                               r.fact.replay, n, r.fact.conflict, r.fact.doubtful)
      BY <1>2, FactUpdates DEF Sound
    <3> HIDE DEF bounded
    <3>2. IsFact(bounded(r))
      BY <1>2, <3>1, FactMade DEF Sound, IsFact
    <3> QED BY <3>1, <3>2
  <2> HIDE DEF bounded
  <2>2. bounded(r).owner = Own /\ bounded(r).model = r.fact.model /\ bounded(r).boundary = n
    BY <1>2, <2>1, FactParts DEF Sound
  <2> QED BY <1>2, <2>1, <2>2 DEF Sound
<1>3. ASSUME NEW r, Sound(lines, p, n - 1), Sound(lines, r, n - 1), Alike(p.fact, r.fact)
      PROVE  Alike(fact(p), fact(r))
  <2>1. p.machine = "replayed" <=> r.machine = "replayed"
    BY <1>3 DEF Sound
  <2>2. Alike(bounded(p), bounded(r))
    <3>1. /\ bounded(p) = FactOf(p.fact.owner, p.fact.claims, p.fact.created, p.fact.model,
                                 p.fact.replay, n, p.fact.conflict, p.fact.doubtful)
          /\ bounded(r) = FactOf(r.fact.owner, r.fact.claims, r.fact.created, r.fact.model,
                                 r.fact.replay, n, r.fact.conflict, r.fact.doubtful)
      BY <1>3, FactUpdates DEF Sound
    <3> HIDE DEF bounded
    <3> QED BY <1>3, <3>1, FactParts DEF Alike
  <2> HIDE DEF bounded
  <2>3. p.fact.boundary = r.fact.boundary /\ p.fact.replay = r.fact.replay
    BY <1>3 DEF Alike
  <2> QED BY <1>3, <2>1, <2>2, <2>3
<1> HIDE DEF bounded, fact
<1>4. \A r : /\ q(r).owner = r.owner /\ q(r).machine = machine(r) /\ q(r).resumed = r.resumed
             /\ q(r).fact = ApplySessionMeta(fact(r), l) /\ q(r).rebuild = r.rebuild
             /\ q(r).class = Added(r.class, "owning") /\ IsParser(q(r))
  BY ParserParts, ParserMade
<1> HIDE DEF q
<1>5. OfOwn(l) /\ ClassOf(l) = "owning" /\ ~ Foreign(lines, n)
  BY RolloutAssumption DEF OfOwn, ClassOf, Foreign
<1>6. Step(lines, p, q(p), n)
  <2> DEFINE f == ApplySessionMeta(fact(p), l)
  <2>1. IsFact(f) /\ f.owner = Own /\ f.model = p.fact.model /\ f.boundary \in {p.fact.boundary, n}
    <3>1. Untouched(fact(p), f)
      BY <1>2, SessionMetaHolds
    <3> HIDE DEF f
    <3> QED BY <1>2, <3>1 DEF Untouched
  <2> HIDE DEF f
  <2>2. q(p).machine \in {"bootstrap", "live"}
    BY <1>4 DEF Sound
  <2>3. Sound(lines, q(p), n)
    BY <1>4, <1>5, <2>1, <2>2 DEF Sound, f
  <2> QED BY <1>4, <1>5, <2>1, <2>3 DEF Step, f
<1>7. ASSUME NEW r, Sound(lines, r, n - 1), Alike(p.fact, r.fact)
      PROVE  Alike(q(p).fact, q(r).fact)
  <2>1. IsFact(fact(p)) /\ IsFact(fact(r)) /\ Alike(fact(p), fact(r))
    BY <1>2, <1>3, <1>7
  <2>2. Alike(ApplySessionMeta(fact(p), l), ApplySessionMeta(fact(r), l))
    BY <2>1, SessionMetaHolds
  <2> QED BY <1>4, <2>2
<1> QED BY <1>1, <1>6, <1>7

LEMMA ForeignMetaHolds ==
  ASSUME NEW lines, NEW n \in Nat \ {0}, Goes(lines, n), NEW p, Sound(lines, p, n - 1),
         lines[n].is = "meta", lines[n].of = Other
  PROVE  /\ Step(lines, p, Push(p, lines[n], n), n)
         /\ \A r : Sound(lines, r, n - 1) /\ Alike(p.fact, r.fact) =>
              Alike(Push(p, lines[n], n).fact, Push(r, lines[n], n).fact)
<1> DEFINE l == lines[n]
           replay(r) == IF r.fact.replay = Nowhere THEN n ELSE r.fact.replay
           fact(r) == [r.fact EXCEPT !.replay = replay(r)]
           rebuild(r) == r.rebuild \/ (r.resumed /\ r.machine # "replayed")
           q(r) == ParserOf(r.owner, "replayed", fact(r), r.resumed, rebuild(r),
                            Added(r.class, "replayed"))
<1>1. ASSUME NEW r, Sound(lines, r, n - 1)
      PROVE  Push(r, l, n) = q(r)
  <2>1. Other # None /\ Other # Own /\ r.owner = Own /\ Adopt(r, l) = r
    BY <1>1, RolloutAssumption DEF Sound, Adopt
  <2>2. Push(r, l, n) = ForeignMeta(r, n)
    BY <2>1 DEF Push, SessionMeta
  <2> DEFINE base == ParserOf(r.owner, r.machine, r.fact, r.resumed, r.rebuild,
                              Added(r.class, "replayed"))
  <2>3. Classed(r, "replayed") = base
    BY <1>1, ClassedMakes DEF Sound
  <2>4. base.fact = r.fact /\ base.rebuild = r.rebuild
    BY ParserParts
  <2> HIDE DEF base
  <2>5. ForeignMeta(r, n) =
          [base EXCEPT !.machine = "replayed", !.fact.replay = IF @ = Nowhere THEN n ELSE @,
                       !.rebuild = @ \/ (r.resumed /\ r.machine # "replayed")]
    BY <2>3 DEF ForeignMeta
  <2>6. ForeignMeta(r, n) =
          [base EXCEPT !.machine = "replayed", !.fact = fact(r), !.rebuild = rebuild(r)]
    BY <2>4, <2>5
  <2> HIDE DEF fact, rebuild
  <2> QED BY <2>2, <2>6 DEF ParserOf, base
<1>2. ASSUME NEW r, Sound(lines, r, n - 1)
      PROVE  /\ fact(r) = FactOf(r.fact.owner, r.fact.claims, r.fact.created, r.fact.model,
                                 replay(r), r.fact.boundary, r.fact.conflict, r.fact.doubtful)
             /\ IsFact(fact(r))
  <2> HIDE DEF replay
  <2>1. fact(r) = FactOf(r.fact.owner, r.fact.claims, r.fact.created, r.fact.model,
                         replay(r), r.fact.boundary, r.fact.conflict, r.fact.doubtful)
    BY <1>2, FactUpdates DEF Sound
  <2> HIDE DEF fact
  <2> QED BY <1>2, <2>1, FactMade DEF Sound, IsFact
<1>3. \A r : Alike(p.fact, r.fact) => replay(r) = replay(p)
  BY DEF Alike
<1> HIDE DEF fact, replay
<1>4. \A r : /\ q(r).owner = r.owner /\ q(r).machine = "replayed" /\ q(r).resumed = r.resumed
             /\ q(r).fact = fact(r) /\ q(r).rebuild = rebuild(r)
             /\ q(r).class = Added(r.class, "replayed") /\ IsParser(q(r))
  BY ParserParts, ParserMade
<1> HIDE DEF q
<1>5. ~ OfOwn(l) /\ ClassOf(l) = "replayed" /\ Foreign(lines, n)
  BY RolloutAssumption DEF OfOwn, ClassOf, Foreign
<1>6. Step(lines, p, q(p), n)
  <2>1. /\ IsFact(fact(p)) /\ fact(p).owner = Own /\ fact(p).model = p.fact.model
        /\ fact(p).boundary = p.fact.boundary
    BY <1>2, FactParts DEF Sound
  <2>2. Sound(lines, q(p), n)
    BY <1>4, <1>5, <2>1 DEF Sound
  <2> QED BY <1>4, <1>5, <2>1, <2>2 DEF Step
<1>7. ASSUME NEW r, Sound(lines, r, n - 1), Alike(p.fact, r.fact)
      PROVE  Alike(q(p).fact, q(r).fact)
  <2>1. Alike(fact(p), fact(r))
    BY <1>2, <1>3, <1>7, FactParts DEF Alike
  <2> QED BY <1>4, <2>1
<1> QED BY <1>1, <1>6, <1>7
LEMMA TurnHolds ==
  ASSUME NEW lines, NEW n \in Nat \ {0}, Goes(lines, n), NEW p, Sound(lines, p, n - 1),
         lines[n].is = "turn"
  PROVE  /\ Step(lines, p, Push(p, lines[n], n), n)
         /\ \A r : Sound(lines, r, n - 1) /\ Alike(p.fact, r.fact) =>
              Alike(Push(p, lines[n], n).fact, Push(r, lines[n], n).fact)
<1> DEFINE l == lines[n]
           back(r) == r.machine = "replayed" /\ EndsReplay(r, l.turn)
           bounded(r) == [r.fact EXCEPT !.boundary = n]
           machine(r) == IF back(r) THEN "live" ELSE r.machine
           fact(r) == IF back(r) THEN bounded(r) ELSE r.fact
           class == IF OfOwn(l) THEN "owning" ELSE "replayed"
           told(r) == IF OfOwn(l) /\ l.turn # None THEN ApplyTurnContext(fact(r), l, n) ELSE fact(r)
           q(r) == ParserOf(r.owner, machine(r), told(r), r.resumed, r.rebuild, Added(r.class, class))
<1>1. l.turn # None => l.turn.v7 \in BOOLEAN /\ l.turn.time \in Nat /\ Born[Own] \in Nat
  BY LinesAssumption DEF Goes
<1>2. OfOwn(l) <=> (l.turn = None \/ l.turn.time >= Born[Own])
  BY DEF OfOwn
<1>3. n > 1
  BY DEF Goes
<1>4. ASSUME NEW r, Sound(lines, r, n - 1)
      PROVE  /\ back(r) <=> Foreign(lines, n - 1) /\ OfOwn(l)
             /\ machine(r) \in {"bootstrap", "live", "replayed"}
             /\ machine(r) = "replayed" <=> ~ OfOwn(l)
  <2>1. EndsReplay(r, l.turn) <=> l.turn # None /\ l.turn.v7 /\ l.turn.time >= Born[Own]
    BY <1>4 DEF Sound, EndsReplay
  <2>2. r.machine = "replayed" <=> Foreign(lines, n - 1)
    BY <1>4 DEF Sound
  <2>3. Foreign(lines, n - 1) => (OfOwn(l) => l.turn # None /\ l.turn.v7)
    BY DEF Goes
  <2>4. ~ Foreign(lines, n - 1) => OfOwn(l)
    BY <1>3 DEF Goes
  <2>5. back(r) <=> Foreign(lines, n - 1) /\ OfOwn(l)
    BY <1>1, <1>2, <2>1, <2>2, <2>3
  <2>6. r.machine \in {"bootstrap", "live", "replayed"}
    BY <1>4 DEF Sound
  <2> HIDE DEF back
  <2> QED BY <2>2, <2>4, <2>5, <2>6
<1>5. ASSUME NEW r, Sound(lines, r, n - 1)
      PROVE  /\ bounded(r) = FactOf(r.fact.owner, r.fact.claims, r.fact.created, r.fact.model,
                                    r.fact.replay, n, r.fact.conflict, r.fact.doubtful)
             /\ IsFact(bounded(r))
  <2>1. bounded(r) = FactOf(r.fact.owner, r.fact.claims, r.fact.created, r.fact.model,
                            r.fact.replay, n, r.fact.conflict, r.fact.doubtful)
    BY <1>5, FactUpdates DEF Sound
  <2> HIDE DEF bounded
  <2> QED BY <1>5, <2>1, FactMade DEF Sound, IsFact
<1>6. ASSUME NEW r, Sound(lines, r, n - 1)
      PROVE  Push(r, l, n) = q(r)
  <2> DEFINE moved == IF back(r) THEN [r EXCEPT !.machine = "live", !.fact.boundary = n] ELSE r
             kept == ParserOf(r.owner, machine(r), fact(r), r.resumed, r.rebuild, r.class)
             base == ParserOf(r.owner, machine(r), fact(r), r.resumed, r.rebuild, Added(r.class, class))
  <2>1. moved = kept
    <3>1. r = ParserOf(r.owner, r.machine, r.fact, r.resumed, r.rebuild, r.class)
      BY <1>6 DEF Sound, IsParser
    <3>2. CASE back(r)
      <4>1. moved = [r EXCEPT !.machine = "live", !.fact = bounded(r)]
        BY <3>2
      <4>2. machine(r) = "live" /\ fact(r) = bounded(r)
        BY <3>2
      <4> HIDE DEF bounded, machine, fact, moved, back
      <4> QED BY <3>1, <4>1, <4>2 DEF ParserOf
    <3>3. CASE ~ back(r)
      <4>1. moved = r /\ machine(r) = r.machine /\ fact(r) = r.fact
        BY <3>3
      <4> HIDE DEF machine, fact, moved, back
      <4> QED BY <3>1, <4>1
    <3> QED BY <3>2, <3>3
  <2>2. kept.machine = machine(r) /\ IsParser(kept) /\ DefaultClass(kept) = class
    <3>1. kept.machine = machine(r)
      BY ParserParts
    <3>2. IsParser(kept)
      BY ParserMade
    <3>3. machine(r) # "await" /\ (machine(r) = "replayed" <=> ~ OfOwn(l))
      BY <1>4, <1>6
    <3> HIDE DEF kept, machine
    <3> QED BY <3>1, <3>2, <3>3 DEF DefaultClass
  <2>3. Classed(kept, class) = base
    <3>1. /\ kept.owner = r.owner /\ kept.machine = machine(r) /\ kept.fact = fact(r)
          /\ kept.resumed = r.resumed /\ kept.rebuild = r.rebuild /\ kept.class = r.class
      BY ParserParts
    <3> HIDE DEF kept, machine, fact, class
    <3> QED BY <2>2, <3>1, ClassedMakes
  <2>4. Owns(machine(r)) <=> OfOwn(l)
    <3> HIDE DEF machine
    <3> QED BY <1>4, <1>6 DEF Owns
  <2>5. Push(r, l, n) = IF OfOwn(l) /\ l.turn # None
                        THEN [base EXCEPT !.fact = ApplyTurnContext(@, l, n)] ELSE base
    <3>1. Push(r, l, n) = TurnContext(r, l, n)
      BY DEF Push
    <3>2. TurnContext(r, l, n) =
            IF Owns(moved.machine) /\ l.turn # None
            THEN [Classed(moved, DefaultClass(moved)) EXCEPT !.fact = ApplyTurnContext(@, l, n)]
            ELSE Classed(moved, DefaultClass(moved))
      BY DEF TurnContext
    <3> HIDE DEF moved, kept, base, machine, fact, class
    <3> QED BY <2>1, <2>2, <2>3, <2>4, <3>1, <3>2
  <2>6. base.fact = fact(r)
    BY ParserParts
  <2>7. CASE OfOwn(l) /\ l.turn # None
    <3> DEFINE context == ApplyTurnContext(fact(r), l, n)
    <3>1. told(r) = context
      BY <2>7
    <3> HIDE DEF context, told, base
    <3>2. Push(r, l, n) = [base EXCEPT !.fact = context]
      BY <2>5, <2>6, <2>7 DEF context
    <3> HIDE DEF machine, fact, class
    <3>3. [base EXCEPT !.fact = context] =
            ParserOf(r.owner, machine(r), context, r.resumed, r.rebuild, Added(r.class, class))
      BY DEF base, ParserOf
    <3> QED BY <3>1, <3>2, <3>3
  <2>8. CASE ~ (OfOwn(l) /\ l.turn # None)
    <3>1. told(r) = fact(r)
      BY <2>8
    <3> HIDE DEF told, machine, fact, class
    <3> QED BY <2>5, <2>8, <3>1
  <2> QED BY <2>7, <2>8
<1>7. ASSUME NEW r, Sound(lines, r, n - 1)
      PROVE  /\ IsFact(fact(r)) /\ fact(r).owner = Own /\ fact(r).model = r.fact.model
             /\ fact(r).boundary = r.fact.boundary \/ (fact(r).boundary = n /\ OfOwn(l))
  <2>1. bounded(r).owner = Own /\ bounded(r).model = r.fact.model /\ bounded(r).boundary = n
    <3> HIDE DEF bounded
    <3> QED BY <1>5, <1>7, FactParts DEF Sound
  <2>2. back(r) => OfOwn(l)
    BY <1>4, <1>7
  <2>3. IsFact(bounded(r))
    BY <1>5, <1>7
  <2> HIDE DEF bounded, back
  <2> QED BY <1>7, <2>1, <2>2, <2>3 DEF Sound
<1>8. ASSUME NEW r, Sound(lines, r, n - 1)
      PROVE  /\ IsFact(told(r)) /\ told(r).owner = Own /\ told(r).model.line \in 0..n
             /\ told(r).boundary = r.fact.boundary \/ (told(r).boundary = n /\ OfOwn(l))
  <2>1. r.fact.model.line \in 0..(n - 1) /\ 0..(n - 1) \subseteq 0..n
    BY <1>8 DEF Sound
  <2> HIDE DEF fact
  <2>2. /\ IsFact(ApplyTurnContext(fact(r), l, n)) /\ ApplyTurnContext(fact(r), l, n).owner = Own
        /\ ApplyTurnContext(fact(r), l, n).boundary = fact(r).boundary
        /\ ApplyTurnContext(fact(r), l, n).model.line \in 0..n
    BY <1>7, <1>8, <2>1, TurnContextHolds
  <2> QED BY <1>7, <1>8, <2>1, <2>2
<1>9. ASSUME NEW r, Sound(lines, p, n - 1), Sound(lines, r, n - 1), Alike(p.fact, r.fact)
      PROVE  Alike(told(p), told(r))
  <2>1. Alike(bounded(p), bounded(r))
    <3> HIDE DEF bounded
    <3> QED BY <1>5, <1>9, FactParts DEF Alike
  <2>2. back(p) <=> back(r)
    BY <1>4, <1>9
  <2> HIDE DEF bounded, back
  <2>3. Alike(fact(p), fact(r))
    BY <1>9, <2>1, <2>2
  <2>4. /\ IsFact(fact(p)) /\ IsFact(fact(r))
        /\ fact(p).model.line \in 0..(n - 1) /\ fact(r).model.line \in 0..(n - 1)
    BY <1>7, <1>9 DEF Sound
  <2> HIDE DEF fact
  <2>5. Alike(ApplyTurnContext(fact(p), l, n), ApplyTurnContext(fact(r), l, n))
    BY <2>3, <2>4, TurnContextHolds
  <2> QED BY <2>3, <2>5
<1> HIDE DEF told, machine, class
<1>10. \A r : /\ q(r).owner = r.owner /\ q(r).machine = machine(r) /\ q(r).resumed = r.resumed
              /\ q(r).fact = told(r) /\ q(r).rebuild = r.rebuild
              /\ q(r).class = Added(r.class, class) /\ IsParser(q(r))
  BY ParserParts, ParserMade
<1> HIDE DEF q
<1>11. ClassOf(l) = class /\ (Foreign(lines, n) <=> ~ OfOwn(l))
  BY DEF ClassOf, Foreign, class
<1>12. Step(lines, p, q(p), n)
  <2>1. Sound(lines, q(p), n)
    <3>1. IsFact(told(p)) /\ told(p).owner = Own /\ told(p).model.line \in 0..n
      BY <1>8
    <3>2. machine(p) \in {"bootstrap", "live", "replayed"} /\ (machine(p) = "replayed" <=> ~ OfOwn(l))
      BY <1>4
    <3>3. p.owner = Own
      BY DEF Sound
    <3> QED BY <1>10, <1>11, <3>1, <3>2, <3>3 DEF Sound
  <2>2. told(p).boundary = p.fact.boundary \/ (told(p).boundary = n /\ OfOwn(l))
    BY <1>8
  <2>3. OfOwn(l) => class = "owning"
    BY DEF class
  <2> QED BY <1>10, <1>11, <2>1, <2>2, <2>3 DEF Step
<1> QED BY <1>6, <1>9, <1>10, <1>12

LEMMA OpaqueHolds ==
  ASSUME NEW lines, NEW n \in Nat \ {0}, Goes(lines, n), NEW p, Sound(lines, p, n - 1),
         lines[n].is # "meta", lines[n].is # "turn"
  PROVE  Step(lines, p, Push(p, lines[n], n), n) /\ Push(p, lines[n], n).fact = p.fact
<1> DEFINE l == lines[n]
           class == IF OfOwn(l) THEN "owning" ELSE "replayed"
           q == ParserOf(p.owner, p.machine, p.fact, p.resumed, p.rebuild, Added(p.class, class))
<1>1. n > 1 /\ (Foreign(lines, n - 1) <=> ~ OfOwn(l)) /\ (Foreign(lines, n) <=> ~ OfOwn(l))
  BY DEF Goes, Foreign
<1>2. DefaultClass(p) = class
  BY <1>1 DEF Sound, DefaultClass
<1>3. Push(p, l, n) = q
  BY <1>2, ClassedMakes DEF Push, OpaqueLine, Sound
<1> HIDE DEF class
<1>4. /\ q.owner = p.owner /\ q.machine = p.machine /\ q.fact = p.fact /\ q.resumed = p.resumed
      /\ q.rebuild = p.rebuild /\ q.class = Added(p.class, class) /\ IsParser(q)
  BY ParserParts, ParserMade
<1> HIDE DEF q
<1>5. Sound(lines, q, n)
  BY <1>1, <1>4 DEF Sound
<1>6. ClassOf(l) = class
  BY DEF ClassOf, class
<1> QED BY <1>3, <1>4, <1>5, <1>6 DEF Step

\* Any line, to two parsers of which one may have been resumed.
LEMMA PushHolds ==
  ASSUME NEW lines, NEW n \in Nat \ {0}, Goes(lines, n), NEW p, Sound(lines, p, n - 1)
  PROVE  /\ Step(lines, p, Push(p, lines[n], n), n)
         /\ \A r : Sound(lines, r, n - 1) /\ Alike(p.fact, r.fact) =>
              Alike(Push(p, lines[n], n).fact, Push(r, lines[n], n).fact)
<1>1. lines[n].is = "meta" => lines[n].of \in {Own, Other, None}
  BY LinesAssumption DEF Goes
<1>2. CASE lines[n].is = "meta" /\ lines[n].of = None
  BY <1>2, UnknownMetaHolds
<1>3. CASE lines[n].is = "meta" /\ lines[n].of = Own
  BY <1>3, OwnMetaHolds
<1>4. CASE lines[n].is = "meta" /\ lines[n].of = Other
  BY <1>4, ForeignMetaHolds
<1>5. CASE lines[n].is = "turn"
  BY <1>5, TurnHolds
<1>6. CASE lines[n].is # "meta" /\ lines[n].is # "turn"
  BY <1>6, OpaqueHolds
<1> QED BY <1>1, <1>2, <1>3, <1>4, <1>5, <1>6
------------------------------------------------------------------------------
(* Many lines. *)

LEMMA RangeInduction ==
  ASSUME NEW from \in Nat, NEW to \in Nat, from <= to, NEW S, from \in S,
         \A n \in from..(to - 1) : n \in S => n + 1 \in S
  PROVE  to \in S
<1> DEFINE T == {k \in Nat : from + k <= to => from + k \in S}
<1>1. 0 \in T
  OBVIOUS
<1>2. ASSUME NEW k \in T
      PROVE  k + 1 \in T
  <2> SUFFICES ASSUME from + (k + 1) <= to
               PROVE  from + (k + 1) \in S
    OBVIOUS
  <2>1. from + k \in from..(to - 1) /\ from + k <= to /\ from + (k + 1) = (from + k) + 1
    OBVIOUS
  <2> QED BY <2>1
<1>3. to - from \in Nat /\ from + (to - from) = to /\ T \subseteq Nat
  OBVIOUS
<1> HIDE DEF T
<1>4. T = Nat
  BY <1>1, <1>2, <1>3, Induction
<1>5. to - from \in T
  BY <1>3, <1>4
<1>6. from + (to - from) \in S
  BY <1>3, <1>5 DEF T
<1> QED BY <1>3, <1>6

Ownerships == {"unknown", "owning", "replayed"}

LEMMA AddedParts ==
  ASSUME NEW s \in Seq(Ownerships), NEW c \in Ownerships
  PROVE  /\ Added(s, c) \in Seq(Ownerships) /\ Len(Added(s, c)) = Len(s) + 1
         /\ \A i \in 1..Len(s) : Added(s, c)[i] = s[i]
         /\ Added(s, c)[Len(s) + 1] = c
BY DEF Added

\* What a reader from one line to another knows at the end.
Reached(lines, p, from, q, to) ==
  /\ Sound(lines, q, to)
  /\ q.class \in Seq(Ownerships) /\ Len(q.class) = to - from
  /\ \A n \in (from + 1)..to : q.class[n - from] = ClassOf(lines[n])
  /\ \/ q.fact.boundary = p.fact.boundary
     \/ q.fact.boundary \in (from + 1)..to /\ ClassOf(lines[q.fact.boundary]) = "owning"
  /\ ~ p.resumed /\ ~ p.rebuild => ~ q.resumed /\ ~ q.rebuild

LEMMA ReachedStep ==
  ASSUME NEW lines, NEW p, NEW from \in Nat, NEW n \in Nat, from <= n, NEW q, NEW r,
         Reached(lines, p, from, q, n), Step(lines, q, r, n + 1)
  PROVE  Reached(lines, p, from, r, n + 1)
<1>1. ClassOf(lines[n + 1]) \in Ownerships
  BY DEF ClassOf, Ownerships
<1>2. /\ q.class \in Seq(Ownerships) /\ Len(q.class) = n - from
      /\ r.class = Added(q.class, ClassOf(lines[n + 1]))
  BY DEF Reached, Step
<1> DEFINE s == q.class
           c == ClassOf(lines[n + 1])
<1>3. /\ Added(s, c) \in Seq(Ownerships) /\ Len(Added(s, c)) = Len(s) + 1
      /\ \A i \in 1..Len(s) : Added(s, c)[i] = s[i]
      /\ Added(s, c)[Len(s) + 1] = c
  <2> HIDE DEF s, c
  <2>1. s \in Seq(Ownerships) /\ c \in Ownerships
    BY <1>1, <1>2 DEF s, c
  <2> QED BY <2>1, AddedParts
<1>4. r.class \in Seq(Ownerships) /\ Len(r.class) = (n - from) + 1
  BY <1>2, <1>3
<1>5. ASSUME NEW k \in (from + 1)..(n + 1)
      PROVE  r.class[k - from] = ClassOf(lines[k])
  <2>1. CASE k = n + 1
    <3>1. k - from = Len(q.class) + 1
      BY <1>2, <2>1
    <3> QED BY <1>2, <1>3, <2>1, <3>1
  <2>2. CASE k # n + 1
    <3>1. k \in (from + 1)..n /\ k - from \in 1..Len(q.class)
      BY <1>2, <2>2
    <3>2. q.class[k - from] = ClassOf(lines[k])
      BY <3>1 DEF Reached
    <3> QED BY <1>2, <1>3, <3>1, <3>2
  <2> QED BY <2>1, <2>2
<1>6. \/ r.fact.boundary = p.fact.boundary
      \/ r.fact.boundary \in (from + 1)..(n + 1) /\ ClassOf(lines[r.fact.boundary]) = "owning"
  <2>1. (from + 1)..n \subseteq (from + 1)..(n + 1) /\ n + 1 \in (from + 1)..(n + 1)
    OBVIOUS
  <2>2. \/ r.fact.boundary = q.fact.boundary
        \/ r.fact.boundary = n + 1 /\ ClassOf(lines[n + 1]) = "owning"
    BY DEF Step
  <2>3. \/ q.fact.boundary = p.fact.boundary
        \/ q.fact.boundary \in (from + 1)..n /\ ClassOf(lines[q.fact.boundary]) = "owning"
    BY DEF Reached
  <2> QED BY <2>1, <2>2, <2>3
<1>7. (n - from) + 1 = (n + 1) - from
  OBVIOUS
<1> QED BY <1>4, <1>5, <1>6, <1>7 DEF Reached, Step

LEMMA ReadHolds ==
  ASSUME NEW lines, NEW p, NEW from \in Nat, NEW to \in Nat, from <= to,
         \A n \in (from + 1)..to : Goes(lines, n), Sound(lines, p, from), p.class = <<>>
  PROVE  Reached(lines, p, from, Read(lines, p, from, to), to)
<1> DEFINE S == {n \in from..to : Reached(lines, p, from, Read(lines, p, from, n), n)}
<1>1. from \in S
  <2>1. Read(lines, p, from, from) = p
    BY ReadNothing
  <2>2. <<>> \in Seq(Ownerships) /\ Len(<<>>) = 0
    OBVIOUS
  <2>3. Reached(lines, p, from, p, from)
    BY <2>2 DEF Reached
  <2> QED BY <2>1, <2>3
<1>2. ASSUME NEW n \in from..(to - 1), n \in S
      PROVE  n + 1 \in S
  <2> DEFINE q == Read(lines, p, from, n)
  <2>1. n \in Nat /\ n + 1 \in Nat \ {0} /\ from < n + 1 /\ (n + 1) - 1 = n /\ n + 1 \in (from + 1)..to
        /\ from <= n /\ n + 1 \in from..to
    OBVIOUS
  <2>2. Read(lines, p, from, n + 1) = Push(q, lines[n + 1], n + 1)
    <3>1. Read(lines, p, from, n + 1) = Push(Read(lines, p, from, (n + 1) - 1), lines[n + 1], n + 1)
      BY <2>1, ReadOneMore
    <3> QED BY <2>1, <3>1
  <2>3. Reached(lines, p, from, q, n)
    BY <1>2
  <2> HIDE DEF q
  <2>4. Step(lines, q, Push(q, lines[n + 1], n + 1), n + 1)
    BY <2>1, <2>3, PushHolds DEF Reached
  <2>5. Reached(lines, p, from, Push(q, lines[n + 1], n + 1), n + 1)
    BY <2>1, <2>3, <2>4, ReachedStep
  <2> QED BY <2>1, <2>2, <2>5
<1> HIDE DEF S
<1>3. to \in S
  BY <1>1, <1>2, RangeInduction
<1> QED BY <1>3 DEF S

\* A reader that goes on where another has got to finds the same fact.
LEMMA ReadAlike ==
  ASSUME NEW lines, NEW p, NEW r, NEW start \in Nat, NEW from \in Nat, NEW to \in Nat,
         start <= from, from <= to, \A n \in (from + 1)..to : Goes(lines, n),
         Sound(lines, Read(lines, p, start, from), from), Sound(lines, r, from),
         Alike(Read(lines, p, start, from).fact, r.fact)
  PROVE  /\ Sound(lines, Read(lines, p, start, to), to)
         /\ Sound(lines, Read(lines, r, from, to), to)
         /\ Alike(Read(lines, p, start, to).fact, Read(lines, r, from, to).fact)
<1> DEFINE Same(n) == /\ Sound(lines, Read(lines, p, start, n), n)
                      /\ Sound(lines, Read(lines, r, from, n), n)
                      /\ Alike(Read(lines, p, start, n).fact, Read(lines, r, from, n).fact)
           S == {n \in from..to : Same(n)}
<1>1. from \in S
  BY ReadNothing
<1>2. ASSUME NEW n \in from..(to - 1), n \in S
      PROVE  n + 1 \in S
  <2> DEFINE a == Read(lines, p, start, n)
             b == Read(lines, r, from, n)
  <2>1. n \in Nat /\ n + 1 \in Nat \ {0} /\ from < n + 1 /\ start < n + 1 /\ (n + 1) - 1 = n
        /\ n + 1 \in (from + 1)..to /\ n + 1 \in from..to
    OBVIOUS
  <2>2. /\ Read(lines, p, start, n + 1) = Push(a, lines[n + 1], n + 1)
        /\ Read(lines, r, from, n + 1) = Push(b, lines[n + 1], n + 1)
    <3>1. Read(lines, p, start, n + 1) = Push(Read(lines, p, start, (n + 1) - 1), lines[n + 1], n + 1)
      BY <2>1, ReadOneMore
    <3>2. Read(lines, r, from, n + 1) = Push(Read(lines, r, from, (n + 1) - 1), lines[n + 1], n + 1)
      BY <2>1, ReadOneMore
    <3> QED BY <2>1, <3>1, <3>2
  <2>3. Sound(lines, a, n) /\ Sound(lines, b, n) /\ Alike(a.fact, b.fact)
    BY <1>2
  <2> HIDE DEF a, b
  <2>4. /\ Step(lines, a, Push(a, lines[n + 1], n + 1), n + 1)
        /\ Step(lines, b, Push(b, lines[n + 1], n + 1), n + 1)
        /\ Alike(Push(a, lines[n + 1], n + 1).fact, Push(b, lines[n + 1], n + 1).fact)
    BY <2>1, <2>3, PushHolds
  <2>5. Same(n + 1)
    BY <2>2, <2>4 DEF Step
  <2> QED BY <2>1, <2>5
<1> HIDE DEF S
<1>3. to \in S
  BY <1>1, <1>2, RangeInduction
<1> QED BY <1>3 DEF S
\* Only the lines read matter.
LEMMA ReadSame ==
  ASSUME NEW lines, NEW other, NEW p, NEW from \in Nat, NEW to \in Nat, from <= to,
         \A n \in (from + 1)..to : lines[n] = other[n]
  PROVE  Read(lines, p, from, to) = Read(other, p, from, to)
<1> DEFINE S == {n \in from..to : Read(lines, p, from, n) = Read(other, p, from, n)}
<1>1. from \in S
  BY ReadNothing
<1>2. ASSUME NEW n \in from..(to - 1), n \in S
      PROVE  n + 1 \in S
  <2>1. n \in Nat /\ n + 1 \in Nat /\ from < n + 1 /\ (n + 1) - 1 = n /\ n + 1 \in (from + 1)..to
        /\ n + 1 \in from..to
    OBVIOUS
  <2>2. Read(lines, p, from, n + 1) = Push(Read(lines, p, from, (n + 1) - 1), lines[n + 1], n + 1)
    BY <2>1, ReadOneMore
  <2>3. Read(other, p, from, n + 1) = Push(Read(other, p, from, (n + 1) - 1), other[n + 1], n + 1)
    BY <2>1, ReadOneMore
  <2>4. lines[n + 1] = other[n + 1] /\ Read(lines, p, from, n) = Read(other, p, from, n)
    BY <1>2, <2>1
  <2> QED BY <2>1, <2>2, <2>3, <2>4
<1> HIDE DEF S
<1>3. to \in S
  BY <1>1, <1>2, RangeInduction
<1> QED BY <1>3 DEF S

------------------------------------------------------------------------------
(* Reading from the first line. *)

Straight(lines, n) == Read(lines, FromStart(Own), 0, n)

LEMMA EmptyIsFact ==
  IsFact(EmptyFact(Own)) /\ EmptyFact(Own).owner = Own /\ EmptyFact(Own).model.line = 0
    /\ EmptyFact(Own).boundary = Nowhere
BY DEF EmptyFact, IsFact, FactOf, NoModel, ModelOf, Nowhere

LEMMA StartIs ==
  FromStart(Own) = ParserOf(Own, "bootstrap", EmptyFact(Own), FALSE, FALSE, <<>>)
<1>1. External(Own) = Own /\ Own # None /\ Disputed(Own) = FALSE
  BY RolloutAssumption DEF External, Disputed
<1>2. FromStart(Own) = Parser(Own, Own, "bootstrap", EmptyFact(Own), FALSE, FALSE)
  BY <1>1 DEF FromStart
<1>3. (FALSE \/ Disputed(Own)) = FALSE
  BY <1>1
<1> QED BY <1>2, <1>3 DEF Parser, ParserOf

LEMMA StartHolds ==
  ASSUME NEW lines
  PROVE  /\ Sound(lines, FromStart(Own), 0) /\ FromStart(Own).class = <<>>
         /\ FromStart(Own).fact = EmptyFact(Own)
         /\ ~ FromStart(Own).resumed /\ ~ FromStart(Own).rebuild
<1> DEFINE p == ParserOf(Own, "bootstrap", EmptyFact(Own), FALSE, FALSE, <<>>)
<1>1. /\ p.owner = Own /\ p.machine = "bootstrap" /\ p.fact = EmptyFact(Own) /\ p.resumed = FALSE
      /\ p.rebuild = FALSE /\ p.class = <<>> /\ IsParser(p)
  BY DEF ParserOf, IsParser
<1> HIDE DEF p
<1>2. ~ Foreign(lines, 0)
  BY DEF Foreign
<1>3. Sound(lines, p, 0)
  BY <1>1, <1>2, EmptyIsFact DEF Sound
<1> QED BY <1>1, <1>3, StartIs DEF p

\* What a single reading of the file finds.
LEMMA StraightHolds ==
  ASSUME NEW lines, NEW to \in Nat, \A n \in 1..to : Goes(lines, n)
  PROVE  /\ Sound(lines, Straight(lines, to), to) /\ ~ Straight(lines, to).rebuild
         /\ \A n \in 1..to : Straight(lines, to).class[n] = ClassOf(lines[n])
         /\ \/ Straight(lines, to).fact.boundary = Nowhere
            \/ /\ Straight(lines, to).fact.boundary \in 1..to
               /\ ClassOf(lines[Straight(lines, to).fact.boundary]) = "owning"
<1> DEFINE p == FromStart(Own)
           q == Straight(lines, to)
<1>1. Reached(lines, p, 0, q, to)
  <2>1. 0 \in Nat /\ 0 <= to /\ 0 + 1 = 1
    OBVIOUS
  <2> QED BY <2>1, StartHolds, ReadHolds DEF Straight
<1>2. p.fact.boundary = Nowhere /\ ~ p.resumed /\ ~ p.rebuild
  BY StartHolds, EmptyIsFact
<1> HIDE DEF p, q
<1>3. \A n \in 1..to : n - 0 = n
  OBVIOUS
<1>4. 0 + 1 = 1
  OBVIOUS
<1>5. Sound(lines, q, to) /\ ~ q.rebuild /\ \A n \in 1..to : q.class[n] = ClassOf(lines[n])
  BY <1>1, <1>2, <1>3, <1>4 DEF Reached
<1>6. \/ q.fact.boundary = Nowhere
      \/ q.fact.boundary \in 1..to /\ ClassOf(lines[q.fact.boundary]) = "owning"
  BY <1>1, <1>2, <1>4 DEF Reached
<1> QED BY <1>5, <1>6 DEF q

\* A reader told nothing of the owner knows it from the first line.
LEMMA FirstLine ==
  ASSUME NEW lines, Goes(lines, 1), NEW who \in {None, Own}
  PROVE  \/ FromStart(who) = FromStart(Own)
         \/ /\ FromStart(who).fact = None
            /\ Push(FromStart(who), lines[1], 1) = Push(FromStart(Own), lines[1], 1)
<1>1. CASE who = Own
  BY <1>1
<1>2. CASE who = None /\ Named
  <2>1. External(None) = Own /\ Disputed(None) = FALSE /\ External(Own) = Own /\ Disputed(Own) = FALSE
    BY <1>2, RolloutAssumption DEF External, Disputed
  <2>2. Own # None
    BY RolloutAssumption
  <2> QED BY <1>2, <2>1, <2>2 DEF FromStart, Parser
<1>3. CASE who = None /\ ~ Named
  <2> DEFINE p == ParserOf(None, "await", None, FALSE, FALSE, <<>>)
             q == FromStart(Own)
             l == lines[1]
  <2>1. FromStart(None) = p
    <3>1. External(None) = None /\ Disputed(None) = FALSE
      BY <1>3, RolloutAssumption DEF External, Disputed
    <3>2. FromStart(None) = Parser(None, None, "await", None, FALSE, FALSE)
      BY <3>1 DEF FromStart
    <3>3. (FALSE \/ Disputed(None)) = FALSE
      BY <3>1
    <3> QED BY <3>2, <3>3 DEF Parser, ParserOf
  <2>2. l.is = "meta" /\ l.of = Own /\ Own # None
    BY <1>3, RolloutAssumption DEF Goes
  <2>3. p.owner = None /\ p.fact = None
    BY DEF ParserOf
  <2>4. Adopt(p, l) = q
    <3>1. Adopt(p, l) = [p EXCEPT !.owner = l.of, !.fact = EmptyFact(l.of), !.machine = "bootstrap"]
      BY <2>3 DEF Adopt
    <3>2. Adopt(p, l) = [p EXCEPT !.owner = Own, !.fact = EmptyFact(Own), !.machine = "bootstrap"]
      BY <2>2, <3>1
    <3>3. Adopt(p, l) = ParserOf(Own, "bootstrap", EmptyFact(Own), FALSE, FALSE, <<>>)
      BY <3>2 DEF ParserOf
    <3> QED BY <3>3, StartIs
  <2>5. Adopt(q, l) = q /\ q.owner = Own
    BY <2>2, StartHolds DEF Adopt, Sound
  <2> HIDE DEF p, q
  <2>6. SessionMeta(p, l, 1) = OwnMeta(q, l, 1) /\ SessionMeta(q, l, 1) = OwnMeta(q, l, 1)
    BY <2>2, <2>4, <2>5 DEF SessionMeta
  <2>7. Push(p, l, 1) = Push(q, l, 1)
    BY <2>2, <2>6 DEF Push
  <2> QED BY <1>3, <2>1, <2>3, <2>7 DEF q
<1> QED BY <1>1, <1>2, <1>3

LEMMA StartsAlike ==
  ASSUME NEW lines, NEW to \in Nat, \A n \in 1..to : Goes(lines, n), NEW who \in {None, Own}
  PROVE  \/ Read(lines, FromStart(who), 0, to) = Straight(lines, to)
         \/ to = 0 /\ Read(lines, FromStart(who), 0, to).fact = None
<1> DEFINE p == FromStart(who)
           q == FromStart(Own)
<1>1. CASE to = 0
  <2>1. Read(lines, p, 0, to) = p /\ Read(lines, q, 0, to) = q
    BY <1>1, ReadNothing
  <2>2. p = q \/ p.fact = None
    <3>1. who = Own \/ (who = None /\ Named) \/ (who = None /\ ~ Named)
      OBVIOUS
    <3>2. who = None /\ Named => p = q
      BY RolloutAssumption DEF FromStart, Parser, External, Disputed
    <3>3. who = None /\ ~ Named => p.fact = None
      BY RolloutAssumption DEF FromStart, Parser, External, Disputed
    <3> HIDE DEF q
    <3> QED BY <3>1, <3>2, <3>3 DEF q
  <2> QED BY <1>1, <2>1, <2>2 DEF Straight
<1>2. CASE to # 0
  <2> DEFINE S == {n \in 1..to : Read(lines, p, 0, n) = Read(lines, q, 0, n)}
  <2>1. 1 \in S
    <3>1. 1 \in 1..to /\ 1 - 1 = 0 /\ 0 < 1 /\ 1 \in Nat /\ 0 \in Nat
      BY <1>2
    <3>2. /\ Read(lines, p, 0, 1) = Push(Read(lines, p, 0, 1 - 1), lines[1], 1)
          /\ Read(lines, q, 0, 1) = Push(Read(lines, q, 0, 1 - 1), lines[1], 1)
      BY <3>1, ReadOneMore
    <3>3. Read(lines, p, 0, 0) = p /\ Read(lines, q, 0, 0) = q
      BY ReadNothing
    <3>4. Push(p, lines[1], 1) = Push(q, lines[1], 1)
      BY <3>1, FirstLine
    <3> HIDE DEF p, q
    <3> QED BY <3>1, <3>2, <3>3, <3>4
  <2>2. ASSUME NEW n \in 1..(to - 1), n \in S
        PROVE  n + 1 \in S
    <3>1. n + 1 \in Nat /\ 0 < n + 1 /\ (n + 1) - 1 = n /\ n + 1 \in 1..to /\ 0 \in Nat
      OBVIOUS
    <3>2. /\ Read(lines, p, 0, n + 1) = Push(Read(lines, p, 0, (n + 1) - 1), lines[n + 1], n + 1)
          /\ Read(lines, q, 0, n + 1) = Push(Read(lines, q, 0, (n + 1) - 1), lines[n + 1], n + 1)
      BY <3>1, ReadOneMore
    <3>3. Read(lines, p, 0, n) = Read(lines, q, 0, n)
      BY <2>2
    <3> QED BY <3>1, <3>2, <3>3
  <2> HIDE DEF S
  <2>3. to \in S
    <3>1. 1 \in Nat /\ 1 <= to
      BY <1>2
    <3> QED BY <2>1, <2>2, <3>1, RangeInduction
  <2> QED BY <2>3 DEF S, Straight
<1> QED BY <1>1, <1>2
------------------------------------------------------------------------------
(* Reading on from a checkpoint. *)

LEMMA RehydratedHolds ==
  ASSUME NEW f, IsFact(f), NEW through \in Nat, f.model.line \in 0..through
  PROVE  LET g == Rehydrated(f, through)
         IN  IsFact(g) /\ Alike(f, g) /\ g.owner = f.owner /\ g.model.line \in 0..through
<1>1. CASE f.model.value = None
  BY <1>1 DEF Rehydrated, Alike
<1>2. CASE f.model.value # None
  <2> DEFINE m == ModelOf(f.model.value, f.model.turn, f.model.at, through)
             g == FactOf(f.owner, f.claims, f.created, m, f.replay, f.boundary, f.conflict, f.doubtful)
  <2>1. Rehydrated(f, through) = [f EXCEPT !.model.line = through]
    BY <1>2 DEF Rehydrated
  <2>2. [f.model EXCEPT !.line = through] = m
    BY DEF IsFact, ModelOf
  <2>3. Rehydrated(f, through) = [f EXCEPT !.model = [f.model EXCEPT !.line = through]]
    BY <2>1
  <2>4. m.value = f.model.value /\ m.turn = f.model.turn /\ m.at = f.model.at /\ m.line = through
        /\ m = ModelOf(m.value, m.turn, m.at, m.line)
    BY ModelParts
  <2> HIDE DEF m
  <2>5. Rehydrated(f, through) = g
    BY <2>2, <2>3, FactUpdates
  <2>6. IsFact(g)
    BY <2>4, FactMade DEF IsFact
  <2>7. /\ g.owner = f.owner /\ g.claims = f.claims /\ g.created = f.created /\ g.model = m
        /\ g.replay = f.replay /\ g.boundary = f.boundary /\ g.conflict = f.conflict
        /\ g.doubtful = f.doubtful
    BY FactParts
  <2> HIDE DEF g
  <2>8. through \in 0..through
    OBVIOUS
  <2>9. Alike(f, g) /\ g.model.line \in 0..through
    BY <2>4, <2>7, <2>8 DEF Alike
  <2> QED BY <2>5, <2>6, <2>7, <2>9
<1> QED BY <1>1, <1>2

LEMMA ResumedIs ==
  ASSUME NEW who \in {None, Own}, NEW f, f.owner = Own, NEW at
  PROVE  LET p == Resumed(who, f, at)
         IN  p.owner = Own /\ p.machine = at /\ p.fact = f /\ p.class = <<>> /\ IsParser(p)
<1>1. (External(who) \notin {None, Own}) = FALSE /\ Disputed(who) = FALSE
  BY RolloutAssumption DEF External, Disputed
<1>2. Resumed(who, f, at) = Parser(who, Own, at, f, TRUE, External(who) \notin {None, Own})
  BY DEF Resumed
<1>3. ((External(who) \notin {None, Own}) \/ Disputed(who)) = FALSE
  BY <1>1
<1>4. Resumed(who, f, at) = ParserOf(Own, at, f, TRUE, FALSE, <<>>)
  BY <1>2, <1>3 DEF Parser, ParserOf
<1> QED BY <1>4 DEF ParserOf, IsParser

\* A parser resumed where its checkpoint says.
LEMMA ResumedHolds ==
  ASSUME NEW lines, NEW through \in Nat, NEW who \in {None, Own},
         NEW f, IsFact(f), f.owner = Own, f.model.line \in 0..through,
         NEW at \in {"live", "replayed"}, at = "replayed" <=> Foreign(lines, through)
  PROVE  LET r == Resumed(who, f, at)
         IN  Sound(lines, r, through) /\ r.class = <<>> /\ r.fact = f
<1> DEFINE p == Resumed(who, f, at)
<1>1. p.owner = Own /\ p.machine = at /\ p.fact = f /\ p.class = <<>> /\ IsParser(p)
  BY ResumedIs
<1> HIDE DEF p
<1>2. Sound(lines, p, through)
  BY <1>1 DEF Sound
<1> QED BY <1>1, <1>2 DEF p

------------------------------------------------------------------------------
(* The usage reader borrows a fact of other lines; its classes do not depend on it. *)

MachineAfter(machine, l) ==
  CASE l.is = "meta" -> IF l.of = None THEN machine
                        ELSE IF l.of = Own THEN (IF machine = "replayed" THEN "live" ELSE machine)
                        ELSE "replayed"
    [] l.is = "turn" -> IF machine = "replayed" /\ l.turn # None /\ l.turn.v7 /\ l.turn.time >= Born[Own]
                        THEN "live" ELSE machine
    [] OTHER         -> machine

DefaultOf(machine) ==
  IF machine = "await" THEN "unknown" ELSE IF machine = "replayed" THEN "replayed" ELSE "owning"

ClassAfter(machine, l) ==
  IF l.is = "meta" THEN (IF l.of = None THEN "unknown" ELSE IF l.of = Own THEN "owning" ELSE "replayed")
  ELSE DefaultOf(MachineAfter(machine, l))

LEMMA PushRole ==
  ASSUME NEW p, IsParser(p), p.owner = Own, NEW l, NEW n
  PROVE  \E fact, rebuild : Push(p, l, n) =
           ParserOf(Own, MachineAfter(p.machine, l), fact, p.resumed, rebuild,
                    Added(p.class, ClassAfter(p.machine, l)))
<1>1. p = ParserOf(Own, p.machine, p.fact, p.resumed, p.rebuild, p.class)
  BY DEF IsParser
<1>2. \A c : Classed(p, c) = ParserOf(Own, p.machine, p.fact, p.resumed, p.rebuild, Added(p.class, c))
  BY ClassedMakes
<1>3. CASE l.is = "meta" /\ l.of = None
  <2>1. Push(p, l, n) = Classed(p, "unknown")
    BY <1>3 DEF Push, SessionMeta
  <2>2. MachineAfter(p.machine, l) = p.machine /\ ClassAfter(p.machine, l) = "unknown"
    BY <1>3 DEF MachineAfter, ClassAfter
  <2> QED BY <1>2, <2>1, <2>2
<1>4. CASE l.is = "meta" /\ l.of = Own
  <2> DEFINE base == ParserOf(Own, p.machine, p.fact, p.resumed, p.rebuild, Added(p.class, "owning"))
             back == p.machine = "replayed"
             first == p.fact.boundary = Nowhere /\ p.fact.replay = Nowhere
             fact == IF back \/ first THEN [p.fact EXCEPT !.boundary = n] ELSE p.fact
             told == ApplySessionMeta(fact, l)
             machine == IF back THEN "live" ELSE p.machine
  <2>1. Own # None /\ Adopt(p, l) = p
    BY RolloutAssumption DEF Adopt
  <2>2. Push(p, l, n) = OwnMeta(p, l, n)
    BY <1>4, <2>1 DEF Push, SessionMeta
  <2>3. base.machine = p.machine
    BY ParserParts
  <2>4. Classed(p, "owning") = base
    BY <1>2
  <2>5. OwnMeta(p, l, n) = [base EXCEPT !.machine = IF back THEN "live" ELSE @, !.fact = told]
    BY <2>4 DEF OwnMeta
  <2> HIDE DEF base, told
  <2>6. OwnMeta(p, l, n) = [base EXCEPT !.machine = machine, !.fact = told]
    BY <2>3, <2>5
  <2>7. OwnMeta(p, l, n) = ParserOf(Own, machine, told, p.resumed, p.rebuild, Added(p.class, "owning"))
    BY <2>6 DEF base, ParserOf
  <2>8. MachineAfter(p.machine, l) = machine /\ ClassAfter(p.machine, l) = "owning"
    BY <1>4, <2>1 DEF MachineAfter, ClassAfter
  <2> HIDE DEF machine
  <2> QED BY <2>2, <2>7, <2>8
<1>5. CASE l.is = "meta" /\ l.of \notin {None, Own}
  <2> DEFINE base == ParserOf(Own, p.machine, p.fact, p.resumed, p.rebuild, Added(p.class, "replayed"))
             rebuild == p.rebuild \/ (p.resumed /\ p.machine # "replayed")
  <2>1. Own # None /\ Adopt(p, l) = p
    BY RolloutAssumption DEF Adopt
  <2>2. Push(p, l, n) = ForeignMeta(p, n)
    BY <1>5, <2>1 DEF Push, SessionMeta
  <2>3. Classed(p, "replayed") = base
    BY <1>2
  <2>4. ForeignMeta(p, n) =
          [base EXCEPT !.machine = "replayed", !.fact.replay = IF @ = Nowhere THEN n ELSE @,
                       !.rebuild = @ \/ (p.resumed /\ p.machine # "replayed")]
    BY <2>3 DEF ForeignMeta
  <2>5. base.fact = p.fact /\ base.rebuild = p.rebuild
    BY ParserParts
  <2> DEFINE replay == IF p.fact.replay = Nowhere THEN n ELSE p.fact.replay
             told == [p.fact EXCEPT !.replay = replay]
  <2> HIDE DEF base
  <2>6. ForeignMeta(p, n) = [base EXCEPT !.machine = "replayed", !.fact = told, !.rebuild = rebuild]
    BY <2>4, <2>5
  <2> HIDE DEF told, rebuild
  <2>7. ForeignMeta(p, n) = ParserOf(Own, "replayed", told, p.resumed, rebuild, Added(p.class, "replayed"))
    BY <2>6 DEF base, ParserOf
  <2>8. MachineAfter(p.machine, l) = "replayed" /\ ClassAfter(p.machine, l) = "replayed"
    BY <1>5 DEF MachineAfter, ClassAfter
  <2> QED BY <2>2, <2>7, <2>8
<1>6. CASE l.is = "turn"
  <2> DEFINE back == p.machine = "replayed" /\ EndsReplay(p, l.turn)
             q == IF back THEN [p EXCEPT !.machine = "live", !.fact.boundary = n] ELSE p
             fact == IF back THEN [p.fact EXCEPT !.boundary = n] ELSE p.fact
             machine == IF back THEN "live" ELSE p.machine
             base == ParserOf(Own, machine, fact, p.resumed, p.rebuild, p.class)
             class == DefaultOf(machine)
             r == ParserOf(Own, machine, fact, p.resumed, p.rebuild, Added(p.class, class))
             told == ApplyTurnContext(fact, l, n)
  <2>1. q = base
    <3>1. CASE back
      <4> DEFINE bounded == [p.fact EXCEPT !.boundary = n]
      <4>1. q = [p EXCEPT !.machine = "live", !.fact = bounded] /\ fact = bounded /\ machine = "live"
        BY <3>1
      <4> HIDE DEF bounded, q, fact, machine, back
      <4> QED BY <1>1, <4>1 DEF ParserOf
    <3>2. CASE ~ back
      <4>1. q = p /\ fact = p.fact /\ machine = p.machine
        BY <3>2
      <4> HIDE DEF q, fact, machine, back
      <4> QED BY <1>1, <4>1
    <3> QED BY <3>1, <3>2
  <2>2. base.machine = machine /\ IsParser(base) /\ base.fact = fact
    BY ParserParts, ParserMade
  <2>3. DefaultClass(base) = class
    <3> HIDE DEF base, machine
    <3> QED BY <2>2 DEF DefaultClass, DefaultOf
  <2>4. Classed(base, class) = r
    <3>1. /\ base.owner = Own /\ base.machine = machine /\ base.fact = fact
          /\ base.resumed = p.resumed /\ base.rebuild = p.rebuild /\ base.class = p.class
      BY ParserParts
    <3> HIDE DEF base, machine, fact, class
    <3> QED BY <2>2, <3>1, ClassedMakes
  <2>5. Push(p, l, n) = IF Owns(q.machine) /\ l.turn # None
                        THEN [Classed(q, DefaultClass(q)) EXCEPT !.fact = ApplyTurnContext(@, l, n)]
                        ELSE Classed(q, DefaultClass(q))
    BY <1>6 DEF Push, TurnContext
  <2>6. r.fact = fact
    BY ParserParts
  <2>7. MachineAfter(p.machine, l) = machine /\ ClassAfter(p.machine, l) = class
    <3>1. EndsReplay(p, l.turn) <=> l.turn # None /\ l.turn.v7 /\ l.turn.time >= Born[Own]
      BY DEF EndsReplay
    <3>2. MachineAfter(p.machine, l) = machine
      BY <1>6, <3>1 DEF MachineAfter
    <3> HIDE DEF machine
    <3> QED BY <1>6, <3>2 DEF ClassAfter
  <2> HIDE DEF q, base, machine, fact, class, r, back
  <2>8. Push(p, l, n) = IF Owns(machine) /\ l.turn # None
                        THEN [r EXCEPT !.fact = ApplyTurnContext(@, l, n)] ELSE r
    BY <2>1, <2>2, <2>3, <2>4, <2>5
  <2>9. CASE Owns(machine) /\ l.turn # None
    <3>1. Push(p, l, n) = [r EXCEPT !.fact = told]
      BY <2>6, <2>8, <2>9
    <3> HIDE DEF told
    <3>2. Push(p, l, n) = ParserOf(Own, machine, told, p.resumed, p.rebuild, Added(p.class, class))
      BY <3>1 DEF r, ParserOf
    <3> QED BY <2>7, <3>2
  <2>10. CASE ~ (Owns(machine) /\ l.turn # None)
    <3>1. Push(p, l, n) = r
      BY <2>8, <2>10
    <3> QED BY <2>7, <3>1 DEF r
  <2> QED BY <2>9, <2>10
<1>7. CASE l.is # "meta" /\ l.is # "turn"
  <2>1. Push(p, l, n) = Classed(p, DefaultClass(p))
    BY <1>7 DEF Push, OpaqueLine
  <2>2. MachineAfter(p.machine, l) = p.machine /\ ClassAfter(p.machine, l) = DefaultClass(p)
    BY <1>7 DEF MachineAfter, ClassAfter, DefaultOf, DefaultClass
  <2> QED BY <1>2, <2>1, <2>2
<1> QED BY <1>3, <1>4, <1>5, <1>6, <1>7

\* Two readers in the same state of the machine.
Twins(p, r) ==
  IsParser(p) /\ IsParser(r) /\ p.owner = Own /\ r.owner = Own
    /\ p.machine = r.machine /\ p.class = r.class

LEMMA TwinsStay ==
  ASSUME NEW p, NEW r, Twins(p, r), NEW l, NEW n
  PROVE  Twins(Push(p, l, n), Push(r, l, n))
<1>1. PICK f, b : Push(p, l, n) =
        ParserOf(Own, MachineAfter(p.machine, l), f, p.resumed, b,
                 Added(p.class, ClassAfter(p.machine, l)))
  BY PushRole DEF Twins
<1>2. PICK g, c : Push(r, l, n) =
        ParserOf(Own, MachineAfter(r.machine, l), g, r.resumed, c,
                 Added(r.class, ClassAfter(r.machine, l)))
  BY PushRole DEF Twins
<1>3. IsParser(Push(p, l, n)) /\ IsParser(Push(r, l, n))
  BY <1>1, <1>2, ParserMade
<1> QED BY <1>1, <1>2, <1>3, ParserParts DEF Twins

LEMMA ReadTwins ==
  ASSUME NEW lines, NEW p, NEW r, Twins(p, r), NEW from \in Nat, NEW to \in Nat, from <= to
  PROVE  Twins(Read(lines, p, from, to), Read(lines, r, from, to))
<1> DEFINE S == {n \in from..to : Twins(Read(lines, p, from, n), Read(lines, r, from, n))}
<1>1. from \in S
  BY ReadNothing
<1>2. ASSUME NEW n \in from..(to - 1), n \in S
      PROVE  n + 1 \in S
  <2>1. n \in Nat /\ n + 1 \in Nat /\ from < n + 1 /\ (n + 1) - 1 = n /\ n + 1 \in from..to
    OBVIOUS
  <2>2. /\ Read(lines, p, from, n + 1) = Push(Read(lines, p, from, (n + 1) - 1), lines[n + 1], n + 1)
        /\ Read(lines, r, from, n + 1) = Push(Read(lines, r, from, (n + 1) - 1), lines[n + 1], n + 1)
    BY <2>1, ReadOneMore
  <2>3. Twins(Read(lines, p, from, n), Read(lines, r, from, n))
    BY <1>2
  <2>4. Twins(Push(Read(lines, p, from, n), lines[n + 1], n + 1),
              Push(Read(lines, r, from, n), lines[n + 1], n + 1))
    BY <2>3, TwinsStay
  <2> QED BY <2>1, <2>2, <2>4
<1> HIDE DEF S
<1>3. to \in S
  BY <1>1, <1>2, RangeInduction
<1> QED BY <1>3 DEF S
------------------------------------------------------------------------------
(* The inductive invariant, where the state index tells the truth or nothing. *)

FileInv == file \in Seq(Lines) /\ \A n \in 1..Len(file) : Goes(file, n)

\* The stored fact is that of one reading of the lines it was resolved through.
FactInv ==
  LET p == Straight(file, meta.through) IN
  /\ Alike(p.fact, meta.fact)
  /\ meta.fact.model.line \in 0..meta.through
  /\ meta.at = Continuation(p)

MetaInv ==
  /\ meta = [through |-> meta.through, rebuild |-> meta.rebuild, at |-> meta.at, fact |-> meta.fact]
  /\ meta.through \in 0..view /\ meta.rebuild \in BOOLEAN
  /\ meta.rebuild => meta.through = 0
  /\ meta.fact # None => IsFact(meta.fact) /\ meta.fact.owner = Own
  /\ HasFact => FactInv

\* The usage reader knows whether its checkpoint lies in a replay, and has counted own lines.
UsageInv ==
  /\ usage.through \in 0..view /\ usage.at \in {"live", "replayed"}
  /\ usage.through > 0 => (usage.at = "replayed" <=> Foreign(file, usage.through))
  /\ \A n \in usage.counted : n \in 1..Len(file) /\ OfOwn(file[n])

RInv ==
  /\ FileInv /\ MetaInv /\ UsageInv
  /\ listed \in {None, Own} /\ view \in 0..Len(file) /\ ~ misled

LEMMA InitHolds == Init => RInv
<1> SUFFICES ASSUME Init
             PROVE  RInv
  OBVIOUS
<1>1. file = <<>> /\ Len(file) = 0 /\ file \in Seq(Lines) /\ 1..Len(file) = {}
  BY DEF Init
<1>2. FileInv
  BY <1>1 DEF FileInv
<1>3. meta = [through |-> 0, rebuild |-> FALSE, at |-> "unstable", fact |-> None]
      /\ usage = [through |-> 0, at |-> "live", counted |-> {}] /\ view = 0
  BY DEF Init, NoUsage
<1>4. MetaInv
  BY <1>3 DEF MetaInv, HasFact
<1>5. UsageInv
  BY <1>3 DEF UsageInv
<1> QED BY <1>1, <1>2, <1>4, <1>5 DEF RInv, Init

LEMMA StraightSame ==
  ASSUME NEW lines, NEW other, NEW n \in Nat, \A k \in 1..n : lines[k] = other[k]
  PROVE  Straight(lines, n) = Straight(other, n)
<1>1. 0 \in Nat /\ 0 <= n /\ 0 + 1 = 1
  OBVIOUS
<1> QED BY <1>1, ReadSame DEF Straight

LEMMA AppendHolds ==
  ASSUME RInv, NEW l \in Lines, Append1(l)
  PROVE  RInv'
<1> DEFINE len == Len(file)
<1>1. /\ file \in Seq(Lines) /\ len \in Nat /\ file' = Append(file, l) /\ file' \in Seq(Lines)
      /\ Len(file') = len + 1 /\ file'[len + 1] = l /\ \A n \in 1..len : file'[n] = file[n]
  BY DEF RInv, FileInv, Append1
<1>2. Replaying <=> Foreign(file, len)
  BY <1>1 DEF Replaying, Foreign, Last
<1>3. file # <<>> <=> len > 0
  BY <1>1
<1>4. Fits(l) /\ l.is = "meta" => l.of \in {None, Own, Other}
  BY DEF Fits
<1> HIDE DEF len
<1>5. ASSUME NEW n \in 1..len
      PROVE  Goes(file', n)
  <2>1. Goes(file, n)
    BY <1>5 DEF RInv, FileInv, len
  <2>2. n - 1 > 0 => n - 1 \in 1..len
    BY <1>1
  <2>3. file'[n] = file[n] /\ (Foreign(file', n - 1) <=> Foreign(file, n - 1))
    BY <1>1, <2>2 DEF Foreign
  <2> QED BY <2>1, <2>3 DEF Goes
<1>6. Goes(file', len + 1)
  <2>1. (len + 1) - 1 = len /\ (len > 0 => len \in 1..len) /\ (len + 1 = 1 <=> len = 0)
        /\ (len + 1 > 1 <=> len > 0)
    BY <1>1
  <2>2. Foreign(file', len) <=> Foreign(file, len)
    BY <1>1, <2>1 DEF Foreign
  <2>3. Fits(l)
    BY DEF Append1
  <2>4. len + 1 = 1 => l.is = "meta" /\ (l.of = Own \/ (Named /\ l.of = Other))
    BY <1>2, <1>3, <2>1, <2>3 DEF Fits, Foreign
  <2>5. Foreign(file, len) =>
          IF l.is = "meta" THEN l.of # None
          ELSE OfOwn(l) => l.is = "turn" /\ l.turn # None /\ l.turn.v7
    BY <1>2, <2>3, RolloutAssumption DEF Fits
  <2>6. ~ Foreign(file, len) => (l.is # "meta" => OfOwn(l))
    BY <1>2, <2>3 DEF Fits
  <2> QED BY <1>1, <2>1, <2>2, <2>4, <2>5, <2>6 DEF Goes
<1>7. FileInv'
  <2>1. \A n \in 1..(len + 1) : n \in 1..len \/ n = len + 1
    BY <1>1
  <2> QED BY <1>1, <1>5, <1>6, <2>1 DEF FileInv
<1>8. meta' = meta /\ usage' = usage /\ view' = view /\ listed' = listed /\ misled' = misled
  BY DEF Append1
<1>9. view \in 0..len /\ meta.through \in 0..view /\ usage.through \in 0..view
  BY DEF RInv, MetaInv, UsageInv, len
<1>10. MetaInv'
  <2>1. meta.through \in Nat /\ \A k \in 1..meta.through : file'[k] = file[k]
    BY <1>1, <1>9
  <2>2. Straight(file', meta.through) = Straight(file, meta.through)
    BY <2>1, StraightSame
  <2> QED BY <1>8, <2>2 DEF RInv, MetaInv, FactInv, HasFact
<1>11. UsageInv'
  <2>1. usage.through > 0 => usage.through \in 1..len
    BY <1>1, <1>9
  <2>2. Foreign(file', usage.through) <=> Foreign(file, usage.through)
    BY <1>1, <2>1 DEF Foreign
  <2>3. \A n \in usage.counted : n \in 1..len /\ OfOwn(file[n])
    BY DEF RInv, UsageInv, len
  <2>4. \A n \in usage.counted : n \in 1..Len(file') /\ OfOwn(file'[n])
    BY <1>1, <2>3
  <2> QED BY <1>8, <2>2, <2>4 DEF RInv, UsageInv
<1>12. view' \in 0..Len(file')
  BY <1>1, <1>8, <1>9
<1> QED BY <1>7, <1>8, <1>10, <1>11, <1>12 DEF RInv

\* What a round of the metadata scanner has read.
LEMMA MetadataReads ==
  ASSUME RInv, NEW who \in {None, Own}
  PROVE  LET p == Read(file, MetadataParser(who), MetadataStart, Len(file))
             q == Straight(file, Len(file))
         IN  ~ p.rebuild /\ p.fact # None =>
               Sound(file, p, Len(file)) /\ Alike(q.fact, p.fact) /\ Continuation(p) = Continuation(q)
<1> DEFINE len == Len(file)
           start == meta.through
           p == Read(file, MetadataParser(who), MetadataStart, len)
           q == Straight(file, len)
<1>1. len \in Nat /\ start \in 0..len /\ start \in Nat /\ \A n \in 1..len : Goes(file, n)
  BY DEF RInv, MetaInv, FileInv
<1>2. Sound(file, q, len) /\ ~ q.rebuild
  BY <1>1, StraightHolds
<1>3. ASSUME Sound(file, p, len), ~ p.rebuild
      PROVE  Continuation(p) = Continuation(q)
  <2>1. Own # None
    BY RolloutAssumption
  <2> HIDE DEF p, q, len
  <2> QED BY <1>2, <1>3, <2>1 DEF Sound, Continuation
<1>4. CASE MetadataResumes
  <2> DEFINE f == Rehydrated(meta.fact, start)
             r == Resumed(who, f, meta.at)
             s == Straight(file, start)
  <2>1. IsFact(meta.fact) /\ meta.fact.owner = Own /\ FactInv /\ start > 0
    BY <1>4 DEF RInv, MetaInv, MetadataResumes, HasFact
  <2>2. IsFact(f) /\ Alike(meta.fact, f) /\ f.owner = Own /\ f.model.line \in 0..start
    BY <1>1, <2>1, RehydratedHolds DEF FactInv
  <2>3. \A n \in 1..start : Goes(file, n)
    BY <1>1
  <2>4. Sound(file, s, start) /\ ~ s.rebuild
    BY <1>1, <2>3, StraightHolds
  <2>5. meta.at = Continuation(s) /\ Alike(s.fact, meta.fact)
    BY <2>1 DEF FactInv
  <2>6. meta.at \in {"live", "replayed"} /\ (meta.at = "replayed" <=> Foreign(file, start))
    <3>1. Own # None
      BY RolloutAssumption
    <3> HIDE DEF s
    <3> QED BY <2>4, <2>5, <3>1 DEF Sound, Continuation
  <2>7. MetadataParser(who) = r /\ MetadataStart = start
    BY <1>4 DEF MetadataParser, MetadataStart
  <2> HIDE DEF f
  <2>8. Sound(file, r, start) /\ r.fact = f
    BY <1>1, <2>2, <2>6, ResumedHolds
  <2>9. Alike(s.fact, r.fact)
    BY <2>2, <2>5, <2>8 DEF Alike
  <2> HIDE DEF r
  <2>10. 0 \in Nat /\ 0 <= start /\ start <= len /\ \A n \in (start + 1)..len : n \in 1..len
    BY <1>1
  <2>11. \A n \in (start + 1)..len : Goes(file, n)
    BY <1>1, <2>10
  <2>12. Sound(file, Read(file, r, start, len), len)
         /\ Alike(q.fact, Read(file, r, start, len).fact)
    BY <1>1, <2>4, <2>8, <2>9, <2>10, <2>11, ReadAlike DEF Straight
  <2>13. p = Read(file, r, start, len)
    BY <2>7
  <2> HIDE DEF p, q, len
  <2> QED BY <1>3, <2>12, <2>13 DEF p, q, len
<1>5. CASE ~ MetadataResumes
  <2>1. p = Read(file, FromStart(who), 0, len)
    BY <1>5 DEF MetadataParser, MetadataStart
  <2>2. p = q \/ p.fact = None
    BY <1>1, <2>1, StartsAlike
  <2> HIDE DEF p, q, len
  <2>3. Alike(q.fact, q.fact)
    BY DEF Alike
  <2> QED BY <1>2, <1>3, <2>2, <2>3 DEF p, q, len
<1> QED BY <1>4, <1>5

LEMMA MetadataHolds ==
  ASSUME RInv, NEW who \in {None, Own}, MetadataRound(who)
  PROVE  RInv'
<1> DEFINE p == Read(file, MetadataParser(who), MetadataStart, view')
           q == Straight(file, view')
<1>1. view' = Len(file) /\ Len(file) \in Nat /\ listed' = who
      /\ file' = file /\ usage' = usage /\ misled' = misled
  BY DEF MetadataRound, RInv, FileInv
<1>2. view \in 0..view' /\ meta.through \in 0..view /\ usage.through \in 0..view
  BY <1>1 DEF RInv, MetaInv, UsageInv
<1>3. meta.through \in 0..view' /\ usage.through \in 0..view' /\ view' \in 0..Len(file')
  BY <1>1, <1>2
<1>4. ~ p.rebuild /\ p.fact # None =>
        Sound(file, p, view') /\ Alike(q.fact, p.fact) /\ Continuation(p) = Continuation(q)
  BY <1>1, MetadataReads
<1>5. MetaInv'
  <2>1. CASE meta' = meta
    BY <1>1, <1>3, <2>1 DEF RInv, MetaInv, HasFact, FactInv
  <2>2. CASE meta' = [meta EXCEPT !.through = 0, !.rebuild = TRUE]
    <3>1. meta' = [through |-> 0, rebuild |-> TRUE, at |-> meta.at, fact |-> meta.fact]
      BY <2>2 DEF RInv, MetaInv
    <3>2. 0 \in 0..view'
      BY <1>1
    <3> QED BY <3>1, <3>2 DEF RInv, MetaInv, HasFact
  <2>3. CASE ~ p.rebuild /\ p.fact # None /\ CommitFact(p)
    <3>1. meta' = [through |-> view', rebuild |-> FALSE, at |-> Continuation(p), fact |-> p.fact]
      BY <2>3 DEF CommitFact, Stored
    <3>2. IsFact(p.fact) /\ p.fact.owner = Own /\ p.fact.model.line \in 0..view'
          /\ Alike(q.fact, p.fact) /\ Continuation(p) = Continuation(q)
      BY <1>4, <2>3 DEF Sound
    <3>3. view' \in 0..view'
      BY <1>1
    <3> HIDE DEF p
    <3>4. FactInv'
      BY <1>1, <3>1, <3>2 DEF FactInv
    <3> QED BY <3>1, <3>2, <3>3, <3>4 DEF MetaInv
  <2>4. \/ meta' = meta
        \/ meta' = [meta EXCEPT !.through = 0, !.rebuild = TRUE]
        \/ ~ p.rebuild /\ p.fact # None /\ CommitFact(p)
    BY DEF MetadataRound
  <2> QED BY <2>1, <2>2, <2>3, <2>4
<1>6. UsageInv'
  BY <1>1, <1>3 DEF RInv, UsageInv
<1>7. FileInv'
  BY <1>1 DEF RInv, FileInv
<1> QED BY <1>1, <1>3, <1>5, <1>6, <1>7 DEF RInv
\* The usage reader's classes are what the lines are.
LEMMA UsageReads ==
  ASSUME RInv, usage.through < view, Establishing \/ HasFact
  PROVE  /\ DOMAIN Classes = (usage.through + 1)..view
         /\ \A n \in (usage.through + 1)..view : Classes[n] = ClassOf(file[n])
<1> DEFINE from == usage.through
           p == Read(file, UsageParser, from, view)
<1>1. /\ from \in Nat /\ view \in Nat /\ from <= view /\ view <= Len(file) /\ Len(file) \in Nat
      /\ listed \in {None, Own} /\ \A n \in 1..Len(file) : Goes(file, n)
  BY DEF RInv, UsageInv, FileInv
<1>2. Classes = [n \in (from + 1)..view |-> p.class[n - from]]
  BY DEF Classes
<1>3. ASSUME NEW n \in (from + 1)..view
      PROVE  p.class[n - from] = ClassOf(file[n])
  <2>1. CASE Establishing
    <3>1. from = 0 /\ UsageParser = FromStart(listed)
      BY <2>1 DEF Establishing, UsageParser
    <3>2. \A k \in 1..view : Goes(file, k)
      BY <1>1
    <3>3. view # 0
      BY <1>1, <1>3
    <3>4. p = Straight(file, view)
      BY <1>1, <3>1, <3>2, <3>3, StartsAlike
    <3>5. n \in 1..view /\ n - from = n
      BY <1>1, <3>1
    <3> HIDE DEF p
    <3> QED BY <1>1, <3>2, <3>4, <3>5, StraightHolds
  <2>2. CASE ~ Establishing
    <3> DEFINE f == Rehydrated(meta.fact, meta.through)
               r == Resumed(listed, f, usage.at)
               e == EmptyFact(Own)
               t == Resumed(listed, e, usage.at)
    <3>1. from > 0 /\ UsageParser = r /\ HasFact
      BY <1>1, <2>2 DEF Establishing, UsageParser
    <3>2. IsFact(meta.fact) /\ meta.fact.owner = Own /\ FactInv /\ meta.through \in Nat
      BY <1>1, <3>1 DEF RInv, MetaInv, HasFact
    <3>3. f.owner = Own
      BY <3>2, RehydratedHolds DEF FactInv
    <3>4. usage.at \in {"live", "replayed"} /\ (usage.at = "replayed" <=> Foreign(file, from))
      BY <3>1 DEF RInv, UsageInv
    <3> HIDE DEF f, e
    <3>5. IsFact(e) /\ e.owner = Own /\ e.model.line \in 0..from
      BY <1>1, EmptyIsFact DEF e
    <3>6. Sound(file, t, from) /\ t.class = <<>>
      BY <1>1, <3>4, <3>5, ResumedHolds
    <3>7. Twins(r, t)
      <4>1. r.owner = Own /\ r.machine = usage.at /\ r.class = <<>> /\ IsParser(r)
        BY <1>1, <3>3, ResumedIs
      <4>2. t.owner = Own /\ t.machine = usage.at /\ t.class = <<>> /\ IsParser(t)
        BY <1>1, <3>5, ResumedIs
      <4> HIDE DEF r, t
      <4> QED BY <4>1, <4>2 DEF Twins
    <3> HIDE DEF r, t
    <3>8. p.class = Read(file, t, from, view).class
      BY <1>1, <3>1, <3>7, ReadTwins DEF Twins
    <3>9. \A k \in (from + 1)..view : Goes(file, k)
      BY <1>1
    <3>10. Reached(file, t, from, Read(file, t, from, view), view)
      BY <1>1, <3>6, <3>9, ReadHolds
    <3> QED BY <1>3, <3>8, <3>10 DEF Reached
  <2> QED BY <2>1, <2>2
<1> HIDE DEF p
<1> QED BY <1>2, <1>3

\* Where the first batch begins.
LEMMA EstablishedHolds ==
  ASSUME RInv, NEW class, DOMAIN class = 1..view,
         \A n \in 1..view : class[n] = ClassOf(file[n])
  PROVE  /\ Promised # Nowhere => Promised \in 1..view /\ class[Promised] = "owning"
         /\ EstablishedAt(class) # Nowhere => EstablishedAt(class) \in 1..view
<1>1. Promised # Nowhere => Promised \in 1..view /\ class[Promised] = "owning"
  <2> SUFFICES ASSUME Promised # Nowhere
               PROVE  Promised \in 1..view /\ class[Promised] = "owning"
    OBVIOUS
  <2> DEFINE p == Straight(file, meta.through)
  <2>1. Promised = meta.fact.boundary /\ HasFact
    BY DEF Promised
  <2>2. Alike(p.fact, meta.fact) /\ meta.through \in 0..view /\ view \in 0..Len(file) /\ Len(file) \in Nat
    BY <2>1 DEF RInv, MetaInv, FactInv, FileInv
  <2>3. meta.through \in Nat /\ \A n \in 1..meta.through : n \in 1..Len(file) /\ n \in 1..view
    BY <2>2
  <2>4. \A n \in 1..meta.through : Goes(file, n)
    BY <2>3 DEF RInv, FileInv
  <2>5. \/ p.fact.boundary = Nowhere
        \/ p.fact.boundary \in 1..meta.through /\ ClassOf(file[p.fact.boundary]) = "owning"
    BY <2>3, <2>4, StraightHolds
  <2>6. Promised = p.fact.boundary
    BY <2>1, <2>2 DEF Alike
  <2> HIDE DEF p
  <2> QED BY <2>3, <2>5, <2>6
<1>2. FirstOwned(class) # Nowhere => FirstOwned(class) \in 1..view
  <2> DEFINE owned == {n \in DOMAIN class : class[n] # "replayed"}
  <2>1. CASE owned = {}
    BY <2>1 DEF FirstOwned
  <2>2. CASE owned # {}
    <3>1. owned \subseteq 1..view /\ owned \subseteq Nat
      OBVIOUS
    <3>2. Min(owned) \in owned
      <4>1. \E n \in owned : \A m \in owned : n <= m
        BY <2>2, <3>1, LeastElement
      <4> HIDE DEF owned
      <4> QED BY <4>1 DEF Min
    <3>3. FirstOwned(class) = Nowhere \/ FirstOwned(class) = Min(owned)
      BY <2>2 DEF FirstOwned
    <3> HIDE DEF owned
    <3> QED BY <3>1, <3>2, <3>3
  <2> QED BY <2>1, <2>2
<1> QED BY <1>1, <1>2 DEF EstablishedAt

LEMMA RebuildHolds ==
  ASSUME RInv, UsageRebuild, UNCHANGED <<file, listed, view, meta>>
  PROVE  RInv'
<1>1. usage' = [through |-> 0, at |-> "live", counted |-> {}] /\ misled' = misled
      /\ file' = file /\ listed' = listed /\ view' = view /\ meta' = meta
  BY DEF UsageRebuild, NoUsage
<1>2. view \in Nat
  BY DEF RInv, FileInv
<1>3. UsageInv'
  BY <1>1, <1>2 DEF UsageInv
<1> QED BY <1>1, <1>3 DEF RInv, FileInv, MetaInv, HasFact, FactInv

LEMMA CommitHolds ==
  ASSUME RInv, NEW class, NEW first \in 1..view, NEW last \in (usage.through + 1)..view,
         usage.through < first,
         \A n \in (usage.through + 1)..view : class[n] = ClassOf(file[n]),
         CommitUsage(class, first, last), UNCHANGED <<file, listed, view, meta>>
  PROVE  RInv'
<1>1. /\ usage' = [through |-> last,
                   at      |-> IF class[last] = "replayed" THEN "replayed" ELSE "live",
                   counted |-> usage.counted \cup {n \in first..last : Counts(class, n)}]
      /\ misled' = misled /\ file' = file /\ listed' = listed /\ view' = view /\ meta' = meta
  BY DEF CommitUsage
<1>2. /\ usage.through \in Nat /\ view \in Nat /\ view <= Len(file) /\ Len(file) \in Nat
      /\ last \in 0..view /\ last > 0
  BY DEF RInv, UsageInv, FileInv
<1>3. class[last] = "replayed" <=> Foreign(file, last)
  <2>1. class[last] = ClassOf(file[last])
    OBVIOUS
  <2>2. None # Other
    BY RolloutAssumption
  <2> QED BY <1>2, <2>1, <2>2 DEF ClassOf, Foreign, OfOwn
<1>4. ASSUME NEW n \in first..last, Counts(class, n)
      PROVE  n \in 1..Len(file) /\ OfOwn(file[n])
  <2>1. n \in (usage.through + 1)..view /\ n \in 1..Len(file)
    BY <1>2
  <2>2. ClassOf(file[n]) = "owning"
    BY <1>4, <2>1 DEF Counts
  <2> QED BY <2>1, <2>2 DEF ClassOf
<1>5. UsageInv'
  <2>1. usage'.through = last /\ usage'.at \in {"live", "replayed"}
        /\ (usage'.at = "replayed" <=> class[last] = "replayed")
    BY <1>1
  <2>2. \A n \in usage'.counted : n \in usage.counted \/ (n \in first..last /\ Counts(class, n))
    BY <1>1
  <2>3. \A n \in usage'.counted : n \in 1..Len(file) /\ OfOwn(file[n])
    BY <1>4, <2>2 DEF RInv, UsageInv
  <2> QED BY <1>1, <1>2, <1>3, <2>1, <2>3 DEF UsageInv
<1> QED BY <1>1, <1>5 DEF RInv, FileInv, MetaInv, HasFact, FactInv

LEMMA UsageHolds ==
  ASSUME RInv, UsageBatch
  PROVE  RInv'
<1> DEFINE class == Classes
<1>1. meta.fact # None /\ usage.through < view /\ UNCHANGED <<file, listed, view, meta>>
  BY DEF UsageBatch
<1>2. usage.through \in Nat /\ view \in Nat
  BY DEF RInv, UsageInv, FileInv
<1>3. CASE ~ Establishing /\ ~ HasFact
  BY <1>1, <1>3, RebuildHolds DEF UsageBatch
<1>4. CASE Establishing \/ HasFact
  <2>1. /\ DOMAIN class = (usage.through + 1)..view
        /\ \A n \in (usage.through + 1)..view : class[n] = ClassOf(file[n])
    BY <1>1, <1>4, UsageReads
  <2>2. \E last \in DOMAIN class : Establish(class, last) \/ Advance(class, last)
    BY <1>4 DEF UsageBatch
  <2> HIDE DEF class
  <2>3. PICK last \in DOMAIN class : Establish(class, last) \/ Advance(class, last)
    BY <2>2
  <2>4. CASE Establish(class, last)
    <3> DEFINE first == EstablishedAt(class)
    <3>1. usage.through = 0 /\ DOMAIN class = 1..view /\ \A n \in 1..view : class[n] = ClassOf(file[n])
      BY <2>1, <2>4 DEF Establish, Establishing
    <3>2. Promised # Nowhere => class[Promised] = "owning"
      BY <3>1, EstablishedHolds
    <3>3. /\ first # Nowhere
          /\ IF \E n \in first..last : class[n] = "unknown" THEN UsageRebuild
             ELSE CommitUsage(class, first, last)
      BY <2>4, <3>2 DEF Establish
    <3>4. first \in 1..view
      BY <3>1, <3>3, EstablishedHolds
    <3> HIDE DEF first
    <3>5. usage.through < first
      BY <3>1, <3>4
    <3> QED BY <1>1, <2>1, <3>3, <3>4, <3>5, RebuildHolds, CommitHolds
  <2>5. CASE Advance(class, last)
    <3> DEFINE first == usage.through + 1
    <3>1. UsageRebuild \/ CommitUsage(class, first, last)
      BY <2>5 DEF Advance
    <3>2. first \in 1..view /\ usage.through < first
      BY <1>1, <1>2
    <3> HIDE DEF first
    <3> QED BY <1>1, <2>1, <3>1, <3>2, RebuildHolds, CommitHolds
  <2> QED BY <2>3, <2>4, <2>5
<1> QED BY <1>3, <1>4

LEMMA StepHolds ==
  ASSUME Other \notin Listings, RInv, [Next]_vars
  PROVE  RInv'
<1>1. CASE \E l \in Lines : Append1(l)
  BY <1>1, AppendHolds
<1>2. CASE \E who \in Listings : MetadataRound(who)
  <2>1. PICK who \in Listings : MetadataRound(who)
    BY <1>2
  <2>2. who \in {None, Own}
    BY RolloutAssumption
  <2> QED BY <2>1, <2>2, MetadataHolds
<1>3. CASE UsageBatch
  BY <1>3, UsageHolds
<1>4. CASE UNCHANGED vars
  <2>1. file' = file /\ listed' = listed /\ view' = view /\ meta' = meta /\ usage' = usage
        /\ misled' = misled
    BY <1>4 DEF vars
  <2> QED BY <2>1 DEF RInv, FileInv, MetaInv, HasFact, FactInv, UsageInv
<1> QED BY <1>1, <1>2, <1>3, <1>4 DEF Next

LEMMA Invariance ==
  ASSUME Other \notin Listings
  PROVE  Spec => []RInv
<1>1. Init => RInv
  BY InitHolds
<1>2. RInv /\ [Next]_vars => RInv'
  BY StepHolds
<1> QED BY <1>1, <1>2, PTL DEF Spec

------------------------------------------------------------------------------

\* Wherever the rounds end, the stored fact is the one a single reading of the same lines
\* gives, but for the line its model was read from (from_safe_fact, initialize in
\* src/src/codex/rollout.rs; plan_one in src/src/scanner/mod.rs): for files of any length and
\* lines of any kind, unless the state index says the file is the ancestor's.
THEOREM RoundsDoNotChangeTheFact ==
  ASSUME Other \notin Listings
  PROVE  Spec => []CutsDoNotMatter
<1>1. ASSUME RInv
      PROVE  CutsDoNotMatter
  <2> SUFFICES ASSUME HasFact
               PROVE  LET p == Straight(file, meta.through) IN
                      /\ [meta.fact EXCEPT !.model.line = 0] = [p.fact EXCEPT !.model.line = 0]
                      /\ meta.at = Continuation(p)
    BY DEF CutsDoNotMatter, Straight
  <2> DEFINE p == Straight(file, meta.through)
             f == p.fact
             g == meta.fact
             Blanked(h) == [h EXCEPT !.model.line = 0]
  <2>1. IsFact(g) /\ Alike(f, g) /\ meta.at = Continuation(p)
    BY <1>1 DEF RInv, MetaInv, FactInv, HasFact
  <2>2. /\ meta.through \in Nat /\ meta.through <= Len(file) /\ Len(file) \in Nat
        /\ \A n \in 1..Len(file) : Goes(file, n)
    BY <1>1 DEF RInv, MetaInv, FileInv
  <2>3. \A n \in 1..meta.through : Goes(file, n)
    BY <2>2
  <2>4. IsFact(f)
    BY <2>2, <2>3, StraightHolds DEF Sound
  <2> HIDE DEF f, g, p
  <2>5. \A h : IsFact(h) => Blanked(h) =
          FactOf(h.owner, h.claims, h.created,
                 ModelOf(h.model.value, h.model.turn, h.model.at, 0),
                 h.replay, h.boundary, h.conflict, h.doubtful)
    <3> SUFFICES ASSUME NEW h, IsFact(h)
                 PROVE  Blanked(h) =
                          FactOf(h.owner, h.claims, h.created,
                                 ModelOf(h.model.value, h.model.turn, h.model.at, 0),
                                 h.replay, h.boundary, h.conflict, h.doubtful)
      OBVIOUS
    <3> DEFINE m == ModelOf(h.model.value, h.model.turn, h.model.at, 0)
    <3>1. [h.model EXCEPT !.line = 0] = m
      BY DEF IsFact, ModelOf
    <3>2. Blanked(h) = [h EXCEPT !.model = [h.model EXCEPT !.line = 0]]
      OBVIOUS
    <3> HIDE DEF m, Blanked
    <3> QED BY <3>1, <3>2, FactUpdates DEF m
  <2> HIDE DEF Blanked
  <2>6. Blanked(g) = Blanked(f)
    BY <2>1, <2>4, <2>5 DEF Alike
  <2> QED BY <2>1, <2>6 DEF Blanked, f, g, p
<1> QED BY <1>1, Invariance, PTL

\* No line of an ancestor is ever counted as the owner's usage, however the file grows and the
\* rounds and batches cut it (RecordOwnership in src/src/codex/rollout.rs, process_chunk).
THEOREM AncestorsAreNeverCounted ==
  ASSUME Other \notin Listings
  PROVE  Spec => []OnlyOwnUsage
<1>1. RInv => OnlyOwnUsage
  BY DEF RInv, UsageInv, OnlyOwnUsage
<1> QED BY <1>1, Invariance, PTL

\* The usage reader never comes upon the promised boundary and finds it is not the owner's, so
\* no session is quarantined for it (InvalidSessionData in process_source_batch).
THEOREM BoundariesAgree ==
  ASSUME Other \notin Listings
  PROVE  Spec => []BoundaryIsFoundAgain
<1>1. RInv => BoundaryIsFoundAgain
  BY DEF RInv, BoundaryIsFoundAgain
<1> QED BY <1>1, Invariance, PTL
==============================================================================
