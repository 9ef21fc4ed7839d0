----------------------------- MODULE LedgerProofs -----------------------------
(***************************************************************************)
(* The two ledgers.  First, what holds of the threads table and of the     *)
(* usage counted under it, for every set of threads, whoever spawned whom, *)
(* whatever part of that the sources tell at a time and in whatever order  *)
(* they change: every patch fits the row it meets, every thread stands     *)
(* under its own ancestors, and what is counted, isolated and priced       *)
(* refers to rows that are there.                                          *)
(*                                                                         *)
(* Then, what a file's lines are counted as, for files of any length, any  *)
(* amounts and batches that end anywhere: the rows are those of a run that *)
(* never stopped, nothing is counted twice or for the wrong turn or model, *)
(* and nothing readable is missed.  Both parts count with sums over finite *)
(* sets, and their facts come first.                                       *)
(***************************************************************************)
EXTENDS SessionLedger, TokenLedger, FiniteSetTheorems, TLAPS

------------------------------------------------------------------------------
(* Induction over the natural numbers, as a fact about sets of them. *)

LEMMA LeastElement ==
  ASSUME NEW S \in SUBSET Nat, S # {}
  PROVE  \E n \in S : \A m \in S : n <= m
<1> DEFINE R == OpToRel(<, Nat)
<1>1. PICK n \in S : \A m \in S : ~ (<<m, n>> \in R)
  BY WFMin, NatLessThanWellFounded
<1>2. ASSUME NEW m \in S
      PROVE  n <= m
  <2>1. <<m, n>> \in Nat \X Nat /\ <<m, n>>[1] = m /\ <<m, n>>[2] = n
    OBVIOUS
  <2>2. m < n => <<m, n>> \in R
    BY <2>1 DEF OpToRel
  <2> HIDE DEF R
  <2> QED BY <1>1, <2>2
<1> QED BY <1>2

LEMMA Induction ==
  ASSUME NEW S, S \subseteq Nat, 0 \in S, \A n \in S : n + 1 \in S
  PROVE  S = Nat
<1> DEFINE rest == Nat \ S
<1>1. ASSUME rest # {}
      PROVE  FALSE
  <2>1. PICK n \in rest : \A m \in rest : n <= m
    BY <1>1, LeastElement
  <2>2. n # 0 /\ n - 1 \in Nat /\ n - 1 \notin rest
    BY <2>1
  <2> QED BY <2>2
<1> QED BY <1>1

\* Induction over the subsets of a finite set.
LEMMA SubsetInduction ==
  ASSUME NEW S, IsFiniteSet(S), NEW F, {} \in F,
         \A A \in SUBSET S : A # {} /\ (\A x \in A : A \ {x} \in F) => A \in F
  PROVE  SUBSET S \subseteq F
<1> DEFINE N == {n \in Nat : \A A \in SUBSET S : Cardinality(A) = n => A \in F}
<1>1. \A A \in SUBSET S : IsFiniteSet(A) /\ Cardinality(A) \in Nat
  BY FS_Subset, FS_CardinalityType
<1>2. 0 \in N
  BY <1>1, FS_EmptySet
<1>3. ASSUME NEW n \in N
      PROVE  n + 1 \in N
  <2>1. ASSUME NEW A \in SUBSET S, Cardinality(A) = n + 1
        PROVE  A \in F
    <3>1. A # {}
      <4>1. n + 1 # 0
        OBVIOUS
      <4> QED BY <2>1, <4>1, FS_EmptySet
    <3>2. ASSUME NEW x \in A
          PROVE  A \ {x} \in F
      <4>1. Cardinality(A \ {x}) = n
        BY <1>1, <2>1, FS_RemoveElement
      <4> QED BY <4>1
    <3> QED BY <3>1, <3>2
  <2> QED BY <2>1
<1>4. N = Nat
  <2> HIDE DEF N
  <2> QED BY <1>2, <1>3, Induction DEF N
<1>5. ASSUME NEW A \in SUBSET S
      PROVE  A \in F
  <2>1. Cardinality(A) \in N
    BY <1>1, <1>4
  <2> QED BY <2>1
<1> QED BY <1>5

------------------------------------------------------------------------------
(* Sums of the values of a function over a finite set.                        *)

Pick(s) == CHOOSE x \in s : TRUE

\* The recursion of SumFunctionOnSet, over the subsets of S.
SumSteps(f, S, g) ==
  g = [s \in SUBSET S |-> IF s = {} THEN 0 ELSE f[Pick(s)] + g[s \ {Pick(s)}]]

LEMMA PickIsElement ==
  ASSUME NEW s, s # {}
  PROVE  Pick(s) \in s
BY DEF Pick

LEMMA SumStepsAgree ==
  ASSUME NEW f, NEW S, NEW T, NEW g, NEW h, SumSteps(f, S, g), SumSteps(f, T, h),
         IsFiniteSet(S), S \subseteq T
  PROVE  \A s \in SUBSET S : g[s] = h[s]
<1> DEFINE F == {s \in SUBSET S : g[s] = h[s]}
<1>1. {} \in F
  BY DEF SumSteps
<1>2. ASSUME NEW A \in SUBSET S, A # {}, \A x \in A : A \ {x} \in F
      PROVE  A \in F
  <2>1. g[A] = f[Pick(A)] + g[A \ {Pick(A)}] /\ h[A] = f[Pick(A)] + h[A \ {Pick(A)}]
    BY <1>2 DEF SumSteps
  <2>2. g[A \ {Pick(A)}] = h[A \ {Pick(A)}]
    BY <1>2, PickIsElement
  <2> QED BY <2>1, <2>2
<1> HIDE DEF F
<1>3. SUBSET S \subseteq F
  BY <1>1, <1>2, SubsetInduction
<1> QED BY <1>3 DEF F

LEMMA SumStepsRestrict ==
  ASSUME NEW f, NEW T, NEW h, SumSteps(f, T, h), NEW S \in SUBSET T
  PROVE  SumSteps(f, S, [s \in SUBSET S |-> h[s]])
<1> DEFINE g == [s \in SUBSET S |-> h[s]]
<1>1. ASSUME NEW s \in SUBSET S
      PROVE  g[s] = IF s = {} THEN 0 ELSE f[Pick(s)] + g[s \ {Pick(s)}]
  <2>1. s \in SUBSET T /\ s \ {Pick(s)} \in SUBSET S
    OBVIOUS
  <2>2. h[s] = IF s = {} THEN 0 ELSE f[Pick(s)] + h[s \ {Pick(s)}]
    BY <2>1 DEF SumSteps
  <2> QED BY <2>1, <2>2
<1>2. g = [s \in SUBSET S |-> IF s = {} THEN 0 ELSE f[Pick(s)] + g[s \ {Pick(s)}]]
  BY <1>1
<1> QED BY <1>2 DEF SumSteps

LEMMA SumStepsExist ==
  ASSUME NEW f, NEW S, IsFiniteSet(S)
  PROVE  \E g : SumSteps(f, S, g)
<1> DEFINE F == {A \in SUBSET S : \E g : SumSteps(f, A, g)}
<1>1. {} \in F
  <2> DEFINE g == [s \in SUBSET {} |-> 0]
  <2>1. SumSteps(f, {}, g)
    BY DEF SumSteps
  <2> HIDE DEF g
  <2> QED BY <2>1
<1>2. ASSUME NEW A \in SUBSET S, A # {}, \A x \in A : A \ {x} \in F
      PROVE  A \in F
  <2> DEFINE H(s) == CHOOSE h : SumSteps(f, s, h)
             g == [s \in SUBSET A |-> IF s = {} THEN 0
                                      ELSE f[Pick(s)] + H(s \ {Pick(s)})[s \ {Pick(s)}]]
  <2>1. ASSUME NEW s \in SUBSET A, s # A
        PROVE  SumSteps(f, s, H(s)) /\ IsFiniteSet(s)
    <3>1. PICK x \in A : s \in SUBSET (A \ {x})
      BY <2>1
    <3>2. PICK h : SumSteps(f, A \ {x}, h)
      BY <1>2
    <3>3. \E k : SumSteps(f, s, k)
      BY <3>1, <3>2, SumStepsRestrict
    <3>4. IsFiniteSet(s)
      BY FS_Subset
    <3> QED BY <3>3, <3>4
  <2> HIDE DEF H
  <2>2. ASSUME NEW r \in SUBSET A, r # A
        PROVE  g[r] = H(r)[r]
    <3>1. CASE r = {}
      BY <2>1, <2>2, <3>1 DEF SumSteps
    <3>2. CASE r # {}
      <4> DEFINE q == r \ {Pick(r)}
      <4>1. q \in SUBSET A /\ q # A /\ q \in SUBSET r /\ q \in SUBSET q
        BY <2>2
      <4>2. H(r)[r] = f[Pick(r)] + H(r)[q]
        <5>1. SumSteps(f, r, H(r)) /\ r \in SUBSET r
          BY <2>1, <2>2
        <5> QED BY <3>2, <5>1 DEF SumSteps
      <4>3. g[r] = f[Pick(r)] + H(q)[q]
        BY <3>2
      <4> HIDE DEF q, g
      <4>4. \A s \in SUBSET q : H(q)[s] = H(r)[s]
        BY <2>1, <2>2, <4>1, SumStepsAgree
      <4> QED BY <4>1, <4>2, <4>3, <4>4
    <3> QED BY <3>1, <3>2
  <2>3. ASSUME NEW s \in SUBSET A, s # {}
        PROVE  g[s] = f[Pick(s)] + g[s \ {Pick(s)}]
    <3> DEFINE r == s \ {Pick(s)}
    <3>1. r \in SUBSET A /\ r # A
      BY <2>3, PickIsElement
    <3>2. g[s] = f[Pick(s)] + H(r)[r]
      BY <2>3
    <3> HIDE DEF r, g
    <3> QED BY <2>2, <3>1, <3>2 DEF r
  <2>4. g[{}] = 0
    OBVIOUS
  <2>5. g = [s \in SUBSET A |-> IF s = {} THEN 0 ELSE f[Pick(s)] + g[s \ {Pick(s)}]]
    <3>1. \A s \in SUBSET A : g[s] = IF s = {} THEN 0 ELSE f[Pick(s)] + g[s \ {Pick(s)}]
      BY <2>3, <2>4
    <3>2. g = [s \in SUBSET A |-> g[s]]
      OBVIOUS
    <3> HIDE DEF g
    <3> QED BY <3>1, <3>2
  <2> HIDE DEF g
  <2>6. SumSteps(f, A, g)
    BY <2>5 DEF SumSteps
  <2> QED BY <2>6
<1> HIDE DEF F
<1>3. SUBSET S \subseteq F
  BY <1>1, <1>2, SubsetInduction
<1> QED BY <1>3 DEF F

\* The sum as a recursion over the set.
LEMMA SumUnfolds ==
  ASSUME NEW f, NEW S, IsFiniteSet(S)
  PROVE  /\ SumFunctionOnSet(f, {}) = 0
         /\ S # {} => SumFunctionOnSet(f, S) = f[Pick(S)] + SumFunctionOnSet(f, S \ {Pick(S)})
<1>1. ASSUME NEW T, IsFiniteSet(T)
      PROVE  \E g : SumSteps(f, T, g) /\ SumFunctionOnSet(f, T) = g[T]
  <2> DEFINE iter[s \in SUBSET T] == IF s = {} THEN 0 ELSE f[Pick(s)] + iter[s \ {Pick(s)}]
  <2>1. iter = [s \in SUBSET T |-> IF s = {} THEN 0 ELSE f[Pick(s)] + iter[s \ {Pick(s)}]]
    <3>1. \E g : g = [s \in SUBSET T |-> IF s = {} THEN 0 ELSE f[Pick(s)] + g[s \ {Pick(s)}]]
      <4>1. PICK g : SumSteps(f, T, g)
        BY <1>1, SumStepsExist
      <4> QED BY <4>1 DEF SumSteps
    <3> QED BY <3>1
  <2>2. SumFunctionOnSet(f, T) = iter[T]
    BY DEF SumFunctionOnSet, FoldFunctionOnSet, MapThenFoldSet, Pick
  <2> HIDE DEF iter
  <2> QED BY <2>1, <2>2 DEF SumSteps
<1>2. SumFunctionOnSet(f, {}) = 0
  BY <1>1, FS_EmptySet DEF SumSteps
<1>3. ASSUME S # {}
      PROVE  SumFunctionOnSet(f, S) = f[Pick(S)] + SumFunctionOnSet(f, S \ {Pick(S)})
  <2> DEFINE R == S \ {Pick(S)}
  <2>1. R \in SUBSET S /\ R \in SUBSET R /\ S \in SUBSET S /\ IsFiniteSet(R)
    BY FS_Subset
  <2>2. PICK g : SumSteps(f, S, g) /\ SumFunctionOnSet(f, S) = g[S]
    BY <1>1
  <2> HIDE DEF R
  <2>3. PICK h : SumSteps(f, R, h) /\ SumFunctionOnSet(f, R) = h[R]
    BY <1>1, <2>1
  <2>4. g[S] = f[Pick(S)] + g[R]
    BY <1>3, <2>1, <2>2 DEF SumSteps, R
  <2>5. h[R] = g[R]
    BY <2>1, <2>2, <2>3, SumStepsAgree
  <2> QED BY <2>2, <2>3, <2>4, <2>5 DEF R
<1> QED BY <1>2, <1>3

LEMMA SumIsNatural ==
  ASSUME NEW f, NEW S, IsFiniteSet(S), \A x \in S : f[x] \in Nat
  PROVE  SumFunctionOnSet(f, S) \in Nat
<1> DEFINE F == {A \in SUBSET S : SumFunctionOnSet(f, A) \in Nat}
<1>1. {} \in F
  <2>1. SumFunctionOnSet(f, {}) = 0
    BY SumUnfolds
  <2> QED BY <2>1
<1>2. ASSUME NEW A \in SUBSET S, A # {}, \A x \in A : A \ {x} \in F
      PROVE  A \in F
  <2>1. Pick(A) \in A /\ IsFiniteSet(A)
    BY <1>2, PickIsElement, FS_Subset
  <2>2. SumFunctionOnSet(f, A) = f[Pick(A)] + SumFunctionOnSet(f, A \ {Pick(A)})
    BY <1>2, <2>1, SumUnfolds
  <2>3. SumFunctionOnSet(f, A \ {Pick(A)}) \in Nat /\ f[Pick(A)] \in Nat
    BY <1>2, <2>1
  <2> QED BY <2>2, <2>3
<1> HIDE DEF F
<1>3. SUBSET S \subseteq F
  BY <1>1, <1>2, SubsetInduction
<1> QED BY <1>3 DEF F

LEMMA SumsAgree ==
  ASSUME NEW f, NEW g, NEW S, IsFiniteSet(S), \A x \in S : f[x] = g[x]
  PROVE  SumFunctionOnSet(f, S) = SumFunctionOnSet(g, S)
<1> DEFINE F == {A \in SUBSET S : SumFunctionOnSet(f, A) = SumFunctionOnSet(g, A)}
<1>1. {} \in F
  <2>1. SumFunctionOnSet(f, {}) = 0 /\ SumFunctionOnSet(g, {}) = 0
    BY SumUnfolds
  <2> QED BY <2>1
<1>2. ASSUME NEW A \in SUBSET S, A # {}, \A x \in A : A \ {x} \in F
      PROVE  A \in F
  <2>1. Pick(A) \in A /\ IsFiniteSet(A)
    BY <1>2, PickIsElement, FS_Subset
  <2>2. /\ SumFunctionOnSet(f, A) = f[Pick(A)] + SumFunctionOnSet(f, A \ {Pick(A)})
        /\ SumFunctionOnSet(g, A) = g[Pick(A)] + SumFunctionOnSet(g, A \ {Pick(A)})
    BY <1>2, <2>1, SumUnfolds
  <2> QED BY <1>2, <2>1, <2>2
<1> HIDE DEF F
<1>3. SUBSET S \subseteq F
  BY <1>1, <1>2, SubsetInduction
<1> QED BY <1>3 DEF F

\* Any element may come first.
LEMMA SumTakesAny ==
  ASSUME NEW f, NEW S, IsFiniteSet(S), \A x \in S : f[x] \in Nat, NEW a \in S
  PROVE  SumFunctionOnSet(f, S) = f[a] + SumFunctionOnSet(f, S \ {a})
<1> DEFINE F == {A \in SUBSET S : \A x \in A :
                   SumFunctionOnSet(f, A) = f[x] + SumFunctionOnSet(f, A \ {x})}
<1>1. {} \in F
  OBVIOUS
<1>2. ASSUME NEW A \in SUBSET S, A # {}, \A x \in A : A \ {x} \in F
      PROVE  A \in F
  <2>1. ASSUME NEW x \in A
        PROVE  SumFunctionOnSet(f, A) = f[x] + SumFunctionOnSet(f, A \ {x})
    <3> DEFINE y == Pick(A)
    <3>1. y \in A /\ IsFiniteSet(A)
      BY <1>2, PickIsElement, FS_Subset
    <3>2. SumFunctionOnSet(f, A) = f[y] + SumFunctionOnSet(f, A \ {y})
      BY <1>2, <3>1, SumUnfolds
    <3> HIDE DEF y
    <3>3. CASE x = y
      BY <3>2, <3>3
    <3>4. CASE x # y
      <4>1. x \in A \ {y} /\ y \in A \ {x} /\ (A \ {y}) \ {x} = (A \ {x}) \ {y}
        BY <3>1, <3>4
      <4>2. SumFunctionOnSet(f, A \ {y}) = f[x] + SumFunctionOnSet(f, (A \ {y}) \ {x})
        BY <1>2, <3>1, <4>1
      <4>3. SumFunctionOnSet(f, A \ {x}) = f[y] + SumFunctionOnSet(f, (A \ {y}) \ {x})
        BY <1>2, <3>1, <4>1
      <4>4. SumFunctionOnSet(f, (A \ {y}) \ {x}) \in Nat
        <5>1. IsFiniteSet((A \ {y}) \ {x})
          BY <3>1, FS_Subset
        <5> QED BY <5>1, SumIsNatural
      <4>5. f[x] \in Nat /\ f[y] \in Nat
        BY <3>1
      <4> QED BY <3>2, <4>2, <4>3, <4>4, <4>5
    <3> QED BY <3>3, <3>4
  <2> QED BY <2>1
<1> HIDE DEF F
<1>3. SUBSET S \subseteq F
  BY <1>1, <1>2, SubsetInduction
<1>4. S \in F
  BY <1>3
<1> QED BY <1>4 DEF F

LEMMA SumSplits ==
  ASSUME NEW f, NEW S, NEW T, IsFiniteSet(S), IsFiniteSet(T), S \cap T = {},
         \A x \in S \cup T : f[x] \in Nat
  PROVE  SumFunctionOnSet(f, S \cup T) = SumFunctionOnSet(f, S) + SumFunctionOnSet(f, T)
<1> DEFINE F == {A \in SUBSET T :
                   SumFunctionOnSet(f, S \cup A) = SumFunctionOnSet(f, S) + SumFunctionOnSet(f, A)}
<1>1. {} \in F
  <2>1. SumFunctionOnSet(f, S) \in Nat /\ SumFunctionOnSet(f, {}) = 0 /\ S \cup {} = S
    BY SumIsNatural, SumUnfolds
  <2> QED BY <2>1
<1>2. ASSUME NEW A \in SUBSET T, A # {}, \A x \in A : A \ {x} \in F
      PROVE  A \in F
  <2>1. PICK x \in A : TRUE
    BY <1>2
  <2>2. IsFiniteSet(A) /\ IsFiniteSet(S \cup A) /\ IsFiniteSet(A \ {x})
    BY FS_Subset, FS_Union
  <2>3. SumFunctionOnSet(f, S \cup A) = f[x] + SumFunctionOnSet(f, S \cup (A \ {x}))
    <3>1. (S \cup A) \ {x} = S \cup (A \ {x}) /\ x \in S \cup A
      BY <2>1
    <3>2. \A y \in S \cup A : f[y] \in Nat
      OBVIOUS
    <3>3. SumFunctionOnSet(f, S \cup A) = f[x] + SumFunctionOnSet(f, (S \cup A) \ {x})
      BY <2>2, <3>1, <3>2, SumTakesAny
    <3> QED BY <3>1, <3>3
  <2>4. SumFunctionOnSet(f, A) = f[x] + SumFunctionOnSet(f, A \ {x})
    BY <2>1, <2>2, SumTakesAny
  <2>5. SumFunctionOnSet(f, S \cup (A \ {x})) = SumFunctionOnSet(f, S) + SumFunctionOnSet(f, A \ {x})
    BY <1>2, <2>1
  <2>6. f[x] \in Nat /\ SumFunctionOnSet(f, S) \in Nat /\ SumFunctionOnSet(f, A \ {x}) \in Nat
    BY <2>1, <2>2, SumIsNatural
  <2> QED BY <2>3, <2>4, <2>5, <2>6
<1> HIDE DEF F
<1>3. SUBSET T \subseteq F
  BY <1>1, <1>2, SubsetInduction
<1>4. T \in F
  BY <1>3
<1> QED BY <1>4 DEF F

\* A sum over the image of a set, of which every element is the image of one.
LEMMA SumOfTheImage ==
  ASSUME NEW f, NEW g, NEW S, NEW h, IsFiniteSet(S),
         \A x \in S : f[x] \in Nat /\ g[h[x]] = f[x],
         \A x, y \in S : h[x] = h[y] => x = y
  PROVE  SumFunctionOnSet(g, {h[x] : x \in S}) = SumFunctionOnSet(f, S)
<1> DEFINE I(A) == {h[x] : x \in A}
           F == {A \in SUBSET S : IsFiniteSet(I(A))
                   /\ SumFunctionOnSet(g, I(A)) = SumFunctionOnSet(f, A)}
<1>1. {} \in F
  <2>1. I({}) = {}
    OBVIOUS
  <2>2. IsFiniteSet({})
    BY FS_EmptySet
  <2> HIDE DEF I
  <2> QED BY <2>1, <2>2, SumUnfolds
<1>2. ASSUME NEW A \in SUBSET S, A # {}, \A x \in A : A \ {x} \in F
      PROVE  A \in F
  <2>1. PICK x \in A : TRUE
    BY <1>2
  <2>2. I(A) = I(A \ {x}) \cup {h[x]} /\ h[x] \notin I(A \ {x}) /\ h[x] \in I(A)
        /\ I(A) \ {h[x]} = I(A \ {x})
    BY <2>1
  <2>3. IsFiniteSet(A) /\ IsFiniteSet(I(A \ {x}))
        /\ SumFunctionOnSet(g, I(A \ {x})) = SumFunctionOnSet(f, A \ {x})
    BY <1>2, <2>1, FS_Subset
  <2>4. \A z \in I(A) : g[z] \in Nat
    OBVIOUS
  <2>5. g[h[x]] = f[x] /\ \A y \in A : f[y] \in Nat
    BY <2>1
  <2> DEFINE J == I(A \ {x})
             K == I(A)
  <2> HIDE DEF I
  <2>6. IsFiniteSet(K)
    <3>1. K = J \cup {h[x]} /\ IsFiniteSet(J)
      BY <2>2, <2>3
    <3> HIDE DEF J, K
    <3> QED BY <3>1, FS_AddElement
  <2>7. SumFunctionOnSet(g, I(A)) = g[h[x]] + SumFunctionOnSet(g, I(A \ {x}))
    <3>1. h[x] \in K /\ K \ {h[x]} = J /\ \A z \in K : g[z] \in Nat
      BY <2>2, <2>4
    <3>2. SumFunctionOnSet(g, K) = g[h[x]] + SumFunctionOnSet(g, K \ {h[x]})
      <4> HIDE DEF K, J
      <4> QED BY <2>6, <3>1, SumTakesAny
    <3> HIDE DEF J, K
    <3> QED BY <3>1, <3>2 DEF J, K
  <2>8. SumFunctionOnSet(f, A) = f[x] + SumFunctionOnSet(f, A \ {x})
    BY <2>1, <2>3, <2>5, SumTakesAny
  <2> QED BY <2>3, <2>5, <2>6, <2>7, <2>8
<1> HIDE DEF F
<1>3. SUBSET S \subseteq F
  BY <1>1, <1>2, SubsetInduction
<1>4. S \in F
  BY <1>3
<1> QED BY <1>4 DEF F

------------------------------------------------------------------------------
(* The chain of parents. *)

\* Who a table of relationships names as the parent of x.
Parent(rel, x) == IF x \in DOMAIN rel THEN rel[x].parent ELSE NoThread

\* The recursion of Chain has a value, since it looks back one step only.
LEMMA ChainSteps ==
  ASSUME NEW rel, NEW t
  PROVE  \A n \in 0..MaxDepth :
           Chain(rel, t)[n] = IF n = 0 THEN t ELSE Parent(rel, Chain(rel, t)[n - 1])
<1> DEFINE Steps(f, k) == f = [n \in 0..k |-> IF n = 0 THEN t ELSE Parent(rel, f[n - 1])]
           S == {k \in Nat : \E f : Steps(f, k)}
           up[n \in 0..MaxDepth] == IF n = 0 THEN t
                                    ELSE IF up[n - 1] \in DOMAIN rel THEN rel[up[n - 1]].parent
                                    ELSE NoThread
<1>1. 0 \in S
  <2> DEFINE f == [n \in 0..0 |-> t]
  <2>1. Steps(f, 0)
    OBVIOUS
  <2> QED BY <2>1
<1>2. ASSUME NEW k \in S
      PROVE  k + 1 \in S
  <2>1. PICK f : Steps(f, k)
    OBVIOUS
  <2> DEFINE g == [n \in 0..(k + 1) |-> IF n = k + 1 THEN Parent(rel, f[k]) ELSE f[n]]
  <2>2. ASSUME NEW n \in 0..(k + 1)
        PROVE  g[n] = IF n = 0 THEN t ELSE Parent(rel, g[n - 1])
    BY <2>1, <2>2
  <2>3. Steps(g, k + 1)
    BY <2>2
  <2>4. k + 1 \in Nat
    OBVIOUS
  <2> HIDE DEF Steps, g
  <2> QED BY <2>3, <2>4
<1>3. MaxDepth \in S
  <2> HIDE DEF S
  <2> QED BY <1>1, <1>2, Induction, DepthAssumption DEF S
<1>4. \E f : f = [n \in 0..MaxDepth |-> IF n = 0 THEN t
                                        ELSE IF f[n - 1] \in DOMAIN rel THEN rel[f[n - 1]].parent
                                        ELSE NoThread]
  BY <1>3 DEF Parent
<1>5. up = [n \in 0..MaxDepth |-> IF n = 0 THEN t
                                  ELSE IF up[n - 1] \in DOMAIN rel THEN rel[up[n - 1]].parent
                                  ELSE NoThread]
  BY <1>4
<1>6. Chain(rel, t) = [n \in 0..MaxDepth |-> up[n]]
  BY DEF Chain
<1> HIDE DEF up
<1>7. ASSUME NEW n \in 0..MaxDepth
      PROVE  Chain(rel, t)[n] = IF n = 0 THEN t ELSE Parent(rel, Chain(rel, t)[n - 1])
  <2>1. n # 0 => n - 1 \in 0..MaxDepth
    BY DepthAssumption
  <2>2. up[n] = IF n = 0 THEN t ELSE Parent(rel, up[n - 1])
    BY <1>5 DEF Parent
  <2> QED BY <1>6, <2>1, <2>2
<1> QED BY <1>7
\* What holds of t and passes from a thread to its parent holds along the chain.
LEMMA ChainStays ==
  ASSUME NEW rel, NEW t, NEW S, t \in S,
         \A x \in S \cup {NoThread} : Parent(rel, x) \in S \cup {NoThread}
  PROVE  \A n \in 0..MaxDepth : Chain(rel, t)[n] \in S \cup {NoThread}
<1> DEFINE c == Chain(rel, t)
           N == {n \in Nat : n <= MaxDepth => c[n] \in S \cup {NoThread}}
<1>1. 0 \in N
  BY ChainSteps, DepthAssumption
<1>2. ASSUME NEW n \in N
      PROVE  n + 1 \in N
  <2>1. CASE n + 1 <= MaxDepth
    <3>1. c[n + 1] = Parent(rel, c[n])
      BY <2>1, ChainSteps, DepthAssumption
    <3>2. c[n] \in S \cup {NoThread}
      BY <2>1, DepthAssumption
    <3> HIDE DEF c
    <3> QED BY <3>1, <3>2
  <2>2. CASE ~ (n + 1 <= MaxDepth)
    BY <2>2
  <2> QED BY <2>1, <2>2
<1>3. N = Nat
  <2> HIDE DEF N
  <2> QED BY <1>1, <1>2, Induction DEF N
<1>4. ASSUME NEW n \in 0..MaxDepth
      PROVE  c[n] \in S \cup {NoThread}
  <2>1. n \in N /\ n <= MaxDepth
    BY <1>3, DepthAssumption
  <2> QED BY <2>1
<1> QED BY <1>4

------------------------------------------------------------------------------
(* What the resolver works out. *)

\* The sources tell nothing but the truth.
Honest(edges, known) ==
  edges \subseteq Edges /\ \A t \in Threads : known[t] \subseteq Evidence[t]

LEMMA AffectedThreads ==
  ASSUME NEW v
  PROVE  /\ Affected(v) \subseteq Threads /\ DOMAIN Relationships(v) = Affected(v)
         /\ \A t \in Affected(v) : Relationships(v)[t] = Relationship(v, t)
BY DEF Affected, Relationships

\* The parent is a thread that some source names.
LEMMA RelationshipParent ==
  ASSUME NEW v, NEW t \in Threads
  PROVE  /\ Relationship(v, t).parent \in Threads \cup {NoThread}
         /\ Relationship(v, t).parent # NoThread =>
              \E i \in 1..4 : Relationship(v, t).parent \in Candidates(v, t)[i]
<1> DEFINE c == Candidates(v, t)
           best == {i \in 1..4 : c[i] # {} /\ \A j \in 1..(i - 1) : c[j] = {}}
           one == {p \in Threads : \E i \in best : c[i] = {p}}
           parent == IF one = {} THEN NoThread ELSE CHOOSE p \in one : TRUE
<1>1. Relationship(v, t).parent = parent
  BY DEF Relationship
<1>2. one # {} => parent \in one
  OBVIOUS
<1>3. one = {} => parent = NoThread
  OBVIOUS
<1>4. parent \in one => \E i \in 1..4 : parent \in c[i]
  <2> HIDE DEF c, parent
  <2> QED OBVIOUS
<1>5. one \subseteq Threads
  OBVIOUS
<1> HIDE DEF one, parent, c
<1> QED BY <1>1, <1>2, <1>3, <1>4, <1>5 DEF c

LEMMA RelationshipIsTrue ==
  ASSUME NEW v, Honest(v.src.edges, v.known), NEW t \in Threads
  PROVE  Relationship(v, t).parent \in {NoThread, Tree[t]}
<1>1. ASSUME NEW i \in 1..4, NEW p \in Candidates(v, t)[i]
      PROVE  p \in {NoThread, Tree[t]}
  <2>1. Candidates(v, t) = <<{e[1] : e \in {d \in v.src.edges : d[2] = t}},
                             Hints(v, t, "direct"), Hints(v, t, "nested"), Hints(v, t, "forked")>>
    BY DEF Candidates
  <2>2. \A q \in {e[1] : e \in {d \in v.src.edges : d[2] = t}} : q \in {NoThread, Tree[t]}
    BY TruthAssumption DEF Honest
  <2>3. \A level : \A q \in Hints(v, t, level) : q \in {NoThread, Tree[t]}
    BY TruthAssumption DEF Hints, Honest
  <2>4. i = 1 \/ i = 2 \/ i = 3 \/ i = 4
    OBVIOUS
  <2> QED BY <2>1, <2>2, <2>3, <2>4
<1> QED BY <1>1, RelationshipParent

\* The chain of a thread in the table of relationships.
LEMMA ChainType ==
  ASSUME NEW v, NEW t \in Threads
  PROVE  /\ \A n \in 0..MaxDepth : Chain(Relationships(v), t)[n] \in Threads \cup {NoThread}
         /\ Honest(v.src.edges, v.known) =>
              \A n \in 0..MaxDepth : Chain(Relationships(v), t)[n] \in Ancestry(t)
<1> DEFINE rel == Relationships(v)
<1>1. \A x \in Threads \cup {NoThread} : Parent(rel, x) \in Threads \cup {NoThread}
  BY AffectedThreads, RelationshipParent DEF Parent
<1>2. \A n \in 0..MaxDepth : Chain(rel, t)[n] \in Threads \cup {NoThread}
  <2> HIDE DEF rel
  <2> QED BY <1>1, ChainStays
<1>3. ASSUME Honest(v.src.edges, v.known), NEW n \in 0..MaxDepth
      PROVE  Chain(rel, t)[n] \in Ancestry(t)
  <2>1. ASSUME NEW S \in SUBSET Threads, t \in S, \A s \in S : Tree[s] \in S \cup {NoThread}
        PROVE  Chain(rel, t)[n] \in S \cup {NoThread}
    <3>1. \A x \in S \cup {NoThread} : Parent(rel, x) \in S \cup {NoThread}
      BY <1>3, <2>1, AffectedThreads, RelationshipIsTrue, ThreadsAssumption DEF Parent
    <3> HIDE DEF rel
    <3> QED BY <2>1, <3>1, ChainStays
  <2> HIDE DEF rel
  <2>2. CASE Chain(rel, t)[n] = NoThread
    BY <2>2 DEF Ancestry
  <2>3. CASE Chain(rel, t)[n] # NoThread
    BY <1>2, <2>1, <2>3 DEF Ancestry
  <2> QED BY <2>2, <2>3
<1> QED BY <1>2, <1>3
\* What the resolver works out about a thread.
LEMMA GraphOf ==
  ASSUME NEW v, NEW t \in Affected(v)
  PROVE  LET g == Graph(v)
         IN  /\ g.rel = Relationships(v) /\ DOMAIN g.rel = Affected(v)
             /\ g.rel[t].parent \in Threads \cup {NoThread}
             /\ g.role[t] = "subagent" => g.rel[t].parent # NoThread
             /\ g.root[t] \in Threads \cup {NoThread}
             /\ Honest(v.src.edges, v.known) =>
                  g.rel[t].parent \in {NoThread, Tree[t]} /\ g.root[t] \in Ancestry(t)
<1> DEFINE rel == Relationships(v)
           g == [rel |-> rel, chain |-> Chains(rel), trusted |-> Trusted(v)]
           role == [s \in DOMAIN rel |-> Role(v, g, s)]
           h == [rel |-> rel, chain |-> g.chain, trusted |-> g.trusted, role |-> role]
           G == Graph(v)
<1>1. /\ G.rel = rel /\ G.role = role /\ G.root = [s \in DOMAIN rel |-> Root(h, s)]
      /\ g.rel = rel /\ h.chain = Chains(rel)
  BY DEF Graph
<1>2. t \in DOMAIN rel /\ t \in Threads /\ DOMAIN rel = Affected(v) /\ rel[t] = Relationship(v, t)
  BY AffectedThreads
<1>3. Chains(rel)[t] = Chain(rel, t)
  BY <1>2 DEF Chains
<1> HIDE DEF rel, G
<1>4. role[t] = "subagent" => rel[t].parent # NoThread
  BY <1>2 DEF Role
<1>5. Root(h, t) = NoThread \/ \E n \in 0..MaxDepth : Root(h, t) = Chain(rel, t)[n]
  <2> DEFINE top == {n \in 0..MaxDepth : Reaches(h, t, n) /\ h.role[h.chain[t][n]] = "main"}
  <2>1. Root(h, t) = IF top = {} THEN NoThread ELSE h.chain[t][CHOOSE n \in top : TRUE]
    BY DEF Root
  <2>2. top \subseteq 0..MaxDepth
    OBVIOUS
  <2>3. top # {} => (CHOOSE n \in top : TRUE) \in 0..MaxDepth
    <3> HIDE DEF top
    <3> QED BY <2>2
  <2> HIDE DEF top
  <2> QED BY <1>1, <1>3, <2>1, <2>3
<1>6. NoThread \in Ancestry(t)
  BY DEF Ancestry
<1>7. Root(h, t) \in Threads \cup {NoThread}
  BY <1>2, <1>5, ChainType DEF rel
<1>8. Honest(v.src.edges, v.known) => rel[t].parent \in {NoThread, Tree[t]} /\ Root(h, t) \in Ancestry(t)
  BY <1>2, <1>5, <1>6, ChainType, RelationshipIsTrue DEF rel
<1>9. rel[t].parent \in Threads \cup {NoThread}
  BY <1>2, RelationshipParent
<1>10. G.root[t] = Root(h, t) /\ G.role[t] = role[t]
  BY <1>1, <1>2
<1> HIDE DEF h, role
<1> QED BY <1>1, <1>2, <1>4, <1>7, <1>8, <1>9, <1>10 DEF G, rel

------------------------------------------------------------------------------
(* A patch and the row it makes. *)

\* A row that the store accepts and that tells the truth.
Sound(t, row) ==
  row # NoRow => row \in Row /\ ValidRow(t, row)

\* What a patch makes of the row it was resolved for.
LEMMA PatchMakes ==
  ASSUME NEW v, NEW t \in Affected(v), v.rows[t] \in Row \cup {NoRow}, Sound(t, v.rows[t]),
         NEW now \in Nat
  PROVE  LET g == Graph(v)
             r == RowAfter(v.rows[t], t, Patch(v, g, t), now)
         IN  /\ r \in Row /\ ValidRow(t, r) /\ ~RootCleared(v.rows[t], r)
             /\ \/ r.parent = NoThread /\ r.root = t
                \/ r.parent = g.rel[t].parent /\ r.root \in {g.root[t], Stored(v, t).root}
                \/ r.parent = Stored(v, t).parent /\ r.root = Stored(v, t).root
<1> DEFINE g == Graph(v)
           e == Stored(v, t)
           p == Patch(v, g, t)
           rp == RelationPatch(v, g, t)
           r == RowAfter(v.rows[t], t, p, now)
           parent == IF p.parent = Clear THEN NoThread ELSE Apply(e.parent, p.parent)
           role == Apply(e.role, p.role)
           root == IF v.rows[t] = NoRow /\ role = "main" /\ p.root = Keep THEN t ELSE Apply(e.root, p.root)
<1>1. t \in Threads /\ e = (IF v.rows[t] = NoRow THEN Blank ELSE v.rows[t])
  BY AffectedThreads DEF Stored, Exists
<1>2. e \in Row /\ ValidRow(t, e) /\ (v.rows[t] = NoRow => e = Blank)
  BY <1>1 DEF Sound, Blank, Row, Roles, ValidRow
<1>3. r = [parent |-> parent, root |-> root, role |-> role, title |-> Apply(e.title, p.title),
           project |-> Apply(e.project, p.project), dated |-> Apply(e.dated, p.dated),
           kind |-> Apply(e.kind, p.kind), quality |-> p.quality, at |-> now]
  BY <1>1 DEF RowAfter
<1>4. /\ p.parent = rp.parent /\ p.root = rp.root /\ p.role = rp.role
      /\ p.title = SetIf(TitleOf(v, g, t) # "none", e.title, TitleOf(v, g, t))
      /\ p.project = SetIf(Identified(v, t), e.project, TRUE)
      /\ p.dated = SetIf(Dated(v, t), e.dated, TRUE)
      /\ p.kind = Set(e.kind, KindOf(v, t)) /\ p.quality = QualityOf(v, g, t)
  BY DEF Patch
<1>5. /\ Apply(e.title, p.title) \in {"none", "state", "index", "path"}
      /\ Apply(e.project, p.project) \in BOOLEAN /\ Apply(e.dated, p.dated) \in BOOLEAN
      /\ Apply(e.kind, p.kind) \in {"unknown", "project", "projectless"}
      /\ p.quality \in {"complete", "partial", "conflict"}
  <2>1. e.title \in {"none", "state", "index", "path"} /\ e.kind \in {"unknown", "project", "projectless"}
        /\ e.project \in BOOLEAN /\ e.dated \in BOOLEAN
    BY <1>2 DEF Row
  <2>2. TitleOf(v, g, t) \in {"none", "state", "index", "path"}
    BY DEF TitleOf
  <2>3. KindOf(v, t) \in {"unknown", "project", "projectless"}
    BY <2>1 DEF KindOf
  <2>4. QualityOf(v, g, t) \in {"complete", "partial", "conflict"}
    BY DEF QualityOf
  <2> HIDE DEF e, g, p
  <2> QED BY <1>4, <2>1, <2>2, <2>3, <2>4 DEF Apply, Set, SetIf
<1>6. /\ g.rel[t].parent \in Threads \cup {NoThread} /\ g.root[t] \in Threads \cup {NoThread}
      /\ g.role[t] = "subagent" => g.rel[t].parent # NoThread
  BY GraphOf
<1>7. /\ e.parent \in Threads \cup {NoThread} /\ e.root \in Threads \cup {NoThread} /\ e.role \in Roles
  BY <1>2 DEF Row
<1>8. rp = IF BecomesMain(g, t) THEN MainPatch(e, t)
           ELSE IF BecomesSubagent(g, t) THEN SubagentPatch(e, g, t)
           ELSE [parent |-> Keep, root |-> Keep, role |-> Keep]
  BY DEF RelationPatch
<1> HIDE DEF g, p, rp, e, r
<1>9. CASE BecomesMain(g, t)
  <2>1. /\ p.parent = (IF e.parent = NoThread THEN Keep ELSE Clear)
        /\ p.root = Set(e.root, t) /\ p.role = Set(e.role, "main")
    BY <1>4, <1>8, <1>9 DEF MainPatch
  <2>2. parent = NoThread /\ role = "main"
    BY <1>7, <2>1, ThreadsAssumption DEF Apply, Set, Roles
  <2>3. root = t
    BY <1>1, <1>7, <2>1, ThreadsAssumption DEF Apply, Set
  <2> HIDE DEF parent, role, root
  <2>4. r.parent = NoThread /\ r.root = t /\ r.role = "main" /\ r \in Row
    BY <1>1, <1>3, <1>5, <2>2, <2>3 DEF Row, Roles
  <2> QED BY <1>1, <2>4, ThreadsAssumption DEF ValidRow, RootCleared, r, e, p, g
<1>10. CASE ~ BecomesMain(g, t) /\ BecomesSubagent(g, t)
  <2>1. /\ p.parent = Set(e.parent, g.rel[t].parent)
        /\ p.root = SetIf(g.root[t] # NoThread, e.root, g.root[t]) /\ p.role = Set(e.role, "subagent")
        /\ g.rel[t].parent # NoThread
    BY <1>4, <1>6, <1>8, <1>10 DEF SubagentPatch, BecomesSubagent
  <2>2. parent = g.rel[t].parent /\ role = "subagent"
    BY <1>6, <1>7, <2>1, ThreadsAssumption DEF Apply, Set, Roles
  <2>3. root = IF g.root[t] # NoThread THEN g.root[t] ELSE e.root
    BY <1>6, <1>7, <2>1, <2>2, ThreadsAssumption DEF Apply, Set, SetIf
  <2> HIDE DEF parent, role, root
  <2>4. r.parent = g.rel[t].parent /\ r.root = root /\ r.role = "subagent" /\ r \in Row
    BY <1>3, <1>5, <1>6, <1>7, <2>2, <2>3 DEF Row, Roles
  <2>5. ValidRow(t, r) /\ ~RootCleared(v.rows[t], r)
    BY <1>1, <2>1, <2>3, <2>4 DEF ValidRow, RootCleared
  <2> QED BY <2>3, <2>4, <2>5 DEF r, e, p, g
<1>11. CASE ~ BecomesMain(g, t) /\ ~ BecomesSubagent(g, t)
  <2>1. p.parent = Keep /\ p.root = Keep /\ p.role = Keep
    BY <1>4, <1>8, <1>11
  <2>2. parent = e.parent /\ role = e.role
    BY <2>1, ThreadsAssumption DEF Apply
  <2>3. root = e.root
    BY <1>2, <2>1, <2>2 DEF Apply, Blank
  <2> HIDE DEF parent, role, root
  <2>4. r.parent = e.parent /\ r.root = e.root /\ r.role = e.role /\ r \in Row
    BY <1>3, <1>5, <1>7, <2>2, <2>3 DEF Row
  <2>5. ValidRow(t, r) /\ ~RootCleared(v.rows[t], r)
    BY <1>1, <1>2, <2>4 DEF ValidRow, RootCleared
  <2> QED BY <2>4, <2>5 DEF r, e, p, g
<1> QED BY <1>9, <1>10, <1>11
------------------------------------------------------------------------------
(* Costs. *)

LEMMA ProductIsNatural ==
  ASSUME NEW a \in Nat, NEW b \in Nat
  PROVE  a * b \in Nat
OBVIOUS

\* An estimate that is stored fits its column.
LEMMA CostFits ==
  ASSUME NEW p \in Programs, NEW e, EventCost(p, e) # Failed
  PROVE  StoredCost(EventCost(p, e)) \in 0..MaxInt64 \cup {NoCount}
<1> DEFINE q == PriceOf(p, e.model, e.at)
           granularity == GranularityOf(e.kind)
           r == RatesOf(e, q)
<1>1. CASE q = NoCount
  BY <1>1 DEF EventCost, StoredCost, Unknown
<1>2. CASE q # NoCount
  <2>1. EventCost(p, e) = Estimate(e, q, granularity)
    BY <1>2 DEF EventCost
  <2>2. q \in Pricing
    <3> DEFINE target == PricingTarget(p, e.model)
               Matches == {i \in DOMAIN p.prices :
                             p.prices[i].model = target /\ IsEffectiveAt(p.prices[i], e.at)}
    <3>1. p.prices \in Seq(Pricing) /\ DOMAIN p.prices \subseteq Nat
      BY ProgramsAssumption
    <3>2. Matches # {} /\ q = p.prices[CHOOSE i \in Matches : \A j \in Matches : i <= j]
      BY <1>2 DEF PriceOf, ResolveFromCatalog
    <3>3. \E i \in Matches : \A j \in Matches : i <= j
      <4>1. Matches \in SUBSET Nat
        BY <3>1
      <4> HIDE DEF Matches
      <4> QED BY <3>2, <4>1, LeastElement
    <3>4. (CHOOSE i \in Matches : \A j \in Matches : i <= j) \in Matches
      <4> HIDE DEF Matches
      <4> QED BY <3>3
    <3>5. Matches \subseteq DOMAIN p.prices
      OBVIOUS
    <3> HIDE DEF q, Matches
    <3> QED BY <3>1, <3>2, <3>4, <3>5
  <2> HIDE DEF q
  <2>3. CASE EventCost(p, e) = Unknown
    BY <2>3 DEF StoredCost, Unknown
  <2>4. CASE EventCost(p, e) # Unknown
    <3>1. /\ ValidUsage(e) /\ ValidPricing(q) /\ ~ (Total(e, r) > MaxInt64)
          /\ ~ (OrZero(e.write) # 0 /\ r.write = NoCount) /\ EventCost(p, e) = Known(Total(e, r))
      BY <2>1, <2>4 DEF Estimate
    <3>2. r \in Rates /\ HasNonNegativeRates(r)
      BY <2>2, <3>1 DEF RatesOf, IsLong, ValidPricing, Pricing, LongContext
    <3>3. /\ Uncached(e) \in Nat /\ e.cached \in Nat /\ e.output \in Nat
          /\ OrZero(e.write) # 0 => e.write \in Nat
      BY <3>1, CostAssumption DEF ValidUsage, Uncached, OrZero
    <3>4. r.input \in Nat /\ r.cached \in Nat /\ r.output \in Nat
          /\ (OrZero(e.write) # 0 => r.write \in Nat)
      BY <3>1, <3>2, CostAssumption DEF Rates, HasNonNegativeRates, Int64
    <3> HIDE DEF r
    <3>5. /\ Uncached(e) * r.input \in Nat /\ e.cached * r.cached \in Nat /\ e.output * r.output \in Nat
          /\ (IF OrZero(e.write) = 0 THEN 0 ELSE e.write * r.write) \in Nat
      BY <3>3, <3>4, ProductIsNatural
    <3>6. Total(e, r) \in 0..MaxInt64
      BY <3>1, <3>5, CostAssumption DEF Total
    <3> QED BY <3>1, <3>6 DEF StoredCost, Known
  <2> QED BY <2>3, <2>4
<1> QED BY <1>1, <1>2

LEMMA CostsFit ==
  ASSUME NEW p \in Programs, NEW E, Estimable(p, E)
  PROVE  DOMAIN CostsBy(p, E) = E
         /\ \A e \in E : CostsBy(p, E)[e] \in 0..MaxInt64 \cup {NoCount}
BY CostFits DEF CostsBy, Estimable
------------------------------------------------------------------------------
(* The inductive invariant. *)

\* What the sources hold, and what a round has read of them, is true.
SourcesHonest ==
  Honest(world.edges, facts) /\ Honest(view.src.edges, view.known)

\* Every row is one the store accepts, of a thread under its own ancestors.
RowsSound ==
  \A t \in Threads :
    /\ Sound(t, rows[t])
    /\ rows[t] # NoRow =>
         rows[t].parent \in {NoThread, Tree[t]} /\ rows[t].root \in Ancestry(t)

\* The patches are those of the view, and a row that is still to be written is
\* as the view has it.
RoundFits ==
  pc = "commit" => patches = Resolve(view) /\ \A t \in todo : view.rows[t] = rows[t]

\* Usage is counted under the root of its thread, and what refers to a row finds it.
UsageFits ==
  /\ \A t \in Threads : usage[t] # NoThread =>
       rows[t] # NoRow /\ usage[t] = rows[t].root /\ rows[usage[t]] # NoRow
  /\ quarantine \in UNION {[R -> SUBSET Threads] : R \in SUBSET Threads}
  /\ \A r \in DOMAIN quarantine : rows[r] # NoRow

\* What is stored is what the running program would charge, and it can be stored.
CostsAreCurrent ==
  /\ priced = program.version
  /\ \A t \in Threads : usage[t] # NoThread =>
       costs[t] = CostsBy(program, Lines[t]) /\ Estimable(program, Lines[t])

CostsTyped ==
  /\ program \in Programs /\ DOMAIN costs = Threads
  /\ \A t \in Threads : usage[t] = NoThread => DOMAIN costs[t] = {}

RowsInv   == TypeOK /\ SourcesHonest /\ RowsSound /\ RoundFits
LedgerInv == RowsInv /\ UsageFits /\ CostsAreCurrent /\ CostsTyped

LEMMA NoViewIsEmpty ==
  /\ NoView \in View /\ NoView.src.edges = {} /\ NoView.src \in World
  /\ \A t \in Threads : NoView.known[t] = {} /\ NoView.rows[t] = NoRow
BY DEF NoView, View, World, Snapshot

LEMMA InitHolds ==
  ASSUME LedgerInit
  PROVE  LedgerInv
<1>1. PICK l \in Left : world = [NoView.src EXCEPT !.edges = l.edges] /\ facts = l.facts
  BY DEF LedgerInit, Init
<1>2. /\ l.edges \subseteq Edges /\ l.facts \in [Threads -> SUBSET Fact]
      /\ \A t \in Threads : l.facts[t] \subseteq Evidence[t]
  BY SourcesAssumption, TruthAssumption
<1>3. world \in World /\ world.edges = l.edges
  BY <1>1, <1>2, NoViewIsEmpty, SourcesAssumption DEF World
<1>4. TypeOK
  BY <1>1, <1>2, <1>3, NoViewIsEmpty DEF LedgerInit, Init, TypeOK
<1>5. SourcesHonest
  BY <1>1, <1>2, <1>3, NoViewIsEmpty DEF LedgerInit, Init, SourcesHonest, Honest
<1>6. RowsSound /\ RoundFits
  BY DEF LedgerInit, Init, RowsSound, Sound, RoundFits
<1>7. UsageFits
  BY DEF LedgerInit, Init, UsageFits
<1>8. CostsAreCurrent /\ CostsTyped
  BY DEF LedgerInit, Init, CostsAreCurrent, CostsTyped
<1> QED BY <1>4, <1>5, <1>6, <1>7, <1>8 DEF LedgerInv, RowsInv
------------------------------------------------------------------------------
(* The steps that write no row. *)

LEMMA SnapshotIsOfTheWorld ==
  ASSUME NEW w \in World
  PROVE  Snapshot(w) \in World /\ Snapshot(w).edges \subseteq w.edges
<1>1. Snapshot(w) = [w EXCEPT !.db = IF w.stateUp THEN w.db ELSE [t \in Threads |-> NoRow],
                              !.edges = IF w.stateUp /\ w.edgesUp THEN w.edges ELSE {},
                              !.edgesUp = w.stateUp /\ w.edgesUp,
                              !.index = IF w.indexUp THEN w.index ELSE {}]
  BY DEF Snapshot
<1>2. /\ (IF w.stateUp THEN w.db ELSE [t \in Threads |-> NoRow]) \in [Threads -> StateRow \cup {NoRow}]
      /\ (IF w.stateUp /\ w.edgesUp THEN w.edges ELSE {}) \in SUBSET (Threads \X Threads)
      /\ (w.stateUp /\ w.edgesUp) \in BOOLEAN
      /\ (IF w.indexUp THEN w.index ELSE {}) \in SUBSET Threads
  BY DEF World
<1>3. (IF w.stateUp /\ w.edgesUp THEN w.edges ELSE {}) \subseteq w.edges
  OBVIOUS
<1> QED BY <1>1, <1>2, <1>3 DEF World

LEMMA StartRoundHolds ==
  ASSUME RowsInv, StartRound
  PROVE  RowsInv'
<1>1. /\ view' = [NoView EXCEPT !.src = Snapshot(world)] /\ world \in World
      /\ pc' = "files" /\ roundAt' = clock /\ clean' = TRUE
      /\ UNCHANGED <<world, facts, rows, bound, usage, patches, todo, clock, quiet>>
  BY DEF RowsInv, TypeOK, StartRound
<1>2. Snapshot(world) \in World /\ Snapshot(world).edges \subseteq world.edges
  BY <1>1, SnapshotIsOfTheWorld
<1>3. /\ view' \in View /\ view'.src = Snapshot(world) /\ view'.known = NoView.known
  BY <1>1, <1>2, NoViewIsEmpty DEF View
<1>4. TypeOK'
  BY <1>1, <1>3 DEF RowsInv, TypeOK
<1>5. SourcesHonest'
  BY <1>1, <1>2, <1>3, NoViewIsEmpty DEF RowsInv, SourcesHonest, Honest
<1>6. RowsSound' /\ RoundFits'
  BY <1>1 DEF RowsInv, RowsSound, RoundFits
<1> QED BY <1>4, <1>5, <1>6 DEF RowsInv

LEMMA ReadFilesHolds ==
  ASSUME RowsInv, NEW lost \in SUBSET Threads, ReadFiles(lost)
  PROVE  RowsInv'
<1> DEFINE known == [t \in Threads |-> IF t \in lost THEN {} ELSE facts[t]]
           v == [view EXCEPT !.known = known, !.rows = rows, !.blocked = Incomplete(lost)]
<1>1. /\ view' = v /\ patches' = Resolve(v) /\ todo' = GroupsOf(v)
      /\ clean' = (clean /\ lost = {}) /\ pc' = "commit"
      /\ UNCHANGED <<world, facts, rows, bound, usage, roundAt, clock, quiet>>
  BY DEF ReadFiles
<1>2. /\ world \in World /\ facts \in [Threads -> SUBSET Fact] /\ view \in View
      /\ rows \in [Threads -> Row \cup {NoRow}] /\ bound \subseteq Threads
      /\ clean \in BOOLEAN
  BY DEF RowsInv, TypeOK
<1>3. known \in [Threads -> SUBSET Fact] /\ Incomplete(lost) \subseteq Threads
  BY <1>2 DEF Incomplete
<1>4. v \in View /\ v.src = view.src /\ v.known = known /\ v.rows = rows
  <2> HIDE DEF known
  <2> QED BY <1>2, <1>3 DEF View
<1>5. GroupsOf(v) \subseteq Threads
  BY <1>2, AffectedThreads DEF GroupsOf
<1>6. \A t \in Threads : known[t] \subseteq facts[t]
  OBVIOUS
<1> HIDE DEF v, known
<1>7. TypeOK'
  BY <1>1, <1>2, <1>4, <1>5 DEF RowsInv, TypeOK
<1>8. SourcesHonest'
  BY <1>1, <1>4, <1>6 DEF RowsInv, SourcesHonest, Honest
<1>9. RowsSound' /\ RoundFits'
  BY <1>1, <1>4 DEF RowsInv, RowsSound, RoundFits
<1> QED BY <1>7, <1>8, <1>9 DEF RowsInv

LEMMA RestHolds ==
  ASSUME RowsInv, Rest, todo' \subseteq Threads, quiet' \in 0..2
  PROVE  RowsInv'
<1>1. /\ pc' = "idle" /\ view' = NoView /\ roundAt' = 0 /\ clean' = TRUE
      /\ UNCHANGED <<world, facts, rows, bound, usage, clock>>
  BY DEF Rest
<1>2. TypeOK'
  BY <1>1, NoViewIsEmpty DEF RowsInv, TypeOK
<1>3. SourcesHonest'
  BY <1>1, NoViewIsEmpty DEF RowsInv, SourcesHonest, Honest
<1>4. RowsSound' /\ RoundFits'
  BY <1>1 DEF RowsInv, RowsSound, RoundFits
<1> QED BY <1>2, <1>3, <1>4 DEF RowsInv

LEMMA EndRoundHolds ==
  ASSUME RowsInv, EndRound
  PROVE  RowsInv'
<1>1. todo' \subseteq Threads /\ quiet' \in 0..2
  BY DEF RowsInv, TypeOK, EndRound
<1> QED BY <1>1, RestHolds DEF EndRound

LEMMA StopHolds ==
  ASSUME RowsInv, Stop
  PROVE  RowsInv'
BY RestHolds DEF Stop

LEMMA WorldChangeHolds ==
  ASSUME WorldChanges, world \in World, world.edges \subseteq Edges
  PROVE  world' \in World /\ world'.edges \subseteq Edges
<1>1. CASE \E t \in Threads, r \in StateRows : world' = [world EXCEPT !.db[t] = r]
  <2>1. PICK t \in Threads, r \in StateRows : world' = [world EXCEPT !.db[t] = r]
    BY <1>1
  <2>2. [world.db EXCEPT ![t] = r] \in [Threads -> StateRow \cup {NoRow}]
    BY SourcesAssumption DEF World
  <2>3. world' = [world EXCEPT !.db = [world.db EXCEPT ![t] = r]]
    BY <2>1 DEF World
  <2> QED BY <2>2, <2>3 DEF World
<1>2. CASE \E e \in Edges : world' = [world EXCEPT !.edges = @ \cup {e}]
  BY <1>2, SourcesAssumption DEF World
<1>3. CASE world' = [world EXCEPT !.stateUp = ~@]
  BY <1>3 DEF World
<1>4. CASE world' = [world EXCEPT !.edgesUp = ~@]
  BY <1>4 DEF World
<1>5. CASE \E t \in Threads : world' = [world EXCEPT !.index = @ \cup {t}]
  BY <1>5 DEF World
<1>6. CASE world' = [world EXCEPT !.indexUp = ~@]
  BY <1>6 DEF World
<1>7. CASE \E t \in Threads :
             world' = [world EXCEPT !.global = "complete", !.projectless = @ \cup {t}]
  <2>1. PICK t \in Threads :
          world' = [world EXCEPT !.global = "complete", !.projectless = @ \cup {t}]
    BY <1>7
  <2> DEFINE more == world.projectless \cup {t}
  <2>2. more \subseteq Threads
    BY DEF World
  <2>3. world' = [world EXCEPT !.global = "complete", !.projectless = more]
    BY <2>1
  <2> HIDE DEF more
  <2>4. world'.edges = world.edges
    BY <2>3 DEF World
  <2> QED BY <2>2, <2>3, <2>4 DEF World
<1>8. CASE world' = [world EXCEPT !.global = "bad"]
  BY <1>8 DEF World
<1> QED BY <1>1, <1>2, <1>3, <1>4, <1>5, <1>6, <1>7, <1>8 DEF WorldChanges

LEMMA FilesChangeHolds ==
  ASSUME FilesChange, facts \in [Threads -> SUBSET Fact],
         \A t \in Threads : facts[t] \subseteq Evidence[t]
  PROVE  /\ facts' \in [Threads -> SUBSET Fact]
         /\ \A t \in Threads : facts'[t] \subseteq Evidence[t]
BY SourcesAssumption DEF FilesChange

LEMMA ChangeHolds ==
  ASSUME RowsInv, Change
  PROVE  RowsInv'
<1>1. /\ world \in World /\ world.edges \subseteq Edges /\ facts \in [Threads -> SUBSET Fact]
      /\ \A t \in Threads : facts[t] \subseteq Evidence[t]
  BY DEF RowsInv, TypeOK, SourcesHonest, Honest
<1>2. /\ clean' = (pc = "idle") /\ quiet' = 0
      /\ UNCHANGED <<rows, bound, usage, pc, view, patches, todo, roundAt, clock>>
  BY DEF Change
<1>3. /\ world' \in World /\ world'.edges \subseteq Edges /\ facts' \in [Threads -> SUBSET Fact]
      /\ \A t \in Threads : facts'[t] \subseteq Evidence[t]
  BY <1>1, WorldChangeHolds, FilesChangeHolds DEF Change
<1>4. TypeOK'
  BY <1>2, <1>3 DEF RowsInv, TypeOK
<1>5. SourcesHonest'
  BY <1>2, <1>3 DEF RowsInv, SourcesHonest, Honest
<1>6. RowsSound' /\ RoundFits'
  BY <1>2 DEF RowsInv, RowsSound, RoundFits
<1> QED BY <1>4, <1>5, <1>6 DEF RowsInv
LEMMA SetClockHolds ==
  ASSUME RowsInv, SetClock
  PROVE  RowsInv'
<1>1. /\ clock' = 1 - clock
      /\ UNCHANGED <<world, facts, rows, bound, usage, pc, view, patches, todo, roundAt, clean, quiet>>
  BY DEF SetClock
<1>2. clock' \in {0, 1}
  BY <1>1 DEF RowsInv, TypeOK
<1>3. TypeOK'
  BY <1>1, <1>2 DEF RowsInv, TypeOK
<1>4. SourcesHonest' /\ RowsSound' /\ RoundFits'
  BY <1>1 DEF RowsInv, SourcesHonest, RowsSound, RoundFits
<1> QED BY <1>3, <1>4 DEF RowsInv

------------------------------------------------------------------------------
(* The commit of a group. *)

\* The patch of a thread fits the row that it meets.
LEMMA PatchFits ==
  ASSUME RowsInv, pc = "commit", NEW t \in todo, t \in DOMAIN patches
  PROVE  LET r == RowAfter(rows[t], t, patches[t], roundAt)
         IN  /\ r \in Row /\ ValidRow(t, r) /\ ~RootCleared(rows[t], r)
             /\ r.parent \in {NoThread, Tree[t]} /\ r.root \in Ancestry(t)
<1> DEFINE g == Graph(view)
           all == [u \in DOMAIN g.rel \ view.blocked |-> Patch(view, g, u)]
           r == RowAfter(rows[t], t, patches[t], roundAt)
           e == Stored(view, t)
<1>1. /\ patches = Resolve(view) /\ view.rows[t] = rows[t] /\ t \in Threads /\ roundAt \in Nat
      /\ view.rows[t] \in Row \cup {NoRow} /\ Sound(t, view.rows[t])
      /\ Honest(view.src.edges, view.known)
      /\ rows[t] # NoRow =>
           rows[t].parent \in {NoThread, Tree[t]} /\ rows[t].root \in Ancestry(t)
  BY DEF RowsInv, TypeOK, RoundFits, RowsSound, SourcesHonest
<1>2. Resolve(view) =
        [u \in {w \in DOMAIN all : Changes(view, w, all[w]) /\ Legal(all[w])} |-> all[u]]
  BY DEF Resolve
<1>3. DOMAIN all = DOMAIN g.rel \ view.blocked /\ DOMAIN g.rel = Affected(view)
  BY AffectedThreads DEF Graph
<1>4. t \in Affected(view) /\ patches[t] = Patch(view, g, t)
  <2> HIDE DEF g
  <2> QED BY <1>1, <1>2, <1>3
<1>5. /\ r \in Row /\ ValidRow(t, r) /\ ~RootCleared(rows[t], r)
      /\ \/ r.parent = NoThread /\ r.root = t
         \/ r.parent = g.rel[t].parent /\ r.root \in {g.root[t], e.root}
         \/ r.parent = e.parent /\ r.root = e.root
  BY <1>1, <1>4, PatchMakes
<1>6. g.rel[t].parent \in {NoThread, Tree[t]} /\ g.root[t] \in Ancestry(t)
  BY <1>1, <1>4, GraphOf
<1>7. t \in Ancestry(t) /\ NoThread \in Ancestry(t)
  BY <1>1 DEF Ancestry
<1>8. e.parent \in {NoThread, Tree[t]} /\ e.root \in Ancestry(t)
  BY <1>1, <1>7 DEF Stored, Exists, Blank
<1> HIDE DEF g, e, r
<1> QED BY <1>5, <1>6, <1>7, <1>8 DEF r

\* What a committed or skipped group leaves behind.
LEMMA CommitGroupHolds ==
  ASSUME RowsInv, UsageFits, NEW t \in Threads, CommitGroup(t)
  PROVE  /\ RowsInv'
         /\ \A u \in Threads : rows[u] # NoRow => rows'[u] # NoRow
         /\ \A u \in Threads : usage'[u] = NoThread <=> usage[u] = NoThread
         /\ \A u \in Threads : usage'[u] # NoThread =>
              rows'[u] # NoRow /\ usage'[u] = rows'[u].root /\ rows'[usage'[u]] # NoRow
<1> DEFINE r == RowAfter(rows[t], t, patches[t], roundAt)
<1>1. /\ pc = "commit" /\ t \in todo /\ todo' = todo \ {t}
      /\ UNCHANGED <<world, facts, pc, view, patches, roundAt, clock, quiet>>
      /\ Commit(t) \/ Skip(t)
  BY DEF CommitGroup
<1>2. /\ rows \in [Threads -> Row \cup {NoRow}] /\ usage \in [Threads -> Threads \cup {NoThread}]
      /\ bound \subseteq Threads /\ clean \in BOOLEAN
  BY DEF RowsInv, TypeOK
<1>3. bound' \subseteq Threads /\ clean' \in BOOLEAN
  BY <1>1, <1>2 DEF Commit, Skip
<1>4. ASSUME rows' = rows, usage' = usage
      PROVE  /\ RowsInv'
             /\ \A u \in Threads : rows[u] # NoRow => rows'[u] # NoRow
             /\ \A u \in Threads : usage'[u] = NoThread <=> usage[u] = NoThread
             /\ \A u \in Threads : usage'[u] # NoThread =>
                  rows'[u] # NoRow /\ usage'[u] = rows'[u].root /\ rows'[usage'[u]] # NoRow
  <2>1. TypeOK'
    BY <1>1, <1>3, <1>4 DEF RowsInv, TypeOK
  <2>2. SourcesHonest' /\ RowsSound' /\ RoundFits'
    BY <1>1, <1>4 DEF RowsInv, SourcesHonest, RowsSound, RoundFits
  <2> QED BY <1>4, <2>1, <2>2 DEF RowsInv, UsageFits
<1>5. ASSUME t \in DOMAIN patches, Applicable(t), rows' = [rows EXCEPT ![t] = r],
             usage' = Reconciled(t, r.root)
      PROVE  /\ RowsInv'
             /\ \A u \in Threads : rows[u] # NoRow => rows'[u] # NoRow
             /\ \A u \in Threads : usage'[u] = NoThread <=> usage[u] = NoThread
             /\ \A u \in Threads : usage'[u] # NoThread =>
                  rows'[u] # NoRow /\ usage'[u] = rows'[u].root /\ rows'[usage'[u]] # NoRow
  <2>1. /\ r \in Row /\ ValidRow(t, r) /\ ~RootCleared(rows[t], r)
        /\ r.parent \in {NoThread, Tree[t]} /\ r.root \in Ancestry(t)
    BY <1>1, <1>5, PatchFits
  <2>2. r # NoRow /\ r.root \in Threads \cup {NoThread}
    BY <2>1, RowAssumption DEF Row
  <2>3. usage[t] # NoThread /\ usage[t] # r.root => r.root = t \/ rows[r.root] # NoRow
    BY <1>5 DEF Applicable, RootStored
  <2> HIDE DEF r
  <2>4. rows'[t] = r /\ \A u \in Threads : u # t => rows'[u] = rows[u]
    BY <1>2, <1>5
  <2>5. usage[t] # NoThread => rows[t] # NoRow /\ rows[t].root = usage[t] /\ r.root # NoThread
    BY <2>1 DEF UsageFits, RootCleared
  <2>6. /\ usage'[t] = IF usage[t] # NoThread THEN r.root ELSE NoThread
        /\ \A u \in Threads : u # t => usage'[u] = usage[u]
        /\ usage' \in [Threads -> Threads \cup {NoThread}]
    BY <1>2, <1>5, <2>2 DEF Reconciled
  <2>7. \A u \in Threads : rows[u] # NoRow => rows'[u] # NoRow
    BY <2>2, <2>4
  <2>8. \A u \in Threads : usage'[u] = NoThread <=> usage[u] = NoThread
    BY <2>5, <2>6
  <2>9. ASSUME NEW u \in Threads, usage'[u] # NoThread
        PROVE  rows'[u] # NoRow /\ usage'[u] = rows'[u].root /\ rows'[usage'[u]] # NoRow
    <3>1. CASE u # t
      <4>1. usage[u] \in Threads /\ rows[usage[u]] # NoRow /\ rows[u] # NoRow /\ usage[u] = rows[u].root
        BY <1>2, <2>6, <2>9, <3>1 DEF UsageFits
      <4> QED BY <2>4, <2>6, <2>7, <3>1, <4>1
    <3>2. CASE u = t
      <4>1. usage[t] # NoThread /\ usage'[t] = r.root /\ r.root \in Threads
        BY <2>2, <2>5, <2>6, <2>9, <3>2
      <4>2. rows'[r.root] # NoRow
        <5>1. CASE r.root = t
          BY <2>2, <2>4, <5>1
        <5>2. CASE r.root # t /\ usage[t] # r.root
          BY <2>3, <2>4, <4>1, <5>2
        <5>3. CASE r.root # t /\ usage[t] = r.root
          BY <2>4, <4>1, <5>3 DEF UsageFits
        <5> QED BY <5>1, <5>2, <5>3
      <4> QED BY <2>2, <2>4, <3>2, <4>1, <4>2
    <3> QED BY <3>1, <3>2
  <2>10. rows' \in [Threads -> Row \cup {NoRow}] /\ usage' \in [Threads -> Threads \cup {NoThread}]
    BY <1>2, <1>5, <2>1, <2>6
  <2>11. TypeOK'
    BY <1>1, <1>3, <2>10 DEF RowsInv, TypeOK
  <2>12. SourcesHonest'
    BY <1>1 DEF RowsInv, SourcesHonest
  <2>13. RowsSound'
    BY <2>1, <2>4 DEF RowsInv, RowsSound, Sound
  <2>14. RoundFits'
    <3>1. \A u \in todo' : u \in todo /\ u \in Threads /\ u # t
      BY <1>1 DEF RowsInv, TypeOK
    <3> QED BY <1>1, <2>4, <3>1 DEF RowsInv, RoundFits
  <2> QED BY <2>7, <2>8, <2>9, <2>11, <2>12, <2>13, <2>14 DEF RowsInv
<1>6. \/ rows' = rows /\ usage' = usage
      \/ /\ t \in DOMAIN patches /\ Applicable(t) /\ rows' = [rows EXCEPT ![t] = r]
         /\ usage' = Reconciled(t, r.root)
  BY <1>1 DEF Commit, Skip
<1> HIDE DEF r
<1> QED BY <1>4, <1>5, <1>6
------------------------------------------------------------------------------
(* The metadata half as a whole: it leaves usage and costs as they were, but  *)
(* for the roots.                                                             *)

LEMMA ThreadStepHolds ==
  ASSUME RowsInv, UsageFits, ThreadNext
  PROVE  /\ RowsInv'
         /\ \A u \in Threads : rows[u] # NoRow => rows'[u] # NoRow
         /\ \A u \in Threads : usage'[u] = NoThread <=> usage[u] = NoThread
         /\ \A u \in Threads : usage'[u] # NoThread =>
              rows'[u] # NoRow /\ usage'[u] = rows'[u].root /\ rows'[usage'[u]] # NoRow
<1>1. ASSUME RowsInv', UNCHANGED <<rows, usage>>
      PROVE  /\ RowsInv'
             /\ \A u \in Threads : rows[u] # NoRow => rows'[u] # NoRow
             /\ \A u \in Threads : usage'[u] = NoThread <=> usage[u] = NoThread
             /\ \A u \in Threads : usage'[u] # NoThread =>
                  rows'[u] # NoRow /\ usage'[u] = rows'[u].root /\ rows'[usage'[u]] # NoRow
  BY <1>1 DEF UsageFits
<1>2. CASE StartRound
  BY <1>1, <1>2, StartRoundHolds DEF StartRound
<1>3. CASE EndRound
  BY <1>1, <1>3, EndRoundHolds DEF EndRound, Rest
<1>4. CASE Stop
  BY <1>1, <1>4, StopHolds DEF Stop, Rest
<1>5. CASE Change
  BY <1>1, <1>5, ChangeHolds DEF Change
<1>6. CASE SetClock
  BY <1>1, <1>6, SetClockHolds DEF SetClock
<1>7. CASE ReadFiles({})
  <2>1. {} \in SUBSET Threads
    OBVIOUS
  <2>2. RowsInv'
    BY <1>7, <2>1, ReadFilesHolds
  <2> QED BY <1>1, <1>7, <2>2 DEF ReadFiles
<1>8. CASE \E t \in Threads : ReadFiles({t})
  <2>1. PICK t \in Threads : ReadFiles({t})
    BY <1>8
  <2>2. {t} \in SUBSET Threads
    OBVIOUS
  <2> QED BY <1>1, <2>1, <2>2, ReadFilesHolds DEF ReadFiles
<1>9. CASE \E t \in Threads : CommitGroup(t)
  <2>1. PICK t \in Threads : CommitGroup(t)
    BY <1>9
  <2> QED BY <2>1, CommitGroupHolds
<1> QED BY <1>2, <1>3, <1>4, <1>5, <1>6, <1>7, <1>8, <1>9 DEF ThreadNext

LEMMA MetadataHolds ==
  ASSUME LedgerInv, Metadata
  PROVE  LedgerInv'
<1>1. UNCHANGED <<quarantine, program, priced, costs>>
  BY DEF Metadata, costVars
<1>2. /\ RowsInv'
      /\ \A u \in Threads : rows[u] # NoRow => rows'[u] # NoRow
      /\ \A u \in Threads : usage'[u] = NoThread <=> usage[u] = NoThread
      /\ \A u \in Threads : usage'[u] # NoThread =>
           rows'[u] # NoRow /\ usage'[u] = rows'[u].root /\ rows'[usage'[u]] # NoRow
  BY ThreadStepHolds DEF LedgerInv, Metadata
<1>3. UsageFits'
  <2>1. \A r \in DOMAIN quarantine : r \in Threads /\ rows[r] # NoRow
    BY DEF LedgerInv, UsageFits
  <2> QED BY <1>1, <1>2, <2>1 DEF LedgerInv, UsageFits
<1>4. CostsAreCurrent' /\ CostsTyped'
  BY <1>1, <1>2 DEF LedgerInv, CostsAreCurrent, CostsTyped
<1> QED BY <1>2, <1>3, <1>4 DEF LedgerInv

------------------------------------------------------------------------------
(* The usage half and the program. *)

\* A step that reads and writes no row.
LEMMA RowsStay ==
  ASSUME RowsInv, usage' \in [Threads -> Threads \cup {NoThread}],
         UNCHANGED <<world, facts, rows, bound, pc, view, patches, todo, roundAt, clock, clean, quiet>>
  PROVE  RowsInv'
<1>1. TypeOK'
  BY DEF RowsInv, TypeOK
<1>2. SourcesHonest' /\ RowsSound' /\ RoundFits'
  BY DEF RowsInv, SourcesHonest, RowsSound, RoundFits
<1> QED BY <1>1, <1>2 DEF RowsInv

\* A thread that is ready is counted under the root of its row.
LEMMA ReadyHasARow ==
  ASSUME TypeOK, NEW t \in Threads, Ready(t)
  PROVE  rows[t] # NoRow /\ RootOf(t) = rows[t].root /\ RootOf(t) \in Threads
<1>1. rows[t] \in Row \cup {NoRow}
  BY DEF TypeOK
<1>2. rows[t] # NoRow /\ RootOf(t) = rows[t].root /\ RootOf(t) # NoThread
  BY DEF Ready, RootOf
<1> QED BY <1>1, <1>2 DEF Row

LEMMA CountThreadHolds ==
  ASSUME LedgerInv, NEW t \in Threads, CountThread(t)
  PROVE  LedgerInv'
<1>1. /\ Ready(t) /\ HasRootRow(t) /\ Estimable(program, Lines[t]) /\ usage[t] = NoThread
      /\ usage' = [usage EXCEPT ![t] = RootOf(t)]
      /\ costs' = [costs EXCEPT ![t] = CostsBy(program, Lines[t])]
      /\ UNCHANGED <<world, facts, rows, bound, pc, view, patches, todo, roundAt, clock, clean, quiet,
                     quarantine, program, priced>>
  BY DEF CountThread
<1>2. rows[t] # NoRow /\ RootOf(t) = rows[t].root /\ RootOf(t) \in Threads /\ rows[RootOf(t)] # NoRow
  BY <1>1, ReadyHasARow DEF LedgerInv, RowsInv, HasRootRow
<1>3. usage \in [Threads -> Threads \cup {NoThread}] /\ DOMAIN costs = Threads
  BY DEF LedgerInv, RowsInv, TypeOK, CostsTyped
<1>4. /\ usage'[t] = RootOf(t) /\ usage' \in [Threads -> Threads \cup {NoThread}]
      /\ costs'[t] = CostsBy(program, Lines[t]) /\ DOMAIN costs' = Threads
      /\ \A u \in Threads : u # t => usage'[u] = usage[u] /\ costs'[u] = costs[u]
  BY <1>1, <1>2, <1>3
<1>5. RowsInv'
  BY <1>1, <1>4, RowsStay DEF LedgerInv
<1>6. UsageFits'
  BY <1>1, <1>2, <1>4 DEF LedgerInv, UsageFits
<1>7. CostsAreCurrent'
  BY <1>1, <1>4 DEF LedgerInv, CostsAreCurrent
<1>8. CostsTyped'
  BY <1>1, <1>2, <1>4, ThreadsAssumption DEF LedgerInv, CostsTyped
<1> QED BY <1>5, <1>6, <1>7, <1>8 DEF LedgerInv

LEMMA RebuildHolds ==
  ASSUME LedgerInv, NEW bad \in SUBSET Threads, Rebuild(bad)
  PROVE  LedgerInv'
<1> DEFINE counted == {t \in Threads : usage'[t] # NoThread}
<1>1. /\ \A t \in Members : HasRootRow(t)
      /\ bad \subseteq {RootOf(t) : t \in {u \in Members : Present(u)}}
      /\ usage' = Counted(bad)
      /\ \A t \in Threads : usage'[t] # NoThread => Estimable(program, Lines[t])
      /\ costs' = CostsOf(counted)
      /\ quarantine' = [r \in bad |-> {t \in Members : RootOf(t) = r}]
      /\ UNCHANGED <<world, facts, rows, bound, pc, view, patches, todo, roundAt, clock, clean, quiet,
                     program, priced>>
  BY DEF Rebuild
<1>2. \A t \in Members : /\ t \in Threads /\ rows[t] # NoRow /\ RootOf(t) = rows[t].root
                         /\ RootOf(t) \in Threads /\ rows[RootOf(t)] # NoRow
  BY <1>1, ReadyHasARow DEF LedgerInv, RowsInv, HasRootRow, Members
<1>3. /\ usage' \in [Threads -> Threads \cup {NoThread}]
      /\ \A t \in Threads : usage'[t] # NoThread => t \in Members /\ usage'[t] = RootOf(t)
  BY <1>1, <1>2 DEF Counted
<1>4. /\ DOMAIN costs' = Threads
      /\ \A t \in Threads : costs'[t] = IF usage'[t] # NoThread THEN CostsBy(program, Lines[t]) ELSE <<>>
  BY <1>1 DEF CostsOf
<1>5. RowsInv'
  BY <1>1, <1>3, RowsStay DEF LedgerInv
<1>6. \A r \in bad : r \in Threads /\ rows[r] # NoRow
  BY <1>1, <1>2
<1>7. UsageFits'
  <2>1. quarantine' \in [bad -> SUBSET Threads] /\ DOMAIN quarantine' = bad
    BY <1>1, <1>2
  <2> QED BY <1>1, <1>2, <1>3, <1>6, <2>1 DEF UsageFits
<1>8. CostsAreCurrent'
  BY <1>1, <1>4 DEF LedgerInv, CostsAreCurrent
<1>9. CostsTyped'
  BY <1>1, <1>4 DEF LedgerInv, CostsTyped
<1> QED BY <1>5, <1>7, <1>8, <1>9 DEF LedgerInv

\* Another program prices every event again, or does not open the database.
LEMMA OpenHolds ==
  ASSUME LedgerInv, NEW p \in Programs, Open(p)
  PROVE  LedgerInv'
<1>1. /\ p # program /\ program' = p /\ Repriced(p)
      /\ UNCHANGED <<world, facts, rows, bound, usage, pc, view, patches, todo, roundAt, clock, clean,
                     quiet, quarantine>>
  BY DEF Open
<1>2. priced # p.version
  BY <1>1, ProgramsAssumption DEF LedgerInv, CostsAreCurrent, CostsTyped
<1>3. /\ \A t \in Threads : Estimable(p, DOMAIN costs[t])
      /\ costs' = [t \in Threads |-> CostsBy(p, DOMAIN costs[t])] /\ priced' = p.version
  BY <1>1, <1>2 DEF Repriced
<1>4. usage \in [Threads -> Threads \cup {NoThread}]
  BY DEF LedgerInv, RowsInv, TypeOK
<1>5. RowsInv'
  BY <1>1, <1>4, RowsStay DEF LedgerInv
<1>6. UsageFits'
  BY <1>1 DEF LedgerInv, UsageFits
<1>7. \A t \in Threads : usage[t] # NoThread => DOMAIN costs[t] = Lines[t]
  BY DEF LedgerInv, CostsAreCurrent, CostsBy
<1>8. CostsAreCurrent'
  BY <1>1, <1>3, <1>7 DEF CostsAreCurrent
<1>9. CostsTyped'
  BY <1>1, <1>3 DEF LedgerInv, CostsTyped, CostsBy
<1> QED BY <1>5, <1>6, <1>8, <1>9 DEF LedgerInv

LEMMA StutterHolds ==
  ASSUME LedgerInv, UNCHANGED ledgerVars
  PROVE  LedgerInv'
<1>1. UNCHANGED <<world, facts, rows, bound, usage, pc, view, patches, todo, roundAt, clock, clean,
                  quiet, quarantine, program, priced, costs>>
  BY DEF ledgerVars, vars, costVars
<1>2. RowsInv'
  BY <1>1, RowsStay DEF LedgerInv, RowsInv, TypeOK
<1>3. UsageFits' /\ CostsAreCurrent' /\ CostsTyped'
  BY <1>1 DEF LedgerInv, UsageFits, CostsAreCurrent, CostsTyped
<1> QED BY <1>2, <1>3 DEF LedgerInv

LEMMA LedgerHolds == LedgerSpec => []LedgerInv
<1>1. LedgerInit => LedgerInv
  BY InitHolds
<1>2. LedgerInv /\ [LedgerNext]_ledgerVars => LedgerInv'
  BY MetadataHolds, CountThreadHolds, RebuildHolds, OpenHolds, StutterHolds DEF LedgerNext
<1> QED BY <1>1, <1>2, PTL DEF LedgerSpec

------------------------------------------------------------------------------
(* Theorems *)

\* Whatever a row was made of before, the patch the resolver makes of it is one
\* that the store takes (validate_thread_row, apply_existing_patch): no group is
\* refused in round after round, its files never read on.
THEOREM PatchesAlwaysFit == LedgerSpec => []PatchesFit
<1>1. LedgerInv => PatchesFit
  BY PatchFits DEF LedgerInv, PatchesFit, Fits
<1> QED BY <1>1, LedgerHolds, PTL

\* While the sources tell the truth a part at a time, lose it and tell it again, no
\* thread is shown under another's parent or counted for another's session.
THEOREM ThreadsKeepTheirAncestry == LedgerSpec => []OwnAncestry
<1>1. LedgerInv => OwnAncestry
  BY DEF LedgerInv, RowsInv, RowsSound, UsageFits, OwnAncestry
<1> QED BY <1>1, LedgerHolds, PTL

\* Events and quarantine refer to rows that are there (foreign_keys), and what an
\* event is stored to cost fits its column, whichever program has stored it.
THEOREM LedgerTyped == LedgerSpec => []LedgerTypeOK
<1>1. LedgerInv => LedgerTypeOK
  <2> SUFFICES ASSUME LedgerInv
               PROVE  LedgerTypeOK
    OBVIOUS
  <2>1. \A t \in Threads : usage[t] # NoThread =>
          /\ DOMAIN costs[t] = Lines[t]
          /\ \A e \in DOMAIN costs[t] : costs[t][e] \in 0..MaxInt64 \cup {NoCount}
    BY CostsFit DEF LedgerInv, CostsAreCurrent, CostsTyped
  <2>2. \A t \in Threads : usage[t] = NoThread => DOMAIN costs[t] = {}
    BY DEF LedgerInv, CostsTyped
  <2>3. \A t \in Threads :
          /\ DOMAIN costs[t] = IF usage[t] = NoThread THEN {} ELSE Lines[t]
          /\ \A e \in DOMAIN costs[t] : costs[t][e] \in 0..MaxInt64 \cup {NoCount}
    BY <2>1, <2>2
  <2> QED BY <2>3 DEF LedgerInv, RowsInv, UsageFits, CostsAreCurrent, CostsTyped, LedgerTypeOK
<1> QED BY <1>1, LedgerHolds, PTL

\* What a reader is shown as the cost of an event is what the running program would
\* charge for it, also when another program has counted it (refresh_usage_costs).
THEOREM CostsFollowTheProgram == LedgerSpec => []CostsAreCurrent
BY LedgerHolds, PTL DEF LedgerInv
------------------------------------------------------------------------------
(* Totals of events, and of groups of them. *)

\* What the totals use of an event.
Countable(E) ==
  IsFiniteSet(E) /\ \A e \in E :
    /\ e.tokens \in Nat /\ e.write \in Nat \cup {NoCount} /\ e.cost \in Nat \cup {NoCount}
    /\ e["tokens"] = e.tokens /\ e["write"] = e.write /\ e["cost"] = e.cost

LEMMA NoCountIsNoNumber == NoCount \notin Nat
BY CostAssumption

LEMMA SumOfSplits ==
  ASSUME NEW field, NEW A, NEW B, IsFiniteSet(A), IsFiniteSet(B), A \cap B = {},
         \A e \in A \cup B : e[field] \in Nat
  PROVE  /\ SumOf(field, A \cup B) = SumOf(field, A) + SumOf(field, B)
         /\ SumOf(field, A) \in Nat /\ SumOf(field, B) \in Nat
<1> DEFINE f == [e \in A \cup B |-> e[field]]
           g == [e \in A |-> e[field]]
           h == [e \in B |-> e[field]]
<1>1. /\ SumOf(field, A \cup B) = SumFunctionOnSet(f, A \cup B)
      /\ SumOf(field, A) = SumFunctionOnSet(g, A)
      /\ SumOf(field, B) = SumFunctionOnSet(h, B)
  BY DEF SumOf, SumFunction
<1>2. /\ \A x \in A : f[x] = g[x] /\ f[x] \in Nat
      /\ \A x \in B : f[x] = h[x] /\ f[x] \in Nat
  OBVIOUS
<1> HIDE DEF f, g, h
<1>3. SumFunctionOnSet(f, A) = SumFunctionOnSet(g, A) /\ SumFunctionOnSet(f, B) = SumFunctionOnSet(h, B)
  BY <1>2, SumsAgree
<1>4. SumFunctionOnSet(f, A \cup B) = SumFunctionOnSet(f, A) + SumFunctionOnSet(f, B)
  BY <1>2, SumSplits
<1>5. SumFunctionOnSet(f, A) \in Nat /\ SumFunctionOnSet(f, B) \in Nat
  BY <1>2, SumIsNatural
<1> QED BY <1>1, <1>3, <1>4, <1>5

LEMMA SumOfNothing ==
  ASSUME NEW field
  PROVE  SumOf(field, {}) = 0
<1> DEFINE f == [e \in {} |-> e[field]]
<1>1. SumOf(field, {}) = SumFunctionOnSet(f, {})
  BY DEF SumOf, SumFunction
<1>2. IsFiniteSet({})
  BY FS_EmptySet
<1> HIDE DEF f
<1> QED BY <1>1, <1>2, SumUnfolds

LEMMA KnownSumSplits ==
  ASSUME NEW A, NEW B, Countable(A), Countable(B), A \cap B = {}
  PROVE  KnownSum(A \cup B) = IF KnownSum(A) = NoCount \/ KnownSum(B) = NoCount THEN NoCount
                              ELSE KnownSum(A) + KnownSum(B)
<1>1. CASE \E e \in A \cup B : e.write = NoCount
  BY <1>1 DEF KnownSum
<1>2. CASE \A e \in A \cup B : e.write # NoCount
  <2>1. \A e \in A \cup B : e["write"] \in Nat
    BY <1>2 DEF Countable
  <2>2. /\ SumOf("write", A \cup B) = SumOf("write", A) + SumOf("write", B)
        /\ SumOf("write", A) \in Nat /\ SumOf("write", B) \in Nat
    BY <2>1, SumOfSplits DEF Countable
  <2> QED BY <1>2, <2>2, NoCountIsNoNumber DEF KnownSum
<1> QED BY <1>1, <1>2

\* The part of the cost that is known, of a set of events.
LEMMA UsableCost ==
  ASSUME NEW A
  PROVE  Usable(Totals(A)) =
           IF \E e \in A : Priced(e) THEN SumOf("cost", {e \in A : Priced(e)}) ELSE NoCount
<1>1. Totals(A).level = Level(A) /\ Totals(A).cost = CostSum(A)
  BY DEF Totals
<1>2. CASE \E e \in A : Priced(e)
  <2>1. Level(A) \in {"complete", "partial"}
    BY <1>2 DEF Level
  <2> QED BY <1>1, <1>2, <2>1 DEF Usable, CostSum
<1>3. CASE ~ \E e \in A : Priced(e)
  <2>1. Level(A) \in {"empty", "unknown"}
    BY <1>3 DEF Level
  <2> QED BY <1>1, <1>3, <2>1 DEF Usable
<1> QED BY <1>2, <1>3

LEMMA LevelSplits ==
  ASSUME NEW A, NEW B
  PROVE  Level(A \cup B) = MergedLevel(Level(A), Level(B))
<1>1. CASE A = {} \/ B = {}
  <2>1. (A = {} => A \cup B = B) /\ (B = {} => A \cup B = A)
    OBVIOUS
  <2> QED BY <1>1, <2>1 DEF Level, MergedLevel
<1>2. CASE A # {} /\ B # {}
  <2>1. A \cup B # {}
    BY <1>2
  <2> QED BY <1>2, <2>1 DEF Level, MergedLevel
<1> QED BY <1>1, <1>2

LEMMA CostSplits ==
  ASSUME NEW A, NEW B, Countable(A), Countable(B), A \cap B = {}
  PROVE  CostSum(A \cup B) = MergedCost(Totals(A), Totals(B))
<1> DEFINE a == {e \in A : Priced(e)}
           b == {e \in B : Priced(e)}
<1>1. {e \in A \cup B : Priced(e)} = a \cup b /\ a \cap b = {}
  OBVIOUS
<1>2. IsFiniteSet(a) /\ IsFiniteSet(b) /\ \A e \in a \cup b : e["cost"] \in Nat
  BY FS_Subset DEF Countable, Priced
<1>3. /\ SumOf("cost", a \cup b) = SumOf("cost", a) + SumOf("cost", b)
      /\ SumOf("cost", a) \in Nat /\ SumOf("cost", b) \in Nat
  BY <1>1, <1>2, SumOfSplits
<1>4. /\ Usable(Totals(A)) = IF a # {} THEN SumOf("cost", a) ELSE NoCount
      /\ Usable(Totals(B)) = IF b # {} THEN SumOf("cost", b) ELSE NoCount
  <2>1. (a # {} <=> \E e \in A : Priced(e)) /\ (b # {} <=> \E e \in B : Priced(e))
    OBVIOUS
  <2> QED BY <2>1, UsableCost
<1>5. Totals(A).level = Level(A) /\ Totals(B).level = Level(B)
  BY DEF Totals
<1>6. CostSum(A \cup B) = IF A \cup B # {} /\ a \cup b = {} THEN NoCount ELSE SumOf("cost", a \cup b)
  <2>1. Level(A \cup B) = "unknown" <=> A \cup B # {} /\ a \cup b = {}
    BY DEF Level
  <2> QED BY <1>1, <2>1 DEF CostSum
<1>7. (Level(A) = "empty" <=> A = {}) /\ (Level(B) = "empty" <=> B = {})
  BY DEF Level
<1>8. (a # {} => A # {}) /\ (b # {} => B # {})
  OBVIOUS
<1>9. (a = {} => a \cup b = b) /\ (b = {} => a \cup b = a)
  OBVIOUS
<1> HIDE DEF a, b
<1>10. CASE a # {} /\ b # {}
  BY <1>3, <1>4, <1>6, <1>10, NoCountIsNoNumber DEF MergedCost
<1>11. CASE a # {} /\ b = {}
  BY <1>3, <1>4, <1>6, <1>9, <1>11, NoCountIsNoNumber DEF MergedCost
<1>12. CASE a = {} /\ b # {}
  BY <1>3, <1>4, <1>6, <1>9, <1>12, NoCountIsNoNumber DEF MergedCost
<1>13. CASE a = {} /\ b = {}
  BY <1>4, <1>5, <1>6, <1>7, <1>9, <1>13, SumOfNothing DEF MergedCost
<1> QED BY <1>10, <1>11, <1>12, <1>13

\* Two groups that share no event, merged, are the totals of both.
LEMMA MergeIsTotals ==
  ASSUME NEW A, NEW B, Countable(A), Countable(B), A \cap B = {}
  PROVE  Merge(Totals(A), Totals(B)) = Totals(A \cup B)
<1>1. SumOf("tokens", A \cup B) = SumOf("tokens", A) + SumOf("tokens", B)
  <2>1. \A e \in A \cup B : e["tokens"] \in Nat
    BY DEF Countable
  <2> QED BY <2>1, SumOfSplits DEF Countable
<1>2. /\ Totals(A).tokens = SumOf("tokens", A) /\ Totals(B).tokens = SumOf("tokens", B)
      /\ Totals(A).write = KnownSum(A) /\ Totals(B).write = KnownSum(B)
      /\ Totals(A).level = Level(A) /\ Totals(B).level = Level(B)
  BY DEF Totals
<1>3. Totals(A \cup B) = [tokens |-> SumOf("tokens", A \cup B), write |-> KnownSum(A \cup B),
                          cost |-> CostSum(A \cup B), level |-> Level(A \cup B)]
  BY DEF Totals
<1> QED BY <1>1, <1>2, <1>3, KnownSumSplits, CostSplits, LevelSplits DEF Merge

LEMMA TotalsOfNothing == Totals({}) = Zero
<1>1. SumOf("tokens", {}) = 0 /\ KnownSum({}) = 0 /\ Level({}) = "empty" /\ CostSum({}) = 0
  <2>1. {e \in {} : Priced(e)} = {}
    OBVIOUS
  <2> QED BY <2>1, SumOfNothing DEF KnownSum, Level, CostSum
<1> QED BY <1>1 DEF Totals, Zero

\* Events in groups, whatever the groups are: merged one after the other, in any
\* order, they are the totals of all.
LEMMA MergeAllIsTotals ==
  ASSUME NEW E, Countable(E), NEW D, IsFiniteSet(D), NEW key, \A e \in E : key[e] \in D
  PROVE  MergeAll([k \in D |-> Totals({e \in E : key[e] = k})]) = Totals(E)
<1> DEFINE groups == [k \in D |-> Totals({e \in E : key[e] = k})]
           Within(s) == {e \in E : key[e] \in s}
           g == [s \in SUBSET D |-> Totals(Within(s))]
           iter[s \in SUBSET D] == IF s = {} THEN Zero
                                   ELSE Merge(groups[Pick(s)], iter[s \ {Pick(s)}])
<1>1. ASSUME NEW s \in SUBSET D, s # {}
      PROVE  g[s] = Merge(groups[Pick(s)], g[s \ {Pick(s)}])
  <2> DEFINE x == Pick(s)
             A == {e \in E : key[e] = x}
             B == Within(s \ {x})
  <2>1. x \in s /\ x \in D /\ s \ {x} \in SUBSET D
    BY <1>1, PickIsElement
  <2> HIDE DEF x
  <2>2. Within(s) = A \cup B /\ A \cap B = {}
    BY <2>1
  <2>3. Countable(A) /\ Countable(B)
    BY FS_Subset DEF Countable
  <2>4. groups[x] = Totals(A) /\ g[s \ {x}] = Totals(B) /\ g[s] = Totals(Within(s))
    BY <2>1
  <2> HIDE DEF A, B, Within, g, groups
  <2> QED BY <2>2, <2>3, <2>4, MergeIsTotals DEF x
<1>2. g[{}] = Zero
  <2>1. Within({}) = {}
    OBVIOUS
  <2> HIDE DEF Within
  <2> QED BY <2>1, TotalsOfNothing
<1>3. g = [s \in SUBSET D |-> IF s = {} THEN Zero ELSE Merge(groups[Pick(s)], g[s \ {Pick(s)}])]
  <2>1. g = [s \in SUBSET D |-> g[s]]
    OBVIOUS
  <2> HIDE DEF g, groups
  <2> QED BY <1>1, <1>2, <2>1
<1>4. iter = [s \in SUBSET D |-> IF s = {} THEN Zero
                                 ELSE Merge(groups[Pick(s)], iter[s \ {Pick(s)}])]
  <2>1. \E h : h = [s \in SUBSET D |-> IF s = {} THEN Zero
                                       ELSE Merge(groups[Pick(s)], h[s \ {Pick(s)}])]
    <3> HIDE DEF g, groups
    <3> QED BY <1>3
  <2> HIDE DEF groups
  <2> QED BY <2>1
<1>5. MergeAll(groups) = iter[D]
  <2>1. DOMAIN groups = D
    OBVIOUS
  <2> HIDE DEF groups
  <2> QED BY <2>1 DEF MergeAll, FoldFunction, FoldFunctionOnSet, MapThenFoldSet, Pick
<1> DEFINE F == {s \in SUBSET D : iter[s] = g[s]}
<1> HIDE DEF iter, groups
<1>6. {} \in F
  <2> HIDE DEF g
  <2> QED BY <1>2, <1>4
<1>7. ASSUME NEW s \in SUBSET D, s # {}, \A x \in s : s \ {x} \in F
      PROVE  s \in F
  <2>1. iter[s] = Merge(groups[Pick(s)], iter[s \ {Pick(s)}])
    BY <1>4, <1>7
  <2>2. Pick(s) \in s
    BY <1>7, PickIsElement
  <2> HIDE DEF g
  <2> QED BY <1>1, <1>7, <2>1, <2>2
<1>8. SUBSET D \subseteq F
  <2> HIDE DEF F
  <2> QED BY <1>6, <1>7, SubsetInduction
<1>9. iter[D] = g[D]
  BY <1>8
<1>10. g[D] = Totals(E)
  <2>1. Within(D) = E
    OBVIOUS
  <2> QED BY <2>1
<1> HIDE DEF g
<1> QED BY <1>5, <1>9, <1>10 DEF groups
------------------------------------------------------------------------------
(* The snapshot a reader gets. *)

\* The event of a line of a thread.
EventOf(t, e) ==
  [thread |-> t, line |-> e, root |-> usage[t], model |-> e.model, at |-> e.at,
   tokens |-> e.tokens, write |-> e.write, cost |-> costs[t][e]]

LEMMA SnapEvents ==
  ASSUME LedgerInv
  PROVE  /\ Countable(Snap.events)
         /\ \A d \in Snap.events : \E t \in Threads : \E e \in Lines[t] :
              d = EventOf(t, e) /\ usage[t] # NoThread
         /\ \A t \in Threads : \A e \in Lines[t] : usage[t] # NoThread => EventOf(t, e) \in Snap.events
         /\ \A t \in Threads : \A e \in Lines[t] : usage[t] # NoThread =>
              costs[t][e] = StoredCost(EventCost(program, e))
<1> DEFINE counted == {u \in Threads : usage[u] # NoThread}
           of(t) == {EventOf(t, e) : e \in DOMAIN costs[t]}
           parts == {of(t) : t \in counted}
<1>1. Snap.events = UNION parts
  BY DEF Snap, EventOf
<1>2. ASSUME NEW t \in counted
      PROVE  /\ t \in Threads /\ DOMAIN costs[t] = Lines[t] /\ IsFiniteSet(Lines[t])
             /\ Lines[t] \subseteq Line
             /\ \A e \in Lines[t] : /\ costs[t][e] \in 0..MaxInt64 \cup {NoCount}
                                    /\ costs[t][e] = StoredCost(EventCost(program, e))
  <2>1. costs[t] = CostsBy(program, Lines[t]) /\ Estimable(program, Lines[t]) /\ program \in Programs
    BY DEF LedgerInv, CostsAreCurrent, CostsTyped
  <2> QED BY <2>1, CostsFit, LinesAssumption DEF CostsBy
<1>3. ASSUME NEW t \in counted
      PROVE  IsFiniteSet(of(t))
  <2> DEFINE h == [e \in Lines[t] |-> EventOf(t, e)]
  <2>1. h \in Surjection(Lines[t], of(t))
    BY <1>2 DEF Surjection, Range
  <2> HIDE DEF h, of
  <2> QED BY <1>2, <2>1, FS_Surjection
<1>4. IsFiniteSet(parts)
  <2> DEFINE h == [t \in counted |-> of(t)]
  <2>1. h \in Surjection(counted, parts)
    BY DEF Surjection, Range
  <2>2. IsFiniteSet(counted)
    BY FS_Subset, ThreadsAssumption
  <2> HIDE DEF h, parts, counted
  <2> QED BY <2>1, <2>2, FS_Surjection
<1>5. IsFiniteSet(Snap.events)
  <2>1. \A p \in parts : IsFiniteSet(p)
    BY <1>3
  <2> HIDE DEF parts
  <2> QED BY <1>1, <1>4, <2>1, FS_UNION
<1>6. ASSUME NEW d \in Snap.events
      PROVE  \E t \in counted : \E e \in Lines[t] : d = EventOf(t, e)
  BY <1>1, <1>2
<1>7. ASSUME NEW t \in counted, NEW e \in Lines[t]
      PROVE  EventOf(t, e) \in Snap.events
  BY <1>1, <1>2
<1>8. ASSUME NEW t \in counted, NEW e \in Lines[t]
      PROVE  LET d == EventOf(t, e)
             IN  /\ d.tokens \in Nat /\ d.write \in Nat \cup {NoCount} /\ d.cost \in Nat \cup {NoCount}
                 /\ d["tokens"] = d.tokens /\ d["write"] = d.write /\ d["cost"] = d.cost
  <2>1. e.tokens \in Nat /\ e.write \in Nat \cup {NoCount} /\ costs[t][e] \in Nat \cup {NoCount}
    BY <1>2, CostAssumption DEF Line
  <2> QED BY <2>1 DEF EventOf
<1> HIDE DEF parts, of
<1>9. Countable(Snap.events)
  BY <1>5, <1>6, <1>8 DEF Countable
<1> QED BY <1>2, <1>6, <1>7, <1>9

LEMMA CountablePart ==
  ASSUME NEW E, Countable(E), NEW A \in SUBSET E
  PROVE  Countable(A)
BY FS_Subset DEF Countable

\* The groups of E by a key, merged: the totals of E.
LEMMA GroupsAddUp ==
  ASSUME NEW E, Countable(E), NEW key
  PROVE  MergeAll([k \in {key[e] : e \in E} |-> Totals({e \in E : key[e] = k})]) = Totals(E)
<1> DEFINE D == {key[e] : e \in E}
           h == [e \in E |-> key[e]]
<1>1. h \in Surjection(E, D)
  BY DEF Surjection, Range
<1>2. \A e \in E : key[e] \in D
  OBVIOUS
<1> HIDE DEF D, h
<1>3. IsFiniteSet(D)
  BY <1>1, FS_Surjection DEF Countable
<1>4. MergeAll([k \in D |-> Totals({e \in E : key[e] = k})]) = Totals(E)
  BY <1>2, <1>3, MergeAllIsTotals
<1> QED BY <1>4 DEF D

LEMMA ChartsOfASnapshot ==
  ASSUME NEW l, Countable(l.events), NEW range, NEW filter
  PROVE  /\ MergeAll(ModelDistribution(l, range, filter)) = Totals(Matching(l, range, filter))
         /\ MergeAll(ProjectDistribution(l, range, filter)) = Totals(Matching(l, range, filter))
<1> DEFINE E == Matching(l, range, filter)
           model == [e \in E |-> e.model]
           project == [e \in E |-> ProjectOf(l, e.root)]
<1>1. Countable(E)
  <2>1. E \in SUBSET l.events
    BY DEF Matching
  <2> HIDE DEF E
  <2> QED BY <2>1, CountablePart
<1>2. ModelDistribution(l, range, filter) =
        [k \in {model[e] : e \in E} |-> Totals({e \in E : model[e] = k})]
  <2>1. {e.model : e \in E} = {model[e] : e \in E}
    OBVIOUS
  <2>2. \A k : {e \in E : e.model = k} = {e \in E : model[e] = k}
    OBVIOUS
  <2>3. ModelDistribution(l, range, filter) = [k \in {e.model : e \in E} |-> Totals({e \in E : e.model = k})]
    BY DEF ModelDistribution
  <2> HIDE DEF E, model
  <2> QED BY <2>1, <2>2, <2>3
<1>3. ProjectDistribution(l, range, filter) =
        [k \in {project[e] : e \in E} |-> Totals({e \in E : project[e] = k})]
  <2>1. {ProjectOf(l, e.root) : e \in E} = {project[e] : e \in E}
    OBVIOUS
  <2>2. \A k : {e \in E : ProjectOf(l, e.root) = k} = {e \in E : project[e] = k}
    OBVIOUS
  <2>3. ProjectDistribution(l, range, filter) =
          [k \in {ProjectOf(l, e.root) : e \in E} |-> Totals({e \in E : ProjectOf(l, e.root) = k})]
    BY DEF ProjectDistribution
  <2> HIDE DEF E, project
  <2> QED BY <2>1, <2>2, <2>3
<1> HIDE DEF E, model, project
<1> QED BY <1>1, <1>2, <1>3, GroupsAddUp DEF E

LEMMA RowsOfTheModels ==
  ASSUME NEW l, Countable(l.events), NEW range
  PROVE  MergeAll([m \in {r.model : r \in ModelRows(l, range)} |->
           (CHOOSE r \in ModelRows(l, range) : r.model = m).totals]) =
             Totals({e \in l.events : InRange(range, e)})
<1> DEFINE E == {e \in l.events : InRange(range, e)}
           model == [e \in E |-> e.model]
           row(m) == [model |-> m, totals |-> Totals({e \in E : e.model = m}),
                      sessions |-> Cardinality(RootsOf({e \in E : e.model = m}))]
           M == {e.model : e \in E}
           R == ModelRows(l, range)
<1>1. Countable(E)
  <2>1. E \in SUBSET l.events
    OBVIOUS
  <2> HIDE DEF E
  <2> QED BY <2>1, CountablePart
<1>2. R = {row(m) : m \in M}
  BY DEF ModelRows
<1>3. \A m : row(m).model = m /\ row(m).totals = Totals({e \in E : e.model = m})
  OBVIOUS
<1>4. M = {model[e] : e \in E} /\ \A k : {e \in E : e.model = k} = {e \in E : model[e] = k}
  OBVIOUS
<1> HIDE DEF row, R, M, E, model
<1>5. {r.model : r \in R} = M
  BY <1>2, <1>3
<1>6. ASSUME NEW m \in M
      PROVE  (CHOOSE r \in R : r.model = m).totals = Totals({e \in E : model[e] = m})
  <2>1. row(m) \in R /\ \A r \in R : r.model = m => r = row(m)
    BY <1>2, <1>3
  <2>2. (CHOOSE r \in R : r.model = m) = row(m)
    BY <1>3, <2>1
  <2> QED BY <1>3, <1>4, <2>2
<1>7. [m \in {r.model : r \in R} |-> (CHOOSE r \in R : r.model = m).totals] =
        [m \in {model[e] : e \in E} |-> Totals({e \in E : model[e] = m})]
  <2> DEFINE found(m) == (CHOOSE r \in R : r.model = m).totals
             total(m) == Totals({e \in E : model[e] = m})
  <2>1. \A m \in M : found(m) = total(m)
    BY <1>6
  <2> HIDE DEF found, total
  <2>2. [m \in M |-> found(m)] = [m \in M |-> total(m)]
    BY <2>1
  <2>3. [m \in {r.model : r \in R} |-> found(m)] = [m \in {model[e] : e \in E} |-> total(m)]
    BY <1>4, <1>5, <2>2
  <2> QED BY <2>3 DEF found, total
<1>8. MergeAll([m \in {model[e] : e \in E} |-> Totals({e \in E : model[e] = m})]) = Totals(E)
  BY <1>1, GroupsAddUp
<1> QED BY <1>7, <1>8 DEF R, E

\* However events are grouped, by the rows of the models table or by the two
\* charts, nothing is counted twice and nothing is left out, and a price that is
\* missing stays missing (verify_invariants, usage/aggregate.rs).
THEOREM ChartsAlwaysAddUp == LedgerSpec => []ChartsAddUp
<1>1. LedgerInv => ChartsAddUp
  <2> SUFFICES ASSUME LedgerInv
               PROVE  ChartsAddUp
    OBVIOUS
  <2> DEFINE l == Snap
  <2>1. Countable(l.events)
    BY SnapEvents
  <2> HIDE DEF l
  <2>2. ASSUME NEW range, NEW filter
        PROVE  Summary(l, range, filter).totals = Totals(Matching(l, range, filter))
    BY DEF Summary
  <2>3. ASSUME NEW range
        PROVE  Matching(l, range, NoFilter) = {e \in l.events : InRange(range, e)}
    BY DEF Matching, NoFilter, RootPasses, KindPasses
  <2>4. ASSUME NEW range \in Ranges
        PROVE  MergeAll([m \in {r.model : r \in ModelRows(l, range)} |->
                 (CHOOSE r \in ModelRows(l, range) : r.model = m).totals]) =
                   Summary(l, range, NoFilter).totals
    BY <2>1, <2>2, <2>3, RowsOfTheModels
  <2>5. ASSUME NEW range \in Ranges, NEW filter \in Filters
        PROVE  /\ MergeAll(ModelDistribution(l, range, filter)) = Summary(l, range, filter).totals
               /\ MergeAll(ProjectDistribution(l, range, filter)) = Summary(l, range, filter).totals
    BY <2>1, <2>2, ChartsOfASnapshot
  <2> QED BY <2>4, <2>5 DEF ChartsAddUp, l
<1> QED BY <1>1, LedgerHolds, PTL
------------------------------------------------------------------------------
(* One session, added up in three ways. *)

LEMMA CostOfTheImage ==
  ASSUME NEW E, Countable(E), NEW h,
         \A e \in E : h[e].cost = e.cost /\ h[e]["cost"] = e.cost,
         \A d, e \in E : h[d] = h[e] => d = e
  PROVE  CostSum({h[e] : e \in E}) = CostSum(E)
<1> DEFINE F == {h[e] : e \in E}
           A == {e \in E : Priced(e)}
           B == {x \in F : Priced(x)}
           f == [e \in A |-> e["cost"]]
           g == [x \in B |-> x["cost"]]
<1>1. \A e \in E : Priced(h[e]) <=> Priced(e)
  BY DEF Priced
<1>2. Level(F) = Level(E)
  <2>1. (F = {} <=> E = {}) /\ ((\A x \in F : Priced(x)) <=> \A e \in E : Priced(e))
        /\ ((\E x \in F : Priced(x)) <=> \E e \in E : Priced(e))
    BY <1>1
  <2> HIDE DEF F
  <2> QED BY <2>1 DEF Level
<1>3. B = {h[e] : e \in A}
  BY <1>1
<1>4. SumOf("cost", A) = SumFunctionOnSet(f, A) /\ SumOf("cost", B) = SumFunctionOnSet(g, B)
  BY DEF SumOf, SumFunction
<1>5. IsFiniteSet(A) /\ \A e \in A : f[e] \in Nat /\ g[h[e]] = f[e]
  <2>1. IsFiniteSet(A)
    BY FS_Subset DEF Countable
  <2>2. ASSUME NEW e \in A
        PROVE  f[e] \in Nat /\ g[h[e]] = f[e]
    <3>1. h[e] \in B
      BY <1>3
    <3>2. f[e] = e["cost"] /\ g[h[e]] = h[e]["cost"]
      BY <3>1
    <3> QED BY <3>2 DEF Countable, Priced
  <2> QED BY <2>1, <2>2
<1>6. SumFunctionOnSet(g, {h[e] : e \in A}) = SumFunctionOnSet(f, A)
  <2>1. \A d, e \in A : h[d] = h[e] => d = e
    OBVIOUS
  <2> HIDE DEF f, g, A
  <2> QED BY <1>5, <2>1, SumOfTheImage
<1> QED BY <1>2, <1>3, <1>4, <1>6 DEF CostSum

\* The groups by thread, and those by model of one thread.
LEMMA ThreadsAddUp ==
  ASSUME NEW E, Countable(E)
  PROVE  MergeAll(ByThread(E)) = Totals(E)
<1> DEFINE thread == [e \in E |-> e.thread]
<1>1. {e.thread : e \in E} = {thread[e] : e \in E}
      /\ \A t : {e \in E : e.thread = t} = {e \in E : thread[e] = t}
  OBVIOUS
<1> HIDE DEF thread
<1>2. ByThread(E) = [t \in {thread[e] : e \in E} |-> Totals({e \in E : thread[e] = t})]
  BY <1>1 DEF ByThread
<1> QED BY <1>2, GroupsAddUp

LEMMA ModelsOfAThread ==
  ASSUME NEW E, Countable(E), NEW u
  PROVE  MergeAll([k \in {g \in DOMAIN ByModel(E) : g[1] = u} |-> ByModel(E)[k]]) =
           Totals({e \in E : e.thread = u})
<1> DEFINE A == {e \in E : e.thread = u}
           key == [e \in A |-> <<e.thread, e.model>>]
           D == {g \in DOMAIN ByModel(E) : g[1] = u}
           K == {key[e] : e \in A}
           total(k) == Totals({e \in A : key[e] = k})
<1>1. Countable(A)
  <2>1. A \in SUBSET E
    OBVIOUS
  <2> HIDE DEF A
  <2> QED BY <2>1, CountablePart
<1>2. DOMAIN ByModel(E) = {<<e.thread, e.model>> : e \in E}
  BY DEF ByModel
<1>3. D = K
  <2>1. ASSUME NEW e \in E
        PROVE  <<e.thread, e.model>>[1] = e.thread
    OBVIOUS
  <2>2. ASSUME NEW g \in D
        PROVE  g \in K
    <3>1. PICK e \in E : g = <<e.thread, e.model>>
      BY <1>2
    <3>2. e \in A
      BY <2>1, <3>1
    <3> QED BY <3>1, <3>2
  <2>3. ASSUME NEW e \in A
        PROVE  key[e] \in D
    BY <1>2, <2>1
  <2> QED BY <2>2, <2>3
<1>4. ASSUME NEW k \in K
      PROVE  ByModel(E)[k] = total(k)
  <2>1. k \in DOMAIN ByModel(E)
    BY <1>3
  <2>2. PICK d \in A : k = <<d.thread, d.model>>
    OBVIOUS
  <2>3. {e \in E : e.thread = k[1] /\ e.model = k[2]} = {e \in A : key[e] = k}
    BY <2>2
  <2>4. ByModel(E)[k] = Totals({e \in E : e.thread = k[1] /\ e.model = k[2]})
    BY <1>2, <2>1 DEF ByModel
  <2> QED BY <2>3, <2>4
<1> HIDE DEF total, D, K
<1>5. [k \in D |-> ByModel(E)[k]] = [k \in K |-> total(k)]
  BY <1>3, <1>4
<1>6. MergeAll([k \in {key[e] : e \in A} |-> Totals({e \in A : key[e] = k})]) = Totals(A)
  <2> HIDE DEF key, A
  <2> QED BY <1>1, GroupsAddUp
<1> QED BY <1>5, <1>6 DEF D, K, total

\* As many subagents as there are other threads.
LEMMA OneEntryEach ==
  ASSUME NEW S, IsFiniteSet(S), NEW entry, \A u \in S : entry[u].thread = u
  PROVE  Cardinality({entry[u] : u \in S}) = Cardinality(S)
<1> DEFINE T == {entry[u] : u \in S}
           f == [u \in S |-> entry[u]]
<1>1. f \in Bijection(S, T)
  BY DEF Bijection, Injection, Surjection, IsInjective, Range
<1> HIDE DEF f, T
<1>2. ExistsBijection(S, T)
  BY <1>1 DEF ExistsBijection
<1> QED BY <1>2, FS_Bijection DEF T

ThreadsOf(E) == {e.thread : e \in E}
EventsOfThread(E, t) == {e \in E : e.thread = t}

\* The detail of a session of which there is usage.
LEMMA DetailOfASession ==
  ASSUME NEW l, Countable(l.events), NEW range, NEW filter, NEW t,
         t \in EligibleRoots(l, range, filter)
  PROVE  LET E == OfRoot(l, range, t)
             detail == SessionDetail(l, range, filter, t)
         IN  /\ detail.inclusive = Totals(E)
             /\ detail.self = Totals(EventsOfThread(E, t))
             /\ detail.last = LastOf(E)
             /\ Cardinality(detail.subagents) = Cardinality(ThreadsOf(E) \ {t})
<1> DEFINE E == OfRoot(l, range, t)
           threads == {e.thread : e \in E}
           of(u) == [k \in {g \in DOMAIN ByModel(E) : g[1] = u} |-> ByModel(E)[k]]
           all == threads \cup {t}
           usage_ == [u \in all |-> MergeAll(of(u))]
           entry == [u \in threads \ {t} |->
                       [thread |-> u, last |-> LastOf({e \in E : e.thread = u}), models |-> of(u)]]
           detail == SessionDetail(l, range, filter, t)
<1>1. Countable(E)
  <2>1. E \in SUBSET l.events
    BY DEF OfRoot
  <2> HIDE DEF E
  <2> QED BY <2>1, CountablePart
<1>2. detail = [root |-> t, last |-> LastOf(E), self |-> usage_[t], inclusive |-> MergeAll(usage_),
                subagents |-> {[thread |-> u, last |-> LastOf({e \in E : e.thread = u}),
                                models |-> of(u)] : u \in threads \ {t}}]
  BY DEF SessionDetail
<1>3. {[thread |-> u, last |-> LastOf({e \in E : e.thread = u}), models |-> of(u)] :
         u \in threads \ {t}} = {entry[u] : u \in threads \ {t}}
  OBVIOUS
<1>4. IsFiniteSet(threads) /\ IsFiniteSet(all) /\ IsFiniteSet(threads \ {t})
  <2> DEFINE h == [e \in E |-> e.thread]
  <2>1. h \in Surjection(E, threads)
    BY DEF Surjection, Range
  <2> HIDE DEF h, threads, E
  <2>2. IsFiniteSet(threads)
    BY <1>1, <2>1, FS_Surjection DEF Countable
  <2>3. IsFiniteSet(threads \cup {t}) /\ IsFiniteSet(threads \ {t})
    BY <2>2, FS_AddElement, FS_RemoveElement
  <2> QED BY <2>2, <2>3
<1>5. \A u \in threads \ {t} : entry[u].thread = u
  OBVIOUS
<1>6. \A u : MergeAll(of(u)) = Totals({e \in E : e.thread = u})
  <2> HIDE DEF E
  <2> QED BY <1>1, ModelsOfAThread
<1>7. \A e \in E : e.thread \in all
  OBVIOUS
<1> HIDE DEF of, entry, threads, E, detail
<1>8. MergeAll(usage_) = Totals(E)
  <2> DEFINE thread == [e \in E |-> e.thread]
  <2>1. (\A e \in E : thread[e] \in all) /\ \A u : {e \in E : e.thread = u} = {e \in E : thread[e] = u}
    BY <1>7
  <2> HIDE DEF thread
  <2>2. usage_ = [u \in all |-> Totals({e \in E : thread[e] = u})]
    BY <1>6, <2>1
  <2> HIDE DEF all, usage_
  <2> QED BY <1>1, <1>4, <2>1, <2>2, MergeAllIsTotals
<1>9. usage_[t] = Totals({e \in E : e.thread = t})
  BY <1>6
<1>10. Cardinality({entry[u] : u \in threads \ {t}}) = Cardinality(threads \ {t})
  BY <1>4, <1>5, OneEntryEach
<1> HIDE DEF usage_
<1>11. /\ detail.inclusive = MergeAll(usage_) /\ detail.self = usage_[t] /\ detail.last = LastOf(E)
       /\ detail.subagents = {entry[u] : u \in threads \ {t}}
  BY <1>2, <1>3
<1>12. Cardinality(detail.subagents) = Cardinality(threads \ {t})
  BY <1>10, <1>11
<1> QED BY <1>8, <1>9, <1>11, <1>12 DEF E, detail, threads, ThreadsOf, EventsOfThread

\* The item of a session in the index.
LEMMA ItemOfASession ==
  ASSUME NEW l, Countable(l.events), NEW range, NEW t, OfRoot(l, range, t) # {}
  PROVE  LET E == OfRoot(l, range, t)
             item == IndexItem(l, range, t)
         IN  /\ item.tokens = Totals(E).tokens /\ item.self = Totals(EventsOfThread(E, t)).tokens
             /\ item.cost = Totals(E).cost /\ item.status = Status(Totals(E))
             /\ item.last = LastOf(E) /\ item.root = t
<1> DEFINE E == OfRoot(l, range, t)
           A == {e \in E : e.thread = t}
           item == IndexItem(l, range, t)
<1>1. Countable(E)
  <2>1. E \in SUBSET l.events
    BY DEF OfRoot
  <2> HIDE DEF E
  <2> QED BY <2>1, CountablePart
<1>2. Countable(A)
  <2>1. A \in SUBSET E
    OBVIOUS
  <2> HIDE DEF A, E
  <2> QED BY <1>1, <2>1, CountablePart
<1>3. item = [root |-> t, last |-> LastOf(E), self |-> MergeAll(ByThread(A)).tokens,
              tokens |-> MergeAll(ByThread(E)).tokens, cost |-> Usable(MergeAll(ByThread(E))),
              status |-> Status(MergeAll(ByThread(E)))]
  BY DEF IndexItem
<1>4. E # {}
  OBVIOUS
<1> HIDE DEF E, A, item
<1>5. MergeAll(ByThread(A)) = Totals(A) /\ MergeAll(ByThread(E)) = Totals(E)
  BY <1>1, <1>2, ThreadsAddUp
<1>6. Usable(Totals(E)) = Totals(E).cost
  <2>1. Totals(E).level = Level(E) /\ Totals(E).cost = CostSum(E)
    BY DEF Totals
  <2>2. Level(E) = "unknown" \/ Level(E) \in {"complete", "partial"}
    BY <1>4 DEF Level
  <2> QED BY <2>1, <2>2 DEF Usable, CostSum
<1>7. /\ item.tokens = Totals(E).tokens /\ item.self = Totals(A).tokens
      /\ item.cost = Totals(E).cost /\ item.status = Status(Totals(E))
      /\ item.last = LastOf(E) /\ item.root = t
  BY <1>3, <1>5, <1>6
<1> QED BY <1>7 DEF E, A, item, EventsOfThread
\* The cost of a session is what the running program would charge for it.
LEMMA CostIsTheEstimate ==
  ASSUME LedgerInv, NEW range, NEW r, r # NoThread
  PROVE  CostSum(OfRoot(Snap, range, r)) = EstimateOf(range, r)
<1> DEFINE E == OfRoot(Snap, range, r)
           h == [d \in E |-> [thread |-> d.thread, line |-> d.line, cost |-> d.cost]]
           price(t, e) == [thread |-> t, line |-> e, cost |-> StoredCost(EventCost(program, e))]
           F == UNION {{price(t, e) : e \in {x \in Lines[t] : InRange(range, x)}} :
                         t \in {u \in Threads : usage[u] = r}}
<1>1. EstimateOf(range, r) = CostSum(F)
  BY DEF EstimateOf
<1>2. Countable(E)
  <2>1. E \in SUBSET Snap.events
    BY DEF OfRoot
  <2> HIDE DEF E
  <2> QED BY <2>1, SnapEvents, CountablePart
<1>3. ASSUME NEW d \in E
      PROVE  \E t \in Threads : \E e \in Lines[t] :
               d = EventOf(t, e) /\ usage[t] = r /\ InRange(range, e) /\ h[d] = price(t, e)
  <2>1. d \in Snap.events /\ d.root = r /\ InRange(range, d)
    BY DEF OfRoot
  <2> PICK t \in Threads : \E e \in Lines[t] : d = EventOf(t, e) /\ usage[t] # NoThread
    BY <2>1, SnapEvents
  <2>2. PICK e \in Lines[t] : d = EventOf(t, e) /\ usage[t] # NoThread
    OBVIOUS
  <2>3. d.root = usage[t] /\ d.at = e.at /\ d.thread = t /\ d.line = e /\ d.cost = costs[t][e]
    BY <2>2 DEF EventOf
  <2>4. costs[t][e] = StoredCost(EventCost(program, e))
    BY <2>2, SnapEvents
  <2>5. h[d] = price(t, e)
    BY <2>3, <2>4
  <2>6. InRange(range, e)
    BY <2>1, <2>3 DEF InRange
  <2> HIDE DEF h, price, E
  <2> QED BY <2>1, <2>2, <2>3, <2>5, <2>6
<1>4. ASSUME NEW t \in Threads, NEW e \in Lines[t], usage[t] = r, InRange(range, e)
      PROVE  EventOf(t, e) \in E /\ h[EventOf(t, e)] = price(t, e)
  <2>1. EventOf(t, e) \in Snap.events /\ costs[t][e] = StoredCost(EventCost(program, e))
    BY <1>4, SnapEvents
  <2>2. /\ EventOf(t, e).root = r /\ EventOf(t, e).at = e.at /\ EventOf(t, e).thread = t
        /\ EventOf(t, e).line = e /\ EventOf(t, e).cost = costs[t][e]
    BY <1>4 DEF EventOf
  <2>3. EventOf(t, e) \in E
    BY <1>4, <2>1, <2>2 DEF OfRoot, InRange
  <2> QED BY <2>1, <2>2, <2>3
<1>5. \A d, e \in E : h[d] = h[e] => d = e
  <2> SUFFICES ASSUME NEW c \in E, NEW d \in E, h[c] = h[d]
               PROVE  c = d
    OBVIOUS
  <2> PICK t \in Threads : \E e \in Lines[t] : c = EventOf(t, e) /\ h[c] = price(t, e)
    BY <1>3
  <2>1. PICK e \in Lines[t] : c = EventOf(t, e) /\ h[c] = price(t, e)
    OBVIOUS
  <2> PICK u \in Threads : \E f \in Lines[u] : d = EventOf(u, f) /\ h[d] = price(u, f)
    BY <1>3
  <2>2. PICK f \in Lines[u] : d = EventOf(u, f) /\ h[d] = price(u, f)
    OBVIOUS
  <2>3. t = u /\ e = f
    BY <2>1, <2>2
  <2> QED BY <2>1, <2>2, <2>3
<1>6. \A e \in E : h[e].cost = e.cost /\ h[e]["cost"] = e.cost
  OBVIOUS
<1>7. F = {h[d] : d \in E}
  <2> HIDE DEF h, E, price
  <2>1. ASSUME NEW x \in F
        PROVE  x \in {h[d] : d \in E}
    <3>1. PICK t \in Threads : usage[t] = r /\ \E e \in {y \in Lines[t] : InRange(range, y)} : x = price(t, e)
      OBVIOUS
    <3>2. PICK e \in Lines[t] : InRange(range, e) /\ x = price(t, e)
      BY <3>1
    <3> QED BY <1>4, <3>1, <3>2
  <2>2. ASSUME NEW d \in E
        PROVE  h[d] \in F
    <3>1. PICK t \in Threads : \E e \in Lines[t] :
            usage[t] = r /\ InRange(range, e) /\ h[d] = price(t, e)
      BY <1>3
    <3> QED BY <3>1
  <2> HIDE DEF F
  <2> QED BY <2>1, <2>2
<1> HIDE DEF E, h, F, price
<1>8. CostSum({h[d] : d \in E}) = CostSum(E)
  BY <1>2, <1>5, <1>6, CostOfTheImage
<1> QED BY <1>1, <1>7, <1>8 DEF E

\* The rows of the whole index are never refused.
LEMMA RowsOfTheIndex ==
  ASSUME NEW l, NEW range, NEW t \in EligibleRoots(l, range, NoFilter),
         \A q \in l.quarantine : q.root # t
  PROVE  SessionRow(l, range, t) \in
           SessionRows(l, range, NoFilter, {item.root : item \in SortIndex(l, range, NoFilter)})
<1> DEFINE errors == Quarantined(l, range, NoFilter)
           roots == EligibleRoots(l, range, NoFilter)
           ids == {item.root : item \in SortIndex(l, range, NoFilter)}
           row(u) == IF \E q \in errors : q.root = u
                     THEN ErrorRow(l, CHOOSE q \in errors : q.root = u) ELSE SessionRow(l, range, u)
<1>1. \A u : IndexItem(l, range, u).root = u
  BY DEF IndexItem
<1>2. \A q : ErrorItem(q).root = q.root
  BY DEF ErrorItem
<1>3. ids = roots \cup {q.root : q \in errors}
  <2>1. SortIndex(l, range, NoFilter) =
          {IndexItem(l, range, u) : u \in roots} \cup {ErrorItem(q) : q \in errors}
    BY DEF SortIndex
  <2> HIDE DEF roots, errors
  <2> QED BY <1>1, <1>2, <2>1
<1>4. ~ \E q \in errors : q.root = t
  BY DEF Quarantined
<1>5. t \in ids
  BY <1>3
<1>6. SessionRows(l, range, NoFilter, ids) = {row(u) : u \in ids}
  <2>1. ~ (ids = {} \/ ~ (ids \subseteq roots \cup {q.root : q \in errors}))
    BY <1>3, <1>5
  <2> HIDE DEF ids
  <2> QED BY <2>1 DEF SessionRows
<1>7. row(t) = SessionRow(l, range, t)
  BY <1>4
<1> HIDE DEF ids, row, errors
<1> QED BY <1>5, <1>6, <1>7 DEF ids

\* The table, a session's row in it and its page, which add the events up by
\* thread, all at once and by thread and model, show the same usage, the same cost
\* and the same last activity, at the price of the running program
\* (query_session_index, query_session_rows, query_session_detail; cost.rs 60).
THEOREM ViewsAlwaysAgree == LedgerSpec => []ViewsOfASessionAgree
<1>1. LedgerInv => ViewsOfASessionAgree
  <2> SUFFICES ASSUME LedgerInv
               PROVE  ViewsOfASessionAgree
    OBVIOUS
  <2> DEFINE l == Snap
  <2>1. Countable(l.events)
    BY SnapEvents
  <2>2. DOMAIN l.rows \subseteq Threads
    BY DEF Snap
  <2>3. \A q \in l.quarantine : q.root \in DOMAIN quarantine
    BY DEF Snap
  <2>4. ASSUME NEW range, NEW r, r # NoThread
        PROVE  CostSum(OfRoot(l, range, r)) = EstimateOf(range, r)
    BY <2>4, CostIsTheEstimate
  <2> HIDE DEF l
  <2>5. ASSUME NEW range, NEW item \in SortIndex(l, range, NoFilter), item.status # "error"
        PROVE  \E t \in EligibleRoots(l, range, NoFilter) : item = IndexItem(l, range, t)
    BY <2>5 DEF SortIndex, ErrorItem
  <2> DEFINE Agree(range, item, t) ==
               LET row == SessionRow(l, range, t)
                   detail == SessionDetail(l, range, NoFilter, t)
               IN  /\ detail.inclusive = row.inclusive /\ detail.self = row.self
                   /\ item.tokens = row.inclusive.tokens /\ item.self = row.self.tokens
                   /\ item.cost = row.inclusive.cost /\ item.status = row.status
                   /\ item.cost = EstimateOf(range, t)
                   /\ item.last = row.last /\ detail.last = row.last
                   /\ Cardinality(detail.subagents) = row.count
                   /\ \/ row \in SessionRows(l, range, NoFilter,
                                             {i.root : i \in SortIndex(l, range, NoFilter)})
                      \/ t \in DOMAIN quarantine
  <2>6. ASSUME NEW range, NEW t \in EligibleRoots(l, range, NoFilter)
        PROVE  IndexItem(l, range, t).root = t /\ Agree(range, IndexItem(l, range, t), t)
    <3> DEFINE E == OfRoot(l, range, t)
               A == EventsOfThread(E, t)
               item == IndexItem(l, range, t)
               row == SessionRow(l, range, t)
               detail == SessionDetail(l, range, NoFilter, t)
    <3>1. E # {} /\ t \in Threads /\ t # NoThread
      BY <2>2, ThreadsAssumption DEF EligibleRoots, IsMain
    <3>2. /\ row.inclusive = Totals(E) /\ row.self = Totals(A) /\ row.last = LastOf(E)
          /\ row.status = Status(Totals(E)) /\ row.count = Cardinality(ThreadsOf(E) \ {t})
      BY DEF SessionRow, ThreadsOf, EventsOfThread
    <3>3. /\ detail.inclusive = Totals(E) /\ detail.self = Totals(A) /\ detail.last = LastOf(E)
          /\ Cardinality(detail.subagents) = Cardinality(ThreadsOf(E) \ {t})
      BY <2>1, DetailOfASession
    <3>4. /\ item.tokens = Totals(E).tokens /\ item.self = Totals(A).tokens
          /\ item.cost = Totals(E).cost /\ item.status = Status(Totals(E))
          /\ item.last = LastOf(E) /\ item.root = t
      BY <2>1, <3>1, ItemOfASession
    <3>5. Totals(E).cost = EstimateOf(range, t)
      <4>1. CostSum(E) = EstimateOf(range, t)
        BY <2>4, <3>1
      <4> HIDE DEF E
      <4> QED BY <4>1 DEF Totals
    <3>6. \/ row \in SessionRows(l, range, NoFilter, {i.root : i \in SortIndex(l, range, NoFilter)})
          \/ t \in DOMAIN quarantine
      BY <2>3, RowsOfTheIndex
    <3> HIDE DEF E, A, item, row, detail
    <3>7. /\ detail.inclusive = row.inclusive /\ detail.self = row.self
          /\ item.tokens = row.inclusive.tokens /\ item.self = row.self.tokens
          /\ item.cost = row.inclusive.cost /\ item.status = row.status
          /\ item.cost = EstimateOf(range, t)
          /\ item.last = row.last /\ detail.last = row.last
          /\ Cardinality(detail.subagents) = row.count
      BY <3>2, <3>3, <3>4, <3>5
    <3>8. Agree(range, item, t)
      BY <3>6, <3>7 DEF item, row, detail
    <3> QED BY <3>4, <3>8 DEF item
  <2> HIDE DEF Agree
  <2>7. ASSUME NEW range \in Ranges, NEW item \in SortIndex(l, range, NoFilter), item.status # "error"
        PROVE  Agree(range, item, item.root)
    <3>1. PICK t \in EligibleRoots(l, range, NoFilter) : item = IndexItem(l, range, t)
      BY <2>5, <2>7
    <3>2. item.root = t
      BY <2>6, <3>1
    <3> QED BY <2>6, <3>1, <3>2
  <2> QED BY <2>7 DEF ViewsOfASessionAgree, Agree, l
<1> QED BY <1>1, LedgerHolds, PTL

------------------------------------------------------------------------------
(* The token ledger.  Lines processed one after the other, and rows written   *)
(* one after the other.                                                       *)

Processing(a, p, offset, lines) ==
  a = [i \in 0..Len(lines) |-> IF i = 0 THEN p ELSE ApplyRecord(a[i - 1], offset + i, lines[i])]

LEMMA ProcessingExists ==
  ASSUME NEW p, NEW offset \in Nat, NEW lines, Len(lines) \in Nat
  PROVE  \E a : Processing(a, p, offset, lines) /\ Process(p, offset, lines) = a[Len(lines)]
<1> DEFINE Steps(f, k) == f = [i \in 0..k |-> IF i = 0 THEN p
                                              ELSE ApplyRecord(f[i - 1], offset + i, lines[i])]
           S == {k \in Nat : \E f : Steps(f, k)}
           after[i \in 0..Len(lines)] ==
             IF i = 0 THEN p ELSE ApplyRecord(after[i - 1], offset + i, lines[i])
<1>1. 0 \in S
  <2> DEFINE f == [i \in 0..0 |-> p]
  <2>1. Steps(f, 0)
    OBVIOUS
  <2> QED BY <2>1
<1>2. ASSUME NEW k \in S
      PROVE  k + 1 \in S
  <2>1. PICK f : Steps(f, k)
    OBVIOUS
  <2> DEFINE g == [i \in 0..(k + 1) |->
                     IF i = k + 1 THEN ApplyRecord(f[i - 1], offset + i, lines[i]) ELSE f[i]]
  <2>2. ASSUME NEW i \in 0..(k + 1)
        PROVE  g[i] = IF i = 0 THEN p ELSE ApplyRecord(g[i - 1], offset + i, lines[i])
    <3>1. CASE i = k + 1
      <4>1. i - 1 \in 0..k /\ i # 0 /\ i - 1 # k + 1 /\ i - 1 \in 0..(k + 1)
        BY <3>1
      <4>2. g[i - 1] = f[i - 1] /\ g[i] = ApplyRecord(f[i - 1], offset + i, lines[i])
        BY <3>1, <4>1
      <4> HIDE DEF g
      <4> QED BY <4>1, <4>2
    <3>2. CASE i # k + 1
      <4>1. i \in 0..k /\ (i # 0 => i - 1 \in 0..k /\ i - 1 # k + 1 /\ i - 1 \in 0..(k + 1))
        BY <3>2
      <4>2. g[i] = f[i] /\ (i # 0 => g[i - 1] = f[i - 1])
        BY <4>1
      <4>3. f[i] = IF i = 0 THEN p ELSE ApplyRecord(f[i - 1], offset + i, lines[i])
        BY <2>1, <4>1
      <4> HIDE DEF g, Steps
      <4> QED BY <4>2, <4>3
    <3> QED BY <3>1, <3>2
  <2>3. g = [i \in 0..(k + 1) |-> g[i]]
    OBVIOUS
  <2> HIDE DEF g
  <2>4. Steps(g, k + 1)
    BY <2>2, <2>3
  <2>5. k + 1 \in Nat
    OBVIOUS
  <2> HIDE DEF Steps
  <2> QED BY <2>4, <2>5
<1>3. Len(lines) \in S
  <2>1. S \subseteq Nat
    OBVIOUS
  <2> HIDE DEF S
  <2> QED BY <1>1, <1>2, <2>1, Induction
<1>4. \E f : f = [i \in 0..Len(lines) |-> IF i = 0 THEN p
                                          ELSE ApplyRecord(f[i - 1], offset + i, lines[i])]
  BY <1>3
<1>5. after = [i \in 0..Len(lines) |-> IF i = 0 THEN p
                                       ELSE ApplyRecord(after[i - 1], offset + i, lines[i])]
  BY <1>4
<1>6. Process(p, offset, lines) = after[Len(lines)]
  BY DEF Process
<1> HIDE DEF after
<1> QED BY <1>5, <1>6 DEF Processing

LEMMA ProcessNothing ==
  ASSUME NEW p, NEW offset \in Nat
  PROVE  Process(p, offset, <<>>) = p
<1>1. Len(<<>>) = 0 /\ 0 \in 0..0
  OBVIOUS
<1>2. PICK a : Processing(a, p, offset, <<>>) /\ Process(p, offset, <<>>) = a[0]
  BY <1>1, ProcessingExists
<1> QED BY <1>1, <1>2 DEF Processing

LEMMA ProcessAppends ==
  ASSUME NEW p, NEW offset \in Nat, NEW S, NEW lines \in Seq(S), NEW line \in S
  PROVE  Process(p, offset, Append(lines, line))
           = ApplyRecord(Process(p, offset, lines), offset + Len(lines) + 1, line)
<1> DEFINE more == Append(lines, line)
           n == Len(lines)
<1>1. n \in Nat /\ Len(more) = n + 1 /\ Len(more) \in Nat /\ more[n + 1] = line
      /\ \A i \in 1..n : more[i] = lines[i]
  OBVIOUS
<1> HIDE DEF more
<1>2. PICK a : Processing(a, p, offset, lines) /\ Process(p, offset, lines) = a[n]
  BY <1>1, ProcessingExists
<1>3. PICK b : Processing(b, p, offset, more) /\ Process(p, offset, more) = b[n + 1]
  BY <1>1, ProcessingExists
<1> HIDE DEF n
<1> DEFINE T == {k \in Nat : k <= n => a[k] = b[k]}
<1>4. 0 \in T
  <2>1. 0 \in 0..n /\ 0 \in 0..(n + 1)
    BY <1>1
  <2> QED BY <1>1, <1>2, <1>3, <2>1 DEF Processing, n
<1>5. ASSUME NEW k \in T
      PROVE  k + 1 \in T
  <2> SUFFICES ASSUME k + 1 <= n
               PROVE  a[k + 1] = b[k + 1]
    OBVIOUS
  <2>1. k + 1 \in 0..n /\ k + 1 \in 0..(n + 1) /\ k + 1 # 0 /\ (k + 1) - 1 = k /\ k <= n
        /\ k + 1 \in 1..n
    BY <1>1
  <2>2. a[k + 1] = ApplyRecord(a[k], offset + (k + 1), lines[k + 1])
    BY <1>2, <2>1 DEF Processing, n
  <2>3. b[k + 1] = ApplyRecord(b[k], offset + (k + 1), more[k + 1])
    BY <1>1, <1>3, <2>1 DEF Processing
  <2> QED BY <1>1, <2>1, <2>2, <2>3
<1>6. n \in T
  <2>1. T \subseteq Nat
    OBVIOUS
  <2> HIDE DEF T
  <2> QED BY <1>1, <1>4, <1>5, <2>1, Induction
<1>7. b[n + 1] = ApplyRecord(b[n], offset + (n + 1), more[n + 1])
  <2>1. n + 1 \in 0..(n + 1) /\ n + 1 # 0 /\ (n + 1) - 1 = n
    BY <1>1
  <2> QED BY <1>1, <1>3, <2>1 DEF Processing
<1>8. offset + (n + 1) = offset + n + 1
  BY <1>1
<1> QED BY <1>1, <1>2, <1>3, <1>6, <1>7, <1>8 DEF more, n

Rows(r, turns, new) ==
  r = [i \in 0..Len(new) |-> IF i = 0 THEN turns ELSE WriteTurn(r[i - 1], new[i])]

LEMMA RowsExist ==
  ASSUME NEW turns, NEW new, Len(new) \in Nat
  PROVE  Rows(RowsAfter(turns, new), turns, new)
<1> DEFINE Steps(f, k) == f = [i \in 0..k |-> IF i = 0 THEN turns ELSE WriteTurn(f[i - 1], new[i])]
           S == {k \in Nat : \E f : Steps(f, k)}
           kept[i \in 0..Len(new)] == IF i = 0 THEN turns ELSE WriteTurn(kept[i - 1], new[i])
<1>1. 0 \in S
  <2> DEFINE f == [i \in 0..0 |-> turns]
  <2>1. Steps(f, 0)
    OBVIOUS
  <2> QED BY <2>1
<1>2. ASSUME NEW k \in S
      PROVE  k + 1 \in S
  <2>1. PICK f : Steps(f, k)
    OBVIOUS
  <2> DEFINE g == [i \in 0..(k + 1) |-> IF i = k + 1 THEN WriteTurn(f[i - 1], new[i]) ELSE f[i]]
  <2>2. ASSUME NEW i \in 0..(k + 1)
        PROVE  g[i] = IF i = 0 THEN turns ELSE WriteTurn(g[i - 1], new[i])
    <3>1. CASE i = k + 1
      <4>1. i - 1 \in 0..k /\ i # 0 /\ i - 1 # k + 1 /\ i - 1 \in 0..(k + 1)
        BY <3>1
      <4>2. g[i - 1] = f[i - 1] /\ g[i] = WriteTurn(f[i - 1], new[i])
        BY <3>1, <4>1
      <4> HIDE DEF g
      <4> QED BY <4>1, <4>2
    <3>2. CASE i # k + 1
      <4>1. i \in 0..k /\ (i # 0 => i - 1 \in 0..k /\ i - 1 # k + 1 /\ i - 1 \in 0..(k + 1))
        BY <3>2
      <4>2. g[i] = f[i] /\ (i # 0 => g[i - 1] = f[i - 1])
        BY <4>1
      <4>3. f[i] = IF i = 0 THEN turns ELSE WriteTurn(f[i - 1], new[i])
        BY <2>1, <4>1
      <4> HIDE DEF g, Steps
      <4> QED BY <4>2, <4>3
    <3> QED BY <3>1, <3>2
  <2>3. g = [i \in 0..(k + 1) |-> g[i]]
    OBVIOUS
  <2> HIDE DEF g
  <2>4. Steps(g, k + 1)
    BY <2>2, <2>3
  <2>5. k + 1 \in Nat
    OBVIOUS
  <2> HIDE DEF Steps
  <2> QED BY <2>4, <2>5
<1>3. Len(new) \in S
  <2>1. S \subseteq Nat
    OBVIOUS
  <2> HIDE DEF S
  <2> QED BY <1>1, <1>2, <2>1, Induction
<1>4. \E f : f = [i \in 0..Len(new) |-> IF i = 0 THEN turns ELSE WriteTurn(f[i - 1], new[i])]
  BY <1>3
<1>5. kept = [i \in 0..Len(new) |-> IF i = 0 THEN turns ELSE WriteTurn(kept[i - 1], new[i])]
  BY <1>4
<1>6. RowsAfter(turns, new) = kept
  BY DEF RowsAfter
<1> HIDE DEF kept
<1> QED BY <1>5, <1>6 DEF Rows

------------------------------------------------------------------------------
(* What each operation of the processor does. *)

ChainStates == {"continuous", "parser_gap", "required_invalid"}

Processor ==
  [subagent : BOOLEAN, chain : ChainStates, prev : Usage \cup {None}, model : Models \cup {None},
   turn : Turn \cup {None}, closed : Seq(Turn), events : SUBSET Event]

\* The same turn, later.
Later(t, u) ==
  /\ u.key = t.key /\ u.id = t.id /\ u.at = t.at /\ u.start = t.start
  /\ u.status = t.status /\ u.timed = t.timed
  /\ t.blocks \subseteq u.blocks

SameSums(t, u) == u.accounted = t.accounted /\ u.count = t.count /\ u.model = t.model

LEMMA ProcessorParts ==
  ASSUME NEW p \in Processor
  PROVE  /\ p.subagent \in BOOLEAN /\ p.chain \in ChainStates /\ p.prev \in Usage \cup {None}
         /\ p.model \in Models \cup {None} /\ p.turn \in Turn \cup {None}
         /\ p.closed \in Seq(Turn) /\ p.events \in SUBSET Event
BY DEF Processor

LEMMA TurnParts ==
  ASSUME NEW t \in Turn
  PROVE  /\ t.key \in Ids \cup (1..MaxLines) /\ t.id \in Ids \cup {None} /\ t.at \in 1..MaxLines
         /\ t.start \in Usage \cup {None} /\ t.last \in Usage \cup {None} /\ t.accounted \in Usage
         /\ t.count \in Nat /\ t.model \in Models \cup {None, Mixed} /\ t.unresolved \in BOOLEAN
         /\ t.blocks \in SUBSET Blocks /\ t.status \in {"open", "ended", "aborted"}
         /\ t.timed \in BOOLEAN /\ t # None
BY AbsenceAssumption DEF Turn

LEMMA BlockDoes ==
  ASSUME NEW p \in Processor, NEW why \in Blocks
  PROVE  LET q == Block(p, why) IN
         /\ q \in Processor
         /\ q.subagent = p.subagent /\ q.chain = p.chain /\ q.prev = p.prev /\ q.model = p.model
         /\ q.closed = p.closed /\ q.events = p.events
         /\ p.turn = None => q.turn = None
         /\ p.turn # None => /\ q.turn \in Turn /\ Later(p.turn, q.turn) /\ SameSums(p.turn, q.turn)
                             /\ why \in q.turn.blocks /\ q.turn.last = p.turn.last
<1>1. CASE p.turn = None
  BY <1>1 DEF Block
<1>2. CASE p.turn # None
  <2>1. p.turn \in Turn
    BY <1>2 DEF Processor
  <2> DEFINE u == [p.turn EXCEPT !.blocks = @ \cup {why}]
  <2>2. u \in Turn /\ Later(p.turn, u) /\ SameSums(p.turn, u) /\ why \in u.blocks
        /\ u.last = p.turn.last
    BY <2>1 DEF Turn, Later, SameSums
  <2>3. Block(p, why) = [p EXCEPT !.turn = u]
    BY <1>2 DEF Block
  <2> HIDE DEF u
  <2> QED BY <1>2, <2>2, <2>3, AbsenceAssumption DEF Processor
<1> QED BY <1>1, <1>2

LEMMA InterruptDoes ==
  ASSUME NEW p \in Processor, NEW why \in ChainStates \ {"continuous"}
  PROVE  LET q == Interrupt(p, why) IN
         /\ q \in Processor
         /\ q.subagent = p.subagent /\ q.chain = why /\ q.prev = p.prev /\ q.model = p.model
         /\ q.closed = p.closed /\ q.events = p.events
         /\ p.turn = None => q.turn = None
         /\ p.turn # None => /\ q.turn \in Turn /\ Later(p.turn, q.turn) /\ SameSums(p.turn, q.turn)
                             /\ why \in q.turn.blocks /\ q.turn.last = p.turn.last
<1>1. why \in Blocks /\ why \in ChainStates
  BY DEF ChainStates, Blocks
<1> DEFINE b == Block(p, why)
<1>2. /\ b \in Processor
      /\ b.subagent = p.subagent /\ b.prev = p.prev /\ b.model = p.model
      /\ b.closed = p.closed /\ b.events = p.events
      /\ p.turn = None => b.turn = None
      /\ p.turn # None => /\ b.turn \in Turn /\ Later(p.turn, b.turn) /\ SameSums(p.turn, b.turn)
                          /\ why \in b.turn.blocks /\ b.turn.last = p.turn.last
  BY <1>1, BlockDoes
<1>3. Interrupt(p, why) = [b EXCEPT !.chain = why]
  BY DEF Interrupt
<1> HIDE DEF b
<1> QED BY <1>1, <1>2, <1>3 DEF Processor

LEMMA BaselineDoes ==
  ASSUME NEW p \in Processor, NEW total \in Usage
  PROVE  LET q == SetBaseline(p, total) IN
         /\ q \in Processor
         /\ q.subagent = p.subagent /\ q.chain = "continuous" /\ q.prev = total /\ q.model = p.model
         /\ q.closed = p.closed /\ q.events = p.events
         /\ p.turn = None => q.turn = None
         /\ p.turn # None => /\ q.turn \in Turn /\ Later(p.turn, q.turn) /\ SameSums(p.turn, q.turn)
                             /\ q.turn.blocks = p.turn.blocks /\ q.turn.last = total
<1> DEFINE b == [p EXCEPT !.prev = total, !.chain = "continuous"]
<1>1. /\ b \in Processor /\ b.turn = p.turn
      /\ b.subagent = p.subagent /\ b.chain = "continuous" /\ b.prev = total /\ b.model = p.model
      /\ b.closed = p.closed /\ b.events = p.events
  BY DEF Processor, ChainStates
<1>2. SetBaseline(p, total) = IF b.turn = None THEN b ELSE [b EXCEPT !.turn.last = total]
  BY DEF SetBaseline
<1> HIDE DEF b
<1>3. CASE p.turn = None
  BY <1>1, <1>2, <1>3
<1>4. CASE p.turn # None
  <2>1. p.turn \in Turn
    BY <1>4 DEF Processor
  <2> DEFINE u == [p.turn EXCEPT !.last = total]
  <2>2. u \in Turn /\ Later(p.turn, u) /\ SameSums(p.turn, u) /\ u.blocks = p.turn.blocks
        /\ u.last = total
    BY <2>1 DEF Turn, Later, SameSums
  <2>3. SetBaseline(p, total) = [b EXCEPT !.turn = u]
    BY <1>1, <1>2, <1>4
  <2> HIDE DEF u
  <2> QED BY <1>1, <1>4, <2>2, <2>3, AbsenceAssumption DEF Processor
<1> QED BY <1>3, <1>4

ClosedTurn(turn, how, timed) == [turn EXCEPT !.status = how, !.timed = timed]

LEMMA ClosedTurnIs ==
  ASSUME NEW turn \in Turn, NEW how \in {"ended", "aborted"}, NEW timed \in {TRUE, FALSE}
  PROVE  LET u == ClosedTurn(turn, how, timed) IN
         u \in Turn /\ u.at = turn.at /\ u.id = turn.id /\ u.key = turn.key /\ u.status = how
BY DEF Turn, ClosedTurn

LEMMA CloseDoes ==
  ASSUME NEW p \in Processor, NEW turn \in Turn, NEW how \in {"ended", "aborted"},
         NEW timed \in {TRUE, FALSE}
  PROVE  LET q == Close(p, turn, how, timed) IN
         /\ q \in Processor
         /\ q.subagent = p.subagent /\ q.chain = p.chain /\ q.prev = p.prev /\ q.model = p.model
         /\ q.closed = Append(p.closed, ClosedTurn(turn, how, timed)) /\ q.events = p.events
         /\ q.turn = None
<1> DEFINE u == ClosedTurn(turn, how, timed)
           c == Append(p.closed, u)
<1>1. u \in Turn
  BY ClosedTurnIs
<1>2. c \in Seq(Turn)
  BY <1>1 DEF Processor
<1>3. Close(p, turn, how, timed) = [p EXCEPT !.turn = None, !.closed = c]
  BY DEF Close, ClosedTurn
<1> HIDE DEF c
<1>4. LET q == Close(p, turn, how, timed) IN
      /\ q \in Processor
      /\ q.subagent = p.subagent /\ q.chain = p.chain /\ q.prev = p.prev /\ q.model = p.model
      /\ q.closed = c /\ q.events = p.events /\ q.turn = None
  BY <1>2, <1>3 DEF Processor
<1> QED BY <1>4 DEF c

StartedRecord == [is : {"started"}, id : Ids \cup {None}, timed : BOOLEAN]

\* A turn that is closed as it stands, but for more blocks.
ClosedAs(p, q, how) ==
  \E u \in Turn :
    /\ q.closed = Append(p.closed, u)
    /\ u.at = p.turn.at /\ u.id = p.turn.id /\ u.key = p.turn.key /\ u.status = how

LEMMA ReplacedDoes ==
  ASSUME NEW p \in Processor, NEW line \in StartedRecord
  PROVE  LET q == Replaced(p, line) IN
         /\ q \in Processor
         /\ q.subagent = p.subagent /\ q.chain = p.chain /\ q.prev = p.prev /\ q.model = p.model
         /\ q.events = p.events
         /\ IF p.turn = None THEN q.closed = p.closed ELSE ClosedAs(p, q, "aborted")
<1>1. CASE p.turn = None
  BY <1>1 DEF Replaced
<1>2. CASE p.turn # None
  <2>1. p.turn \in Turn /\ line.timed \in BOOLEAN
    BY <1>2 DEF Processor, StartedRecord
  <2> DEFINE u == [p.turn EXCEPT !.blocks = @ \cup {"required_invalid"}]
  <2>2. u \in Turn /\ u.at = p.turn.at /\ u.id = p.turn.id /\ u.key = p.turn.key
    BY <2>1 DEF Turn, Blocks
  <2>3. Replaced(p, line) = Close(p, u, "aborted", line.timed)
    BY <1>2 DEF Replaced
  <2> HIDE DEF u
  <2> DEFINE q == Close(p, u, "aborted", line.timed)
             v == ClosedTurn(u, "aborted", line.timed)
  <2>4. /\ q \in Processor
        /\ q.subagent = p.subagent /\ q.chain = p.chain /\ q.prev = p.prev /\ q.model = p.model
        /\ q.closed = Append(p.closed, v) /\ q.events = p.events /\ q.turn = None
    BY <2>1, <2>2, CloseDoes
  <2>6. v \in Turn /\ v.at = u.at /\ v.id = u.id /\ v.key = u.key /\ v.status = "aborted"
    BY <2>1, <2>2, ClosedTurnIs
  <2> HIDE DEF q, v
  <2>5. ClosedAs(p, q, "aborted")
    BY <2>2, <2>4, <2>6 DEF ClosedAs
  <2> QED BY <1>2, <2>3, <2>4, <2>5 DEF q
<1> QED BY <1>1, <1>2

LEMMA StartTurnDoes ==
  ASSUME NEW p \in Processor, NEW line \in StartedRecord, NEW n \in 1..MaxLines
  PROVE  LET q == StartTurn(p, n, line) IN
         /\ q \in Processor
         /\ q.subagent = p.subagent /\ q.chain = p.chain /\ q.prev = p.prev /\ q.model = p.model
         /\ q.events = p.events
         /\ IF p.turn = None THEN q.closed = p.closed ELSE ClosedAs(p, q, "aborted")
         /\ q.turn \in Turn
         /\ q.turn.key = (IF line.id = None THEN n ELSE line.id)
         /\ q.turn.id = line.id /\ q.turn.at = n /\ q.turn.status = "open"
         /\ q.turn.last = None /\ q.turn.accounted = ZeroUsage /\ q.turn.count = 0
         /\ q.turn.model = None
         /\ q.turn.blocks = {} =>
              p.chain = "continuous" /\ p.prev \in Usage /\ q.turn.start = p.prev
<1> DEFINE r == Replaced(p, line)
           T(start, blocks) ==
             [key |-> IF line.id = None THEN n ELSE line.id, id |-> line.id, at |-> n,
              start |-> start, last |-> None, accounted |-> ZeroUsage, count |-> 0,
              model |-> None, unresolved |-> FALSE, status |-> "open", timed |-> FALSE,
              blocks |-> blocks \cup (IF line.timed THEN {} ELSE {"time_missing"})]
<1>1. /\ r \in Processor
      /\ r.subagent = p.subagent /\ r.chain = p.chain /\ r.prev = p.prev /\ r.model = p.model
      /\ r.events = p.events
      /\ IF p.turn = None THEN r.closed = p.closed ELSE ClosedAs(p, r, "aborted")
  BY ReplacedDoes
<1>2. ASSUME NEW start \in Usage \cup {None}, NEW blocks \in SUBSET Blocks
      PROVE  /\ Opened(r, n, line, start, blocks) = [r EXCEPT !.turn = T(start, blocks)]
             /\ T(start, blocks) \in Turn
  <2>1. line.id \in Ids \cup {None}
    BY DEF StartedRecord
  <2>2. ZeroUsage \in Usage
    BY LedgerAssumption DEF ZeroUsage, Usage
  <2>3. "time_missing" \in Blocks
    BY DEF Blocks
  <2>4. T(start, blocks) \in Turn
    BY <2>1, <2>2, <2>3 DEF Turn
  <2> QED BY <2>4 DEF Opened
<1> HIDE DEF r
<1>5. ASSUME NEW start, NEW blocks, T(start, blocks) \in Turn
      PROVE  LET q == [r EXCEPT !.turn = T(start, blocks)] IN
         /\ q \in Processor
         /\ q.subagent = p.subagent /\ q.chain = p.chain /\ q.prev = p.prev /\ q.model = p.model
         /\ q.events = p.events
         /\ IF p.turn = None THEN q.closed = p.closed ELSE ClosedAs(p, q, "aborted")
         /\ q.turn = T(start, blocks) /\ q.turn \in Turn
         /\ q.turn.key = (IF line.id = None THEN n ELSE line.id)
         /\ q.turn.id = line.id /\ q.turn.at = n /\ q.turn.status = "open"
         /\ q.turn.last = None /\ q.turn.accounted = ZeroUsage /\ q.turn.count = 0
         /\ q.turn.model = None
  <2> DEFINE u == T(start, blocks)
             q == [r EXCEPT !.turn = u]
  <2>1. /\ u.key = (IF line.id = None THEN n ELSE line.id)
        /\ u.id = line.id /\ u.at = n /\ u.status = "open"
        /\ u.last = None /\ u.accounted = ZeroUsage /\ u.count = 0
        /\ u.model = None /\ u \in Turn
    BY <1>5
  <2> HIDE DEF u
  <2>2. /\ q \in Processor /\ q.closed = r.closed /\ q.turn = u
        /\ q.subagent = p.subagent /\ q.chain = p.chain /\ q.prev = p.prev /\ q.model = p.model
        /\ q.events = p.events
    BY <1>1, <2>1 DEF Processor
  <2>3. IF p.turn = None THEN q.closed = p.closed ELSE ClosedAs(p, q, "aborted")
    BY <1>1, <2>2 DEF ClosedAs
  <2> HIDE DEF q
  <2>4. /\ q \in Processor
        /\ q.subagent = p.subagent /\ q.chain = p.chain /\ q.prev = p.prev /\ q.model = p.model
        /\ q.events = p.events
        /\ IF p.turn = None THEN q.closed = p.closed ELSE ClosedAs(p, q, "aborted")
        /\ q.turn = u /\ q.turn \in Turn
        /\ q.turn.key = (IF line.id = None THEN n ELSE line.id)
        /\ q.turn.id = line.id /\ q.turn.at = n /\ q.turn.status = "open"
        /\ q.turn.last = None /\ q.turn.accounted = ZeroUsage /\ q.turn.count = 0
        /\ q.turn.model = None
    BY <2>1, <2>2, <2>3
  <2> QED BY <2>4 DEF q, u
<1>3. CASE p.chain = "continuous" /\ p.prev # None
  <2>1. p.prev \in Usage
    BY <1>3 DEF Processor
  <2>2. StartTurn(p, n, line) = Opened(r, n, line, p.prev, {})
    BY <1>3 DEF StartTurn, r
  <2>3. StartTurn(p, n, line) = [r EXCEPT !.turn = T(p.prev, {})] /\ T(p.prev, {}) \in Turn
    BY <1>2, <2>1, <2>2
  <2>4. T(p.prev, {}).start = p.prev
    OBVIOUS
  <2> DEFINE u == T(p.prev, {})
  <2> QED BY <1>1, <1>3, <1>5, <2>1, <2>3, <2>4
<1>4. CASE ~(p.chain = "continuous" /\ p.prev # None)
  <2> DEFINE why == {"start_missing"} \cup ({p.chain} \ {"continuous"})
  <2>1. why \in SUBSET Blocks
    BY DEF Processor, Blocks, ChainStates
  <2>2. StartTurn(p, n, line) = Opened(r, n, line, None, why)
    BY <1>4 DEF StartTurn, r
  <2>3. StartTurn(p, n, line) = [r EXCEPT !.turn = T(None, why)] /\ T(None, why) \in Turn
    BY <1>2, <2>1, <2>2
  <2>4. T(None, why).blocks # {}
    OBVIOUS
  <2> QED BY <1>1, <1>5, <2>3, <2>4
<1> QED BY <1>3, <1>4

LEMMA ObserveDoes ==
  ASSUME NEW t \in Turn, NEW m \in Models \cup {UnknownModel}
  PROVE  LET u == ObserveModel(t, m) IN
         /\ u \in Turn /\ Later(t, u)
         /\ u.accounted = t.accounted /\ u.count = t.count /\ u.last = t.last
         /\ u.blocks = {} =>
              m # UnknownModel /\ u.model = (IF t.model \in {None, m} THEN m ELSE Mixed)
<1>1. CASE m = UnknownModel
  <2> DEFINE u == [t EXCEPT !.unresolved = TRUE, !.blocks = @ \cup {"model_unresolved"}]
  <2>1. ObserveModel(t, m) = u
    BY <1>1 DEF ObserveModel
  <2>2. u \in Turn /\ Later(t, u) /\ u.accounted = t.accounted /\ u.count = t.count
        /\ u.last = t.last /\ u.blocks # {}
    BY DEF Turn, Later, Blocks
  <2> HIDE DEF u
  <2> QED BY <2>1, <2>2
<1>2. CASE m # UnknownModel
  <2> DEFINE w == IF t.model \in {None, m} THEN m ELSE Mixed
             u == [t EXCEPT !.model = w]
  <2>1. ObserveModel(t, m) = u
    BY <1>2 DEF ObserveModel
  <2>2. w \in Models \cup {None, Mixed}
    BY <1>2
  <2>3. u \in Turn /\ Later(t, u) /\ u.accounted = t.accounted /\ u.count = t.count
        /\ u.last = t.last /\ u.model = w
    <3> HIDE DEF w
    <3> QED BY <2>2 DEF Turn, Later
  <2> HIDE DEF u
  <2> QED BY <1>2, <2>1, <2>3
<1> QED BY <1>1, <1>2

LEMMA AddDoes ==
  ASSUME NEW t \in Turn, NEW used \in Usage
  PROVE  LET u == AddAccounted(t, used) IN
         /\ u \in Turn /\ Later(t, u) /\ u.model = t.model /\ u.last = t.last
         /\ u.blocks = {} =>
              /\ u.accounted = (IF t.count = 0 THEN used ELSE Plus(t.accounted, used))
              /\ u.count = t.count + 1
<1> DEFINE sum == IF t.count = 0 THEN used ELSE Plus(t.accounted, used)
<1>1. CASE sum \in Usage
  <2> DEFINE count == t.count + 1
             u == [t EXCEPT !.accounted = sum, !.count = count]
  <2>1. AddAccounted(t, used) = u
    BY <1>1 DEF AddAccounted
  <2>2. count \in Nat
    BY DEF Turn
  <2>3. u \in Turn /\ Later(t, u) /\ u.model = t.model /\ u.last = t.last
        /\ u.accounted = sum /\ u.count = count
    <3> HIDE DEF sum, count
    <3> QED BY <1>1, <2>2 DEF Turn, Later
  <2> HIDE DEF u
  <2> QED BY <2>1, <2>3
<1>2. CASE sum \notin Usage
  <2> DEFINE u == [t EXCEPT !.blocks = @ \cup {"required_invalid"}]
  <2>1. AddAccounted(t, used) = u
    BY <1>2 DEF AddAccounted
  <2>2. u \in Turn /\ Later(t, u) /\ u.model = t.model /\ u.last = t.last /\ u.blocks # {}
    BY DEF Turn, Later, Blocks
  <2> HIDE DEF u, sum
  <2> QED BY <2>1, <2>2
<1> QED BY <1>1, <1>2

ModelNow(p) == IF p.model = None THEN UnknownModel ELSE p.model
KeyNow(p)   == IF p.turn = None THEN None ELSE p.turn.key

\* The turn u counts e after what t counted, unless something blocks it.
Counts(t, u, e) ==
  u.blocks = {} =>
    /\ e.model # UnknownModel
    /\ u.model = (IF t.model \in {None, e.model} THEN e.model ELSE Mixed)
    /\ u.accounted = (IF t.count = 0 THEN e.usage ELSE Plus(t.accounted, e.usage))
    /\ u.count = t.count + 1

\* From p to q the open turn stays, and the events E are new.
Advances(p, q, E) ==
  /\ q.subagent = p.subagent /\ q.model = p.model /\ q.closed = p.closed
  /\ q.events = p.events \cup E
  /\ p.turn = None => q.turn = None
  /\ p.turn # None => /\ q.turn \in Turn /\ Later(p.turn, q.turn)
                      /\ E = {} => SameSums(p.turn, q.turn)
                      /\ \A e \in E : Counts(p.turn, q.turn, e)

Candidate(e, p, n, kind, used) ==
  /\ e \in Event /\ e.at = n /\ e.kind = kind /\ e.usage = used
  /\ e.turn = KeyNow(p) /\ e.model = ModelNow(p)

LEMMA EmitDoes ==
  ASSUME NEW p \in Processor, NEW n \in 1..MaxLines, NEW kind \in {"normal", "recovered"},
         NEW used \in Usage
  PROVE  LET q == Emit(p, n, kind, used) IN
         /\ q \in Processor /\ q.chain = p.chain /\ q.prev = p.prev
         /\ \E e : Candidate(e, p, n, kind, used) /\ Advances(p, q, {e})
<1> DEFINE m == ModelNow(p)
           e == [at |-> n, kind |-> kind, model |-> m, usage |-> used, turn |-> KeyNow(p)]
           u == AddAccounted(ObserveModel(p.turn, m), used)
<1>1. m \in Models \cup {UnknownModel} /\ KeyNow(p) \in Ids \cup (1..MaxLines) \cup {None}
  BY TurnParts DEF Processor, ModelNow, KeyNow
<1>2. Candidate(e, p, n, kind, used)
  BY <1>1 DEF Candidate, Event
<1>3. p.turn # None => u \in Turn /\ Later(p.turn, u) /\ Counts(p.turn, u, e)
  <2> SUFFICES ASSUME p.turn # None
               PROVE  u \in Turn /\ Later(p.turn, u) /\ Counts(p.turn, u, e)
    OBVIOUS
  <2> DEFINE v == ObserveModel(p.turn, m)
  <2>1. p.turn \in Turn
    BY DEF Processor
  <2>2. /\ v \in Turn /\ Later(p.turn, v)
        /\ v.accounted = p.turn.accounted /\ v.count = p.turn.count
        /\ v.blocks = {} =>
             m # UnknownModel /\ v.model = (IF p.turn.model \in {None, m} THEN m ELSE Mixed)
    BY <1>1, <2>1, ObserveDoes
  <2>3. /\ u \in Turn /\ Later(v, u) /\ u.model = v.model
        /\ u.blocks = {} =>
              /\ u.accounted = (IF v.count = 0 THEN used ELSE Plus(v.accounted, used))
              /\ u.count = v.count + 1
    BY <2>2, AddDoes
  <2>4. e.model = m /\ e.usage = used
    OBVIOUS
  <2> HIDE DEF m, e, u, v
  <2>5. Later(p.turn, u)
    BY <2>2, <2>3 DEF Later
  <2>6. u.blocks = {} => v.blocks = {}
    BY <2>3 DEF Later
  <2>7. Counts(p.turn, u, e)
    BY <2>2, <2>3, <2>4, <2>6 DEF Counts
  <2> QED BY <2>3, <2>5, <2>7
<1>4. CASE p.turn = None
  <2>1. Emit(p, n, kind, used) = [p EXCEPT !.events = @ \cup {e}, !.turn = None]
    BY <1>4 DEF Emit, ModelNow, KeyNow
  <2>2. e \in Event
    BY <1>2 DEF Candidate
  <2> HIDE DEF e
  <2> DEFINE q == [p EXCEPT !.events = @ \cup {e}, !.turn = None]
  <2>3. /\ q \in Processor /\ q.chain = p.chain /\ q.prev = p.prev
        /\ q.subagent = p.subagent /\ q.model = p.model /\ q.closed = p.closed
        /\ q.events = p.events \cup {e} /\ q.turn = None
    BY <2>2 DEF Processor
  <2> HIDE DEF q
  <2>4. Advances(p, q, {e})
    BY <1>4, <2>3 DEF Advances
  <2> QED BY <1>2, <2>1, <2>3, <2>4 DEF q
<1>5. CASE p.turn # None
  <2>1. Emit(p, n, kind, used) = [p EXCEPT !.events = @ \cup {e}, !.turn = u]
    BY <1>5 DEF Emit, ModelNow, KeyNow
  <2>2. e \in Event /\ u \in Turn /\ u # None
    BY <1>2, <1>3, <1>5, AbsenceAssumption DEF Candidate
  <2> HIDE DEF e, u
  <2> DEFINE q == [p EXCEPT !.events = @ \cup {e}, !.turn = u]
  <2>3. /\ q \in Processor /\ q.chain = p.chain /\ q.prev = p.prev
        /\ q.subagent = p.subagent /\ q.model = p.model /\ q.closed = p.closed
        /\ q.events = p.events \cup {e} /\ q.turn = u
    BY <2>2 DEF Processor
  <2> HIDE DEF q
  <2>4. Advances(p, q, {e})
    BY <1>3, <1>5, <2>2, <2>3 DEF Advances
  <2> QED BY <1>2, <2>1, <2>3, <2>4 DEF q
<1> QED BY <1>4, <1>5

EndedRecord == [is : {"ended"}, id : Ids \cup {None}, timed : BOOLEAN]

\* The compensation of the open turn of p.
Compensation(e, p, n) ==
  /\ e \in Event /\ e.at = n /\ e.kind = "compensation" /\ e.turn = p.turn.key
  /\ e.model = (IF p.turn.model = Mixed THEN UnknownModel ELSE p.turn.model)
  /\ e.usage = Minus(Minus(p.turn.last, p.turn.start), p.turn.accounted)
  /\ e.usage # ZeroUsage
  /\ Leq(p.turn.accounted, Minus(p.turn.last, p.turn.start))

Compensates(p) ==
  /\ p.turn.blocks = {} /\ p.turn.start \in Usage /\ p.turn.last \in Usage
  /\ p.turn.model # None

Frame(p, q) ==
  q.subagent = p.subagent /\ q.chain = p.chain /\ q.prev = p.prev /\ q.model = p.model

LEMMA DifferenceIsUsage ==
  ASSUME NEW a, NEW b, ~Negative(a, b), ~NotAUsage(a, b)
  PROVE  Minus(a, b) \in Usage
BY DEF NotAUsage

LEMMA CloseEnds ==
  ASSUME NEW p \in Processor, NEW r \in Processor, NEW t \in Turn, NEW timed \in {TRUE, FALSE},
         Frame(p, r), r.closed = p.closed,
         t.at = p.turn.at, t.id = p.turn.id, t.key = p.turn.key
  PROVE  LET q == Close(r, t, "ended", timed) IN
         q \in Processor /\ Frame(p, q) /\ q.turn = None /\ ClosedAs(p, q, "ended")
         /\ q.events = r.events
<1> DEFINE q == Close(r, t, "ended", timed)
           u == ClosedTurn(t, "ended", timed)
<1>1. /\ q \in Processor
      /\ q.subagent = r.subagent /\ q.chain = r.chain /\ q.prev = r.prev /\ q.model = r.model
      /\ q.closed = Append(r.closed, u) /\ q.events = r.events /\ q.turn = None
  BY CloseDoes
<1>2. u \in Turn /\ u.at = t.at /\ u.id = t.id /\ u.key = t.key /\ u.status = "ended"
  BY ClosedTurnIs
<1> HIDE DEF q, u
<1>3. Frame(p, q)
  BY <1>1 DEF Frame
<1>4. ClosedAs(p, q, "ended")
  BY <1>1, <1>2 DEF ClosedAs
<1> QED BY <1>1, <1>3, <1>4 DEF q

LEMMA CompensateDoes ==
  ASSUME NEW p \in Processor, NEW n \in 1..MaxLines, p.turn # None,
         MayCompensate(p.turn, TRUE), ~CompensateFails(p.turn)
  PROVE  LET q == Compensate(p, n, p.turn) IN
         /\ q \in Processor /\ Frame(p, q) /\ q.turn = None /\ ClosedAs(p, q, "ended")
         /\ \/ q.events = p.events
            \/ Compensates(p) /\ \E e : Compensation(e, p, n) /\ q.events = p.events \cup {e}
<1> DEFINE turn == p.turn
           delta == Minus(turn.last, turn.start)
           missing == Minus(delta, turn.accounted)
           e == [at |-> n, kind |-> "compensation", turn |-> turn.key, usage |-> missing,
                 model |-> IF turn.model = Mixed THEN UnknownModel ELSE turn.model]
           q == Compensate(p, n, turn)
<1>1. turn \in Turn /\ turn.start \in Usage /\ turn.last \in Usage /\ turn.blocks = {}
  <2>1. turn \in Turn
    BY DEF Processor
  <2> QED BY <2>1, TurnParts DEF MayCompensate
<1>2. CASE \/ Negative(turn.last, turn.start) \/ Negative(delta, turn.accounted)
           \/ missing = ZeroUsage \/ turn.model = None
  <2>1. q = Close(p, turn, "ended", TRUE)
    BY <1>2 DEF Compensate
  <2>2. Frame(p, p)
    BY DEF Frame
  <2> DEFINE c == Close(p, turn, "ended", TRUE)
  <2>3. c \in Processor /\ Frame(p, c) /\ c.turn = None /\ ClosedAs(p, c, "ended")
        /\ c.events = p.events
    BY <1>1, <2>2, CloseEnds
  <2> HIDE DEF c, q
  <2> QED BY <2>1, <2>3 DEF c, q
<1>3. CASE ~(\/ Negative(turn.last, turn.start) \/ Negative(delta, turn.accounted)
             \/ missing = ZeroUsage \/ turn.model = None)
  <2>1. q = Close([p EXCEPT !.events = @ \cup {e}], AddAccounted(turn, missing), "ended", TRUE)
    BY <1>3 DEF Compensate
  <2>2. missing \in Usage
    BY <1>3, DifferenceIsUsage DEF CompensateFails
  <2>3. e \in Event /\ Compensation(e, p, n) /\ Compensates(p)
    <3>1. /\ turn.key \in Ids \cup (1..MaxLines) \cup {None}
          /\ (IF turn.model = Mixed THEN UnknownModel ELSE turn.model) \in Models \cup {UnknownModel}
      BY <1>1, <1>3 DEF Turn
    <3>2. e \in Event
      <4> HIDE DEF missing
      <4> QED BY <2>2, <3>1 DEF Event
    <3>3. Leq(turn.accounted, delta)
      BY <1>3 DEF Negative
    <3>4. /\ e.at = n /\ e.kind = "compensation" /\ e.turn = turn.key /\ e.usage = missing
          /\ e.model = (IF turn.model = Mixed THEN UnknownModel ELSE turn.model)
      OBVIOUS
    <3> HIDE DEF e
    <3> QED BY <1>1, <1>3, <3>2, <3>3, <3>4 DEF Compensation, Compensates
  <2> DEFINE t == AddAccounted(turn, missing)
             r == [p EXCEPT !.events = @ \cup {e}]
  <2>4. t \in Turn /\ t.at = turn.at /\ t.id = turn.id /\ t.key = turn.key
    <3> HIDE DEF missing
    <3> QED BY <1>1, <2>2, AddDoes DEF Later
  <2>5. r \in Processor /\ Frame(p, r) /\ r.closed = p.closed /\ r.events = p.events \cup {e}
    <3> HIDE DEF e
    <3> QED BY <2>3 DEF Processor, Frame
  <2> HIDE DEF t, r, e
  <2> DEFINE c == Close(r, t, "ended", TRUE)
  <2>6. c \in Processor /\ Frame(p, c) /\ c.turn = None /\ ClosedAs(p, c, "ended")
        /\ c.events = r.events
    BY <2>4, <2>5, CloseEnds
  <2>7. q = c
    BY <2>1 DEF c, r, t
  <2> HIDE DEF c, q
  <2> QED BY <2>3, <2>5, <2>6, <2>7 DEF q
<1> QED BY <1>2, <1>3

\* How a turn ends: it stays, it is lost, it is closed, or it is closed and compensated.
LEMMA EndTurnDoes ==
  ASSUME NEW p \in Processor, NEW line \in EndedRecord, NEW n \in 1..MaxLines
  PROVE  LET q == EndTurn(p, n, line) IN
         /\ q \in Processor /\ Frame(p, q)
         /\ \/ q = p
            \/ p.turn # None /\ q.turn = None /\ q.closed = p.closed /\ q.events = p.events
            \/ /\ p.turn # None /\ q.turn = None /\ ClosedAs(p, q, "ended")
               /\ \/ q.events = p.events
                  \/ Compensates(p) /\ \E e : Compensation(e, p, n) /\ q.events = p.events \cup {e}
<1> DEFINE q == EndTurn(p, n, line)
<1>1. CASE p.turn = None \/ (line.id # None /\ p.turn.id # line.id)
  <2>1. q = p
    BY <1>1 DEF EndTurn
  <2> QED BY <2>1 DEF Frame
<1>2. CASE ~(p.turn = None \/ (line.id # None /\ p.turn.id # line.id))
  <2>1. p.turn \in Turn /\ line.timed \in {TRUE, FALSE} /\ p.turn # None
    BY <1>2 DEF Processor, EndedRecord
  <2>2. CASE ~MayCompensate(p.turn, line.timed)
    <3> DEFINE t == IF line.timed THEN p.turn
                    ELSE [p.turn EXCEPT !.blocks = @ \cup {"time_missing"}]
    <3>1. q = Close(p, t, "ended", line.timed)
      BY <1>2, <2>2 DEF EndTurn
    <3>2. t \in Turn /\ t.at = p.turn.at /\ t.id = p.turn.id /\ t.key = p.turn.key
      BY <2>1 DEF Turn, Blocks
    <3>3. Frame(p, p)
      BY DEF Frame
    <3> HIDE DEF t
    <3> DEFINE c == Close(p, t, "ended", line.timed)
    <3>4. c \in Processor /\ Frame(p, c) /\ c.turn = None /\ ClosedAs(p, c, "ended")
          /\ c.events = p.events
      BY <2>1, <3>2, <3>3, CloseEnds
    <3> HIDE DEF c, q
    <3> QED BY <2>1, <3>1, <3>4 DEF c, q
  <2>3. CASE MayCompensate(p.turn, line.timed) /\ CompensateFails(p.turn)
    <3> DEFINE r == [p EXCEPT !.turn = None]
    <3>1. q = r
      BY <1>2, <2>3 DEF EndTurn
    <3>2. r \in Processor /\ Frame(p, r) /\ r.turn = None /\ r.closed = p.closed
          /\ r.events = p.events
      BY DEF Processor, Frame
    <3> HIDE DEF r
    <3> QED BY <2>1, <3>1, <3>2
  <2>4. CASE MayCompensate(p.turn, line.timed) /\ ~CompensateFails(p.turn)
    <3>1. q = Compensate(p, n, p.turn) /\ MayCompensate(p.turn, TRUE)
      BY <1>2, <2>4 DEF EndTurn, MayCompensate
    <3> QED BY <2>1, <2>4, <3>1, CompensateDoes
  <2> QED BY <2>2, <2>3, <2>4
<1> QED BY <1>1, <1>2

Quiet(p, q) == Advances(p, q, {})
Emits(p, q, n, kind, used) == \E e : Candidate(e, p, n, kind, used) /\ Advances(p, q, {e})
Based(q, total) ==
  q.chain = "continuous" /\ q.prev = total /\ (q.turn # None => q.turn.last = total)
Blocked(q) == q.turn # None => q.turn.blocks # {}

LEMMA QuietThenAdvances ==
  ASSUME NEW p, NEW q, NEW r, NEW E, Quiet(p, q), Advances(q, r, E)
  PROVE  Advances(p, r, E)
<1>1. /\ q.subagent = p.subagent /\ q.model = p.model /\ q.closed = p.closed
      /\ q.events = p.events
      /\ p.turn = None => q.turn = None
      /\ p.turn # None => q.turn \in Turn /\ Later(p.turn, q.turn) /\ SameSums(p.turn, q.turn)
  BY DEF Quiet, Advances
<1>2. CASE p.turn = None
  BY <1>1, <1>2 DEF Advances
<1>3. CASE p.turn # None
  <2>1. q.turn # None
    BY <1>1, <1>3, TurnParts
  <2>2. r.turn \in Turn /\ Later(q.turn, r.turn) /\ (E = {} => SameSums(q.turn, r.turn))
        /\ \A e \in E : Counts(q.turn, r.turn, e)
    BY <2>1 DEF Advances
  <2>3. Later(p.turn, r.turn) /\ (E = {} => SameSums(p.turn, r.turn))
    BY <1>1, <1>3, <2>2 DEF Later, SameSums
  <2>4. ASSUME NEW e \in E
        PROVE  Counts(p.turn, r.turn, e)
    BY <1>1, <1>3, <2>2, <2>4 DEF Counts, SameSums
  <2> QED BY <1>1, <1>3, <2>2, <2>3, <2>4 DEF Advances
<1> QED BY <1>2, <1>3

LEMMA AdvancesThenQuiet ==
  ASSUME NEW p, NEW q, NEW r, NEW E, Advances(p, q, E), Quiet(q, r)
  PROVE  Advances(p, r, E)
<1>1. /\ r.subagent = q.subagent /\ r.model = q.model /\ r.closed = q.closed
      /\ r.events = q.events
      /\ q.turn = None => r.turn = None
      /\ q.turn # None => r.turn \in Turn /\ Later(q.turn, r.turn) /\ SameSums(q.turn, r.turn)
  BY DEF Quiet, Advances
<1>2. CASE p.turn = None
  BY <1>1, <1>2 DEF Advances
<1>3. CASE p.turn # None
  <2>1. q.turn \in Turn /\ Later(p.turn, q.turn) /\ (E = {} => SameSums(p.turn, q.turn))
        /\ \A e \in E : Counts(p.turn, q.turn, e)
    BY <1>3 DEF Advances
  <2>2. q.turn # None
    BY <2>1, TurnParts
  <2>3. Later(p.turn, r.turn) /\ (E = {} => SameSums(p.turn, r.turn))
    BY <1>1, <2>1, <2>2 DEF Later, SameSums
  <2>4. ASSUME NEW e \in E
        PROVE  Counts(p.turn, r.turn, e)
    <3>1. r.turn.blocks = {} => q.turn.blocks = {}
      BY <1>1, <2>2 DEF Later
    <3> QED BY <1>1, <2>1, <2>2, <2>4, <3>1 DEF Counts, SameSums
  <2> QED BY <1>1, <1>3, <2>1, <2>2, <2>3, <2>4 DEF Advances
<1> QED BY <1>2, <1>3

LEMMA BlockIsQuiet ==
  ASSUME NEW p \in Processor, NEW why \in Blocks
  PROVE  LET q == Block(p, why) IN
         /\ q \in Processor /\ Frame(p, q) /\ Quiet(p, q) /\ Blocked(q)
<1> DEFINE q == Block(p, why)
<1>1. /\ q \in Processor
      /\ q.subagent = p.subagent /\ q.chain = p.chain /\ q.prev = p.prev /\ q.model = p.model
      /\ q.closed = p.closed /\ q.events = p.events
      /\ p.turn = None => q.turn = None
      /\ p.turn # None => /\ q.turn \in Turn /\ Later(p.turn, q.turn) /\ SameSums(p.turn, q.turn)
                          /\ why \in q.turn.blocks
  BY BlockDoes
<1> HIDE DEF q
<1>2. Frame(p, q) /\ Blocked(q)
  BY <1>1 DEF Frame, Blocked
<1>3. Quiet(p, q)
  BY <1>1 DEF Quiet, Advances
<1> QED BY <1>1, <1>2, <1>3 DEF q

LEMMA InterruptIsQuiet ==
  ASSUME NEW p \in Processor, NEW why \in ChainStates \ {"continuous"}
  PROVE  LET q == Interrupt(p, why) IN
         /\ q \in Processor /\ q.chain = why /\ q.prev = p.prev /\ Quiet(p, q) /\ Blocked(q)
<1> DEFINE q == Interrupt(p, why)
<1>1. /\ q \in Processor
      /\ q.subagent = p.subagent /\ q.chain = why /\ q.prev = p.prev /\ q.model = p.model
      /\ q.closed = p.closed /\ q.events = p.events
      /\ p.turn = None => q.turn = None
      /\ p.turn # None => /\ q.turn \in Turn /\ Later(p.turn, q.turn) /\ SameSums(p.turn, q.turn)
                          /\ why \in q.turn.blocks
  BY InterruptDoes
<1> HIDE DEF q
<1>2. Blocked(q)
  BY <1>1 DEF Blocked
<1>3. Quiet(p, q)
  BY <1>1 DEF Quiet, Advances
<1> QED BY <1>1, <1>2, <1>3 DEF q

LEMMA BaselineAfter ==
  ASSUME NEW p, NEW r \in Processor, NEW E, Advances(p, r, E), NEW total \in Usage
  PROVE  LET q == SetBaseline(r, total) IN
         /\ q \in Processor /\ Advances(p, q, E) /\ Based(q, total)
         /\ Blocked(r) => Blocked(q)
<1> DEFINE q == SetBaseline(r, total)
<1>1. /\ q \in Processor
      /\ q.subagent = r.subagent /\ q.chain = "continuous" /\ q.prev = total /\ q.model = r.model
      /\ q.closed = r.closed /\ q.events = r.events
      /\ r.turn = None => q.turn = None
      /\ r.turn # None => /\ q.turn \in Turn /\ Later(r.turn, q.turn) /\ SameSums(r.turn, q.turn)
                          /\ q.turn.blocks = r.turn.blocks /\ q.turn.last = total
  BY BaselineDoes
<1> HIDE DEF q
<1>2. Quiet(r, q)
  BY <1>1 DEF Quiet, Advances
<1>3. Advances(p, q, E)
  BY <1>2, AdvancesThenQuiet
<1>4. Based(q, total) /\ (Blocked(r) => Blocked(q))
  BY <1>1 DEF Based, Blocked
<1> QED BY <1>1, <1>3, <1>4 DEF q

LEMMA StandingStill ==
  ASSUME NEW p \in Processor
  PROVE  Quiet(p, p)
<1>1. p.turn # None => p.turn \in Turn
  BY DEF Processor
<1> QED BY <1>1 DEF Quiet, Advances, Later, SameSums

LEMMA BlockedStays ==
  ASSUME NEW p, NEW q, NEW E, Advances(p, q, E), Blocked(p)
  PROVE  Blocked(q)
BY DEF Advances, Blocked, Later

LEMMA CandidateBefore ==
  ASSUME NEW p, NEW q, Quiet(p, q), NEW e, NEW n, NEW kind, NEW used,
         Candidate(e, q, n, kind, used)
  PROVE  Candidate(e, p, n, kind, used)
<1>1. ModelNow(q) = ModelNow(p)
  BY DEF Quiet, Advances, ModelNow
<1>2. KeyNow(q) = KeyNow(p)
  BY TurnParts DEF Quiet, Advances, KeyNow, Later
<1> QED BY <1>1, <1>2 DEF Candidate

LEMMA CountLastDoes ==
  ASSUME NEW p \in Processor, NEW last \in Tokens, NEW n \in 1..MaxLines
  PROVE  LET q == CountLast(p, n, last) IN
         /\ q \in Processor
         /\ IF last.kind = "valid" THEN Emits(p, q, n, "normal", last.usage) ELSE Quiet(p, q)
         /\ last.kind = "invalid" => Blocked(q)
<1>1. last.kind \in {"valid", "invalid", "missing"} /\ last.usage \in Usage
  BY DEF Tokens
<1>2. CASE last.kind = "valid"
  <2>1. CountLast(p, n, last) = Emit(p, n, "normal", last.usage)
    BY <1>2 DEF CountLast
  <2> DEFINE q == Emit(p, n, "normal", last.usage)
  <2>2. q \in Processor /\ Emits(p, q, n, "normal", last.usage)
    BY <1>1, EmitDoes DEF Emits
  <2> HIDE DEF q
  <2> QED BY <1>2, <2>1, <2>2 DEF q
<1>3. CASE last.kind = "invalid"
  <2>1. CountLast(p, n, last) = Block(p, "required_invalid")
    BY <1>3 DEF CountLast
  <2>2. "required_invalid" \in Blocks
    BY DEF Blocks
  <2> DEFINE q == Block(p, "required_invalid")
  <2>3. q \in Processor /\ Quiet(p, q) /\ Blocked(q)
    BY <2>2, BlockIsQuiet
  <2> HIDE DEF q
  <2> QED BY <1>3, <2>1, <2>3 DEF q
<1>4. CASE last.kind = "missing"
  <2>1. CountLast(p, n, last) = p
    BY <1>4 DEF CountLast
  <2> QED BY <1>4, <2>1, StandingStill
<1> QED BY <1>1, <1>2, <1>3, <1>4

TokensRecord == [is : {"tokens"}, timed : BOOLEAN, total : Tokens, last : Tokens]
Prefix(p) == p.subagent /\ p.model = None

\* Where a snapshot that can be read leaves the processor, and what it counts.
LEMMA CountTokensDoes ==
  ASSUME NEW p \in Processor, NEW line \in TokensRecord, NEW n \in 1..MaxLines
  PROVE  LET q == CountTokens(p, n, line)
             total == line.total.usage
             reset == p.prev # None /\ Negative(total, p.prev)
             apart == p.chain = "continuous" /\ p.prev # total
         IN
         /\ q \in Processor
         /\ line.total.kind # "valid" /\ Prefix(p) => q = p
         /\ line.total.kind # "valid" /\ ~Prefix(p) =>
              q.chain = "required_invalid" /\ q.prev = p.prev /\ Quiet(p, q) /\ Blocked(q)
         /\ line.total.kind = "valid" =>
              /\ Prefix(p) => Based(q, total) /\ Quiet(p, q)
              /\ ~Prefix(p) =>
                   /\ ~line.timed => Based(q, total) /\ Quiet(p, q) /\ Blocked(q)
                   /\ line.timed /\ ~apart => Based(q, total) /\ Quiet(p, q)
                   /\ line.timed /\ apart =>
                        /\ reset \/ line.last.kind # "missing" =>
                             /\ Based(q, total)
                             /\ reset \/ line.last.kind = "invalid" => Blocked(q)
                             /\ IF line.last.kind = "valid"
                                  THEN Emits(p, q, n, "normal", line.last.usage)
                                  ELSE Quiet(p, q)
                        /\ ~reset /\ line.last.kind = "missing" =>
                             IF p.prev # None /\ NotAUsage(total, p.prev)
                               THEN q.chain = p.chain /\ q.prev = p.prev /\ Quiet(p, q) /\ Blocked(q)
                               ELSE /\ Based(q, total)
                                    /\ IF p.prev = None THEN Quiet(p, q)
                                       ELSE /\ Minus(total, p.prev) \in Usage
                                            /\ Emits(p, q, n, "recovered", Minus(total, p.prev))
<1> DEFINE q == CountTokens(p, n, line)
           total == line.total.usage
           last == line.last
           reset == p.prev # None /\ Negative(total, p.prev)
           apart == p.chain = "continuous" /\ p.prev # total
           B(r) == SetBaseline(r, total)
<1>1. /\ total \in Usage /\ last \in Tokens /\ last.kind \in {"valid", "invalid", "missing"}
      /\ last.usage \in Usage /\ p.prev \in Usage \cup {None}
      /\ {"required_invalid", "time_missing", "reset"} \subseteq Blocks
      /\ "required_invalid" \in ChainStates \ {"continuous"}
  BY DEF TokensRecord, Tokens, Processor, Blocks, ChainStates
<1>2. Quiet(p, p)
  BY StandingStill
\* The new total as the baseline after r.
<1>3. ASSUME NEW r \in Processor, NEW E, Advances(p, r, E)
      PROVE  /\ B(r) \in Processor /\ Advances(p, B(r), E) /\ Based(B(r), total)
             /\ Blocked(r) => Blocked(B(r))
  BY <1>1, <1>3, BaselineAfter
<1>4. ASSUME NEW r \in Processor, Quiet(p, r)
      PROVE  /\ B(r) \in Processor /\ Quiet(p, B(r)) /\ Based(B(r), total)
             /\ Blocked(r) => Blocked(B(r))
  <2>1. Advances(p, r, {})
    BY <1>4 DEF Quiet
  <2> HIDE DEF B
  <2> QED BY <1>3, <2>1 DEF Quiet
<1>5. CASE line.total.kind # "valid" /\ Prefix(p)
  <2>1. q = p
    BY <1>5 DEF CountTokens, Prefix
  <2> QED BY <1>5, <2>1
<1>6. CASE line.total.kind # "valid" /\ ~Prefix(p)
  <2>1. q = Interrupt(p, "required_invalid")
    BY <1>6 DEF CountTokens, Prefix
  <2> DEFINE r == Interrupt(p, "required_invalid")
  <2>2. /\ r \in Processor /\ r.chain = "required_invalid" /\ r.prev = p.prev /\ Quiet(p, r)
        /\ Blocked(r)
    BY <1>1, InterruptIsQuiet
  <2> HIDE DEF r, q
  <2> QED BY <1>6, <2>1, <2>2 DEF r, q
<1>7. CASE line.total.kind = "valid" /\ Prefix(p)
  <2>1. q = B(p)
    BY <1>7 DEF CountTokens, Prefix
  <2> HIDE DEF q, B
  <2> QED BY <1>2, <1>4, <1>7, <2>1 DEF q
<1>8. CASE line.total.kind = "valid" /\ ~Prefix(p) /\ ~line.timed
  <2> DEFINE r == IF last.kind = "invalid" THEN Block(p, "required_invalid") ELSE p
             s == Block(r, "time_missing")
  <2>1. q = B(s)
    BY <1>8 DEF CountTokens, Prefix
  <2>2. r \in Processor /\ Quiet(p, r)
    BY <1>1, <1>2, BlockIsQuiet
  <2>3. s \in Processor /\ Quiet(r, s) /\ Blocked(s)
    <3> HIDE DEF r
    <3> QED BY <1>1, <2>2, BlockIsQuiet
  <2> HIDE DEF q, B, r, s
  <2>4. Quiet(p, s)
    BY <2>2, <2>3, QuietThenAdvances DEF Quiet
  <2> QED BY <1>4, <1>8, <2>1, <2>3, <2>4 DEF q
<1>9. CASE line.total.kind = "valid" /\ ~Prefix(p) /\ line.timed /\ ~apart
  <2>1. q = B(p)
    BY <1>9 DEF CountTokens, Prefix
  <2> HIDE DEF q, B
  <2> QED BY <1>2, <1>4, <1>9, <2>1 DEF q
<1>10. CASE line.total.kind = "valid" /\ ~Prefix(p) /\ line.timed /\ apart /\ reset
  <2> DEFINE r == Block(p, "reset")
             s == CountLast(r, n, last)
  <2>1. q = B(s)
    BY <1>10 DEF CountTokens, Prefix
  <2>2. r \in Processor /\ Quiet(p, r) /\ Blocked(r)
    BY <1>1, BlockIsQuiet
  <2>3. /\ s \in Processor
        /\ IF last.kind = "valid" THEN Emits(r, s, n, "normal", last.usage) ELSE Quiet(r, s)
    <3> HIDE DEF r
    <3> QED BY <1>1, <2>2, CountLastDoes
  <2> HIDE DEF q, B, r, s
  <2>4. CASE last.kind = "valid"
    <3>1. PICK e : Candidate(e, r, n, "normal", last.usage) /\ Advances(r, s, {e})
      BY <2>3, <2>4 DEF Emits
    <3>2. Candidate(e, p, n, "normal", last.usage) /\ Advances(p, s, {e})
      BY <2>2, <3>1, CandidateBefore, QuietThenAdvances
    <3>3. Blocked(s)
      BY <2>2, <3>1, BlockedStays
    <3>4. /\ B(s) \in Processor /\ Advances(p, B(s), {e}) /\ Based(B(s), total)
          /\ Blocked(B(s))
      BY <1>3, <2>3, <3>2, <3>3
    <3>5. Emits(p, B(s), n, "normal", last.usage)
      BY <3>2, <3>4 DEF Emits
    <3> QED BY <1>10, <2>1, <2>4, <3>4, <3>5 DEF q
  <2>5. CASE last.kind # "valid"
    <3>1. Quiet(r, s) /\ Quiet(p, s) /\ Blocked(s)
      BY <2>2, <2>3, <2>5, QuietThenAdvances, BlockedStays DEF Quiet
    <3> QED BY <1>4, <1>10, <2>1, <2>3, <2>5, <3>1 DEF q
  <2> QED BY <2>4, <2>5
<1>11. CASE /\ line.total.kind = "valid" /\ ~Prefix(p) /\ line.timed /\ apart /\ ~reset
            /\ last.kind # "missing"
  <2> DEFINE s == CountLast(p, n, last)
  <2>1. q = B(s)
    BY <1>11 DEF CountTokens, Prefix
  <2>2. /\ s \in Processor
        /\ IF last.kind = "valid" THEN Emits(p, s, n, "normal", last.usage) ELSE Quiet(p, s)
        /\ last.kind = "invalid" => Blocked(s)
    BY <1>1, CountLastDoes
  <2> HIDE DEF q, B, s
  <2>3. CASE last.kind = "valid"
    <3>1. PICK e : Candidate(e, p, n, "normal", last.usage) /\ Advances(p, s, {e})
      BY <2>2, <2>3 DEF Emits
    <3>2. B(s) \in Processor /\ Advances(p, B(s), {e}) /\ Based(B(s), total)
      BY <1>3, <2>2, <3>1
    <3>3. Emits(p, B(s), n, "normal", last.usage)
      BY <3>1, <3>2 DEF Emits
    <3> QED BY <1>11, <2>1, <2>3, <3>2, <3>3 DEF q
  <2>4. CASE last.kind # "valid"
    <3>1. Quiet(p, s) /\ last.kind = "invalid" /\ Blocked(s)
      BY <1>1, <1>11, <2>2, <2>4
    <3> QED BY <1>4, <1>11, <2>1, <2>2, <2>4, <3>1 DEF q
  <2> QED BY <2>3, <2>4
<1>12. CASE /\ line.total.kind = "valid" /\ ~Prefix(p) /\ line.timed /\ apart /\ ~reset
            /\ last.kind = "missing" /\ p.prev # None /\ NotAUsage(total, p.prev)
  <2>1. q = Block(p, "required_invalid")
    BY <1>12 DEF CountTokens, Prefix
  <2> DEFINE r == Block(p, "required_invalid")
  <2>2. r \in Processor /\ r.chain = p.chain /\ r.prev = p.prev /\ Quiet(p, r) /\ Blocked(r)
    BY <1>1, BlockIsQuiet DEF Frame
  <2> HIDE DEF q, r
  <2> QED BY <1>12, <2>1, <2>2 DEF q, r
<1>13. CASE /\ line.total.kind = "valid" /\ ~Prefix(p) /\ line.timed /\ apart /\ ~reset
            /\ last.kind = "missing" /\ p.prev = None
  <2>1. Recover(p, n, total) = p
    BY <1>13 DEF Recover
  <2>2. q = B(p)
    BY <1>13, <2>1 DEF CountTokens, Prefix
  <2> HIDE DEF q, B
  <2> QED BY <1>2, <1>4, <1>13, <2>2 DEF q
<1>14. CASE /\ line.total.kind = "valid" /\ ~Prefix(p) /\ line.timed /\ apart /\ ~reset
            /\ last.kind = "missing" /\ p.prev # None /\ ~NotAUsage(total, p.prev)
  <2> DEFINE d == Minus(total, p.prev)
             s == Emit(p, n, "recovered", d)
  <2>1. Recover(p, n, total) = s
    BY <1>14 DEF Recover
  <2>2. q = B(s)
    BY <1>14, <2>1 DEF CountTokens, Prefix
  <2>3. d \in Usage
    BY <1>14, DifferenceIsUsage
  <2>4. s \in Processor /\ Emits(p, s, n, "recovered", d)
    <3> HIDE DEF d
    <3> QED BY <2>3, EmitDoes DEF Emits
  <2> HIDE DEF q, B, s
  <2>5. PICK e : Candidate(e, p, n, "recovered", d) /\ Advances(p, s, {e})
    BY <2>4 DEF Emits
  <2>6. B(s) \in Processor /\ Advances(p, B(s), {e}) /\ Based(B(s), total)
    BY <1>3, <2>4, <2>5
  <2>7. Emits(p, B(s), n, "recovered", d)
    BY <2>5, <2>6 DEF Emits
  <2> QED BY <1>14, <2>2, <2>3, <2>6, <2>7 DEF q
<1> HIDE DEF q
<1> QED BY <1>5, <1>6, <1>7, <1>8, <1>9, <1>10, <1>11, <1>12, <1>13, <1>14 DEF q

------------------------------------------------------------------------------
(* One line, whatever is in it. *)

LEMMA RecordKinds ==
  ASSUME NEW line \in Record
  PROVE  /\ line.is \in {"context", "started", "ended", "tokens", "gap"}
         /\ line.is = "context" => line.model \in Models
         /\ line.is = "started" => line \in StartedRecord
         /\ line.is = "ended" => line \in EndedRecord
         /\ line.is = "tokens" => line \in TokensRecord
BY DEF Record, StartedRecord, EndedRecord, TokensRecord

\* What was there before the line stays: a turn may close, another may open, an event may come.
Grows(p, q, n) ==
  /\ q.subagent = p.subagent
  /\ \/ q.events = p.events
     \/ \E e \in Event : e.at = n /\ q.events = p.events \cup {e}
  /\ \/ q.closed = p.closed /\ q.turn = None
     \/ q.closed = p.closed /\ p.turn # None /\ Later(p.turn, q.turn)
     \/ p.turn # None /\ q.turn = None /\ \E how \in {"ended", "aborted"} : ClosedAs(p, q, how)
     \/ /\ q.turn # None /\ q.turn.at = n /\ q.turn.status = "open"
        /\ \/ q.closed = p.closed
           \/ p.turn # None /\ \E how \in {"ended", "aborted"} : ClosedAs(p, q, how)

LEMMA AdvanceGrows ==
  ASSUME NEW p \in Processor, NEW q, NEW n,
         Quiet(p, q) \/ \E e \in Event : e.at = n /\ Advances(p, q, {e})
  PROVE  Grows(p, q, n)
<1>1. CASE Quiet(p, q)
  BY <1>1 DEF Quiet, Advances, Grows
<1>2. CASE \E e \in Event : e.at = n /\ Advances(p, q, {e})
  BY <1>2 DEF Advances, Grows
<1> QED BY <1>1, <1>2

LEMMA TokensAdvance ==
  ASSUME NEW p \in Processor, NEW line \in TokensRecord, NEW n \in 1..MaxLines
  PROVE  LET q == CountTokens(p, n, line) IN
         /\ q \in Processor
         /\ \/ Quiet(p, q)
            \/ \E e, used : \E kind \in {"normal", "recovered"} :
                 Candidate(e, p, n, kind, used) /\ Advances(p, q, {e})
<1> DEFINE q == CountTokens(p, n, line)
           total == line.total.usage
           reset == p.prev # None /\ Negative(total, p.prev)
           apart == p.chain = "continuous" /\ p.prev # total
<1>0. line.last.kind \in {"valid", "invalid", "missing"}
  BY DEF TokensRecord, Tokens
<1>1. /\ q \in Processor
      /\ line.total.kind # "valid" /\ Prefix(p) => q = p
      /\ line.total.kind # "valid" /\ ~Prefix(p) => Quiet(p, q)
      /\ line.total.kind = "valid" =>
           /\ Prefix(p) => Quiet(p, q)
           /\ ~Prefix(p) =>
                /\ ~line.timed => Quiet(p, q)
                /\ line.timed /\ ~apart => Quiet(p, q)
                /\ line.timed /\ apart =>
                     /\ reset \/ line.last.kind # "missing" =>
                          IF line.last.kind = "valid"
                            THEN Emits(p, q, n, "normal", line.last.usage)
                            ELSE Quiet(p, q)
                     /\ ~reset /\ line.last.kind = "missing" =>
                          \/ Quiet(p, q)
                          \/ Emits(p, q, n, "recovered", Minus(total, p.prev))
  BY CountTokensDoes
<1>2. Quiet(p, p)
  BY StandingStill
<1> HIDE DEF q, reset, apart
<1>3. \/ Quiet(p, q)
      \/ Emits(p, q, n, "normal", line.last.usage)
      \/ Emits(p, q, n, "recovered", Minus(total, p.prev))
  BY <1>0, <1>1, <1>2
<1>4. \/ Quiet(p, q)
      \/ \E e, used : \E kind \in {"normal", "recovered"} :
           Candidate(e, p, n, kind, used) /\ Advances(p, q, {e})
  BY <1>3 DEF Emits
<1> QED BY <1>1, <1>4 DEF q

LEMMA ApplyDoes ==
  ASSUME NEW p \in Processor, NEW line \in Record, NEW n \in 1..MaxLines
  PROVE  LET q == ApplyRecord(p, n, line) IN q \in Processor /\ Grows(p, q, n)
<1> DEFINE q == ApplyRecord(p, n, line)
<1>1. CASE line.is = "context"
  <2>1. q = [p EXCEPT !.model = line.model]
    BY <1>1 DEF ApplyRecord
  <2> DEFINE r == [p EXCEPT !.model = line.model]
  <2>2. /\ r \in Processor /\ r.subagent = p.subagent /\ r.events = p.events /\ r.closed = p.closed
        /\ r.turn = p.turn
    BY <1>1, RecordKinds DEF Processor
  <2> HIDE DEF r, q
  <2>3. Grows(p, r, n)
    BY <2>2 DEF Grows, Later
  <2> QED BY <2>1, <2>2, <2>3 DEF q, r
<1>2. CASE line.is = "started"
  <2>1. q = StartTurn(p, n, line) /\ line \in StartedRecord
    BY <1>2, RecordKinds DEF ApplyRecord
  <2> DEFINE r == StartTurn(p, n, line)
  <2>2. /\ r \in Processor /\ r.subagent = p.subagent /\ r.events = p.events
        /\ IF p.turn = None THEN r.closed = p.closed ELSE ClosedAs(p, r, "aborted")
        /\ r.turn \in Turn /\ r.turn.at = n /\ r.turn.status = "open"
    BY <2>1, StartTurnDoes
  <2>3. r.turn # None
    BY <2>2, TurnParts
  <2> HIDE DEF r, q
  <2>4. Grows(p, r, n)
    BY <2>2, <2>3 DEF Grows
  <2> QED BY <2>1, <2>2, <2>4 DEF q, r
<1>3. CASE line.is = "ended"
  <2>1. q = EndTurn(p, n, line) /\ line \in EndedRecord
    BY <1>3, RecordKinds DEF ApplyRecord
  <2> DEFINE r == EndTurn(p, n, line)
  <2>2. /\ r \in Processor /\ Frame(p, r)
        /\ \/ r = p
           \/ p.turn # None /\ r.turn = None /\ r.closed = p.closed /\ r.events = p.events
           \/ /\ p.turn # None /\ r.turn = None /\ ClosedAs(p, r, "ended")
              /\ \/ r.events = p.events
                 \/ Compensates(p) /\ \E e : Compensation(e, p, n) /\ r.events = p.events \cup {e}
    BY <2>1, EndTurnDoes
  <2> HIDE DEF r, q
  <2>3. Grows(p, p, n)
    BY DEF Grows, Later
  <2>4. Grows(p, r, n)
    <3>1. CASE r = p
      BY <2>3, <3>1
    <3>2. CASE r # p
      <4>1. r.subagent = p.subagent
        BY <2>2 DEF Frame
      <4>2. r.events = p.events \/ \E e \in Event : e.at = n /\ r.events = p.events \cup {e}
        BY <2>2, <3>2 DEF Compensation
      <4> QED BY <2>2, <3>2, <4>1, <4>2 DEF Grows
    <3> QED BY <3>1, <3>2
  <2> QED BY <2>1, <2>2, <2>4 DEF q, r
<1>4. CASE line.is = "tokens"
  <2>1. q = CountTokens(p, n, line) /\ line \in TokensRecord
    BY <1>4, RecordKinds DEF ApplyRecord
  <2> DEFINE r == CountTokens(p, n, line)
  <2>2. /\ r \in Processor
        /\ \/ Quiet(p, r)
           \/ \E e, used : \E kind \in {"normal", "recovered"} :
                Candidate(e, p, n, kind, used) /\ Advances(p, r, {e})
    BY <2>1, TokensAdvance
  <2> HIDE DEF r, q
  <2>3. Grows(p, r, n)
    <3>1. Quiet(p, r) \/ \E e \in Event : e.at = n /\ Advances(p, r, {e})
      BY <2>2 DEF Candidate
    <3> QED BY <2>2, <3>1, AdvanceGrows
  <2> QED BY <2>1, <2>2, <2>3 DEF q, r
<1>5. CASE line.is = "gap"
  <2>1. q = Interrupt(p, "parser_gap")
    BY <1>5 DEF ApplyRecord
  <2>2. "parser_gap" \in ChainStates \ {"continuous"}
    BY DEF ChainStates
  <2> DEFINE r == Interrupt(p, "parser_gap")
  <2>3. r \in Processor /\ Quiet(p, r)
    BY <2>2, InterruptIsQuiet
  <2> HIDE DEF r, q
  <2>4. Grows(p, r, n)
    BY <2>3, AdvanceGrows
  <2> QED BY <2>1, <2>3, <2>4 DEF q, r
<1> QED BY <1>1, <1>2, <1>3, <1>4, <1>5, RecordKinds

\* The turns of a processor are in the order in which they started, and only the open one is open.
InOrder(p, n) ==
  /\ \A i, j \in 1..Len(p.closed) : i < j => p.closed[i].at < p.closed[j].at
  /\ \A i \in 1..Len(p.closed) : p.closed[i].at <= n /\ p.closed[i].status # "open"
  /\ p.turn # None => /\ p.turn.status = "open" /\ p.turn.at <= n
                      /\ \A i \in 1..Len(p.closed) : p.closed[i].at < p.turn.at
  /\ \A e \in p.events : e.at <= n
  /\ IsFiniteSet(p.events)

LEMMA OrderStays ==
  ASSUME NEW p \in Processor, NEW q \in Processor, NEW n \in Nat, n + 1 \in 1..MaxLines,
         InOrder(p, n), Grows(p, q, n + 1)
  PROVE  InOrder(q, n + 1)
<1>1. (\A e \in q.events : e.at <= n + 1) /\ IsFiniteSet(q.events)
  <2>1. CASE q.events = p.events
    <3>1. \A e \in q.events : e.at <= n /\ e.at \in 1..MaxLines
      BY <2>1 DEF InOrder, Processor, Event
    <3> QED BY <2>1, <3>1, LedgerAssumption DEF InOrder
  <2>2. CASE \E e \in Event : e.at = n + 1 /\ q.events = p.events \cup {e}
    <3>1. PICK e \in Event : e.at = n + 1 /\ q.events = p.events \cup {e}
      BY <2>2
    <3>2. \A f \in p.events : f.at <= n /\ f.at \in 1..MaxLines
      BY DEF InOrder, Processor, Event
    <3>3. IsFiniteSet(p.events \cup {e})
      BY FS_AddElement DEF InOrder
    <3> QED BY <3>1, <3>2, <3>3, LedgerAssumption
  <2> QED BY <2>1, <2>2 DEF Grows
<1>2. /\ p.closed \in Seq(Turn) /\ q.closed \in Seq(Turn)
      /\ \A i \in 1..Len(p.closed) : p.closed[i] \in Turn /\ p.closed[i].at \in 1..MaxLines
      /\ p.turn # None => p.turn \in Turn /\ p.turn.at \in 1..MaxLines
      /\ Len(p.closed) \in Nat
  BY TurnParts DEF Processor
<1> DEFINE Past(c) ==
      /\ \A i, j \in 1..Len(c) : i < j => c[i].at < c[j].at
      /\ \A i \in 1..Len(c) : c[i].at <= n /\ c[i].at \in 1..MaxLines /\ c[i].status # "open"
<1>3. Past(p.closed)
  BY <1>2 DEF InOrder
<1>4. ASSUME NEW how \in {"ended", "aborted"}, ClosedAs(p, q, how), p.turn # None
      PROVE  Past(q.closed)
  <2>1. PICK u \in Turn : q.closed = Append(p.closed, u) /\ u.at = p.turn.at /\ u.status = how
    BY <1>4 DEF ClosedAs
  <2>2. p.turn.at <= n /\ \A i \in 1..Len(p.closed) : p.closed[i].at < p.turn.at
    BY <1>4 DEF InOrder
  <2>3. Len(q.closed) = Len(p.closed) + 1
        /\ \A i \in 1..Len(q.closed) :
             q.closed[i] = IF i \in 1..Len(p.closed) THEN p.closed[i] ELSE u
    BY <1>2, <2>1
  <2>4. ASSUME NEW i \in 1..Len(q.closed)
        PROVE  q.closed[i].at <= n /\ q.closed[i].at \in 1..MaxLines /\ q.closed[i].status # "open"
    BY <1>2, <1>3, <1>4, <2>1, <2>2, <2>3
  <2>5. ASSUME NEW i \in 1..Len(q.closed), NEW j \in 1..Len(q.closed), i < j
        PROVE  q.closed[i].at < q.closed[j].at
    <3>1. i \in 1..Len(p.closed)
      BY <1>2, <2>3, <2>5
    <3>2. CASE j \in 1..Len(p.closed)
      BY <1>3, <2>3, <2>5, <3>1, <3>2
    <3>3. CASE j \notin 1..Len(p.closed)
      BY <2>1, <2>2, <2>3, <3>1, <3>3
    <3> QED BY <3>2, <3>3
  <2> QED BY <2>4, <2>5
<1>5. Past(q.closed)
  BY <1>3, <1>4 DEF Grows
<1>6. ASSUME q.turn # None
      PROVE  /\ q.turn.status = "open" /\ q.turn.at <= n + 1
             /\ \A i \in 1..Len(q.closed) : q.closed[i].at < q.turn.at
  <2>1. CASE q.closed = p.closed /\ p.turn # None /\ Later(p.turn, q.turn)
    BY <1>2, <2>1, LedgerAssumption DEF InOrder, Later
  <2>2. CASE q.turn.at = n + 1 /\ q.turn.status = "open"
    BY <1>5, <2>2, LedgerAssumption
  <2> QED BY <1>6, <2>1, <2>2 DEF Grows
<1>7. \A i \in 1..Len(q.closed) : q.closed[i].at <= n + 1 /\ q.closed[i].status # "open"
  BY <1>5, LedgerAssumption
<1> QED BY <1>1, <1>5, <1>6, <1>7 DEF InOrder

------------------------------------------------------------------------------
(* A line does the same to a processor that has earlier turns and events.      *)

\* q is where p is, but that it has the turns and events of earlier lines as well.
Lifted(p, q, turns, events) ==
  /\ Frame(p, q) /\ q.turn = p.turn
  /\ q.closed = turns \o p.closed /\ q.events = events \cup p.events

LEMMA BlockLifts ==
  ASSUME NEW p \in Processor, NEW q \in Processor, NEW turns, NEW events,
         Lifted(p, q, turns, events), NEW why
  PROVE  Lifted(Block(p, why), Block(q, why), turns, events)
<1>1. CASE p.turn = None
  BY <1>1 DEF Lifted, Block
<1>2. CASE p.turn # None
  <2> DEFINE u == [p.turn EXCEPT !.blocks = @ \cup {why}]
  <2>1. Block(p, why) = [p EXCEPT !.turn = u] /\ Block(q, why) = [q EXCEPT !.turn = u]
    BY <1>2 DEF Block, Lifted
  <2> HIDE DEF u
  <2> QED BY <2>1 DEF Lifted, Frame, Processor
<1> QED BY <1>1, <1>2

LEMMA InterruptLifts ==
  ASSUME NEW p \in Processor, NEW q \in Processor, NEW turns, NEW events,
         Lifted(p, q, turns, events), NEW why \in Blocks
  PROVE  Lifted(Interrupt(p, why), Interrupt(q, why), turns, events)
<1> DEFINE r == Block(p, why)
           s == Block(q, why)
<1>1. r \in Processor /\ s \in Processor
  BY BlockIsQuiet
<1>2. Lifted(r, s, turns, events)
  BY BlockLifts
<1>3. Interrupt(p, why) = [r EXCEPT !.chain = why] /\ Interrupt(q, why) = [s EXCEPT !.chain = why]
  BY DEF Interrupt
<1> HIDE DEF r, s
<1> QED BY <1>1, <1>2, <1>3 DEF Lifted, Frame, Processor

LEMMA BaselineLifts ==
  ASSUME NEW p \in Processor, NEW q \in Processor, NEW turns, NEW events,
         Lifted(p, q, turns, events), NEW total
  PROVE  Lifted(SetBaseline(p, total), SetBaseline(q, total), turns, events)
<1> DEFINE r == [p EXCEPT !.prev = total, !.chain = "continuous"]
           s == [q EXCEPT !.prev = total, !.chain = "continuous"]
           u == [p.turn EXCEPT !.last = total]
<1>1. /\ r.turn = p.turn /\ s.turn = p.turn
      /\ r.closed = p.closed /\ s.closed = q.closed /\ r.events = p.events /\ s.events = q.events
      /\ r.subagent = p.subagent /\ s.subagent = q.subagent /\ r.model = p.model /\ s.model = q.model
      /\ r.chain = "continuous" /\ s.chain = "continuous" /\ r.prev = total /\ s.prev = total
      /\ DOMAIN r = DOMAIN p /\ DOMAIN s = DOMAIN q
  BY DEF Lifted, Processor
<1>2. Lifted(r, s, turns, events)
  BY <1>1 DEF Lifted, Frame
<1>3. /\ SetBaseline(p, total) = IF r.turn = None THEN r ELSE [r EXCEPT !.turn.last = total]
      /\ SetBaseline(q, total) = IF s.turn = None THEN s ELSE [s EXCEPT !.turn.last = total]
  BY DEF SetBaseline
<1>4. CASE p.turn = None
  BY <1>1, <1>2, <1>3, <1>4
<1>5. CASE p.turn # None
  <2>1. /\ SetBaseline(p, total) = [r EXCEPT !.turn = u]
        /\ SetBaseline(q, total) = [s EXCEPT !.turn = u]
    BY <1>1, <1>3, <1>5
  <2>2. DOMAIN p = {"subagent", "chain", "prev", "model", "turn", "closed", "events"}
        /\ DOMAIN q = DOMAIN p
    BY DEF Processor
  <2> HIDE DEF r, s, u
  <2> QED BY <1>1, <1>2, <2>1, <2>2 DEF Lifted, Frame
<1> QED BY <1>4, <1>5

LEMMA CloseLifts ==
  ASSUME NEW p \in Processor, NEW q \in Processor, NEW turns \in Seq(Turn), NEW events,
         Lifted(p, q, turns, events), NEW t \in Turn, NEW how \in {"ended", "aborted"},
         NEW timed \in {TRUE, FALSE}
  PROVE  Lifted(Close(p, t, how, timed), Close(q, t, how, timed), turns, events)
<1> DEFINE r == Close(p, t, how, timed)
           s == Close(q, t, how, timed)
           u == ClosedTurn(t, how, timed)
<1>1. u \in Turn
  BY ClosedTurnIs
<1>2. /\ r.subagent = p.subagent /\ r.chain = p.chain /\ r.prev = p.prev /\ r.model = p.model
      /\ r.closed = Append(p.closed, u) /\ r.events = p.events /\ r.turn = None
  BY CloseDoes
<1>3. /\ s.subagent = q.subagent /\ s.chain = q.chain /\ s.prev = q.prev /\ s.model = q.model
      /\ s.closed = Append(q.closed, u) /\ s.events = q.events /\ s.turn = None
  BY CloseDoes
<1> HIDE DEF r, s, u
<1>4. Append(turns \o p.closed, u) = turns \o Append(p.closed, u)
  <2> DEFINE c == p.closed
  <2>1. c \in Seq(Turn)
    BY DEF Processor
  <2> HIDE DEF c
  <2>2. Append(turns \o c, u) = turns \o Append(c, u)
    BY <1>1, <2>1
  <2> QED BY <2>2 DEF c
<1> QED BY <1>2, <1>3, <1>4 DEF Lifted, Frame, r, s

LEMMA StartTurnLifts ==
  ASSUME NEW p \in Processor, NEW q \in Processor, NEW turns \in Seq(Turn), NEW events,
         Lifted(p, q, turns, events), NEW line \in StartedRecord, NEW n
  PROVE  Lifted(StartTurn(p, n, line), StartTurn(q, n, line), turns, events)
<1> DEFINE r == Replaced(p, line)
           s == Replaced(q, line)
<1>1. Lifted(r, s, turns, events)
  <2>1. CASE p.turn = None
    BY <2>1 DEF Replaced, Lifted
  <2>2. CASE p.turn # None
    <3> DEFINE u == [p.turn EXCEPT !.blocks = @ \cup {"required_invalid"}]
    <3>1. r = Close(p, u, "aborted", line.timed) /\ s = Close(q, u, "aborted", line.timed)
      BY <2>2 DEF Replaced, Lifted
    <3>2. u \in Turn /\ line.timed \in {TRUE, FALSE}
      BY <2>2 DEF Processor, Turn, Blocks, StartedRecord
    <3> HIDE DEF u
    <3>3. Lifted(Close(p, u, "aborted", line.timed), Close(q, u, "aborted", line.timed),
                 turns, events)
      BY <3>2, CloseLifts
    <3> HIDE DEF r, s
    <3> QED BY <3>1, <3>3
  <2> QED BY <2>1, <2>2
<1>2. r \in Processor /\ s \in Processor
  BY ReplacedDoes
<1> DEFINE O(a, start, blocks) == Opened(a, n, line, start, blocks)
<1>3. ASSUME NEW start, NEW blocks
      PROVE  Lifted(O(r, start, blocks), O(s, start, blocks), turns, events)
  <2> DEFINE u == [key |-> IF line.id = None THEN n ELSE line.id, id |-> line.id, at |-> n,
                   start |-> start, last |-> None, accounted |-> ZeroUsage, count |-> 0,
                   model |-> None, unresolved |-> FALSE, status |-> "open", timed |-> FALSE,
                   blocks |-> blocks \cup (IF line.timed THEN {} ELSE {"time_missing"})]
  <2>1. O(r, start, blocks) = [r EXCEPT !.turn = u] /\ O(s, start, blocks) = [s EXCEPT !.turn = u]
    BY DEF Opened
  <2> HIDE DEF u, O, r, s
  <2> QED BY <1>1, <1>2, <2>1 DEF Lifted, Frame, Processor
<1>4. p.chain = q.chain /\ p.prev = q.prev
  BY DEF Lifted, Frame
<1>5. CASE p.chain = "continuous" /\ p.prev # None
  <2>1. StartTurn(p, n, line) = O(r, p.prev, {}) /\ StartTurn(q, n, line) = O(s, p.prev, {})
    BY <1>4, <1>5 DEF StartTurn
  <2> HIDE DEF O, r, s
  <2> QED BY <1>3, <2>1
<1>6. CASE ~(p.chain = "continuous" /\ p.prev # None)
  <2> DEFINE why == {"start_missing"} \cup ({p.chain} \ {"continuous"})
  <2>1. StartTurn(p, n, line) = O(r, None, why) /\ StartTurn(q, n, line) = O(s, None, why)
    BY <1>4, <1>6 DEF StartTurn
  <2> HIDE DEF O, r, s, why
  <2> QED BY <1>3, <2>1
<1> QED BY <1>5, <1>6

LEMMA EmitLifts ==
  ASSUME NEW p \in Processor, NEW q \in Processor, NEW turns, NEW events,
         Lifted(p, q, turns, events), NEW n, NEW kind, NEW used
  PROVE  Lifted(Emit(p, n, kind, used), Emit(q, n, kind, used), turns, events)
<1> DEFINE m == ModelNow(p)
           e == [at |-> n, kind |-> kind, model |-> m, usage |-> used, turn |-> KeyNow(p)]
           u == IF p.turn = None THEN None ELSE AddAccounted(ObserveModel(p.turn, m), used)
<1>1. p.turn = q.turn /\ p.model = q.model
  BY DEF Lifted, Frame
<1>2. /\ Emit(p, n, kind, used) = [p EXCEPT !.events = @ \cup {e}, !.turn = u]
      /\ Emit(q, n, kind, used) = [q EXCEPT !.events = @ \cup {e}, !.turn = u]
  BY <1>1 DEF Emit, ModelNow, KeyNow
<1> HIDE DEF e, u
<1> QED BY <1>2 DEF Lifted, Frame, Processor

LEMMA CountTokensLifts ==
  ASSUME NEW p \in Processor, NEW q \in Processor, NEW turns, NEW events,
         Lifted(p, q, turns, events), NEW line \in TokensRecord, NEW n \in 1..MaxLines
  PROVE  Lifted(CountTokens(p, n, line), CountTokens(q, n, line), turns, events)
<1> DEFINE total == line.total.usage
           last == line.last
           reset == p.prev # None /\ Negative(total, p.prev)
           apart == p.chain = "continuous" /\ p.prev # total
           B(r) == SetBaseline(r, total)
           L(r, s) == Lifted(r, s, turns, events)
<1>1. /\ p.subagent = q.subagent /\ p.chain = q.chain /\ p.prev = q.prev /\ p.model = q.model
      /\ Prefix(p) = Prefix(q)
  BY DEF Lifted, Frame, Prefix
<1>2. /\ total \in Usage /\ last \in Tokens /\ last.kind \in {"valid", "invalid", "missing"}
      /\ last.usage \in Usage
      /\ "required_invalid" \in Blocks /\ "time_missing" \in Blocks /\ "reset" \in Blocks
  BY DEF TokensRecord, Tokens, Blocks
<1>3. ASSUME NEW r \in Processor, NEW s \in Processor, L(r, s)
      PROVE  L(B(r), B(s))
  BY <1>3, BaselineLifts
<1>4. ASSUME NEW r \in Processor, NEW s \in Processor, L(r, s), NEW why \in Blocks
      PROVE  /\ Block(r, why) \in Processor /\ Block(s, why) \in Processor
             /\ L(Block(r, why), Block(s, why))
  BY <1>4, BlockLifts, BlockIsQuiet
<1>5. ASSUME NEW r \in Processor, NEW s \in Processor, L(r, s)
      PROVE  /\ CountLast(r, n, last) \in Processor /\ CountLast(s, n, last) \in Processor
             /\ L(CountLast(r, n, last), CountLast(s, n, last))
  <2>1. CountLast(r, n, last) \in Processor /\ CountLast(s, n, last) \in Processor
    BY <1>2, CountLastDoes
  <2>2. CASE last.kind = "valid"
    <3>1. /\ CountLast(r, n, last) = Emit(r, n, "normal", last.usage)
          /\ CountLast(s, n, last) = Emit(s, n, "normal", last.usage)
      BY <2>2 DEF CountLast
    <3>2. L(Emit(r, n, "normal", last.usage), Emit(s, n, "normal", last.usage))
      BY <1>5, EmitLifts
    <3> HIDE DEF L
    <3> QED BY <2>1, <3>1, <3>2
  <2>3. CASE last.kind = "invalid"
    <3>1. /\ CountLast(r, n, last) = Block(r, "required_invalid")
          /\ CountLast(s, n, last) = Block(s, "required_invalid")
      BY <2>3 DEF CountLast
    <3> HIDE DEF L
    <3> QED BY <1>2, <1>4, <1>5, <2>1, <3>1
  <2>4. CASE last.kind = "missing"
    <3>1. CountLast(r, n, last) = r /\ CountLast(s, n, last) = s
      BY <2>4 DEF CountLast
    <3> HIDE DEF L
    <3> QED BY <1>5, <2>1, <3>1
  <2> QED BY <1>2, <2>2, <2>3, <2>4
<1>6. L(p, q)
  OBVIOUS
<1> DEFINE cp == CountTokens(p, n, line)
           cq == CountTokens(q, n, line)
<1>7. CASE line.total.kind # "valid" /\ Prefix(p)
  <2>1. cp = p /\ cq = q
    BY <1>1, <1>7 DEF CountTokens, Prefix
  <2> HIDE DEF cp, cq
  <2> QED BY <1>6, <2>1 DEF cp, cq
<1>8. CASE line.total.kind # "valid" /\ ~Prefix(p)
  <2>1. cp = Interrupt(p, "required_invalid") /\ cq = Interrupt(q, "required_invalid")
    BY <1>1, <1>8 DEF CountTokens, Prefix
  <2>2. L(Interrupt(p, "required_invalid"), Interrupt(q, "required_invalid"))
    BY <1>2, InterruptLifts
  <2> HIDE DEF cp, cq, L
  <2> QED BY <2>1, <2>2 DEF cp, cq, L
<1>9. CASE /\ line.total.kind = "valid"
           /\ Prefix(p) \/ (line.timed /\ ~apart)
  <2>1. cp = B(p) /\ cq = B(q)
    BY <1>1, <1>9 DEF CountTokens, Prefix
  <2> HIDE DEF cp, cq, B, L
  <2> QED BY <1>3, <1>6, <2>1 DEF cp, cq, L
<1>10. CASE line.total.kind = "valid" /\ ~Prefix(p) /\ ~line.timed
  <2> DEFINE r(a) == IF last.kind = "invalid" THEN Block(a, "required_invalid") ELSE a
             s(a) == Block(r(a), "time_missing")
  <2>1. cp = B(s(p)) /\ cq = B(s(q))
    BY <1>1, <1>10 DEF CountTokens, Prefix
  <2> HIDE DEF cp, cq, B, L
  <2>2. r(p) \in Processor /\ r(q) \in Processor /\ L(r(p), r(q))
    BY <1>2, <1>4, <1>6
  <2> HIDE DEF r
  <2>3. s(p) \in Processor /\ s(q) \in Processor /\ L(s(p), s(q))
    BY <1>2, <1>4, <2>2
  <2> HIDE DEF s
  <2> QED BY <1>3, <2>1, <2>3 DEF cp, cq, L
<1>11. CASE line.total.kind = "valid" /\ ~Prefix(p) /\ line.timed /\ apart /\ reset
  <2> DEFINE r(a) == Block(a, "reset")
             s(a) == CountLast(r(a), n, last)
  <2>1. cp = B(s(p)) /\ cq = B(s(q))
    BY <1>1, <1>11 DEF CountTokens, Prefix
  <2> HIDE DEF cp, cq, B, L
  <2>2. r(p) \in Processor /\ r(q) \in Processor /\ L(r(p), r(q))
    BY <1>2, <1>4, <1>6
  <2> HIDE DEF r
  <2>3. s(p) \in Processor /\ s(q) \in Processor /\ L(s(p), s(q))
    BY <1>5, <2>2
  <2> HIDE DEF s
  <2> QED BY <1>3, <2>1, <2>3 DEF cp, cq, L
<1>12. CASE /\ line.total.kind = "valid" /\ ~Prefix(p) /\ line.timed /\ apart /\ ~reset
            /\ last.kind # "missing"
  <2> DEFINE s(a) == CountLast(a, n, last)
  <2>1. cp = B(s(p)) /\ cq = B(s(q))
    BY <1>1, <1>12 DEF CountTokens, Prefix
  <2> HIDE DEF cp, cq, B, L
  <2>2. s(p) \in Processor /\ s(q) \in Processor /\ L(s(p), s(q))
    BY <1>5, <1>6
  <2> HIDE DEF s
  <2> QED BY <1>3, <2>1, <2>2 DEF cp, cq, L
<1>13. CASE /\ line.total.kind = "valid" /\ ~Prefix(p) /\ line.timed /\ apart /\ ~reset
            /\ last.kind = "missing" /\ p.prev # None /\ NotAUsage(total, p.prev)
  <2>1. cp = Block(p, "required_invalid") /\ cq = Block(q, "required_invalid")
    BY <1>1, <1>13 DEF CountTokens, Prefix
  <2> HIDE DEF cp, cq, L
  <2> QED BY <1>2, <1>4, <1>6, <2>1 DEF cp, cq, L
<1>14. CASE /\ line.total.kind = "valid" /\ ~Prefix(p) /\ line.timed /\ apart /\ ~reset
            /\ last.kind = "missing" /\ p.prev = None
  <2>1. Recover(p, n, total) = p /\ Recover(q, n, total) = q
    BY <1>1, <1>14 DEF Recover
  <2>2. cp = B(p) /\ cq = B(q)
    BY <1>1, <1>14, <2>1 DEF CountTokens, Prefix
  <2> HIDE DEF cp, cq, B, L
  <2> QED BY <1>3, <1>6, <2>2 DEF cp, cq, L
<1>15. CASE /\ line.total.kind = "valid" /\ ~Prefix(p) /\ line.timed /\ apart /\ ~reset
            /\ last.kind = "missing" /\ p.prev # None /\ ~NotAUsage(total, p.prev)
  <2> DEFINE d == Minus(total, p.prev)
             s(a) == Emit(a, n, "recovered", d)
  <2>1. Recover(p, n, total) = s(p) /\ Recover(q, n, total) = s(q)
    BY <1>1, <1>15 DEF Recover
  <2>2. cp = B(s(p)) /\ cq = B(s(q))
    BY <1>1, <1>15, <2>1 DEF CountTokens, Prefix
  <2>3. d \in Usage
    BY <1>15, DifferenceIsUsage
  <2> HIDE DEF d
  <2>4. s(p) \in Processor /\ s(q) \in Processor
    BY <2>3, EmitDoes
  <2>5. L(s(p), s(q))
    BY EmitLifts
  <2> HIDE DEF cp, cq, B, L, s
  <2> QED BY <1>3, <2>2, <2>4, <2>5 DEF cp, cq, L
<1> HIDE DEF reset, apart, total, last
<1>16. CASE line.total.kind = "valid" /\ ~Prefix(p) /\ line.timed /\ apart
  BY <1>11, <1>12, <1>13, <1>14, <1>15, <1>16
<1> QED BY <1>7, <1>8, <1>9, <1>10, <1>16

LEMMA EndTurnLifts ==
  ASSUME NEW p \in Processor, NEW q \in Processor, NEW turns \in Seq(Turn), NEW events,
         Lifted(p, q, turns, events), NEW line \in EndedRecord, NEW n \in 1..MaxLines
  PROVE  Lifted(EndTurn(p, n, line), EndTurn(q, n, line), turns, events)
<1> DEFINE ep == EndTurn(p, n, line)
           eq == EndTurn(q, n, line)
           L(r, s) == Lifted(r, s, turns, events)
<1>1. q.turn = p.turn
  BY DEF Lifted
<1>2. CASE p.turn = None \/ (line.id # None /\ p.turn.id # line.id)
  <2>1. ep = p /\ eq = q
    BY <1>1, <1>2 DEF EndTurn
  <2> HIDE DEF ep, eq
  <2> QED BY <2>1 DEF ep, eq
<1>3. CASE ~(p.turn = None \/ (line.id # None /\ p.turn.id # line.id))
  <2>1. p.turn \in Turn /\ line.timed \in {TRUE, FALSE} /\ TRUE \in {TRUE, FALSE}
        /\ "ended" \in {"ended", "aborted"}
    BY <1>3 DEF Processor, EndedRecord
  <2>2. CASE ~MayCompensate(p.turn, line.timed)
    <3> DEFINE t == IF line.timed THEN p.turn
                    ELSE [p.turn EXCEPT !.blocks = @ \cup {"time_missing"}]
               c(a) == Close(a, t, "ended", line.timed)
    <3>1. ep = c(p) /\ eq = c(q)
      BY <1>1, <1>3, <2>2 DEF EndTurn
    <3>2. t \in Turn
      BY <2>1 DEF Turn, Blocks
    <3> HIDE DEF t
    <3>3. L(c(p), c(q))
      BY <2>1, <3>2, CloseLifts
    <3> HIDE DEF c, ep, eq, L
    <3> QED BY <3>1, <3>3 DEF ep, eq, L
  <2>3. CASE MayCompensate(p.turn, line.timed) /\ CompensateFails(p.turn)
    <3>1. ep = [p EXCEPT !.turn = None] /\ eq = [q EXCEPT !.turn = None]
      BY <1>1, <1>3, <2>3 DEF EndTurn
    <3> HIDE DEF ep, eq
    <3> QED BY <3>1 DEF Lifted, Frame, Processor, ep, eq
  <2>4. CASE MayCompensate(p.turn, line.timed) /\ ~CompensateFails(p.turn)
    <3> DEFINE turn == p.turn
               delta == Minus(turn.last, turn.start)
               missing == Minus(delta, turn.accounted)
               e == [at |-> n, kind |-> "compensation", turn |-> turn.key, usage |-> missing,
                     model |-> IF turn.model = Mixed THEN UnknownModel ELSE turn.model]
    <3>1. ep = Compensate(p, n, turn) /\ eq = Compensate(q, n, turn)
      BY <1>1, <1>3, <2>4 DEF EndTurn
    <3>2. CASE \/ Negative(turn.last, turn.start) \/ Negative(delta, turn.accounted)
               \/ missing = ZeroUsage \/ turn.model = None
      <4> DEFINE c(a) == Close(a, turn, "ended", TRUE)
      <4>1. ep = c(p) /\ eq = c(q)
        BY <3>1, <3>2 DEF Compensate
      <4>2. L(c(p), c(q))
        BY <2>1, CloseLifts
      <4> HIDE DEF c, ep, eq, L
      <4> QED BY <4>1, <4>2 DEF ep, eq, L
    <3>3. CASE ~(\/ Negative(turn.last, turn.start) \/ Negative(delta, turn.accounted)
                 \/ missing = ZeroUsage \/ turn.model = None)
      <4> DEFINE r(a) == [a EXCEPT !.events = @ \cup {e}]
                 t == AddAccounted(turn, missing)
                 c(a) == Close(r(a), t, "ended", TRUE)
      <4>1. ep = c(p) /\ eq = c(q)
        BY <3>1, <3>3 DEF Compensate
      <4>2. missing \in Usage
        BY <2>4, <3>3, DifferenceIsUsage DEF CompensateFails
      <4>3. t \in Turn
        <5> HIDE DEF missing
        <5> QED BY <2>1, <4>2, AddDoes
      <4>4. e \in Event
        <5>1. /\ turn.key \in Ids \cup (1..MaxLines) \cup {None}
              /\ (IF turn.model = Mixed THEN UnknownModel ELSE turn.model) \in Models \cup {UnknownModel}
          BY <2>1, <3>3 DEF Turn
        <5> HIDE DEF missing
        <5> QED BY <4>2, <5>1 DEF Event
      <4> HIDE DEF e, t
      <4>5. r(p) \in Processor /\ r(q) \in Processor /\ L(r(p), r(q))
        BY <4>4 DEF Processor, Lifted, Frame
      <4> HIDE DEF r
      <4>6. L(c(p), c(q))
        BY <2>1, <4>3, <4>5, CloseLifts
      <4> HIDE DEF c, ep, eq, L
      <4> QED BY <4>1, <4>6 DEF ep, eq, L
    <3> QED BY <3>2, <3>3
  <2> QED BY <2>2, <2>3, <2>4
<1> QED BY <1>2, <1>3

LEMMA ApplyLifts ==
  ASSUME NEW p \in Processor, NEW q \in Processor, NEW turns \in Seq(Turn), NEW events,
         Lifted(p, q, turns, events), NEW line \in Record, NEW n \in 1..MaxLines
  PROVE  Lifted(ApplyRecord(p, n, line), ApplyRecord(q, n, line), turns, events)
<1>1. CASE line.is = "context"
  <2>1. /\ ApplyRecord(p, n, line) = [p EXCEPT !.model = line.model]
        /\ ApplyRecord(q, n, line) = [q EXCEPT !.model = line.model]
    BY <1>1 DEF ApplyRecord
  <2> QED BY <2>1 DEF Lifted, Frame, Processor
<1>2. CASE line.is = "started"
  <2>1. /\ ApplyRecord(p, n, line) = StartTurn(p, n, line)
        /\ ApplyRecord(q, n, line) = StartTurn(q, n, line) /\ line \in StartedRecord
    BY <1>2, RecordKinds DEF ApplyRecord
  <2>2. Lifted(StartTurn(p, n, line), StartTurn(q, n, line), turns, events)
    BY <2>1, StartTurnLifts
  <2> QED BY <2>1, <2>2
<1>3. CASE line.is = "ended"
  <2>1. /\ ApplyRecord(p, n, line) = EndTurn(p, n, line)
        /\ ApplyRecord(q, n, line) = EndTurn(q, n, line) /\ line \in EndedRecord
    BY <1>3, RecordKinds DEF ApplyRecord
  <2>2. Lifted(EndTurn(p, n, line), EndTurn(q, n, line), turns, events)
    BY <2>1, EndTurnLifts
  <2> QED BY <2>1, <2>2
<1>4. CASE line.is = "tokens"
  <2>1. /\ ApplyRecord(p, n, line) = CountTokens(p, n, line)
        /\ ApplyRecord(q, n, line) = CountTokens(q, n, line) /\ line \in TokensRecord
    BY <1>4, RecordKinds DEF ApplyRecord
  <2>2. Lifted(CountTokens(p, n, line), CountTokens(q, n, line), turns, events)
    BY <2>1, CountTokensLifts
  <2> QED BY <2>1, <2>2
<1>5. CASE line.is = "gap"
  <2>1. /\ ApplyRecord(p, n, line) = Interrupt(p, "parser_gap")
        /\ ApplyRecord(q, n, line) = Interrupt(q, "parser_gap") /\ "parser_gap" \in Blocks
    BY <1>5 DEF ApplyRecord, Blocks
  <2>2. Lifted(Interrupt(p, "parser_gap"), Interrupt(q, "parser_gap"), turns, events)
    BY <2>1, InterruptLifts
  <2> QED BY <2>1, <2>2
<1> QED BY <1>1, <1>2, <1>3, <1>4, <1>5, RecordKinds

------------------------------------------------------------------------------
(* The types of the variables, and of the processors that follow the file.    *)

Caught == Process(straight, db.offset, pending)  \* the processor that never stopped
Fresh  == Process(ReadBack, db.offset, pending)  \* the one that starts from the rows
Here   == db.offset + Len(pending)

Tallies == [input : Nat, cached : Nat]

StartOf(most) ==
  [id : Ids \cup {None}, at : 1..MaxLines,
   spent : {[input |-> i, cached |-> c] : i \in 0..most.input, c \in 0..most.cached}]

LEMMA UsageIsTotal ==
  /\ Usage \subseteq Tallies /\ ZeroUsage \in Usage /\ Amounts \subseteq Usage
  /\ \A u \in Usage : u.input \in Nat /\ u.cached \in Nat /\ u.cached <= u.input
  /\ \A a \in Tallies, b \in Tallies : Plus(a, b) \in Tallies
BY LedgerAssumption DEF Usage, Tallies, ZeroUsage, Plus

LEMMA StartsStay ==
  ASSUME NEW most \in Tallies, NEW more \in Tallies, Leq(most, more), NEW s \in Seq(StartOf(most))
  PROVE  s \in Seq(StartOf(more))
<1>1. StartOf(most) \subseteq StartOf(more)
  <2>1. {[input |-> i, cached |-> c] : i \in 0..most.input, c \in 0..most.cached}
          \subseteq {[input |-> i, cached |-> c] : i \in 0..more.input, c \in 0..more.cached}
    <3>1. 0..most.input \subseteq 0..more.input /\ 0..most.cached \subseteq 0..more.cached
      BY DEF Tallies, Leq
    <3> QED BY <3>1
  <2> QED BY <2>1 DEF StartOf
<1> QED BY <1>1

LEMMA SpendGrows ==
  ASSUME NEW amount \in Amounts, NEW restart \in BOOLEAN, spent \in Tallies,
         spent.cached <= spent.input, Spend(amount, restart)
  PROVE  /\ spent' \in Tallies /\ Leq(spent, spent') /\ spent'.cached <= spent'.input
         /\ shown' \in Usage /\ latest' \in Usage /\ latest' = amount /\ UNCHANGED started
<1>1. amount \in Usage /\ amount \in Tallies /\ amount.cached <= amount.input
  BY UsageIsTotal
<1>2. spent' = spent \/ spent' = Plus(spent, amount)
  BY DEF Spend
<1>3. spent' \in Tallies /\ Leq(spent, spent') /\ spent'.cached <= spent'.input
  BY <1>1, <1>2 DEF Tallies, Plus, Leq
<1> QED BY <1>1, <1>3 DEF Spend

\* What the types of the shared variables are, apart from the rows.
FileTyped ==
  /\ subagent \in BOOLEAN
  /\ pending \in Seq(Record) /\ Len(pending) <= MaxBatch
  /\ db.offset \in Nat /\ Here <= MaxLines
  /\ spent \in Tallies /\ spent.cached <= spent.input /\ shown \in Usage /\ latest \in Usage
  /\ started \in Seq(StartOf(spent))
  /\ lossy \in BOOLEAN /\ odd \in 0..MaxOdd

\* What every action of the writer does to the file.
Wrote(line, loses) ==
  /\ line \in Record /\ Here < MaxLines
  /\ pending' = Append(pending, line)
  /\ UNCHANGED <<subagent, db, straight>>
  /\ odd' \in 0..MaxOdd /\ lossy' = (lossy \/ loses)

LEMMA WrittenIs ==
  ASSUME FileTyped, NEW line \in Record, NEW odds \in Nat, NEW loses, Written1(line, odds, loses)
  PROVE  Wrote(line, loses)
<1>1. odd' \in 0..MaxOdd
  BY LedgerAssumption DEF FileTyped, Written1
<1> QED BY <1>1 DEF Written1, Wrote, Here

LEMMA TokensAreRecords ==
  /\ \A m \in Models : [is |-> "context", model |-> m] \in Record
  /\ \A total, last \in Tokens, timed \in BOOLEAN :
       [is |-> "tokens", timed |-> timed, total |-> total, last |-> last] \in Record
  /\ \A u \in Usage : Valid(u) \in Tokens
  /\ \A kind \in {"invalid", "missing"} : Other(kind) \in Tokens
  /\ Unreadable \subseteq Record
<1>1. ZeroUsage \in Usage
  BY UsageIsTotal
<1>2. \A kind \in {"invalid", "missing"} : Other(kind) \in Tokens
  BY <1>1 DEF Other, Tokens
<1>3. \A u \in Usage : Valid(u) \in Tokens
  BY DEF Valid, Tokens
<1>4. \A total, last \in Tokens, timed \in BOOLEAN :
       [is |-> "tokens", timed |-> timed, total |-> total, last |-> last] \in Record
  BY DEF Record
<1>5. Unreadable \subseteq Record
  <2>1. [is |-> "gap"] \in Record
    BY DEF Record
  <2> QED BY <1>2, <1>4, <2>1 DEF Unreadable
<1> QED BY <1>2, <1>3, <1>4, <1>5 DEF Record

\* The total of line is the provider's, and its last usage, if any, is part of what was spent.
Snapped(line, amount) ==
  /\ line \in TokensRecord /\ line.total.kind = "valid" /\ line.total.usage = shown'
  /\ line.last.kind = "valid" => Leq(line.last.usage, amount)

\* A snapshot of new usage: amount was spent since the last one.
SnapshotOfMore(line, amount, restart, loses) ==
  /\ amount \in Amounts /\ restart \in BOOLEAN
  /\ Spend(amount, restart) /\ Snapped(line, amount)
  /\ ~loses => /\ shown' # shown /\ line.timed
               /\ \/ line.last.kind = "valid" /\ line.last.usage = amount
                  \/ line.last.kind = "missing" /\ ~restart /\ shown # ZeroUsage

\* The one from before once more.
SnapshotAgain(line, loses) ==
  /\ shown # ZeroUsage /\ Snapped(line, latest) /\ line.timed /\ line.last.kind = "valid"
  /\ NothingSpent /\ UNCHANGED started /\ ~loses

LEMMA TokensWrite ==
  ASSUME FileTyped, NEW amount \in Amounts, NEW restart \in BOOLEAN, WriteTokens(amount, restart)
  PROVE  \E line, loses : Wrote(line, loses) /\ SnapshotOfMore(line, amount, restart, loses)
<1> DEFINE line == [is |-> "tokens", timed |-> TRUE, total |-> Valid(shown'), last |-> Valid(amount)]
           odds == IF restart THEN 1 ELSE 0
           loses == shown' = shown
<1>1. amount \in Usage /\ shown' \in Usage
  BY UsageIsTotal, SpendGrows DEF WriteTokens, FileTyped
<1>2. Valid(amount) \in Tokens /\ Valid(shown') \in Tokens
  BY <1>1, TokensAreRecords
<1>3. line \in Record
  BY <1>2, TokensAreRecords
<1>4. Written1(line, odds, loses) /\ Spend(amount, restart) /\ odds \in Nat
  BY DEF WriteTokens
<1>5. line \in TokensRecord /\ line.total.kind = "valid" /\ line.total.usage = shown' /\ line.timed
      /\ line.last.kind = "valid" /\ line.last.usage = amount
  BY <1>2 DEF TokensRecord, Valid
<1>6. Leq(amount, amount)
  BY <1>1 DEF Leq, Usage
<1> HIDE DEF line, odds
<1>7. Wrote(line, loses)
  BY <1>3, <1>4, WrittenIs
<1>8. SnapshotOfMore(line, amount, restart, loses)
  BY <1>4, <1>5, <1>6 DEF SnapshotOfMore, Snapped
<1> QED BY <1>7, <1>8 DEF Wrote

LEMMA RepeatedWrites ==
  ASSUME FileTyped, WriteRepeated
  PROVE  \E line : Wrote(line, FALSE) /\ SnapshotAgain(line, FALSE)
<1> DEFINE line == [is |-> "tokens", timed |-> TRUE, total |-> Valid(shown), last |-> Valid(latest)]
<1>1. shown \in Usage /\ latest \in Usage
  BY DEF FileTyped
<1>2. Valid(shown) \in Tokens /\ Valid(latest) \in Tokens
  BY <1>1, TokensAreRecords
<1>3. line \in Record
  BY <1>2, TokensAreRecords
<1>4. Written1(line, 1, FALSE) /\ shown # ZeroUsage /\ NothingSpent /\ UNCHANGED started
  BY DEF WriteRepeated
<1>5. line \in TokensRecord /\ line.total.kind = "valid" /\ line.total.usage = shown /\ line.timed
      /\ line.last.kind = "valid" /\ line.last.usage = latest
  BY <1>2 DEF TokensRecord, Valid
<1>6. Leq(latest, latest)
  BY <1>1 DEF Leq, Usage
<1>7. shown' = shown
  BY <1>4 DEF NothingSpent
<1> HIDE DEF line
<1>8. Wrote(line, FALSE)
  BY <1>3, <1>4, WrittenIs
<1>9. SnapshotAgain(line, FALSE)
  BY <1>4, <1>5, <1>6, <1>7 DEF SnapshotAgain, Snapped
<1> QED BY <1>8, <1>9 DEF Wrote

LEMMA PartialWrites ==
  ASSUME FileTyped, NEW amount \in Amounts, NEW restart \in BOOLEAN, NEW timed \in BOOLEAN,
         NEW last \in {Valid(u) : u \in Amounts} \cup {Other("invalid"), Other("missing")},
         WritePartial(amount, restart, last, timed)
  PROVE  \E line, loses : Wrote(line, loses) /\ SnapshotOfMore(line, amount, restart, loses)
<1> DEFINE line == [is |-> "tokens", timed |-> timed, total |-> Valid(shown'), last |-> last]
           odds == IF restart THEN 2 ELSE 1
           loses == last.kind # "missing" \/ ~timed \/ restart \/ shown = ZeroUsage
<1>1. amount \in Usage /\ shown' \in Usage
  BY UsageIsTotal, SpendGrows DEF WritePartial, FileTyped
<1>2. last \in Tokens /\ Valid(shown') \in Tokens
  BY <1>1, TokensAreRecords, UsageIsTotal
<1>3. line \in Record
  BY <1>2, TokensAreRecords
<1>4. /\ Written1(line, odds, loses) /\ Spend(amount, restart) /\ odds \in Nat
      /\ last.kind = "valid" => Leq(last.usage, amount)
  BY DEF WritePartial
<1>5. line \in TokensRecord /\ line.total.kind = "valid" /\ line.total.usage = shown'
      /\ line.timed = timed /\ line.last = last
  BY <1>2 DEF TokensRecord, Valid
<1>6. ~loses => shown' # shown
  <2>1. amount # ZeroUsage /\ amount.input \in Nat /\ amount.cached <= amount.input
        /\ amount.cached \in Nat
    BY UsageIsTotal, LedgerAssumption
  <2>2. amount.input # 0
    BY <2>1, <1>1 DEF Usage, ZeroUsage
  <2>3. ~restart => shown' = Plus(shown, amount)
    BY <1>4 DEF Spend
  <2>4. shown.input \in Nat
    BY UsageIsTotal DEF FileTyped
  <2>5. ~restart => shown'.input = shown.input + amount.input
    BY <2>3 DEF Plus
  <2> QED BY <2>1, <2>2, <2>4, <2>5
<1> HIDE DEF line, odds
<1>7. Wrote(line, loses)
  BY <1>3, <1>4, WrittenIs
<1>8. SnapshotOfMore(line, amount, restart, loses)
  BY <1>4, <1>5, <1>6 DEF SnapshotOfMore, Snapped
<1> QED BY <1>7, <1>8 DEF Wrote

\* What one step of the writer is.
Wrote1 ==
  \/ \E m \in Models : \E line : Wrote(line, FALSE) /\ line.is = "context" /\ line.model = m
       /\ NothingSpent /\ UNCHANGED started
  \/ \E id \in Ids \cup {None} : \E line :
       /\ ReusedIds \/ id = None \/ \A i \in DOMAIN started : started[i].id # id
       /\ Wrote(line, FALSE) /\ line.is = "started" /\ line.id = id
       /\ started' = <<[id |-> id, at |-> Here + 1, spent |-> spent]>> \o started
       /\ NothingSpent
  \/ \E line : Wrote(line, FALSE) /\ line.is = "ended" /\ NothingSpent /\ UNCHANGED started
  \/ \E amount, restart, line, loses :
       Wrote(line, loses) /\ SnapshotOfMore(line, amount, restart, loses)
  \/ \E line : Wrote(line, FALSE) /\ SnapshotAgain(line, FALSE)
  \/ \E amount \in Amounts : \E line :
       /\ Owned \/ BadPrefix
       /\ Wrote(line, TRUE) /\ Spend(amount, FALSE)
       /\ line.is = "gap" \/ (line.is = "tokens" /\ line.total.kind = "invalid")

LEMMA WriteIs ==
  ASSUME FileTyped, Write
  PROVE  Wrote1
<1>1. ASSUME NEW m \in Models, WriteContext(m)
      PROVE  Wrote1
  <2> DEFINE line == [is |-> "context", model |-> m]
  <2>1. line \in Record
    BY TokensAreRecords
  <2>2. Written1(line, 0, FALSE) /\ NothingSpent /\ UNCHANGED started
    BY <1>1 DEF WriteContext
  <2>3. line.is = "context" /\ line.model = m
    OBVIOUS
  <2> HIDE DEF line
  <2>4. Wrote(line, FALSE)
    BY <2>1, <2>2, WrittenIs
  <2> QED BY <2>2, <2>3, <2>4 DEF Wrote1
<1>2. ASSUME NEW id \in Ids \cup {None}, NEW timed \in BOOLEAN, WriteStarted(id, timed)
      PROVE  Wrote1
  <2> DEFINE line == [is |-> "started", id |-> id, timed |-> timed]
             odds == (IF id = None THEN 1 ELSE 0) + (IF timed THEN 0 ELSE 1)
  <2>1. line \in Record /\ odds \in Nat
    BY DEF Record
  <2>2. /\ ReusedIds \/ id = None \/ \A i \in DOMAIN started : started[i].id # id
        /\ Written1(line, odds, FALSE) /\ NothingSpent
        /\ started' = <<[id |-> id, at |-> Here + 1, spent |-> spent]>> \o started
    BY <1>2 DEF WriteStarted, Here
  <2>3. line.is = "started" /\ line.id = id
    OBVIOUS
  <2> HIDE DEF line, odds
  <2>4. Wrote(line, FALSE)
    BY <2>1, <2>2, WrittenIs
  <2> QED BY <2>2, <2>3, <2>4 DEF Wrote1
<1>3. ASSUME NEW id \in Ids \cup {None}, NEW timed \in BOOLEAN, WriteEnded(id, timed)
      PROVE  Wrote1
  <2> DEFINE line == [is |-> "ended", id |-> id, timed |-> timed]
             odds == (IF id = started[1].id THEN 0 ELSE 1) + (IF timed THEN 0 ELSE 1)
  <2>1. line \in Record /\ odds \in Nat
    BY DEF Record
  <2>2. Written1(line, odds, FALSE) /\ NothingSpent /\ UNCHANGED started
    BY <1>3 DEF WriteEnded
  <2>3. line.is = "ended"
    OBVIOUS
  <2> HIDE DEF line, odds
  <2>4. Wrote(line, FALSE)
    BY <2>1, <2>2, WrittenIs
  <2> QED BY <2>2, <2>3, <2>4 DEF Wrote1
<1>4. ASSUME NEW amount \in Amounts, NEW restart \in BOOLEAN, WriteTokens(amount, restart)
      PROVE  Wrote1
  BY <1>4, TokensWrite DEF Wrote1
<1>5. ASSUME WriteRepeated
      PROVE  Wrote1
  BY <1>5, RepeatedWrites DEF Wrote1
<1>6. ASSUME NEW amount \in Amounts, NEW restart \in BOOLEAN, NEW timed \in BOOLEAN,
             NEW last \in {Valid(u) : u \in Amounts} \cup {Other("invalid"), Other("missing")},
             WritePartial(amount, restart, last, timed)
      PROVE  Wrote1
  BY <1>6, PartialWrites DEF Wrote1
<1>7. ASSUME NEW amount \in Amounts, NEW line \in Unreadable, WriteUnreadable(amount, line)
      PROVE  Wrote1
  <2>1. line \in Record
    BY TokensAreRecords
  <2>2. /\ Owned \/ BadPrefix
        /\ Spend(amount, FALSE) /\ Written1(line, 1, TRUE)
    BY <1>7 DEF WriteUnreadable
  <2>3. Wrote(line, TRUE)
    BY <2>1, <2>2, WrittenIs
  <2>4. line.is = "gap" \/ (line.is = "tokens" /\ line.total.kind = "invalid")
    BY DEF Unreadable, Other
  <2> QED BY <2>2, <2>3, <2>4 DEF Wrote1
<1> QED BY <1>1, <1>2, <1>3, <1>4, <1>5, <1>6, <1>7 DEF Write

LEMMA WriteTyped ==
  ASSUME FileTyped, Write, Len(pending) < MaxBatch
  PROVE  /\ FileTyped'
         /\ \E line, loses : Wrote(line, loses)
<1>1. Wrote1
  BY WriteIs
<1>2. \E line, loses : Wrote(line, loses)
  BY <1>1 DEF Wrote1
<1>3. PICK line, loses : Wrote(line, loses)
  BY <1>2
<1>4. /\ subagent' \in BOOLEAN /\ pending' \in Seq(Record) /\ Len(pending') <= MaxBatch
      /\ db'.offset \in Nat /\ Here' <= MaxLines /\ odd' \in 0..MaxOdd
  BY <1>3, LedgerAssumption DEF Wrote, FileTyped, Here
<1>5. lossy' \in BOOLEAN
  <2>1. Write => lossy' \in BOOLEAN
    BY DEF Write, WriteContext, WriteStarted, WriteEnded, WriteTokens, WriteRepeated, WritePartial,
           WriteUnreadable, Written1, FileTyped
  <2> QED BY <2>1
<1>6. \/ \E amount \in Amounts, restart \in BOOLEAN : Spend(amount, restart)
      \/ NothingSpent /\ UNCHANGED started
      \/ \E id \in Ids \cup {None} : NothingSpent
           /\ started' = <<[id |-> id, at |-> Here + 1, spent |-> spent]>> \o started
  BY <1>1 DEF Wrote1, SnapshotOfMore, SnapshotAgain
<1>7. /\ spent' \in Tallies /\ spent'.cached <= spent'.input /\ shown' \in Usage
      /\ latest' \in Usage /\ started' \in Seq(StartOf(spent'))
  <2>1. ASSUME NEW amount \in Amounts, NEW restart \in BOOLEAN, Spend(amount, restart)
        PROVE  <1>7!:
    <3>1. /\ spent' \in Tallies /\ Leq(spent, spent') /\ spent'.cached <= spent'.input
          /\ shown' \in Usage /\ latest' \in Usage /\ UNCHANGED started
      BY <2>1, SpendGrows DEF FileTyped
    <3>2. started \in Seq(StartOf(spent'))
      BY <3>1, StartsStay DEF FileTyped
    <3> QED BY <3>1, <3>2
  <2>2. ASSUME NothingSpent, UNCHANGED started
        PROVE  <1>7!:
    BY <2>2 DEF NothingSpent, FileTyped
  <2>3. ASSUME NEW id \in Ids \cup {None}, NothingSpent,
               started' = <<[id |-> id, at |-> Here + 1, spent |-> spent]>> \o started
        PROVE  <1>7!:
    <3> DEFINE s == [id |-> id, at |-> Here + 1, spent |-> spent]
    <3>1. Here + 1 \in 1..MaxLines
      BY <1>3, LedgerAssumption DEF Wrote, FileTyped, Here
    <3>2. spent \in {[input |-> i, cached |-> c] : i \in 0..spent.input, c \in 0..spent.cached}
      BY DEF FileTyped, Tallies
    <3>3. s \in StartOf(spent)
      BY <3>1, <3>2 DEF StartOf
    <3> HIDE DEF s
    <3>4. started' \in Seq(StartOf(spent))
      BY <2>3, <3>3 DEF s, FileTyped
    <3> QED BY <2>3, <3>4 DEF NothingSpent, FileTyped
  <2> QED BY <1>6, <2>1, <2>2, <2>3
<1> QED BY <1>2, <1>4, <1>5, <1>7 DEF FileTyped

------------------------------------------------------------------------------
(* Batches: what stops and starts again is where it would have been.          *)

LEMMA NextLine ==
  ASSUME FileTyped, NEW line, NEW loses, Wrote(line, loses)
  PROVE  /\ Caught' = ApplyRecord(Caught, Here + 1, line)
         /\ Fresh' = ApplyRecord(Fresh, Here + 1, line)
         /\ Here' = Here + 1 /\ Here + 1 \in 1..MaxLines /\ Here \in Nat
<1>1. /\ db.offset \in Nat /\ pending \in Seq(Record) /\ line \in Record /\ Len(pending) \in Nat
      /\ pending' = Append(pending, line) /\ db' = db /\ straight' = straight
      /\ subagent' = subagent /\ Here < MaxLines
  BY DEF FileTyped, Wrote
<1>2. ReadBack' = ReadBack
  BY <1>1 DEF ReadBack, NewProcessor
<1>3. /\ Caught' = Process(straight, db.offset, Append(pending, line))
      /\ Fresh' = Process(ReadBack, db.offset, Append(pending, line))
  BY <1>1, <1>2 DEF Caught, Fresh
<1>4. /\ Caught' = ApplyRecord(Caught, db.offset + Len(pending) + 1, line)
      /\ Fresh' = ApplyRecord(Fresh, db.offset + Len(pending) + 1, line)
  BY <1>1, <1>3, ProcessAppends DEF Caught, Fresh
<1>5. Here' = Here + 1 /\ Here + 1 \in 1..MaxLines /\ Here \in Nat
  <2>1. Len(pending') = Len(pending) + 1
    BY <1>1
  <2>2. Here \in Nat /\ Here' = Here + 1
    BY <1>1, <2>1 DEF Here
  <2> QED BY <1>1, <2>2, LedgerAssumption
<1> QED BY <1>4, <1>5 DEF Here

TurnsOf(p) == {Written(p)[i] : i \in DOMAIN Written(p)}

LEMMA WrittenTurns ==
  ASSUME NEW p \in Processor
  PROVE  /\ Written(p) \in Seq(Turn)
         /\ TurnsOf(p) = {p.closed[i] : i \in 1..Len(p.closed)}
                           \cup (IF p.turn = None THEN {} ELSE {p.turn})
         /\ p.turn # None => /\ Len(Written(p)) = Len(p.closed) + 1
                             /\ Written(p)[Len(p.closed) + 1] = p.turn
         /\ p.turn = None => Len(Written(p)) = Len(p.closed)
         /\ \A i \in 1..Len(p.closed) : Written(p)[i] = p.closed[i]
         /\ Len(p.closed) \in Nat
<1>1. p.closed \in Seq(Turn) /\ (p.turn # None => p.turn \in Turn) /\ Len(p.closed) \in Nat
  BY DEF Processor
<1>2. CASE p.turn = None
  <2>1. Written(p) = p.closed
    BY <1>1, <1>2 DEF Written
  <2> QED BY <1>1, <1>2, <2>1 DEF TurnsOf
<1>3. CASE p.turn # None
  <2> DEFINE n == Len(p.closed)
             w == p.closed \o <<p.turn>>
  <2>1. /\ Written(p) = w /\ w \in Seq(Turn) /\ Len(w) = n + 1 /\ w[n + 1] = p.turn
        /\ \A i \in 1..n : w[i] = p.closed[i]
    BY <1>1, <1>3 DEF Written
  <2>2. DOMAIN w = 1..(n + 1)
    BY <1>1, <2>1
  <2> HIDE DEF w
  <2>3. {w[i] : i \in 1..(n + 1)} = {p.closed[i] : i \in 1..n} \cup {p.turn}
    <3>1. 1..(n + 1) = (1..n) \cup {n + 1}
      BY <1>1
    <3> QED BY <2>1, <3>1
  <2> QED BY <1>1, <1>3, <2>1, <2>2, <2>3 DEF TurnsOf
<1> QED BY <1>2, <1>3

Rising(new) == \A i, j \in 1..Len(new) : i < j => new[i].at < new[j].at

\* The rows after a batch whose turns are accepted: each of its turns is there, and a row that was
\* replaced is the row of the same turn.
LEMMA RowsWritten ==
  ASSUME NEW turns, NEW new \in Seq(Turn), Rising(new), TurnsAccepted(turns, new)
  PROVE  /\ WriteTurns(turns, new) =
              {t \in turns : \A k \in 1..Len(new) : new[k].key # t.key}
                \cup {new[k] : k \in 1..Len(new)}
         /\ \A t \in turns, k \in 1..Len(new) : t.key = new[k].key => t.at = new[k].at
<1> DEFINE n == Len(new)
           r == RowsAfter(turns, new)
           Kept(i) == {t \in turns : \A k \in 1..i : new[k].key # t.key} \cup {new[k] : k \in 1..i}
           Same(i) == \A t \in turns, k \in 1..i : t.key = new[k].key => t.at = new[k].at
           S == {i \in Nat : i <= n => r[i] = Kept(i) /\ Same(i)}
<1>1. n \in Nat /\ \A k \in 1..n : new[k] \in Turn /\ new[k].at \in 1..MaxLines
  BY TurnParts
<1>2. Rows(r, turns, new)
  BY <1>1, RowsExist
<1>3. \A i \in 1..n : \A old \in r[i - 1] : old.key = new[i].key => MayBecome(old, new[i])
  BY DEF TurnsAccepted
<1> HIDE DEF r
<1>4. 0 \in S
  <2>1. r[0] = turns
    BY <1>1, <1>2 DEF Rows
  <2>2. Kept(0) = turns /\ Same(0)
    OBVIOUS
  <2> QED BY <2>1, <2>2
<1>5. ASSUME NEW i \in S
      PROVE  i + 1 \in S
  <2> SUFFICES ASSUME i + 1 <= n
               PROVE  r[i + 1] = Kept(i + 1) /\ Same(i + 1)
    OBVIOUS
  <2> DEFINE x == new[i + 1]
  <2>1. i \in Nat /\ i <= n /\ i + 1 \in 0..n /\ i + 1 \in 1..n /\ i + 1 # 0 /\ (i + 1) - 1 = i
        /\ 1..(i + 1) = (1..i) \cup {i + 1}
    BY <1>1
  <2>2. r[i] = Kept(i) /\ Same(i)
    BY <2>1
  <2>3. r[i + 1] = {t \in r[i] : t.key # x.key} \cup {x}
    BY <1>2, <2>1 DEF Rows, WriteTurn
  <2>4. \A old \in r[i] : old.key = x.key => old.at = x.at
    BY <1>3, <2>1 DEF MayBecome
  <2>5. ASSUME NEW k \in 1..i
        PROVE  new[k].key # x.key
    <3>1. k \in 1..n /\ k < i + 1
      BY <2>1
    <3>2. new[k].at < x.at /\ new[k].at \in 1..MaxLines /\ x.at \in 1..MaxLines
      BY <1>1, <2>1, <3>1 DEF Rising
    <3>3. new[k] \in r[i]
      BY <2>2
    <3> QED BY <2>4, <3>2, <3>3, LedgerAssumption
  <2> HIDE DEF S
  <2>6. r[i + 1] = Kept(i + 1)
    <3>1. ASSUME NEW t \in r[i + 1]
          PROVE  t \in Kept(i + 1)
      BY <2>1, <2>2, <2>3, <3>1
    <3>2. ASSUME NEW t \in Kept(i + 1)
          PROVE  t \in r[i + 1]
      BY <2>1, <2>2, <2>3, <2>5, <3>2
    <3> QED BY <3>1, <3>2
  <2>7. Same(i + 1)
    <3>1. ASSUME NEW t \in turns, t.key = x.key
          PROVE  t.at = x.at
      <4>1. t \in r[i]
        BY <2>2, <2>5, <3>1
      <4> QED BY <2>4, <3>1, <4>1
    <3> QED BY <2>1, <2>2, <3>1
  <2> QED BY <2>6, <2>7
<1>6. n \in S
  <2>1. S \subseteq Nat
    OBVIOUS
  <2> HIDE DEF S
  <2> QED BY <1>1, <1>4, <1>5, <2>1, Induction
<1>7. r[n] = Kept(n) /\ Same(n)
  BY <1>1, <1>6
<1> QED BY <1>7 DEF WriteTurns, r

\* The processor that reads the rows back continues the one that never stopped.
ResumeInv ==
  /\ FileTyped /\ db \in Db
  /\ straight \in Processor /\ Fresh \in Processor /\ Caught \in Processor
  /\ Caught.subagent = subagent
  /\ InOrder(straight, db.offset) /\ InOrder(Caught, Here)
  /\ Lifted(Fresh, Caught, straight.closed, straight.events)
  /\ ResumesExactly

\* The rows of a processor are read back as the processor, but for what is over.
ReadFrom(d, sub) ==
  [NewProcessor(sub) EXCEPT
     !.chain = d.chain, !.prev = d.prev, !.model = d.model,
     !.turn = IF OpenTurns(d.turns) = {} THEN None
              ELSE CHOOSE t \in OpenTurns(d.turns) : TRUE]

LEMMA ReadBackContinues ==
  ASSUME NEW p \in Processor, NEW n, InOrder(p, n), NEW d \in Db, NEW sub, p.subagent = sub,
         sub \in BOOLEAN, <<d.chain, d.prev, d.model>> = <<p.chain, p.prev, p.model>>,
         d.turns = TurnsOf(p)
  PROVE  ReadFrom(d, sub) \in Processor /\ Lifted(ReadFrom(d, sub), p, p.closed, p.events)
<1> DEFINE open == OpenTurns(d.turns)
           turn == IF open = {} THEN None ELSE CHOOSE t \in open : TRUE
<1>1. /\ p.closed \in Seq(Turn) /\ p.events \in SUBSET Event /\ p.turn \in Turn \cup {None}
      /\ p.chain \in ChainStates /\ p.prev \in Usage \cup {None} /\ p.model \in Models \cup {None}
  BY DEF Processor
<1>2. TurnsOf(p) = {p.closed[i] : i \in 1..Len(p.closed)}
                     \cup (IF p.turn = None THEN {} ELSE {p.turn})
  BY WrittenTurns
<1>3. turn = p.turn
  <2>1. \A i \in 1..Len(p.closed) : p.closed[i].status # "open"
    BY DEF InOrder
  <2>2. CASE p.turn = None
    <3>1. open = {}
      BY <1>2, <2>1, <2>2 DEF OpenTurns
    <3> QED BY <2>2, <3>1
  <2>3. CASE p.turn # None
    <3>1. open = {p.turn}
      BY <1>2, <2>1, <2>3 DEF OpenTurns, InOrder
    <3> HIDE DEF open
    <3> QED BY <3>1
  <2> QED BY <2>2, <2>3
<1> DEFINE r == [subagent |-> sub, chain |-> d.chain, prev |-> d.prev, model |-> d.model,
                 turn |-> turn, closed |-> <<>>, events |-> {}]
<1>4. ReadFrom(d, sub) = r
  <2> DEFINE new == NewProcessor(sub)
  <2>1. new = [subagent |-> sub, chain |-> "continuous", prev |-> None, model |-> None,
               turn |-> None, closed |-> <<>>, events |-> {}]
    BY DEF NewProcessor
  <2>2. ReadFrom(d, sub) = [new EXCEPT !.chain = d.chain, !.prev = d.prev, !.model = d.model,
                               !.turn = turn]
    BY DEF ReadFrom
  <2> HIDE DEF new, turn
  <2> QED BY <2>1, <2>2
<1> HIDE DEF turn
<1>5. r \in Processor
  BY <1>1, <1>3 DEF Processor
<1>6. Lifted(r, p, p.closed, p.events)
  <2>1. p.closed = p.closed \o <<>> /\ p.events = p.events \cup {}
    BY <1>1
  <2> QED BY <1>3, <2>1 DEF Lifted, Frame
<1> HIDE DEF r
<1> QED BY <1>4, <1>5, <1>6

LEMMA ResumeInit ==
  ASSUME TokenInit
  PROVE  ResumeInv
<1>1. /\ subagent \in BOOLEAN /\ pending = <<>> /\ straight = NewProcessor(subagent)
      /\ db = [offset |-> 0, chain |-> "continuous", prev |-> None, model |-> None,
               active |-> None, turns |-> {}, events |-> {}]
      /\ spent = ZeroUsage /\ shown = ZeroUsage /\ latest = ZeroUsage /\ started = <<>>
      /\ lossy = FALSE /\ odd = 0
  BY DEF TokenInit
<1>2. FileTyped
  <2>1. ZeroUsage \in Usage /\ ZeroUsage \in Tallies /\ ZeroUsage.cached <= ZeroUsage.input
    BY UsageIsTotal
  <2>2. pending \in Seq(Record) /\ Len(pending) = 0 /\ started \in Seq(StartOf(spent))
    BY <1>1
  <2>3. db.offset = 0 /\ Here = 0
    BY <1>1, <2>2 DEF Here
  <2>4. 0 <= MaxLines /\ 0 <= MaxBatch /\ 0 \in 0..MaxOdd
    BY LedgerAssumption
  <2> QED BY <1>1, <2>1, <2>2, <2>3, <2>4 DEF FileTyped
<1>3. db \in Db
  BY <1>1, LedgerAssumption DEF Db
<1>4. /\ straight \in Processor /\ straight.subagent = subagent /\ straight.chain = "continuous"
      /\ straight.prev = None /\ straight.model = None /\ straight.turn = None
      /\ straight.closed = <<>> /\ straight.events = {}
  BY <1>1 DEF NewProcessor, Processor, ChainStates
<1>5. InOrder(straight, 0)
  BY <1>4, FS_EmptySet DEF InOrder
<1>6. TurnsOf(straight) = {}
  <2>1. Written(straight) = <<>>
    BY <1>4 DEF Written
  <2> QED BY <2>1 DEF TurnsOf
<1>7. ReadBack \in Processor /\ Lifted(ReadBack, straight, straight.closed, straight.events)
  <2>1. ReadBack = ReadFrom(db, subagent)
    BY DEF ReadBack, ReadFrom
  <2> QED BY <1>1, <1>3, <1>4, <1>5, <1>6, <2>1, ReadBackContinues
<1>8. Caught = straight /\ Fresh = ReadBack /\ Here = 0 /\ db.offset = 0
  BY <1>1, ProcessNothing DEF Caught, Fresh, Here
<1>9. ResumesExactly
  BY <1>1, <1>4, <1>6 DEF ResumesExactly, TurnsOf
<1> QED BY <1>2, <1>3, <1>4, <1>5, <1>7, <1>8, <1>9 DEF ResumeInv

LEMMA ResumeWrite ==
  ASSUME ResumeInv, Write, Len(pending) < MaxBatch
  PROVE  ResumeInv'
<1>1. FileTyped /\ FileTyped' /\ \E line, loses : Wrote(line, loses)
  BY WriteTyped DEF ResumeInv
<1>2. PICK line, loses : Wrote(line, loses)
  BY <1>1
<1>3. /\ Caught' = ApplyRecord(Caught, Here + 1, line) /\ Fresh' = ApplyRecord(Fresh, Here + 1, line)
      /\ Here' = Here + 1 /\ Here + 1 \in 1..MaxLines /\ Here \in Nat
  BY <1>1, <1>2, NextLine
<1>4. /\ db' = db /\ straight' = straight /\ subagent' = subagent /\ line \in Record
  BY <1>2 DEF Wrote
<1>5. Caught' \in Processor /\ Grows(Caught, Caught', Here + 1)
  BY <1>3, <1>4, ApplyDoes DEF ResumeInv
<1>6. Fresh' \in Processor
  BY <1>3, <1>4, ApplyDoes DEF ResumeInv
<1>7. InOrder(Caught', Here')
  BY <1>3, <1>5, OrderStays DEF ResumeInv
<1>8. Lifted(Fresh', Caught', straight.closed, straight.events)
  <2>1. straight.closed \in Seq(Turn)
    BY DEF ResumeInv, Processor
  <2> QED BY <1>3, <1>4, <2>1, ApplyLifts DEF ResumeInv
<1>9. Caught'.subagent = subagent
  BY <1>5 DEF Grows, ResumeInv
<1>10. ResumesExactly'
  BY <1>4 DEF ResumesExactly, ResumeInv, Written
<1>11. db \in Db /\ straight \in Processor /\ InOrder(straight, db.offset)
  BY DEF ResumeInv
<1> QED BY <1>1, <1>4, <1>5, <1>6, <1>7, <1>8, <1>9, <1>10, <1>11 DEF ResumeInv

\* What a commit of all pending lines does.
LEMMA CommitIs ==
  ASSUME FileTyped, CommitBatch
  PROVE  /\ BatchAccepted(Len(pending)) /\ Batch(Len(pending)) = Fresh
         /\ db' = [offset |-> Here, chain |-> Fresh.chain, prev |-> Fresh.prev,
                   model |-> Fresh.model,
                   active |-> IF Fresh.turn = None THEN None ELSE Fresh.turn.key,
                   turns |-> WriteTurns(db.turns, Written(Fresh)),
                   events |-> db.events \cup Fresh.events]
         /\ straight' = Caught /\ pending' = <<>>
         /\ UNCHANGED <<subagent, spent, shown, latest, started, lossy, odd>>
<1> DEFINE k == Len(pending)
<1>1. pending \in Seq(Record) /\ k \in Nat
  BY DEF FileTyped
<1>2. SubSeq(pending, 1, k) = pending /\ SubSeq(pending, k + 1, k) = <<>>
  BY <1>1
<1>3. Batch(k) = Fresh
  BY <1>2 DEF Batch, Fresh
<1>4. CommitUsage(k)
  BY DEF CommitBatch
<1> HIDE DEF k
<1>5. /\ BatchAccepted(k)
      /\ db' = [offset |-> db.offset + k, chain |-> Batch(k).chain, prev |-> Batch(k).prev,
                model |-> Batch(k).model,
                active |-> IF Batch(k).turn = None THEN None ELSE Batch(k).turn.key,
                turns |-> WriteTurns(db.turns, Written(Batch(k))),
                events |-> db.events \cup Batch(k).events]
      /\ straight' = Process(straight, db.offset, SubSeq(pending, 1, k))
      /\ pending' = SubSeq(pending, k + 1, Len(pending))
      /\ UNCHANGED <<subagent, spent, shown, latest, started, lossy, odd>>
  BY <1>4 DEF CommitUsage
<1>6. straight' = Caught
  BY <1>2, <1>5 DEF Caught
<1>7. pending' = <<>>
  BY <1>2, <1>5 DEF k
<1>8. db.offset + k = Here
  BY DEF Here, k
<1> QED BY <1>3, <1>5, <1>6, <1>7, <1>8 DEF k

\* The rows of a batch that is accepted are those of the processor that never stopped.
LEMMA RowsContinue ==
  ASSUME ResumeInv, BatchAccepted(Len(pending)), Batch(Len(pending)) = Fresh
  PROVE  WriteTurns(db.turns, Written(Fresh)) = TurnsOf(Caught)
<1> DEFINE s == straight
           f == Fresh
           c == Caught
           sc == s.closed
           fc == f.closed
           cc == c.closed
           m == Len(sc)
           n == Len(fc)
           new == Written(f)
           kept == WriteTurns(db.turns, new)
<1>1. TurnsAccepted(db.turns, new) /\ OpenRowMatches(f)
  BY DEF BatchAccepted
<1>2. /\ s \in Processor /\ f \in Processor /\ c \in Processor
      /\ sc \in Seq(Turn) /\ fc \in Seq(Turn) /\ m \in Nat /\ n \in Nat
      /\ cc = sc \o fc /\ c.turn = f.turn
  BY DEF ResumeInv, Processor, Lifted
<1>3. /\ Len(cc) = m + n
      /\ \A i \in 1..m : cc[i] = sc[i]
      /\ \A i \in 1..n : cc[m + i] = fc[i]
  <2> HIDE DEF sc, fc, cc
  <2> QED BY <1>2
<1>4. /\ new \in Seq(Turn)
      /\ f.turn # None => Len(new) = n + 1 /\ new[n + 1] = f.turn
      /\ f.turn = None => Len(new) = n
      /\ \A i \in 1..n : new[i] = fc[i]
  BY <1>2, WrittenTurns
<1>5. /\ TurnsOf(c) = {cc[i] : i \in 1..Len(cc)}
                        \cup (IF c.turn = None THEN {} ELSE {c.turn})
      /\ db.turns = {sc[i] : i \in 1..m} \cup (IF s.turn = None THEN {} ELSE {s.turn})
  BY <1>2, WrittenTurns DEF ResumeInv, ResumesExactly, TurnsOf
<1>6. /\ \A i, j \in 1..Len(cc) : i < j => cc[i].at < cc[j].at
      /\ c.turn # None => \A i \in 1..Len(cc) : cc[i].at < c.turn.at
      /\ s.turn # None => s.turn.status = "open"
      /\ c.turn # None => c.turn.status = "open"
  BY DEF ResumeInv, InOrder
<1>7. OpenRowMatches(f) =
        (IF f.turn = None THEN OpenTurns(kept) = {} ELSE {t.key : t \in OpenTurns(kept)} = {f.turn.key})
  BY DEF OpenRowMatches
<1> HIDE DEF s, f, c, sc, fc, cc, m, n, new
<1>8. \A k \in 1..Len(new) : new[k] \in Turn /\ new[k].at \in 1..MaxLines
  BY <1>4, TurnParts
<1>9. Rising(new) /\ \A i \in 1..m, k \in 1..Len(new) : sc[i].at < new[k].at
  <2>1. ASSUME NEW i \in 1..n
        PROVE  m + i \in 1..Len(cc) /\ new[i] = cc[m + i]
    <3>1. m \in Nat /\ n \in Nat /\ Len(cc) = m + n
      BY <1>2, <1>3
    <3>2. m + i \in 1..Len(cc)
      BY <2>1, <3>1
    <3>3. new[i] = fc[i] /\ cc[m + i] = fc[i]
      BY <1>3, <1>4, <2>1
    <3> QED BY <3>2, <3>3
  <2>2. ASSUME NEW i \in 1..n, NEW j \in 1..n, i < j
        PROVE  new[i].at < new[j].at
    <3>1. m + i \in 1..Len(cc) /\ m + j \in 1..Len(cc) /\ m + i < m + j
      <4>1. m \in Nat /\ n \in Nat /\ Len(cc) = m + n
        BY <1>2, <1>3
      <4> QED BY <2>2, <4>1
    <3>2. cc[m + i].at < cc[m + j].at
      BY <1>6, <3>1
    <3> QED BY <2>1, <3>2
  <2>3. ASSUME f.turn # None, NEW i \in 1..n
        PROVE  new[i].at < new[n + 1].at
    BY <1>2, <1>4, <1>6, <2>1, <2>3
  <2>4. Rising(new)
    <3> SUFFICES ASSUME NEW i \in 1..Len(new), NEW j \in 1..Len(new), i < j
                 PROVE  new[i].at < new[j].at
      BY DEF Rising
    <3>1. i \in 1..n
      BY <1>2, <1>4
    <3>2. CASE j \in 1..n
      BY <2>2, <3>1, <3>2
    <3>3. CASE j \notin 1..n
      <4>1. f.turn # None /\ j = n + 1
        BY <1>2, <1>4, <3>3
      <4> QED BY <2>3, <3>1, <4>1
    <3> QED BY <3>2, <3>3
  <2>5. ASSUME NEW i \in 1..m, NEW k \in 1..Len(new)
        PROVE  sc[i].at < new[k].at
    <3>1. i \in 1..Len(cc) /\ cc[i] = sc[i]
      BY <1>2, <1>3
    <3>2. CASE k \in 1..n
      <4>1. i < m + k
        BY <1>2, <3>2
      <4> QED BY <1>6, <2>1, <3>1, <3>2, <4>1
    <3>3. CASE k \notin 1..n
      <4>1. f.turn # None /\ k = n + 1
        BY <1>2, <1>4, <3>3
      <4> QED BY <1>2, <1>4, <1>6, <3>1, <4>1
    <3> QED BY <3>2, <3>3
  <2> QED BY <2>4, <2>5
<1>10. /\ kept = {t \in db.turns : \A k \in 1..Len(new) : new[k].key # t.key}
                   \cup {new[k] : k \in 1..Len(new)}
       /\ \A t \in db.turns, k \in 1..Len(new) : t.key = new[k].key => t.at = new[k].at
  BY <1>1, <1>4, <1>9, RowsWritten
<1> HIDE DEF kept
<1>11. ASSUME NEW i \in 1..m
       PROVE  sc[i] \in kept
  <2>1. sc[i] \in db.turns
    BY <1>5
  <2>2. sc[i].at \in 1..MaxLines
    <3>1. sc[i] \in Turn
      BY <1>2 DEF m
    <3> QED BY <3>1, TurnParts
  <2>3. ASSUME NEW k \in 1..Len(new), new[k].key = sc[i].key
        PROVE  FALSE
    <3>1. sc[i].at = new[k].at
      BY <1>10, <2>1, <2>3
    <3>2. sc[i].at < new[k].at
      BY <1>9, <2>3
    <3>3. sc[i].at \in Nat
      BY <2>2, LedgerAssumption
    <3> QED BY <3>1, <3>2, <3>3
  <2> QED BY <1>10, <2>1, <2>3
<1>12. ASSUME NEW t \in db.turns, \A k \in 1..Len(new) : new[k].key # t.key
       PROVE  \E i \in 1..m : t = sc[i]
  <2>1. CASE \E i \in 1..m : t = sc[i]
    BY <2>1
  <2>2. CASE s.turn # None /\ t = s.turn
    <3>1. t \in OpenTurns(kept)
      BY <1>6, <1>10, <1>12, <2>2 DEF OpenTurns
    <3>2. CASE f.turn = None
      BY <1>1, <1>7, <3>1, <3>2
    <3>3. CASE f.turn # None
      <4>1. t.key = f.turn.key
        BY <1>1, <1>7, <3>1, <3>3
      <4>2. n + 1 \in 1..Len(new) /\ new[n + 1] = f.turn
        BY <1>2, <1>4, <3>3
      <4> QED BY <1>12, <4>1, <4>2
    <3> QED BY <3>2, <3>3
  <2> QED BY <1>5, <2>1, <2>2
<1>13. {new[k] : k \in 1..Len(new)} =
         {fc[i] : i \in 1..n} \cup (IF f.turn = None THEN {} ELSE {f.turn})
  <2>1. CASE f.turn = None
    BY <1>4, <2>1
  <2>2. CASE f.turn # None
    <3>1. 1..(n + 1) = (1..n) \cup {n + 1}
      BY <1>2
    <3> QED BY <1>4, <2>2, <3>1
  <2> QED BY <2>1, <2>2
<1>14. {cc[i] : i \in 1..Len(cc)}
         = {sc[i] : i \in 1..m} \cup {fc[i] : i \in 1..n}
  <2>1. ASSUME NEW i \in 1..Len(cc)
        PROVE  cc[i] \in {sc[j] : j \in 1..m} \cup {fc[j] : j \in 1..n}
    <3>1. CASE i \in 1..m
      BY <1>3, <3>1
    <3>2. CASE i \notin 1..m
      <4>1. i - m \in 1..n /\ m + (i - m) = i
        BY <1>2, <1>3, <3>2
      <4>2. cc[i] = fc[i - m]
        BY <1>3, <4>1
      <4> QED BY <4>1, <4>2
    <3> QED BY <3>1, <3>2
  <2>2. ASSUME NEW i \in 1..m
        PROVE  sc[i] \in {cc[j] : j \in 1..Len(cc)}
    <3>1. i \in 1..Len(cc) /\ cc[i] = sc[i]
      BY <1>2, <1>3
    <3> QED BY <3>1
  <2>3. ASSUME NEW i \in 1..n
        PROVE  fc[i] \in {cc[j] : j \in 1..Len(cc)}
    <3>1. m + i \in 1..Len(cc) /\ cc[m + i] = fc[i]
      BY <1>2, <1>3
    <3> QED BY <3>1
  <2> QED BY <2>1, <2>2, <2>3
<1>15. TurnsOf(c) = {sc[i] : i \in 1..m} \cup {new[k] : k \in 1..Len(new)}
  BY <1>2, <1>5, <1>13, <1>14
<1>16. kept = TurnsOf(c)
  BY <1>10, <1>11, <1>12, <1>15
<1> QED BY <1>16 DEF kept, new, f, c

LEMMA ResumeCommit ==
  ASSUME ResumeInv, CommitBatch
  PROVE  ResumeInv'
<1> DEFINE c == Caught
           f == Fresh
           k == Len(pending)
<1>1. /\ BatchAccepted(k) /\ Batch(k) = f
      /\ db' = [offset |-> Here, chain |-> f.chain, prev |-> f.prev, model |-> f.model,
                active |-> IF f.turn = None THEN None ELSE f.turn.key,
                turns |-> WriteTurns(db.turns, Written(f)), events |-> db.events \cup f.events]
      /\ straight' = c /\ pending' = <<>>
      /\ UNCHANGED <<subagent, spent, shown, latest, started, lossy, odd>>
  BY CommitIs DEF ResumeInv
<1>2. /\ FileTyped /\ db \in Db /\ c \in Processor /\ f \in Processor /\ c.subagent = subagent
      /\ InOrder(c, Here) /\ Here \in 0..MaxLines
      /\ f.chain = c.chain /\ f.prev = c.prev /\ f.model = c.model /\ f.turn = c.turn
      /\ c.events = straight.events \cup f.events /\ db.events = straight.events
  <2>1. FileTyped
    BY DEF ResumeInv
  <2>2. Here \in 0..MaxLines
    BY <2>1, LedgerAssumption DEF FileTyped, Here
  <2> QED BY <2>1, <2>2 DEF ResumeInv, Lifted, Frame, ResumesExactly
<1>3. WriteTurns(db.turns, Written(f)) = TurnsOf(c)
  BY <1>1, RowsContinue
<1> HIDE DEF c, f, k
<1>4. /\ db' = [offset |-> Here, chain |-> c.chain, prev |-> c.prev, model |-> c.model,
                active |-> IF c.turn = None THEN None ELSE c.turn.key,
                turns |-> TurnsOf(c), events |-> c.events]
  BY <1>1, <1>2, <1>3
<1>5. /\ db'.offset = Here /\ db'.chain = c.chain /\ db'.prev = c.prev /\ db'.model = c.model
      /\ db'.active = (IF c.turn = None THEN None ELSE c.turn.key)
      /\ db'.turns = TurnsOf(c) /\ db'.events = c.events
  BY <1>4
<1>6. db' \in Db
  <2>1. TurnsOf(c) \subseteq Turn
    <3>1. Written(c) \in Seq(Turn)
      BY <1>2, WrittenTurns
    <3> QED BY <3>1 DEF TurnsOf
  <2>2. (IF c.turn = None THEN None ELSE c.turn.key) \in Ids \cup (1..MaxLines) \cup {None}
    BY <1>2, TurnParts DEF Processor
  <2>3. /\ c.chain \in {"continuous", "parser_gap", "required_invalid"}
        /\ c.prev \in Usage \cup {None} /\ c.model \in Models \cup {None} /\ c.events \in SUBSET Event
    BY <1>2 DEF Processor, ChainStates
  <2> QED BY <1>2, <1>4, <2>1, <2>2, <2>3 DEF Db
<1>7. Len(pending') = 0 /\ pending' \in Seq(Record) /\ Here' = Here
  <2>1. Len(pending') = 0 /\ pending' \in Seq(Record)
    BY <1>1
  <2> QED BY <1>2, <1>5, <2>1 DEF Here
<1>8. FileTyped'
  BY <1>1, <1>2, <1>5, <1>7, LedgerAssumption DEF FileTyped
<1>9. straight' = c /\ db'.offset \in Nat
  BY <1>1, <1>2, <1>5
<1>10. Caught' = c /\ Fresh' = ReadBack'
  <2>1. Caught' = Process(c, db'.offset, <<>>)
    BY <1>1 DEF Caught
  <2>2. Fresh' = Process(ReadBack', db'.offset, <<>>)
    BY <1>1 DEF Fresh
  <2> QED BY <1>9, <2>1, <2>2, ProcessNothing
<1>11. ReadBack' \in Processor /\ Lifted(ReadBack', c, c.closed, c.events)
  <2>1. subagent' \in BOOLEAN /\ c.subagent = subagent'
    BY <1>1, <1>2 DEF FileTyped
  <2>2. InOrder(c, Here)
    BY <1>2
  <2>3. ReadBack' = ReadFrom(db', subagent')
    BY DEF ReadBack, ReadFrom
  <2> QED BY <1>2, <1>5, <1>6, <2>1, <2>2, <2>3, ReadBackContinues
<1>12. ResumesExactly'
  <2>1. Written(straight)' = Written(c) /\ (straight.turn)' = c.turn
    BY <1>9 DEF Written
  <2> QED BY <1>5, <1>9, <2>1 DEF ResumesExactly, TurnsOf
<1>13. InOrder(straight', db'.offset)
  BY <1>2, <1>5, <1>9
<1> QED BY <1>1, <1>2, <1>6, <1>7, <1>8, <1>9, <1>10, <1>11, <1>12, <1>13 DEF ResumeInv

------------------------------------------------------------------------------

LEMMA ResumeStutters ==
  ASSUME ResumeInv, UNCHANGED tokenVars
  PROVE  ResumeInv'
<1>1. /\ subagent' = subagent /\ pending' = pending /\ db' = db /\ straight' = straight
      /\ spent' = spent /\ shown' = shown /\ latest' = latest /\ started' = started
      /\ lossy' = lossy /\ odd' = odd
  BY DEF tokenVars
<1>2. ReadBack' = ReadBack
  BY <1>1 DEF ReadBack
<1>3. Caught' = Caught /\ Fresh' = Fresh /\ Here' = Here
  BY <1>1, <1>2 DEF Caught, Fresh, Here
<1>4. FileTyped' /\ ResumesExactly'
  BY <1>1, <1>3 DEF ResumeInv, FileTyped, ResumesExactly
<1> QED BY <1>1, <1>3, <1>4 DEF ResumeInv

LEMMA AlwaysResume == TokenSpec => []ResumeInv
<1>1. TokenInit => ResumeInv
  BY ResumeInit
<1>2. ResumeInv /\ [TokenNext]_tokenVars => ResumeInv'
  BY ResumeWrite, ResumeCommit, ResumeStutters DEF TokenNext
<1> QED BY <1>1, <1>2, PTL DEF TokenSpec

\* Every variable of the ledger keeps its type: no line, whatever order the lines come in and
\* wherever a batch ends, leaves the processor with a sum that is not a usage or the tables with a
\* row that is not a row (processor.rs: apply; storage/usage.rs: the CHECKs of the tables).
THEOREM TokenTypesHold == TokenSpec => []TokenTypeOK
<1>1. ResumeInv => TokenTypeOK
  <2>1. FileTyped => TokenTypeOK \/ db \notin Db
    BY DEF FileTyped, TokenTypeOK, StartOf
  <2> QED BY <2>1 DEF ResumeInv
<1> QED BY <1>1, AlwaysResume, PTL

\* Wherever the batches end, the rows are those of a run that never stopped: the state row, the
\* turns with their blocks and sums, the events and the active turn (pipeline.rs: a batch starts
\* from load_source_plan and ends in commit_usage).
THEOREM BatchesResumeExactly == TokenSpec => []ResumesExactly
<1>1. ResumeInv => ResumesExactly
  BY DEF ResumeInv
<1> QED BY <1>1, AlwaysResume, PTL

------------------------------------------------------------------------------
(* Which turn an event names, and which models a turn has used.               *)

\* What a line may do, as far as the turn and the events go.
Ends(p, q)     == p.turn # None /\ q.turn = None /\ q.events = p.events
Starts1(p, q, n, line) ==
  /\ line.is = "started" /\ q.events = p.events
  /\ q.turn \in Turn /\ q.turn.at = n /\ q.turn.id = line.id
  /\ q.turn.key = (IF line.id = None THEN n ELSE line.id)
  /\ q.turn.last = None /\ q.turn.accounted = ZeroUsage /\ q.turn.count = 0 /\ q.turn.model = None
  /\ q.turn.blocks = {} => p.chain = "continuous" /\ p.prev \in Usage /\ q.turn.start = p.prev
Makes(p, q, n) == p.turn # None /\ q.turn = None /\ Compensates(p)
                  /\ \E e : Compensation(e, p, n) /\ q.events = p.events \cup {e}
Counts1(p, q, n) == \E e, used : \E kind \in {"normal", "recovered"} :
                      Candidate(e, p, n, kind, used) /\ Advances(p, q, {e})
Rests(p, q) ==
  /\ q.events = p.events
  /\ IF p.turn = None THEN q.turn = None
     ELSE q.turn \in Turn /\ Later(p.turn, q.turn) /\ SameSums(p.turn, q.turn)

\* What becomes of the turn that was open.
Shuts(p, q) ==
  \/ q.closed = p.closed
  \/ p.turn # None /\ \E how \in {"ended", "aborted"} : ClosedAs(p, q, how)

LEMMA ShapesAre ==
  ASSUME NEW p \in Processor, NEW line \in Record, NEW n \in 1..MaxLines
  PROVE  LET q == ApplyRecord(p, n, line) IN
         /\ q \in Processor /\ Shuts(p, q) /\ (line.is = "started" => Starts1(p, q, n, line))
         /\ \/ Rests(p, q) \/ Counts1(p, q, n) \/ Ends(p, q) \/ Makes(p, q, n)
            \/ Starts1(p, q, n, line)
<1> DEFINE q == ApplyRecord(p, n, line)
<1>1. /\ line.is \in {"context", "started", "ended", "tokens", "gap"}
      /\ line.is = "context" => line.model \in Models
      /\ line.is = "started" => line \in StartedRecord
      /\ line.is = "ended" => line \in EndedRecord
      /\ line.is = "tokens" => line \in TokensRecord
  BY RecordKinds
<1>2. q \in Processor
  BY ApplyDoes
<1>3. p \in Processor /\ (p.turn # None => p.turn \in Turn)
  BY DEF Processor
<1>4. ASSUME NEW r, Quiet(p, r)
      PROVE  Shuts(p, r) /\ Rests(p, r)
  BY <1>4 DEF Quiet, Advances, Shuts, Rests
<1>5. CASE line.is = "context"
  <2>1. q = [p EXCEPT !.model = line.model]
    BY <1>5 DEF ApplyRecord
  <2>2. q.turn = p.turn /\ q.closed = p.closed /\ q.events = p.events
    BY <2>1 DEF Processor
  <2> HIDE DEF q
  <2> QED BY <1>2, <1>3, <1>5, <2>2 DEF Shuts, Rests, Later, SameSums, q
<1>6. CASE line.is = "started"
  <2>1. q = StartTurn(p, n, line)
    BY <1>6 DEF ApplyRecord
  <2> DEFINE r == StartTurn(p, n, line)
  <2>2. /\ r.events = p.events
        /\ IF p.turn = None THEN r.closed = p.closed ELSE ClosedAs(p, r, "aborted")
        /\ r.turn \in Turn
        /\ r.turn.key = (IF line.id = None THEN n ELSE line.id)
        /\ r.turn.id = line.id /\ r.turn.at = n
        /\ r.turn.last = None /\ r.turn.accounted = ZeroUsage /\ r.turn.count = 0
        /\ r.turn.model = None
        /\ r.turn.blocks = {} => p.chain = "continuous" /\ p.prev \in Usage /\ r.turn.start = p.prev
    BY <1>1, <1>6, StartTurnDoes
  <2> HIDE DEF r, q
  <2> QED BY <1>2, <1>6, <2>1, <2>2 DEF Shuts, Starts1, q, r
<1>7. CASE line.is = "ended"
  <2>1. q = EndTurn(p, n, line)
    BY <1>7 DEF ApplyRecord
  <2> DEFINE r == EndTurn(p, n, line)
  <2>2. \/ r = p
        \/ p.turn # None /\ r.turn = None /\ r.closed = p.closed /\ r.events = p.events
        \/ /\ p.turn # None /\ r.turn = None /\ ClosedAs(p, r, "ended")
           /\ \/ r.events = p.events
              \/ Compensates(p) /\ \E e : Compensation(e, p, n) /\ r.events = p.events \cup {e}
    BY <1>1, <1>7, EndTurnDoes
  <2> HIDE DEF r, q
  <2>3. CASE r = p
    BY <1>2, <1>3, <1>7, <2>1, <2>3 DEF Shuts, Rests, Later, SameSums, q, r
  <2>4. CASE p.turn # None /\ r.turn = None /\ r.closed = p.closed /\ r.events = p.events
    BY <1>2, <1>7, <2>1, <2>4 DEF Shuts, Ends, q, r
  <2>5. CASE p.turn # None /\ r.turn = None /\ ClosedAs(p, r, "ended") /\ r.events = p.events
    BY <1>2, <1>7, <2>1, <2>5 DEF Shuts, Ends, q, r
  <2>6. CASE /\ p.turn # None /\ r.turn = None /\ ClosedAs(p, r, "ended") /\ Compensates(p)
             /\ \E e : Compensation(e, p, n) /\ r.events = p.events \cup {e}
    BY <1>2, <1>7, <2>1, <2>6 DEF Shuts, Makes, q, r
  <2> QED BY <2>2, <2>3, <2>4, <2>5, <2>6
<1>8. CASE line.is = "tokens"
  <2>1. q = CountTokens(p, n, line)
    BY <1>8 DEF ApplyRecord
  <2> DEFINE r == CountTokens(p, n, line)
  <2>2. \/ Quiet(p, r)
        \/ \E e, used : \E kind \in {"normal", "recovered"} :
             Candidate(e, p, n, kind, used) /\ Advances(p, r, {e})
    BY <1>1, <1>8, TokensAdvance
  <2> HIDE DEF r, q
  <2>3. CASE Quiet(p, r)
    BY <1>2, <1>4, <1>8, <2>1, <2>3 DEF q, r
  <2>4. CASE \E e, used : \E kind \in {"normal", "recovered"} :
               Candidate(e, p, n, kind, used) /\ Advances(p, r, {e})
    <3>1. r.closed = p.closed
      BY <2>4 DEF Advances
    <3> QED BY <1>2, <1>8, <2>1, <2>4, <3>1 DEF Shuts, Counts1, q, r
  <2> QED BY <2>2, <2>3, <2>4
<1>9. CASE line.is = "gap"
  <2>1. q = Interrupt(p, "parser_gap")
    BY <1>9 DEF ApplyRecord
  <2> DEFINE r == Interrupt(p, "parser_gap")
  <2>2. Quiet(p, r)
    BY InterruptIsQuiet DEF ChainStates
  <2> HIDE DEF r, q
  <2> QED BY <1>2, <1>4, <1>9, <2>1, <2>2 DEF q, r
<1> QED BY <1>1, <1>5, <1>6, <1>7, <1>8, <1>9

------------------------------------------------------------------------------

KeyOf(s)   == IF s.id = None THEN s.at ELSE s.id
IsOf(t, s) == t.at = s.at /\ t.id = s.id /\ t.key = KeyOf(s)
Starts     == {started[i] : i \in 1..Len(started)}

\* Every turn of p, and every turn that an event of p names, is one of the starts S; the open one
\* is the last of them, and the events since it started are those that name it.
Follows(p, S) ==
  /\ p.turn # None => \E s \in S : IsOf(p.turn, s) /\ \A r \in S : r.at <= s.at
  /\ \A i \in 1..Len(p.closed) : \E s \in S : IsOf(p.closed[i], s)
  /\ \A e \in p.events : e.turn # None => \E s \in S : e.turn = KeyOf(s) /\ s.at < e.at
  /\ p.turn # None => \A e \in p.events : e.at > p.turn.at => e.turn = p.turn.key

\* No two starts have the same key, nor the same place.
Distinct(S) == \A r, s \in S : KeyOf(r) = KeyOf(s) \/ r.at = s.at => r = s

StartTyped(S, n) == \A s \in S : s.at \in 1..n /\ s.id \in Ids \cup {None}

OwnOf(p) == {e \in p.events : e.at > p.turn.at}

LEMMA OwnIsNamed ==
  ASSUME NEW p \in Processor, NEW S, Follows(p, S), Distinct(S), p.turn # None
  PROVE  /\ OwnOf(p) = {e \in p.events : e.turn = p.turn.key}
         /\ p.turn.key # None
<1>1. PICK s \in S : IsOf(p.turn, s) /\ \A r \in S : r.at <= s.at
  BY DEF Follows
<1>2. p.turn.key # None
  BY TurnParts, LedgerAssumption DEF Processor
<1>3. ASSUME NEW e \in p.events, e.turn = p.turn.key
      PROVE  e.at > p.turn.at
  <2>1. PICK r \in S : e.turn = KeyOf(r) /\ r.at < e.at
    BY <1>2, <1>3 DEF Follows
  <2>2. r = s
    BY <1>1, <1>3, <2>1 DEF Distinct, IsOf
  <2>3. p.turn.at \in 1..MaxLines /\ e.at \in 1..MaxLines
    BY TurnParts DEF Processor, Event
  <2> QED BY <1>1, <2>1, <2>2, <2>3, LedgerAssumption DEF IsOf
<1> QED BY <1>2, <1>3 DEF Follows, OwnOf

------------------------------------------------------------------------------

\* The closed turns of q are listed when those of p are, and the open one of p.
LEMMA ClosedStayListed ==
  ASSUME NEW p \in Processor, NEW q \in Processor, Shuts(p, q), NEW S, NEW T, S \subseteq T,
         Follows(p, S)
  PROVE  \A i \in 1..Len(q.closed) : \E s \in T : IsOf(q.closed[i], s)
<1>1. \A i \in 1..Len(p.closed) : \E s \in T : IsOf(p.closed[i], s)
  BY DEF Follows
<1>2. CASE q.closed = p.closed
  BY <1>1, <1>2
<1>3. CASE p.turn # None /\ \E how \in {"ended", "aborted"} : ClosedAs(p, q, how)
  <2>1. PICK u \in Turn : /\ q.closed = Append(p.closed, u)
                          /\ u.at = p.turn.at /\ u.id = p.turn.id /\ u.key = p.turn.key
    BY <1>3 DEF ClosedAs
  <2>2. PICK s \in T : IsOf(p.turn, s)
    BY <1>3 DEF Follows
  <2>3. IsOf(u, s)
    BY <2>1, <2>2 DEF IsOf
  <2>4. p.closed \in Seq(Turn)
    BY DEF Processor
  <2>5. \A i \in 1..Len(q.closed) :
          q.closed[i] = u \/ \E j \in 1..Len(p.closed) : q.closed[i] = p.closed[j]
    <3> DEFINE shut == p.closed
    <3> HIDE DEF shut
    <3>1. \A i \in 1..Len(Append(shut, u)) :
            Append(shut, u)[i] = u \/ \E j \in 1..Len(shut) : Append(shut, u)[i] = shut[j]
      BY <2>4 DEF shut
    <3> QED BY <2>1, <3>1 DEF shut
  <2> QED BY <1>1, <2>2, <2>3, <2>5
<1> QED BY <1>2, <1>3 DEF Shuts

LEMMA FollowsOn ==
  ASSUME NEW p \in Processor, NEW q \in Processor, NEW n \in Nat, NEW S, Follows(p, S),
         InOrder(p, n), n + 1 \in 1..MaxLines, Shuts(p, q),
         Rests(p, q) \/ Counts1(p, q, n + 1) \/ Ends(p, q) \/ Makes(p, q, n + 1)
  PROVE  Follows(q, S)
<1>1. \A i \in 1..Len(q.closed) : \E s \in S : IsOf(q.closed[i], s)
  BY ClosedStayListed
<1>2. CASE Rests(p, q) \/ Ends(p, q)
  <2>1. q.events = p.events /\ (q.turn # None => p.turn # None /\ q.turn.at = p.turn.at
                                  /\ q.turn.id = p.turn.id /\ q.turn.key = p.turn.key)
    BY <1>2 DEF Rests, Ends, Later
  <2> QED BY <1>1, <2>1 DEF Follows, IsOf
<1>3. ASSUME NEW e, e.at = n + 1, e.turn = KeyNow(p), q.events = p.events \cup {e},
             q.turn # None => p.turn # None /\ q.turn.at = p.turn.at
                                /\ q.turn.id = p.turn.id /\ q.turn.key = p.turn.key
      PROVE  Follows(q, S)
  <2>1. ASSUME e.turn # None
        PROVE  \E s \in S : e.turn = KeyOf(s) /\ s.at < e.at
    <3>1. p.turn # None /\ e.turn = p.turn.key
      BY <1>3, <2>1 DEF KeyNow
    <3>2. PICK s \in S : IsOf(p.turn, s)
      BY <3>1 DEF Follows
    <3>3. p.turn.at <= n /\ p.turn.at \in 1..MaxLines
      BY <3>1, TurnParts DEF InOrder, Processor
    <3> QED BY <1>3, <3>1, <3>2, <3>3, LedgerAssumption DEF IsOf
  <2>2. \A f \in q.events : f.turn # None => \E s \in S : f.turn = KeyOf(s) /\ s.at < f.at
    BY <1>3, <2>1 DEF Follows
  <2>3. q.turn # None => \A f \in q.events : f.at > q.turn.at => f.turn = q.turn.key
    BY <1>3 DEF Follows, KeyNow
  <2>4. q.turn # None => \E s \in S : IsOf(q.turn, s) /\ \A r \in S : r.at <= s.at
    BY <1>3 DEF Follows, IsOf
  <2> QED BY <1>1, <2>2, <2>3, <2>4 DEF Follows
<1>4. CASE Counts1(p, q, n + 1)
  <2>1. PICK e, used, kind : Candidate(e, p, n + 1, kind, used) /\ Advances(p, q, {e})
    BY <1>4 DEF Counts1
  <2>2. /\ e.at = n + 1 /\ e.turn = KeyNow(p) /\ q.events = p.events \cup {e}
        /\ q.turn # None => p.turn # None /\ q.turn.at = p.turn.at
                              /\ q.turn.id = p.turn.id /\ q.turn.key = p.turn.key
    BY <2>1 DEF Candidate, Advances, Later
  <2> QED BY <1>3, <2>2
<1>5. CASE Makes(p, q, n + 1)
  <2>1. PICK e : Compensation(e, p, n + 1) /\ q.events = p.events \cup {e}
    BY <1>5 DEF Makes
  <2>2. e.at = n + 1 /\ e.turn = KeyNow(p)
    BY <1>5, <2>1 DEF Compensation, KeyNow, Makes
  <2> QED BY <1>3, <1>5, <2>1, <2>2 DEF Makes
<1> QED BY <1>2, <1>4, <1>5

LEMMA FollowsAStart ==
  ASSUME NEW p \in Processor, NEW q \in Processor, NEW n \in Nat, NEW S, Follows(p, S),
         InOrder(p, n), n + 1 \in 1..MaxLines, Shuts(p, q), NEW line, Starts1(p, q, n + 1, line),
         StartTyped(S, n), NEW s, s.at = n + 1, s.id = line.id
  PROVE  Follows(q, S \cup {s})
<1>1. \A i \in 1..Len(q.closed) : \E r \in S \cup {s} : IsOf(q.closed[i], r)
  BY ClosedStayListed
<1>2. q.events = p.events /\ IsOf(q.turn, s) /\ q.turn.at = n + 1
  BY DEF Starts1, IsOf, KeyOf
<1>3. \A r \in S \cup {s} : r.at <= s.at
  BY DEF StartTyped
<1>4. \A e \in q.events : e.at <= n /\ e.at \in 1..MaxLines
  BY <1>2 DEF InOrder, Processor, Event
<1>5. \A e \in q.events : ~(e.at > q.turn.at)
  BY <1>2, <1>4, LedgerAssumption
<1>6. \A e \in q.events : e.turn # None => \E r \in S \cup {s} : e.turn = KeyOf(r) /\ r.at < e.at
  BY <1>2 DEF Follows
<1> QED BY <1>1, <1>2, <1>3, <1>5, <1>6 DEF Follows

------------------------------------------------------------------------------

Unblocked(p) == p.turn # None /\ p.turn.blocks = {}

\* The model of a turn that nothing blocks is the one of all its events, if they have one.
ModelsFit(p) == Unblocked(p) =>
  /\ p.turn.model = None <=> OwnOf(p) = {}
  /\ p.turn.model \in Models => \A e \in OwnOf(p) : e.model = p.turn.model

\* An open turn that was not started by this line has the events of before, and the new one.
LEMMA OwnAfter ==
  ASSUME NEW p \in Processor, NEW n \in Nat, n + 1 \in 1..MaxLines, InOrder(p, n), p.turn # None,
         NEW q, q.turn.at = p.turn.at
  PROVE  /\ q.events = p.events => OwnOf(q) = OwnOf(p)
         /\ \A e : e.at = n + 1 /\ q.events = p.events \cup {e} =>
              OwnOf(q) = OwnOf(p) \cup {e} /\ e \notin OwnOf(p) /\ e \notin p.events
<1>1. /\ p.turn.at <= n /\ p.turn.at \in 1..MaxLines
      /\ \A f \in p.events : f.at <= n /\ f.at \in 1..MaxLines
  BY TurnParts DEF InOrder, Processor, Event
<1>2. ASSUME NEW e, e.at = n + 1, q.events = p.events \cup {e}
      PROVE  OwnOf(q) = OwnOf(p) \cup {e} /\ e \notin OwnOf(p) /\ e \notin p.events
  <2>1. e.at > q.turn.at /\ e \notin p.events
    BY <1>1, <1>2, LedgerAssumption
  <2> QED BY <1>2, <2>1 DEF OwnOf
<1> QED BY <1>2 DEF OwnOf

LEMMA ModelsStay ==
  ASSUME NEW p \in Processor, NEW q \in Processor, NEW n \in Nat, n + 1 \in 1..MaxLines,
         InOrder(p, n), ModelsFit(p), NEW line,
         \/ Rests(p, q) \/ Counts1(p, q, n + 1) \/ Ends(p, q) \/ Makes(p, q, n + 1)
         \/ Starts1(p, q, n + 1, line)
  PROVE  ModelsFit(q)
<1> SUFFICES ASSUME Unblocked(q)
             PROVE  ModelsFit(q)
  BY DEF ModelsFit
<1>1. q.turn # None /\ q.turn.blocks = {}
  BY DEF Unblocked
<1>2. CASE Rests(p, q)
  <2>1. Unblocked(p) /\ p.turn # None /\ q.turn.at = p.turn.at /\ q.turn.model = p.turn.model
    BY <1>1, <1>2 DEF Rests, Unblocked, Later, SameSums
  <2>2. OwnOf(q) = OwnOf(p)
    BY <1>2, <2>1, OwnAfter DEF Rests
  <2> QED BY <2>1, <2>2 DEF ModelsFit
<1>3. CASE Counts1(p, q, n + 1)
  <2>1. PICK e, used, kind : Candidate(e, p, n + 1, kind, used) /\ Advances(p, q, {e})
    BY <1>3 DEF Counts1
  <2>2. /\ Unblocked(p) /\ p.turn # None /\ q.turn.at = p.turn.at /\ Counts(p.turn, q.turn, e)
        /\ e.at = n + 1 /\ q.events = p.events \cup {e} /\ e \in Event
    BY <1>1, <2>1 DEF Advances, Unblocked, Later, Candidate
  <2>3. OwnOf(q) = OwnOf(p) \cup {e}
    BY <2>2, OwnAfter
  <2>4. /\ e.model \in Models
        /\ q.turn.model = (IF p.turn.model \in {None, e.model} THEN e.model ELSE Mixed)
    BY <1>1, <2>2 DEF Counts, Event
  <2>5. q.turn.model # None
    BY <2>4, LedgerAssumption
  <2>6. q.turn.model \in Models => q.turn.model = e.model /\ p.turn.model \in {None, e.model}
    BY <2>4, LedgerAssumption
  <2> QED BY <2>2, <2>3, <2>4, <2>5, <2>6 DEF ModelsFit
<1>4. CASE Starts1(p, q, n + 1, line)
  <2>1. q.turn.model = None /\ q.turn.at = n + 1 /\ q.events = p.events
    BY <1>4 DEF Starts1
  <2>2. \A f \in p.events : f.at <= n /\ f.at \in 1..MaxLines
    BY DEF InOrder, Processor, Event
  <2>3. OwnOf(q) = {}
    BY <2>1, <2>2, LedgerAssumption DEF OwnOf
  <2> QED BY <2>1, <2>3, LedgerAssumption DEF ModelsFit
<1> QED BY <1>1, <1>2, <1>3, <1>4 DEF Ends, Makes

Attributed(E) ==
  \A e \in E : e.kind = "compensation" =>
    LET models == {f.model : f \in {g \in E : g.turn = e.turn /\ g.at < e.at}} IN
    e.model = UnknownModel \/ models = {e.model}

LEMMA AttributedAfter ==
  ASSUME NEW E \in SUBSET Event, NEW n \in Nat, \A f \in E : f.at <= n, Attributed(E),
         NEW e \in Event, e.at = n + 1,
         e.kind = "compensation" =>
           e.model = UnknownModel \/ {f.model : f \in {g \in E : g.turn = e.turn}} = {e.model}
  PROVE  Attributed(E \cup {e})
<1>1. \A f \in E : f.at \in Nat /\ f.at <= n
  BY LedgerAssumption DEF Event
<1>2. \A f \in E : {g \in E \cup {e} : g.turn = f.turn /\ g.at < f.at}
                     = {g \in E : g.turn = f.turn /\ g.at < f.at}
  BY <1>1
<1>3. {g \in E \cup {e} : g.turn = e.turn /\ g.at < e.at} = {g \in E : g.turn = e.turn}
  BY <1>1
<1> QED BY <1>2, <1>3 DEF Attributed

LEMMA AttributedStays ==
  ASSUME NEW p \in Processor, NEW q \in Processor, NEW n \in Nat, n + 1 \in 1..MaxLines,
         InOrder(p, n), ModelsFit(p), Attributed(p.events), NEW line, NEW S, Follows(p, S), Distinct(S),
         \/ Rests(p, q) \/ Counts1(p, q, n + 1) \/ Ends(p, q) \/ Makes(p, q, n + 1)
         \/ Starts1(p, q, n + 1, line)
  PROVE  Attributed(q.events)
<1>1. p.events \in SUBSET Event /\ \A f \in p.events : f.at <= n
  BY DEF InOrder, Processor
<1>2. CASE q.events = p.events
  BY <1>2
<1>3. CASE Counts1(p, q, n + 1)
  <2>1. PICK e, used : \E kind \in {"normal", "recovered"} :
               Candidate(e, p, n + 1, kind, used) /\ Advances(p, q, {e})
    BY <1>3 DEF Counts1
  <2>2. e \in Event /\ e.at = n + 1 /\ e.kind # "compensation" /\ q.events = p.events \cup {e}
    BY <2>1 DEF Candidate, Advances
  <2> QED BY <1>1, <2>2, AttributedAfter
<1>4. CASE Makes(p, q, n + 1)
  <2>1. PICK e : Compensation(e, p, n + 1) /\ q.events = p.events \cup {e}
    BY <1>4 DEF Makes
  <2>2. /\ p.turn # None /\ Unblocked(p) /\ p.turn.model # None /\ e \in Event /\ e.at = n + 1
        /\ e.turn = p.turn.key
        /\ e.model = (IF p.turn.model = Mixed THEN UnknownModel ELSE p.turn.model)
    BY <1>4, <2>1 DEF Makes, Compensates, Unblocked, Compensation
  <2>3. OwnOf(p) = {f \in p.events : f.turn = e.turn}
    BY <2>2, OwnIsNamed
  <2>4. e.model = UnknownModel \/ {f.model : f \in OwnOf(p)} = {e.model}
    <3>1. CASE p.turn.model = Mixed
      BY <2>2, <3>1
    <3>2. CASE p.turn.model # Mixed
      <4>1. p.turn.model \in Models /\ e.model = p.turn.model
        BY <2>2, <3>2, TurnParts DEF Processor
      <4>2. OwnOf(p) # {} /\ \A f \in OwnOf(p) : f.model = e.model
        BY <2>2, <4>1 DEF ModelsFit
      <4> QED BY <4>2
    <3> QED BY <3>1, <3>2
  <2> QED BY <1>1, <2>1, <2>2, <2>3, <2>4, AttributedAfter
<1> QED BY <1>2, <1>3, <1>4 DEF Rests, Ends, Starts1

------------------------------------------------------------------------------

\* A commit moves nothing but the place of the lines.
LEMMA CommitKeeps ==
  ASSUME ResumeInv, CommitBatch
  PROVE  /\ Caught' = Caught /\ Here' = Here /\ straight' = Caught /\ pending' = <<>>
         /\ db'.events = db.events \cup Fresh.events
         /\ UNCHANGED <<subagent, spent, shown, latest, started, lossy, odd>>
<1>1. /\ straight' = Caught /\ pending' = <<>> /\ db'.offset = Here
      /\ db'.events = db.events \cup Fresh.events
      /\ UNCHANGED <<subagent, spent, shown, latest, started, lossy, odd>>
  BY CommitIs DEF ResumeInv
<1>2. Here \in Nat /\ Len(<<>>) = 0
  BY DEF ResumeInv, FileTyped, Here
<1>3. Here' = Here
  BY <1>1, <1>2 DEF Here
<1>4. Caught' = Process(straight', db'.offset, <<>>)
  BY <1>1 DEF Caught
<1>5. Caught' = Caught
  BY <1>1, <1>2, <1>4, ProcessNothing
<1> QED BY <1>1, <1>3, <1>5

LEMMA StutterKeeps ==
  ASSUME UNCHANGED tokenVars
  PROVE  /\ Caught' = Caught /\ Here' = Here
         /\ UNCHANGED <<subagent, pending, db, straight, spent, shown, latest, started, lossy, odd>>
BY DEF Caught, Here, tokenVars

\* The start that a line makes known.
StartIs(s, line) ==
  /\ s = [id |-> line.id, at |-> Here + 1, spent |-> spent] /\ started' = <<s>> \o started
  /\ line.id \in Ids \cup {None} /\ NothingSpent
  /\ ReusedIds \/ line.id = None \/ \A i \in DOMAIN started : started[i].id # line.id

LEMMA WriteStarts ==
  ASSUME FileTyped, Write
  PROVE  \E line, loses : /\ Wrote(line, loses)
                          /\ IF line.is = "started" THEN \E s : StartIs(s, line)
                             ELSE started' = started
<1>1. Wrote1
  BY WriteIs
<1>2. CASE \E m \in Models : \E line : Wrote(line, FALSE) /\ line.is = "context" /\ line.model = m
             /\ NothingSpent /\ UNCHANGED started
  BY <1>2
<1>3. ASSUME NEW id \in Ids \cup {None}, NEW line,
             ReusedIds \/ id = None \/ \A i \in DOMAIN started : started[i].id # id,
             Wrote(line, FALSE), line.is = "started", line.id = id,
             started' = <<[id |-> id, at |-> Here + 1, spent |-> spent]>> \o started,
             NothingSpent
      PROVE  \E s : StartIs(s, line)
  BY <1>3 DEF StartIs
<1>4. CASE \E line : Wrote(line, FALSE) /\ line.is = "ended" /\ NothingSpent /\ UNCHANGED started
  BY <1>4
<1>5. CASE \E amount, restart, line, loses :
             Wrote(line, loses) /\ SnapshotOfMore(line, amount, restart, loses)
  BY <1>5 DEF SnapshotOfMore, Snapped, TokensRecord, Spend
<1>6. CASE \E line : Wrote(line, FALSE) /\ SnapshotAgain(line, FALSE)
  BY <1>6 DEF SnapshotAgain, Snapped, TokensRecord
<1>7. CASE \E amount \in Amounts : \E line :
             /\ Owned \/ BadPrefix
             /\ Wrote(line, TRUE) /\ Spend(amount, FALSE)
             /\ line.is = "gap" \/ (line.is = "tokens" /\ line.total.kind = "invalid")
  BY <1>7 DEF Spend
<1> QED BY <1>1, <1>2, <1>3, <1>4, <1>5, <1>6, <1>7 DEF Wrote1

LEMMA StartAdded ==
  ASSUME FileTyped, NEW s, NEW line, StartIs(s, line)
  PROVE  /\ Starts' = Starts \cup {s}
         /\ Len(started') = Len(started) + 1 /\ started'[1] = s
         /\ \A i \in 1..Len(started) : started'[i + 1] = started[i]
         /\ \A i \in 2..Len(started') : i - 1 \in 1..Len(started) /\ started'[i] = started[i - 1]
<1>1. started \in Seq(StartOf(spent)) /\ started' = <<s>> \o started
  BY DEF FileTyped, StartIs
<1>2. Len(started) \in Nat
  BY <1>1
<1>3. /\ Len(<<s>> \o started) = Len(started) + 1 /\ (<<s>> \o started)[1] = s
      /\ \A i \in 1..Len(started) : (<<s>> \o started)[i + 1] = started[i]
  BY <1>1
<1>4. \A i \in 2..(Len(started) + 1) : i - 1 \in 1..Len(started) /\ (i - 1) + 1 = i
  BY <1>2
<1>5. 1..(Len(started) + 1) = {1} \cup 2..(Len(started) + 1)
  BY <1>2
<1>6. \A i \in 2..(Len(started) + 1) : started'[i] = started[i - 1]
  BY <1>1, <1>3, <1>4
<1>7. {started'[i] : i \in 1..(Len(started) + 1)} = Starts \cup {s}
  <2>1. ASSUME NEW i \in 1..(Len(started) + 1)
        PROVE  started'[i] \in Starts \cup {s}
    BY <1>1, <1>3, <1>4, <1>5, <1>6 DEF Starts
  <2>2. ASSUME NEW i \in 1..Len(started)
        PROVE  \E j \in 1..(Len(started) + 1) : started'[j] = started[i]
    <3>1. i + 1 \in 1..(Len(started) + 1) /\ started'[i + 1] = started[i]
      BY <1>1, <1>2, <1>3
    <3> QED BY <3>1
  <2>3. 1 \in 1..(Len(started) + 1) /\ started'[1] = s
    BY <1>1, <1>2, <1>3
  <2> DEFINE now == {started'[i] : i \in 1..(Len(started) + 1)}
  <2>4. now \subseteq Starts \cup {s}
    BY <2>1
  <2>5. s \in now
    BY <2>3
  <2>6. ASSUME NEW r \in Starts
        PROVE  r \in now
    <3>1. PICK i \in 1..Len(started) : r = started[i]
      BY <2>6 DEF Starts
    <3> QED BY <2>2, <3>1
  <2> HIDE DEF now
  <2>7. now = Starts \cup {s}
    BY <2>4, <2>5, <2>6
  <2> QED BY <2>7 DEF now
<1> QED BY <1>1, <1>3, <1>4, <1>6, <1>7 DEF Starts

------------------------------------------------------------------------------

TurnsListed(p, S) == \A t \in TurnsOf(p) : \E s \in S : IsOf(t, s)

NamesInv ==
  /\ ResumeInv
  /\ StartTyped(Starts, Here) /\ Follows(Caught, Starts) /\ TurnsListed(straight, Starts)
  /\ \A i, j \in 1..Len(started) : i < j => started[j].at < started[i].at
  /\ ModelsFit(Caught)

\* While no id is used twice:
OnceInv == Distinct(Starts) /\ Attributed(Caught.events) /\ Attributed(straight.events)

LEMMA NamesInit ==
  ASSUME TokenInit
  PROVE  NamesInv /\ OnceInv
<1>1. ResumeInv
  BY ResumeInit
<1>2. /\ started = <<>> /\ pending = <<>> /\ db.offset = 0 /\ straight = NewProcessor(subagent)
      /\ db.events = {} /\ db.turns = {}
  BY DEF TokenInit
<1>3. Caught = straight /\ straight.turn = None /\ straight.closed = <<>> /\ straight.events = {}
  BY <1>2, ProcessNothing DEF Caught, NewProcessor
<1>4. Len(started) = 0 /\ Starts = {}
  BY <1>2 DEF Starts
<1>5. TurnsOf(straight) = {}
  BY <1>1, <1>2 DEF ResumeInv, ResumesExactly, TurnsOf
<1>6. Follows(Caught, Starts) /\ ModelsFit(Caught)
  BY <1>3 DEF Follows, ModelsFit, Unblocked
<1>7. Distinct(Starts) /\ Attributed({}) /\ StartTyped(Starts, Here) /\ TurnsListed(straight, Starts)
  BY <1>4, <1>5 DEF Distinct, Attributed, StartTyped, TurnsListed
<1> QED BY <1>1, <1>3, <1>4, <1>6, <1>7 DEF NamesInv, OnceInv

LEMMA NamesWrite ==
  ASSUME NamesInv, Write, Len(pending) < MaxBatch
  PROVE  /\ NamesInv'
         /\ ~ReusedIds /\ OnceInv => OnceInv'
<1> DEFINE n == Here
           c == Caught
<1>1. ResumeInv /\ ResumeInv' /\ FileTyped
  BY ResumeWrite DEF NamesInv, ResumeInv
<1>2. PICK line, loses : /\ Wrote(line, loses)
                         /\ IF line.is = "started" THEN \E s : StartIs(s, line)
                            ELSE started' = started
  BY <1>1, WriteStarts
<1>3. /\ c' = ApplyRecord(c, n + 1, line) /\ n' = n + 1 /\ n + 1 \in 1..MaxLines /\ n \in Nat
  BY <1>1, <1>2, NextLine
<1>4. c \in Processor /\ c' \in Processor /\ InOrder(c, n) /\ line \in Record /\ straight' = straight
  BY <1>1, <1>2 DEF ResumeInv, Wrote
<1>5. /\ Shuts(c, c') /\ (line.is = "started" => Starts1(c, c', n + 1, line))
      /\ \/ Rests(c, c') \/ Counts1(c, c', n + 1) \/ Ends(c, c') \/ Makes(c, c', n + 1)
         \/ Starts1(c, c', n + 1, line)
  BY <1>3, <1>4, ShapesAre
<1>6. /\ StartTyped(Starts, n) /\ Follows(c, Starts) /\ TurnsListed(straight, Starts) /\ ModelsFit(c)
      /\ \A i, j \in 1..Len(started) : i < j => started[j].at < started[i].at
  BY DEF NamesInv
<1>7. TurnsOf(straight)' = TurnsOf(straight)
  BY <1>4 DEF TurnsOf, Written
<1> HIDE DEF c, n
<1>8. ModelsFit(c')
  BY <1>3, <1>4, <1>5, <1>6, ModelsStay
<1>9. CASE line.is = "started"
  <2>1. PICK s : StartIs(s, line)
    BY <1>2, <1>9
  <2>2. /\ s.at = n + 1 /\ s.id = line.id /\ line.id \in Ids \cup {None}
        /\ ReusedIds \/ line.id = None \/ \A i \in DOMAIN started : started[i].id # line.id
    BY <2>1 DEF StartIs, n
  <2>3. /\ Starts' = Starts \cup {s}
        /\ Len(started') = Len(started) + 1 /\ started'[1] = s
        /\ \A i \in 2..Len(started') : i - 1 \in 1..Len(started) /\ started'[i] = started[i - 1]
    BY <1>1, <2>1, StartAdded
  <2>4. Follows(c', Starts')
    BY <1>3, <1>4, <1>5, <1>6, <1>9, <2>2, <2>3, FollowsAStart
  <2>5. StartTyped(Starts', n + 1)
    BY <1>3, <1>6, <2>2, <2>3 DEF StartTyped
  <2>6. TurnsListed(straight, Starts)'
    BY <1>6, <1>7, <2>3 DEF TurnsListed
  <2>7. \A i, j \in 1..Len(started') : i < j => started'[j].at < started'[i].at
    <3>1. SUFFICES ASSUME NEW i \in 1..Len(started'), NEW j \in 1..Len(started'), i < j
                   PROVE  started'[j].at < started'[i].at
      OBVIOUS
    <3>2. Len(started) \in Nat
      BY <1>1 DEF FileTyped
    <3>3. j \in 2..Len(started') /\ j - 1 \in 1..Len(started) /\ started'[j] = started[j - 1]
      BY <2>3, <3>1, <3>2
    <3>4. CASE i = 1
      <4>1. started'[j] \in Starts
        BY <3>3 DEF Starts
      <4>2. started'[j].at \in 1..n
        BY <1>6, <4>1 DEF StartTyped
      <4> QED BY <1>3, <2>2, <2>3, <3>4, <4>2
    <3>5. CASE i # 1
      <4>1. i \in 2..Len(started') /\ i - 1 \in 1..Len(started) /\ started'[i] = started[i - 1]
            /\ i - 1 < j - 1
        BY <2>3, <3>1, <3>2, <3>5
      <4> QED BY <1>6, <3>3, <4>1
    <3> QED BY <3>4, <3>5
  <2>8. ASSUME ~ReusedIds, OnceInv
        PROVE  Distinct(Starts')
    <3>1. Distinct(Starts)
      BY <2>8 DEF OnceInv
    <3>2. ASSUME NEW r \in Starts
          PROVE  KeyOf(r) # KeyOf(s) /\ r.at # s.at
      <4>1. r.at \in 1..n /\ r.id \in Ids \cup {None}
        BY <1>6, <3>2 DEF StartTyped
      <4>2. r.at # s.at
        BY <1>3, <2>2, <4>1
      <4>3. line.id # None => r.id # line.id
        <5>1. PICK i \in 1..Len(started) : r = started[i]
          BY <3>2 DEF Starts
        <5>2. DOMAIN started = 1..Len(started)
          BY <1>1 DEF FileTyped
        <5> QED BY <2>2, <2>8, <5>1, <5>2
      <4>4. r.at \in Nat /\ s.at \in Nat
        BY <1>3, <2>2, <4>1
      <4> QED BY <2>2, <4>1, <4>2, <4>3, <4>4, LedgerAssumption DEF KeyOf
    <3> QED BY <2>3, <3>1, <3>2 DEF Distinct
  <2> QED BY <1>1, <1>3, <1>8, <2>3, <2>4, <2>5, <2>6, <2>7, <2>8, <1>4, <1>5, <1>6, AttributedStays
       DEF NamesInv, OnceInv, c, n
<1>10. CASE line.is # "started"
  <2>1. started' = started /\ Starts' = Starts
    BY <1>2, <1>10 DEF Starts
  <2>2. ~Starts1(c, c', n + 1, line)
    BY <1>10 DEF Starts1
  <2>3. Follows(c', Starts)
    BY <1>3, <1>4, <1>5, <1>6, <2>2, FollowsOn
  <2>4. StartTyped(Starts, n + 1)
    BY <1>3, <1>6 DEF StartTyped
  <2>5. TurnsListed(straight, Starts)'
    BY <1>6, <1>7, <2>1 DEF TurnsListed
  <2>6. ASSUME OnceInv
        PROVE  OnceInv'
    <3>1. Distinct(Starts) /\ Attributed(c.events) /\ Attributed(straight.events)
      BY <2>6 DEF OnceInv, c
    <3>2. Attributed(c'.events)
      BY <1>3, <1>4, <1>5, <1>6, <3>1, AttributedStays
    <3> QED BY <1>4, <2>1, <3>1, <3>2 DEF OnceInv, c
  <2> QED BY <1>1, <1>3, <1>6, <1>8, <2>1, <2>3, <2>4, <2>5, <2>6 DEF NamesInv, c, n
<1> QED BY <1>9, <1>10

LEMMA NamesCommit ==
  ASSUME NamesInv, CommitBatch
  PROVE  NamesInv' /\ (OnceInv => OnceInv')
<1>1. ResumeInv' /\ Caught \in Processor
  BY ResumeCommit DEF NamesInv, ResumeInv
<1>2. Caught' = Caught /\ Here' = Here /\ straight' = Caught /\ started' = started
  BY CommitKeeps DEF NamesInv
<1>3. Starts' = Starts
  BY <1>2 DEF Starts
<1>4. TurnsOf(straight)' = TurnsOf(Caught)
  BY <1>2 DEF TurnsOf, Written
<1>5. \A t \in TurnsOf(Caught) : \E s \in Starts : IsOf(t, s)
  <2>1. TurnsOf(Caught) = {Caught.closed[i] : i \in 1..Len(Caught.closed)}
                            \cup (IF Caught.turn = None THEN {} ELSE {Caught.turn})
    BY <1>1, WrittenTurns
  <2> QED BY <2>1 DEF NamesInv, Follows
<1>6. TurnsListed(straight, Starts)'
  BY <1>3, <1>4, <1>5 DEF TurnsListed
<1> QED BY <1>1, <1>2, <1>3, <1>6 DEF NamesInv, OnceInv

LEMMA NamesStutter ==
  ASSUME NamesInv, UNCHANGED tokenVars
  PROVE  NamesInv' /\ (OnceInv => OnceInv')
<1>1. ResumeInv'
  BY ResumeStutters DEF NamesInv
<1>2. Caught' = Caught /\ Here' = Here /\ straight' = straight /\ started' = started
  BY StutterKeeps
<1>3. Starts' = Starts /\ TurnsOf(straight)' = TurnsOf(straight)
  BY <1>2 DEF Starts, TurnsOf, Written
<1> QED BY <1>1, <1>2, <1>3 DEF NamesInv, OnceInv, TurnsListed

LEMMA AlwaysNamed == TokenSpec => []NamesInv
<1>1. TokenInit => NamesInv
  BY NamesInit
<1>2. NamesInv /\ [TokenNext]_tokenVars => NamesInv'
  BY NamesWrite, NamesCommit, NamesStutter DEF TokenNext
<1> QED BY <1>1, <1>2, PTL DEF TokenSpec

\* Usage that the end of a turn makes up for goes to a model only when that model produced every
\* counted line of the turn, for every file that does not start the same turn id twice: what
\* observe_turn_model keeps on the turn is what its events say, across batches and restarts
\* (processor.rs: observe_turn_model, compensate).
THEOREM CompensationGoesToItsModel ==
  ASSUME ReusedIds = FALSE
  PROVE  TokenSpec => []CompensationIsAttributed
<1>1. TokenInit => NamesInv /\ OnceInv
  BY NamesInit
<1>2. NamesInv /\ OnceInv /\ [TokenNext]_tokenVars => NamesInv' /\ OnceInv'
  BY NamesWrite, NamesCommit, NamesStutter DEF TokenNext
<1>3. NamesInv /\ OnceInv => CompensationIsAttributed
  BY DEF NamesInv, OnceInv, ResumeInv, ResumesExactly, CompensationIsAttributed, Attributed
<1> QED BY <1>1, <1>2, <1>3, PTL DEF TokenSpec

------------------------------------------------------------------------------
(* What events add up to.                                                     *)

InputOf  == [e \in Event |-> e.usage.input]
CachedOf == [e \in Event |-> e.usage.cached]

LEMMA UsageSums ==
  ASSUME NEW E \in SUBSET Event, IsFiniteSet(E)
  PROVE  /\ UsageOf(E) = [input  |-> SumFunctionOnSet(InputOf, E),
                          cached |-> SumFunctionOnSet(CachedOf, E)]
         /\ SumFunctionOnSet(InputOf, E) \in Nat /\ SumFunctionOnSet(CachedOf, E) \in Nat
<1>1. \A e \in E : InputOf[e] = e.usage.input /\ CachedOf[e] = e.usage.cached
                     /\ InputOf[e] \in Nat /\ CachedOf[e] \in Nat
  BY UsageIsTotal DEF InputOf, CachedOf, Event
<1> DEFINE f == [e \in E |-> e.usage.input]
           g == [e \in E |-> e.usage.cached]
<1>2. SumFunction(f) = SumFunctionOnSet(f, E) /\ SumFunction(g) = SumFunctionOnSet(g, E)
  BY DEF SumFunction
<1>3. (\A e \in E : f[e] = InputOf[e]) /\ (\A e \in E : g[e] = CachedOf[e])
  BY <1>1
<1>4. UsageOf(E) = [input |-> SumFunction(f), cached |-> SumFunction(g)]
  BY DEF UsageOf
<1> HIDE DEF f, g
<1>5. /\ SumFunctionOnSet(f, E) = SumFunctionOnSet(InputOf, E)
      /\ SumFunctionOnSet(g, E) = SumFunctionOnSet(CachedOf, E)
  BY <1>3, SumsAgree
<1>6. SumFunctionOnSet(InputOf, E) \in Nat /\ SumFunctionOnSet(CachedOf, E) \in Nat
  BY <1>1, SumIsNatural
<1> QED BY <1>2, <1>4, <1>5, <1>6

LEMMA UsageOfNone == UsageOf({}) = ZeroUsage
<1>1. /\ UsageOf({}) = [input  |-> SumFunctionOnSet(InputOf, {}),
                        cached |-> SumFunctionOnSet(CachedOf, {})]
  BY UsageSums, FS_EmptySet
<1>2. SumFunctionOnSet(InputOf, {}) = 0 /\ SumFunctionOnSet(CachedOf, {}) = 0
  BY SumUnfolds, FS_EmptySet
<1> QED BY <1>1, <1>2 DEF ZeroUsage

LEMMA UsageOfIsTotal ==
  ASSUME NEW E \in SUBSET Event, IsFiniteSet(E)
  PROVE  /\ UsageOf(E) \in Tallies
         /\ UsageOf(E).input \in Nat /\ UsageOf(E).cached \in Nat
BY UsageSums DEF Tallies

LEMMA UsageOfSplit ==
  ASSUME NEW E \in SUBSET Event, IsFiniteSet(E), NEW D \in SUBSET E
  PROVE  /\ IsFiniteSet(D) /\ IsFiniteSet(E \ D)
         /\ UsageOf(E) = Plus(UsageOf(E \ D), UsageOf(D))
<1>1. IsFiniteSet(D) /\ IsFiniteSet(E \ D) /\ D \in SUBSET Event /\ E \ D \in SUBSET Event
      /\ (E \ D) \cup D = E /\ (E \ D) \cap D = {}
  BY FS_Subset
<1>2. \A e \in (E \ D) \cup D : InputOf[e] \in Nat /\ CachedOf[e] \in Nat
  BY UsageIsTotal DEF InputOf, CachedOf, Event
<1>3. SumFunctionOnSet(InputOf, (E \ D) \cup D)
        = SumFunctionOnSet(InputOf, E \ D) + SumFunctionOnSet(InputOf, D)
  BY <1>1, <1>2, SumSplits
<1>4. SumFunctionOnSet(CachedOf, (E \ D) \cup D)
        = SumFunctionOnSet(CachedOf, E \ D) + SumFunctionOnSet(CachedOf, D)
  BY <1>1, <1>2, SumSplits
<1>5. /\ UsageOf(E).input = SumFunctionOnSet(InputOf, E)
      /\ UsageOf(E).cached = SumFunctionOnSet(CachedOf, E)
      /\ UsageOf(E) = [input |-> SumFunctionOnSet(InputOf, E), cached |-> SumFunctionOnSet(CachedOf, E)]
  BY UsageSums
<1>6. /\ UsageOf(E \ D).input = SumFunctionOnSet(InputOf, E \ D)
      /\ UsageOf(E \ D).cached = SumFunctionOnSet(CachedOf, E \ D)
  BY <1>1, UsageSums
<1>7. /\ UsageOf(D).input = SumFunctionOnSet(InputOf, D)
      /\ UsageOf(D).cached = SumFunctionOnSet(CachedOf, D)
  BY <1>1, UsageSums
<1>8. /\ SumFunctionOnSet(InputOf, E) = UsageOf(E \ D).input + UsageOf(D).input
      /\ SumFunctionOnSet(CachedOf, E) = UsageOf(E \ D).cached + UsageOf(D).cached
  BY <1>1, <1>3, <1>4, <1>6, <1>7
<1> QED BY <1>1, <1>5, <1>8 DEF Plus

LEMMA UsageOfOne ==
  ASSUME NEW e \in Event
  PROVE  UsageOf({e}) = e.usage
<1>1. IsFiniteSet({e}) /\ {e} \in SUBSET Event /\ e \in {e} /\ {e} \ {e} = {}
  BY FS_Singleton
<1>2. InputOf[e] = e.usage.input /\ CachedOf[e] = e.usage.cached
      /\ InputOf[e] \in Nat /\ CachedOf[e] \in Nat
  BY UsageIsTotal DEF InputOf, CachedOf, Event
<1>3. /\ SumFunctionOnSet(InputOf, {e}) = InputOf[e] + SumFunctionOnSet(InputOf, {e} \ {e})
      /\ SumFunctionOnSet(CachedOf, {e}) = CachedOf[e] + SumFunctionOnSet(CachedOf, {e} \ {e})
  BY <1>1, <1>2, SumTakesAny
<1>4. SumFunctionOnSet(InputOf, {}) = 0 /\ SumFunctionOnSet(CachedOf, {}) = 0
  BY SumUnfolds, FS_EmptySet
<1>5. SumFunctionOnSet(InputOf, {e}) = e.usage.input /\ SumFunctionOnSet(CachedOf, {e}) = e.usage.cached
  BY <1>1, <1>2, <1>3, <1>4
<1>6. UsageOf({e}) = [input |-> e.usage.input, cached |-> e.usage.cached]
  BY <1>1, <1>5, UsageSums
<1>7. e.usage \in [input : 0..MaxTokens, cached : 0..MaxTokens]
  BY DEF Event, Usage
<1> QED BY <1>6, <1>7

LEMMA UsageOfMore ==
  ASSUME NEW E \in SUBSET Event, IsFiniteSet(E), NEW e \in Event, e \notin E
  PROVE  UsageOf(E \cup {e}) = Plus(UsageOf(E), e.usage)
<1>1. IsFiniteSet(E \cup {e}) /\ E \cup {e} \in SUBSET Event /\ {e} \in SUBSET (E \cup {e})
      /\ (E \cup {e}) \ {e} = E
  BY FS_AddElement
<1> QED BY <1>1, UsageOfSplit, UsageOfOne

LEMMA UsageOfPart ==
  ASSUME NEW E \in SUBSET Event, IsFiniteSet(E), NEW D \in SUBSET E
  PROVE  Leq(UsageOf(D), UsageOf(E))
<1>1. UsageOf(E) = Plus(UsageOf(E \ D), UsageOf(D)) /\ IsFiniteSet(D) /\ IsFiniteSet(E \ D)
  BY UsageOfSplit
<1>2. UsageOf(D).input \in Nat /\ UsageOf(D).cached \in Nat
  BY <1>1, UsageOfIsTotal
<1>3. UsageOf(E \ D).input \in Nat /\ UsageOf(E \ D).cached \in Nat
  BY <1>1, UsageOfIsTotal
<1> QED BY <1>1, <1>2, <1>3 DEF Plus, Leq

------------------------------------------------------------------------------
(* What is counted was spent.  S is what was spent, H the total that was      *)
(* shown, L what was spent last.                                              *)

Begins(p, S, H) ==
  /\ Prefix(p) => /\ p.chain = "continuous" /\ p.events = {} /\ S = ZeroUsage
                  /\ p.prev # None => p.prev = H
  /\ p.chain = "continuous" /\ p.prev = None => H = ZeroUsage

\* What the next snapshot may add is not counted yet.
Bounded(p, S, H, L) ==
  /\ Leq(UsageOf(p.events), S)
  /\ p.chain = "continuous" /\ p.prev # None =>
       /\ Leq(Plus(UsageOf(p.events), Minus(H, p.prev)), S)
       /\ p.prev # H => Leq(Plus(UsageOf(p.events), L), S)

\* A turn that nothing blocks has accounted for its events, and the compensation that its totals
\* would give is not counted yet.
TurnFits(p, S, H) == Unblocked(p) =>
  /\ p.turn.start \in Usage /\ p.prev \in Usage /\ p.chain = "continuous"
  /\ p.turn.last # None => p.turn.last = p.prev /\ p.prev = H
  /\ p.turn.accounted = UsageOf(OwnOf(p))
  /\ p.turn.count = 0 => OwnOf(p) = {}
  /\ Leq(Plus(UsageOf(p.events \ OwnOf(p)), Minus(H, p.turn.start)), S)

TotalsFit(p, S, H, L) == Begins(p, S, H) /\ Bounded(p, S, H, L) /\ TurnFits(p, S, H)

\* The total moves by no more than what was spent.
Pays(S, H, T, G) == Leq(Plus(G, S), Plus(H, T))

LEMMA TotalParts ==
  /\ \A u \in Tallies : u.input \in Nat /\ u.cached \in Nat
  /\ \A u \in Usage : u.input \in Nat /\ u.cached \in Nat /\ u # None
BY AbsenceAssumption, UsageIsTotal DEF Tallies

LEMMA EventsAddUp ==
  ASSUME NEW p \in Processor, NEW n, InOrder(p, n)
  PROVE  /\ p.events \in SUBSET Event /\ IsFiniteSet(p.events)
         /\ UsageOf(p.events).input \in Nat /\ UsageOf(p.events).cached \in Nat
         /\ OwnOf(p) \in SUBSET p.events /\ OwnOf(p) \in SUBSET Event
         /\ IsFiniteSet(OwnOf(p)) /\ IsFiniteSet(p.events \ OwnOf(p))
         /\ UsageOf(OwnOf(p)).input \in Nat /\ UsageOf(OwnOf(p)).cached \in Nat
         /\ UsageOf(p.events \ OwnOf(p)).input \in Nat /\ UsageOf(p.events \ OwnOf(p)).cached \in Nat
         /\ UsageOf(p.events) = Plus(UsageOf(p.events \ OwnOf(p)), UsageOf(OwnOf(p)))
<1>1. p.events \in SUBSET Event /\ IsFiniteSet(p.events) /\ OwnOf(p) \in SUBSET p.events
  BY DEF Processor, InOrder, OwnOf
<1>2. /\ IsFiniteSet(OwnOf(p)) /\ IsFiniteSet(p.events \ OwnOf(p))
      /\ UsageOf(p.events) = Plus(UsageOf(p.events \ OwnOf(p)), UsageOf(OwnOf(p)))
  BY <1>1, UsageOfSplit
<1>3. OwnOf(p) \in SUBSET Event /\ p.events \ OwnOf(p) \in SUBSET Event
  BY <1>1
<1> QED BY <1>1, <1>2, <1>3, UsageOfIsTotal

\* On a new baseline everything that is counted was spent, if it is counted once.
LEMMA BasedIsBounded ==
  ASSUME NEW q \in Processor, NEW n, InOrder(q, n), NEW T \in Tallies, NEW G \in Usage, NEW L,
         Based(q, G), Leq(UsageOf(q.events), T)
  PROVE  Bounded(q, T, G, L)
<1>1. UsageOf(q.events).input \in Nat /\ UsageOf(q.events).cached \in Nat
  BY EventsAddUp
<1>2. G.input \in Nat /\ G.cached \in Nat /\ T.input \in Nat /\ T.cached \in Nat
  BY TotalParts
<1>3. q.prev = G
  BY DEF Based
<1>4. Leq(Plus(UsageOf(q.events), Minus(G, G)), T)
  BY <1>1, <1>2 DEF Leq, Plus, Minus
<1> QED BY <1>3, <1>4 DEF Bounded

LEMMA TurnFitsQuiet ==
  ASSUME NEW p \in Processor, NEW q \in Processor, NEW n \in Nat, n + 1 \in 1..MaxLines, InOrder(p, n),
         NEW S \in Tallies, NEW T \in Tallies, NEW H \in Usage, NEW G \in Usage,
         Based(q, G), Quiet(p, q), TurnFits(p, S, H), Pays(S, H, T, G)
  PROVE  TurnFits(q, T, G)
<1> SUFFICES ASSUME Unblocked(q)
             PROVE  TurnFits(q, T, G)
  BY DEF TurnFits
<1>1. /\ q.turn # None /\ p.turn # None /\ Unblocked(p) /\ q.events = p.events
      /\ q.turn.at = p.turn.at /\ q.turn.start = p.turn.start
      /\ q.turn.accounted = p.turn.accounted /\ q.turn.count = p.turn.count
  BY DEF Unblocked, Quiet, Advances, Later, SameSums
<1>2. OwnOf(q) = OwnOf(p)
  BY <1>1, OwnAfter
<1>3. /\ p.turn.start \in Usage /\ p.turn.accounted = UsageOf(OwnOf(p))
      /\ p.turn.count = 0 => OwnOf(p) = {}
      /\ Leq(Plus(UsageOf(p.events \ OwnOf(p)), Minus(H, p.turn.start)), S)
  BY <1>1 DEF TurnFits
<1>4. Leq(Plus(UsageOf(p.events \ OwnOf(p)), Minus(G, p.turn.start)), T)
  <2> DEFINE R == UsageOf(p.events \ OwnOf(p))
             B == p.turn.start
  <2>1. R.input \in Nat /\ R.cached \in Nat
    BY EventsAddUp
  <2>2. /\ B.input \in Nat /\ B.cached \in Nat /\ H.input \in Nat /\ H.cached \in Nat
        /\ G.input \in Nat /\ G.cached \in Nat /\ S.input \in Nat /\ S.cached \in Nat
        /\ T.input \in Nat /\ T.cached \in Nat
    BY <1>3, TotalParts
  <2>3. Leq(Plus(R, Minus(H, B)), S)
    BY <1>3
  <2> HIDE DEF R, B
  <2>4. Leq(Plus(R, Minus(G, B)), T)
    BY <2>1, <2>2, <2>3 DEF Leq, Plus, Minus, Pays
  <2> QED BY <2>4 DEF R, B
<1>5. q.chain = "continuous" /\ q.prev = G /\ q.turn.last = G
  BY <1>1 DEF Based
<1> QED BY <1>1, <1>2, <1>3, <1>4, <1>5 DEF TurnFits

LEMMA TurnFitsCounted ==
  ASSUME NEW p \in Processor, NEW q \in Processor, NEW n \in Nat, n + 1 \in 1..MaxLines, InOrder(p, n),
         NEW S \in Tallies, NEW T \in Tallies, NEW H \in Usage, NEW G \in Usage, NEW e \in Event,
         e.at = n + 1, Based(q, G), Advances(p, q, {e}), TurnFits(p, S, H), Pays(S, H, T, G)
  PROVE  TurnFits(q, T, G)
<1> SUFFICES ASSUME Unblocked(q)
             PROVE  TurnFits(q, T, G)
  BY DEF TurnFits
<1>1. /\ q.turn # None /\ p.turn # None /\ Unblocked(p) /\ q.events = p.events \cup {e}
      /\ q.turn.at = p.turn.at /\ q.turn.start = p.turn.start /\ Counts(p.turn, q.turn, e)
  BY DEF Unblocked, Advances, Later
<1>2. OwnOf(q) = OwnOf(p) \cup {e} /\ e \notin OwnOf(p) /\ e \notin p.events
  BY <1>1, OwnAfter
<1>3. /\ p.turn.start \in Usage /\ p.turn.accounted = UsageOf(OwnOf(p))
      /\ p.turn.count = 0 => OwnOf(p) = {}
      /\ Leq(Plus(UsageOf(p.events \ OwnOf(p)), Minus(H, p.turn.start)), S)
  BY <1>1 DEF TurnFits
<1>4. q.events \ OwnOf(q) = p.events \ OwnOf(p)
  BY <1>1, <1>2
<1>5. Leq(Plus(UsageOf(p.events \ OwnOf(p)), Minus(G, p.turn.start)), T)
  <2> DEFINE R == UsageOf(p.events \ OwnOf(p))
             B == p.turn.start
  <2>1. R.input \in Nat /\ R.cached \in Nat
    BY EventsAddUp
  <2>2. /\ B.input \in Nat /\ B.cached \in Nat /\ H.input \in Nat /\ H.cached \in Nat
        /\ G.input \in Nat /\ G.cached \in Nat /\ S.input \in Nat /\ S.cached \in Nat
        /\ T.input \in Nat /\ T.cached \in Nat
    BY <1>3, TotalParts
  <2>3. Leq(Plus(R, Minus(H, B)), S)
    BY <1>3
  <2> HIDE DEF R, B
  <2>4. Leq(Plus(R, Minus(G, B)), T)
    BY <2>1, <2>2, <2>3 DEF Leq, Plus, Minus, Pays
  <2> QED BY <2>4 DEF R, B
<1>6. q.chain = "continuous" /\ q.prev = G /\ q.turn.last = G
  BY <1>1 DEF Based
<1>7. /\ q.turn.accounted = (IF p.turn.count = 0 THEN e.usage ELSE Plus(p.turn.accounted, e.usage))
      /\ q.turn.count = p.turn.count + 1
  BY <1>1 DEF Counts, Unblocked
<1>8. q.turn.accounted = UsageOf(OwnOf(q))
  <2>1. CASE p.turn.count = 0
    BY <1>2, <1>3, <1>7, <2>1, UsageOfOne
  <2>2. CASE p.turn.count # 0
    <3>1. UsageOf(OwnOf(p) \cup {e}) = Plus(UsageOf(OwnOf(p)), e.usage)
      BY <1>2, EventsAddUp, UsageOfMore
    <3> QED BY <1>2, <1>3, <1>7, <2>2, <3>1
  <2> QED BY <2>1, <2>2
<1>9. q.turn.count # 0
  <2>1. p.turn.count \in Nat
    BY <1>1, TurnParts DEF Processor
  <2> QED BY <1>7, <2>1
<1> QED BY <1>1, <1>3, <1>4, <1>5, <1>6, <1>8, <1>9 DEF TurnFits

------------------------------------------------------------------------------

LEMMA FitsQuiet ==
  ASSUME NEW p \in Processor, NEW q \in Processor, NEW n \in Nat, n + 1 \in 1..MaxLines,
         InOrder(p, n), InOrder(q, n + 1),
         NEW S \in Tallies, NEW T \in Tallies, NEW H \in Usage, NEW G \in Usage, NEW L, NEW M,
         TotalsFit(p, S, H, L), Based(q, G), Quiet(p, q), Leq(S, T), Prefix(p) => T = S,
         p.turn # None => Pays(S, H, T, G)
  PROVE  TotalsFit(q, T, G, M)
<1>1. /\ q.events = p.events /\ q.subagent = p.subagent /\ q.model = p.model
      /\ q.chain = "continuous" /\ q.prev = G
  BY DEF Quiet, Advances, Based
<1>2. G # None /\ S.input \in Nat /\ S.cached \in Nat /\ T.input \in Nat /\ T.cached \in Nat
  BY TotalParts
<1>3. Begins(q, T, G)
  BY <1>1, <1>2 DEF TotalsFit, Begins, Prefix
<1>4. Leq(UsageOf(q.events), T)
  <2>1. UsageOf(p.events).input \in Nat /\ UsageOf(p.events).cached \in Nat
    BY EventsAddUp
  <2>2. Leq(UsageOf(p.events), S)
    BY DEF TotalsFit, Bounded
  <2>3. Leq(UsageOf(p.events), T)
    BY <1>2, <2>1, <2>2 DEF Leq
  <2> QED BY <1>1, <2>3
<1>5. Bounded(q, T, G, M)
  BY <1>4, BasedIsBounded
<1>6. TurnFits(q, T, G)
  <2>1. CASE p.turn = None
    BY <2>1 DEF TurnFits, Unblocked, Quiet, Advances
  <2>2. CASE p.turn # None
    BY <2>2, TurnFitsQuiet DEF TotalsFit
  <2> QED BY <2>1, <2>2
<1> QED BY <1>3, <1>5, <1>6 DEF TotalsFit

LEMMA FitsCounted ==
  ASSUME NEW p \in Processor, NEW q \in Processor, NEW n \in Nat, n + 1 \in 1..MaxLines,
         InOrder(p, n), InOrder(q, n + 1),
         NEW S \in Tallies, NEW T \in Tallies, NEW H \in Usage, NEW G \in Usage, NEW L, NEW M,
         NEW e \in Event, e.at = n + 1, TotalsFit(p, S, H, L), Based(q, G), Advances(p, q, {e}),
         ~Prefix(p),
         Leq(Plus(UsageOf(p.events), e.usage), T), Pays(S, H, T, G)
  PROVE  TotalsFit(q, T, G, M)
<1>1. /\ q.events = p.events \cup {e} /\ q.subagent = p.subagent /\ q.model = p.model
      /\ q.chain = "continuous" /\ q.prev = G
  BY DEF Advances, Based
<1>2. Begins(q, T, G)
  BY <1>1, TotalParts DEF Begins, Prefix
<1>3. e \notin p.events
  BY LedgerAssumption DEF InOrder
<1>4. UsageOf(q.events) = Plus(UsageOf(p.events), e.usage)
  BY <1>1, <1>3, EventsAddUp, UsageOfMore
<1>5. Bounded(q, T, G, M)
  BY <1>4, BasedIsBounded
<1>6. TurnFits(q, T, G)
  BY TurnFitsCounted DEF TotalsFit
<1> QED BY <1>2, <1>5, <1>6 DEF TotalsFit

LEMMA FitsStuck ==
  ASSUME NEW p \in Processor, NEW q \in Processor, NEW n \in Nat, n + 1 \in 1..MaxLines, InOrder(p, n),
         NEW S \in Tallies, NEW T \in Tallies, NEW H \in Usage, NEW G \in Usage, NEW L, NEW M \in Usage,
         TotalsFit(p, S, H, L), Quiet(p, q), Blocked(q), q.chain = p.chain, q.prev = p.prev, ~Prefix(p),
         p.chain = "continuous", p.prev # None,
         Leq(Plus(UsageOf(p.events), M), T), Pays(S, H, T, G)
  PROVE  TotalsFit(q, T, G, M)
<1>1. q.events = p.events /\ q.subagent = p.subagent /\ q.model = p.model /\ ~Unblocked(q)
  BY DEF Quiet, Advances, Blocked, Unblocked
<1>2. Begins(q, T, G) /\ TurnFits(q, T, G)
  BY <1>1 DEF Begins, Prefix, TurnFits
<1> DEFINE E == UsageOf(p.events)
           B == p.prev
<1>3. /\ E.input \in Nat /\ E.cached \in Nat /\ B.input \in Nat /\ B.cached \in Nat
      /\ H.input \in Nat /\ H.cached \in Nat /\ G.input \in Nat /\ G.cached \in Nat
      /\ S.input \in Nat /\ S.cached \in Nat /\ T.input \in Nat /\ T.cached \in Nat
      /\ M.input \in Nat /\ M.cached \in Nat
  BY EventsAddUp, TotalParts DEF Processor
<1>4. Leq(Plus(E, Minus(H, B)), S) /\ Leq(Plus(E, M), T)
  BY DEF TotalsFit, Bounded
<1> HIDE DEF E, B
<1>5. Leq(Plus(E, Minus(G, B)), T) /\ Leq(E, T)
  BY <1>3, <1>4 DEF Leq, Plus, Minus, Pays
<1>6. Bounded(q, T, G, M)
  BY <1>1, <1>4, <1>5 DEF Bounded, E, B
<1> QED BY <1>2, <1>6 DEF TotalsFit

LEMMA FitsBroken ==
  ASSUME NEW p \in Processor, NEW q \in Processor, NEW n, InOrder(p, n),
         NEW S \in Tallies, NEW T \in Tallies, NEW H, NEW G, NEW L, NEW M,
         TotalsFit(p, S, H, L), Quiet(p, q), Blocked(q), q.chain # "continuous", ~Prefix(p), Leq(S, T)
  PROVE  TotalsFit(q, T, G, M)
<1>1. q.events = p.events /\ q.subagent = p.subagent /\ q.model = p.model /\ ~Unblocked(q)
  BY DEF Quiet, Advances, Blocked, Unblocked
<1>2. Leq(UsageOf(p.events), S) /\ UsageOf(p.events).input \in Nat /\ UsageOf(p.events).cached \in Nat
  BY EventsAddUp DEF TotalsFit, Bounded
<1>3. Leq(UsageOf(p.events), T)
  BY <1>2, TotalParts DEF Leq
<1> QED BY <1>1, <1>3 DEF TotalsFit, Begins, Prefix, Bounded, TurnFits

------------------------------------------------------------------------------

LEMMA FitsStarted ==
  ASSUME NEW p \in Processor, NEW q \in Processor, NEW n \in Nat, n + 1 \in 1..MaxLines, InOrder(p, n),
         NEW S \in Tallies, NEW H \in Usage, NEW L, NEW line,
         TotalsFit(p, S, H, L), Starts1(p, q, n + 1, line), Frame(p, q)
  PROVE  TotalsFit(q, S, H, L)
<1>1. q.events = p.events /\ q.subagent = p.subagent /\ q.model = p.model /\ q.chain = p.chain
      /\ q.prev = p.prev
  BY DEF Starts1, Frame
<1>2. Begins(q, S, H) /\ Bounded(q, S, H, L)
  BY <1>1 DEF TotalsFit, Begins, Bounded, Prefix
<1>3. ASSUME Unblocked(q)
      PROVE  TurnFits(q, S, H)
  <2>1. /\ p.chain = "continuous" /\ p.prev \in Usage /\ q.turn.start = p.prev
        /\ q.turn.last = None /\ q.turn.accounted = ZeroUsage /\ q.turn.at = n + 1
    BY <1>3 DEF Starts1, Unblocked
  <2>2. OwnOf(q) = {}
    BY <1>1, <2>1, LedgerAssumption DEF OwnOf, InOrder, Processor, Event
  <2>3. Leq(Plus(UsageOf(p.events), Minus(H, p.prev)), S)
    BY <2>1, TotalParts DEF TotalsFit, Bounded
  <2>4. q.events \ OwnOf(q) = p.events
    BY <1>1, <2>2
  <2> QED BY <1>1, <2>1, <2>2, <2>3, <2>4, UsageOfNone DEF TurnFits
<1> QED BY <1>2, <1>3 DEF TotalsFit, TurnFits

LEMMA FitsEnded ==
  ASSUME NEW p \in Processor, NEW q \in Processor, NEW n \in Nat, n + 1 \in 1..MaxLines,
         InOrder(p, n), InOrder(q, n + 1),
         NEW S \in Tallies, NEW H \in Usage, NEW L,
         TotalsFit(p, S, H, L), ModelsFit(p), Frame(p, q), Ends(p, q) \/ Makes(p, q, n + 1)
  PROVE  TotalsFit(q, S, H, L)
<1>1. q.subagent = p.subagent /\ q.model = p.model /\ q.chain = p.chain /\ q.prev = p.prev
      /\ q.turn = None
  BY DEF Ends, Makes, Frame
<1>2. CASE Ends(p, q)
  BY <1>1, <1>2 DEF Ends, TotalsFit, Begins, Bounded, Prefix, TurnFits, Unblocked
<1>3. CASE Makes(p, q, n + 1)
  <2>1. PICK e : Compensation(e, p, n + 1) /\ q.events = p.events \cup {e}
    BY <1>3 DEF Makes
  <2>2. /\ Unblocked(p) /\ p.turn.model # None /\ p.turn.last # None /\ p.turn.last \in Usage
        /\ e \in Event /\ e.at = n + 1
        /\ e.usage = Minus(Minus(p.turn.last, p.turn.start), p.turn.accounted)
    BY <1>3, <2>1, TotalParts DEF Makes, Compensates, Unblocked, Compensation
  <2> DEFINE R == UsageOf(p.events \ OwnOf(p))
             A == UsageOf(OwnOf(p))
             B == p.turn.start
             u == e.usage
  <2>3. /\ B \in Usage /\ p.chain = "continuous" /\ p.turn.last = H /\ p.prev = H
        /\ p.turn.accounted = A /\ Leq(Plus(R, Minus(H, B)), S)
    BY <2>2 DEF TurnFits, TotalsFit
  <2>4. u = Minus(Minus(H, B), A)
    BY <2>2, <2>3
  <2>5. /\ R.input \in Nat /\ R.cached \in Nat /\ A.input \in Nat /\ A.cached \in Nat
        /\ B.input \in Nat /\ B.cached \in Nat /\ H.input \in Nat /\ H.cached \in Nat
        /\ S.input \in Nat /\ S.cached \in Nat
    BY <2>3, EventsAddUp, TotalParts
  <2>6. e \notin p.events
    BY <2>2, LedgerAssumption DEF InOrder
  <2>7. UsageOf(q.events) = Plus(Plus(R, A), u)
    BY <2>1, <2>2, <2>6, EventsAddUp, UsageOfMore
  <2> HIDE DEF R, A, B, u
  <2>8. Leq(Plus(Plus(R, A), u), S)
    BY <2>3, <2>4, <2>5 DEF Leq, Plus, Minus
  <2>9. Leq(UsageOf(q.events), S)
    BY <2>7, <2>8
  <2>10. UsageOf(q.events).input \in Nat /\ UsageOf(q.events).cached \in Nat
    BY EventsAddUp
  <2>11. Bounded(q, S, H, L)
    <3> DEFINE E == UsageOf(q.events)
    <3>1. Leq(Plus(E, Minus(H, H)), S)
      <4>1. E.input \in Nat /\ E.cached \in Nat /\ Leq(E, S)
        BY <2>9, <2>10
      <4> HIDE DEF E
      <4> QED BY <2>5, <4>1 DEF Leq, Plus, Minus
    <3>2. q.prev = H
      BY <1>1, <2>3
    <3> QED BY <2>9, <3>1, <3>2 DEF Bounded
  <2>12. ~Prefix(p)
    <3>1. OwnOf(p) # {}
      BY <2>2 DEF ModelsFit
    <3> QED BY <3>1 DEF TotalsFit, Begins, OwnOf
  <2>13. Begins(q, S, H)
    BY <1>1, <2>3, <2>12, TotalParts DEF Begins, Prefix
  <2> QED BY <1>1, <2>11, <2>13 DEF TotalsFit, TurnFits, Unblocked
<1> QED BY <1>2, <1>3

LEMMA FitsContext ==
  ASSUME NEW p \in Processor, NEW S, NEW H, NEW L, TotalsFit(p, S, H, L), NEW m \in Models
  PROVE  TotalsFit([p EXCEPT !.model = m], S, H, L)
<1> DEFINE q == [p EXCEPT !.model = m]
<1>1. /\ q.events = p.events /\ q.turn = p.turn /\ q.chain = p.chain /\ q.prev = p.prev /\ q.model = m
  BY DEF Processor
<1> HIDE DEF q
<1>2. m # None
  BY LedgerAssumption
<1>3. Begins(q, S, H)
  BY <1>1, <1>2 DEF TotalsFit, Begins, Prefix
<1>4. OwnOf(q) = OwnOf(p) /\ (Unblocked(q) <=> Unblocked(p))
  BY <1>1 DEF OwnOf, Unblocked
<1>5. Bounded(q, S, H, L) /\ TurnFits(q, S, H)
  BY <1>1, <1>4 DEF TotalsFit, Bounded, TurnFits
<1> QED BY <1>3, <1>5 DEF TotalsFit, q

------------------------------------------------------------------------------

\* What the writer says with a snapshot whose total is G, to a processor that may be in the parent's
\* part of the file: M was spent since the last one, or nothing and this is the last one again.
More(p, S, H, T, G, M) ==
  /\ M \in Amounts /\ G \in {M, Plus(H, M)}
  /\ IF Prefix(p) THEN T = S /\ p.turn = None ELSE T = Plus(S, M)

Again(S, H, L, T, G, M) == T = S /\ G = H /\ M = L /\ H # ZeroUsage

LEMMA MorePays ==
  ASSUME NEW p, NEW S \in Tallies, NEW T \in Tallies, NEW H \in Usage, NEW G \in Usage, NEW M,
         More(p, S, H, T, G, M)
  PROVE  /\ Leq(S, T) /\ M \in Usage
         /\ ~Prefix(p) => Pays(S, H, T, G)
<1>1. /\ H.input \in Nat /\ H.cached \in Nat /\ S.input \in Nat /\ S.cached \in Nat
      /\ M.input \in Nat /\ M.cached \in Nat /\ M \in Usage
  BY TotalParts, UsageIsTotal DEF More
<1>2. T = S \/ T = Plus(S, M)
  BY DEF More
<1>3. Leq(S, T)
  BY <1>1, <1>2 DEF Leq, Plus
<1>4. ASSUME ~Prefix(p)
      PROVE  Pays(S, H, T, G)
  <2>1. T = Plus(S, M) /\ (G = M \/ G = Plus(H, M))
    BY <1>4 DEF More
  <2> QED BY <1>1, <2>1 DEF Leq, Plus, Pays
<1> QED BY <1>1, <1>3, <1>4

\* A snapshot that can be read keeps what is counted within what was spent.
LEMMA FitsSnapshot ==
  ASSUME NEW p \in Processor, NEW n \in Nat, n + 1 \in 1..MaxLines, InOrder(p, n),
         NEW line \in TokensRecord, line.total.kind = "valid",
         NEW S \in Tallies, NEW T \in Tallies, NEW H \in Usage, NEW G \in Usage, NEW L, NEW M \in Usage,
         G = line.total.usage, TotalsFit(p, S, H, L),
         line.last.kind = "valid" => Leq(line.last.usage, M),
         \/ More(p, S, H, T, G, M)
         \/ Again(S, H, L, T, G, M) /\ line.timed /\ line.last.kind = "valid",
         InOrder(CountTokens(p, n + 1, line), n + 1)
  PROVE  TotalsFit(CountTokens(p, n + 1, line), T, G, M)
<1> DEFINE q == CountTokens(p, n + 1, line)
           reset == p.prev # None /\ Negative(G, p.prev)
           apart == p.chain = "continuous" /\ p.prev # G
           last == line.last
           Timed == line.timed
           E == UsageOf(p.events)
<1> SUFFICES TotalsFit(q, T, G, M)
  OBVIOUS
<1>1. /\ q \in Processor /\ InOrder(q, n + 1)
      /\ Prefix(p) => Based(q, G) /\ Quiet(p, q)
      /\ ~Prefix(p) =>
           /\ ~Timed => Based(q, G) /\ Quiet(p, q) /\ Blocked(q)
           /\ Timed /\ ~apart => Based(q, G) /\ Quiet(p, q)
           /\ Timed /\ apart =>
                /\ reset \/ last.kind # "missing" =>
                     /\ Based(q, G)
                     /\ IF last.kind = "valid"
                          THEN Emits(p, q, n + 1, "normal", last.usage)
                          ELSE Quiet(p, q)
                /\ ~reset /\ last.kind = "missing" =>
                     IF p.prev # None /\ NotAUsage(G, p.prev)
                       THEN q.chain = p.chain /\ q.prev = p.prev /\ Quiet(p, q) /\ Blocked(q)
                       ELSE /\ Based(q, G)
                            /\ IF p.prev = None THEN Quiet(p, q)
                               ELSE /\ Minus(G, p.prev) \in Usage
                                    /\ Emits(p, q, n + 1, "recovered", Minus(G, p.prev))
  BY CountTokensDoes
<1>2. /\ S.input \in Nat /\ S.cached \in Nat /\ T.input \in Nat /\ T.cached \in Nat
      /\ H.input \in Nat /\ H.cached \in Nat /\ G.input \in Nat /\ G.cached \in Nat
      /\ M.input \in Nat /\ M.cached \in Nat /\ E.input \in Nat /\ E.cached \in Nat
      /\ p.prev \in Usage \cup {None}
  BY TotalParts, EventsAddUp DEF Processor
<1>3. /\ Leq(S, T) /\ (Prefix(p) => T = S)
      /\ ~Prefix(p) => Pays(S, H, T, G)
      /\ p.turn # None => Pays(S, H, T, G)
  <2>1. CASE More(p, S, H, T, G, M)
    BY <2>1, MorePays DEF More
  <2>2. CASE T = S /\ G = H
    <3>1. Leq(S, S) /\ Pays(S, H, S, H)
      <4>1. S.input \in Nat /\ S.cached \in Nat /\ H.input \in Nat /\ H.cached \in Nat
        BY <1>2
      <4> QED BY <4>1 DEF Leq, Plus, Pays
    <3> QED BY <2>2, <3>1
  <2> QED BY <2>1, <2>2 DEF Again
\* What may still be counted, apart from the last total.
<1>4. ASSUME ~Prefix(p), apart
      PROVE  Leq(Plus(E, M), T) \/ (p.prev = None /\ Again(S, H, L, T, G, M))
  <2>1. CASE More(p, S, H, T, G, M)
    <3>1. T = Plus(S, M) /\ Leq(E, S)
      BY <1>4, <2>1 DEF More, TotalsFit, Bounded
    <3> HIDE DEF E
    <3>2. Leq(Plus(E, M), T)
      BY <1>2, <3>1 DEF Leq, Plus
    <3> QED BY <3>2
  <2>2. CASE Again(S, H, L, T, G, M)
    BY <1>4, <2>2 DEF Again, TotalsFit, Bounded
  <2> QED BY <2>1, <2>2
<1>5. ASSUME ~Prefix(p), apart
      PROVE  Leq(Plus(E, M), T)
  BY <1>4, <1>5 DEF Again, TotalsFit, Begins
<1> HIDE DEF q
<1>6. ASSUME Based(q, G), Quiet(p, q)
      PROVE  TotalsFit(q, T, G, M)
  BY <1>1, <1>3, <1>6, FitsQuiet
<1>7. ASSUME ~Prefix(p), Based(q, G), NEW kind, NEW used, Emits(p, q, n + 1, kind, used),
             Leq(Plus(E, used), T)
      PROVE  TotalsFit(q, T, G, M)
  <2>1. PICK e : Candidate(e, p, n + 1, kind, used) /\ Advances(p, q, {e})
    BY <1>7 DEF Emits
  <2>2. e \in Event /\ e.at = n + 1 /\ e.usage = used
    BY <2>1 DEF Candidate
  <2> QED BY <1>1, <1>3, <1>7, <2>1, <2>2, FitsCounted
<1>8. CASE Prefix(p) \/ ~Timed \/ ~apart
  BY <1>1, <1>6, <1>8
<1>9. CASE ~Prefix(p) /\ Timed /\ apart /\ (reset \/ last.kind # "missing")
  <2>1. CASE last.kind = "valid"
    <3>1. Leq(last.usage, M) /\ last.usage \in Usage
      BY <2>1 DEF TokensRecord, Tokens
    <3>2. Leq(Plus(E, M), T) /\ last.usage.input \in Nat /\ last.usage.cached \in Nat
      BY <1>5, <1>9, <3>1, TotalParts
    <3> DEFINE u == last.usage
    <3> HIDE DEF u, E
    <3>3. Leq(Plus(E, u), T)
      BY <1>2, <3>1, <3>2 DEF Leq, Plus, u
    <3>4. Based(q, G) /\ Emits(p, q, n + 1, "normal", u)
      BY <1>1, <1>9, <2>1 DEF u
    <3> QED BY <1>7, <1>9, <3>3, <3>4
  <2>2. CASE last.kind # "valid"
    BY <1>1, <1>6, <1>9, <2>2
  <2> QED BY <2>1, <2>2
<1>10. CASE ~Prefix(p) /\ Timed /\ apart /\ ~reset /\ last.kind = "missing"
  <2>1. CASE p.prev # None /\ NotAUsage(G, p.prev)
    <3>1. q.chain = p.chain /\ q.prev = p.prev /\ Quiet(p, q) /\ Blocked(q)
      BY <1>1, <1>10, <2>1
    <3> QED BY <1>1, <1>3, <1>5, <1>10, <2>1, <3>1, FitsStuck
  <2>2. CASE p.prev = None
    BY <1>1, <1>6, <1>10, <2>2
  <2>3. CASE p.prev # None /\ ~NotAUsage(G, p.prev)
    <3> DEFINE B == p.prev
               u == Minus(G, B)
    <3>1. Based(q, G) /\ Emits(p, q, n + 1, "recovered", u)
      BY <1>1, <1>10, <2>3
    <3>2. Leq(Plus(E, Minus(H, B)), S) /\ B.input \in Nat /\ B.cached \in Nat
      BY <1>2, <1>10, <2>3, TotalParts DEF TotalsFit, Bounded
    <3>3. Pays(S, H, T, G)
      BY <1>3, <1>10
    <3> HIDE DEF B, E
    <3>4. Leq(Plus(E, u), T)
      BY <1>2, <3>2, <3>3 DEF Leq, Plus, Minus, Pays
    <3> HIDE DEF u
    <3> QED BY <1>7, <1>10, <3>1, <3>4
  <2> QED BY <2>1, <2>2, <2>3
<1> QED BY <1>8, <1>9, <1>10

------------------------------------------------------------------------------
(* While nothing is lost, all that was spent is counted.                      *)

Complete(p, S, H) ==
  /\ UsageOf(p.events) = S /\ p.chain = "continuous" /\ (p.prev # None => p.prev = H)
  /\ Unblocked(p) => Leq(Minus(p.prev, p.turn.start), p.turn.accounted)

LEMMA CompleteStarted ==
  ASSUME NEW p \in Processor, NEW q, NEW n, NEW S, NEW H, NEW line,
         Complete(p, S, H), Starts1(p, q, n, line), Frame(p, q)
  PROVE  Complete(q, S, H)
<1>1. q.events = p.events /\ q.chain = p.chain /\ q.prev = p.prev
  BY DEF Starts1, Frame
<1>2. ASSUME Unblocked(q)
      PROVE  Leq(Minus(q.prev, q.turn.start), q.turn.accounted)
  <2>1. q.turn.start = p.prev /\ q.turn.accounted = ZeroUsage /\ p.prev \in Usage
    BY <1>2 DEF Starts1, Unblocked
  <2>2. p.prev.input \in Nat /\ p.prev.cached \in Nat
    BY <2>1, TotalParts
  <2> QED BY <1>1, <2>1, <2>2 DEF Leq, Minus, ZeroUsage
<1> QED BY <1>1, <1>2 DEF Complete

LEMMA CompleteEnded ==
  ASSUME NEW p \in Processor, NEW q \in Processor, NEW n,
         NEW S \in Tallies, NEW H \in Usage, NEW L, TotalsFit(p, S, H, L),
         Complete(p, S, H), Frame(p, q), Ends(p, q) \/ Makes(p, q, n)
  PROVE  Complete(q, S, H)
<1>1. CASE Ends(p, q)
  BY <1>1 DEF Ends, Frame, Complete, Unblocked
<1>2. CASE Makes(p, q, n)
  <2>1. PICK e : Compensation(e, p, n)
    BY <1>2 DEF Makes
  <2>2. /\ Unblocked(p) /\ p.turn.last # None /\ p.turn \in Turn
        /\ e.usage = Minus(Minus(p.turn.last, p.turn.start), p.turn.accounted)
        /\ e.usage # ZeroUsage /\ Leq(p.turn.accounted, Minus(p.turn.last, p.turn.start))
    BY <1>2, <2>1, TotalParts DEF Makes, Compensates, Unblocked, Compensation, Processor
  <2> DEFINE B == p.turn.start
             P == p.prev
             A == p.turn.accounted
  <2>3. P \in Usage /\ B \in Usage /\ A \in Usage /\ p.turn.last = P
    BY <2>2, TurnParts DEF TotalsFit, TurnFits
  <2>4. Leq(Minus(P, B), A) /\ Leq(A, Minus(P, B)) /\ Minus(Minus(P, B), A) # ZeroUsage
    BY <2>2, <2>3 DEF Complete
  <2>5. /\ P.input \in Nat /\ P.cached \in Nat /\ B.input \in Nat /\ B.cached \in Nat
        /\ A.input \in Nat /\ A.cached \in Nat
    BY <2>3, TotalParts
  <2> HIDE DEF P, B, A
  <2>6. P.input - B.input - A.input = 0 /\ P.cached - B.cached - A.cached = 0
    BY <2>4, <2>5 DEF Leq, Minus
  <2>7. Minus(Minus(P, B), A) = ZeroUsage
    BY <2>6 DEF Minus, ZeroUsage
  <2> QED BY <2>4, <2>7
<1> QED BY <1>1, <1>2

LEMMA CompleteQuiet ==
  ASSUME NEW p \in Processor, NEW q, NEW S, NEW H, NEW G \in Usage, Complete(p, S, H), Quiet(p, q),
         Based(q, G), Unblocked(p) => p.prev = G
  PROVE  Complete(q, S, G)
<1>1. q.events = p.events /\ q.chain = "continuous" /\ q.prev = G
  BY DEF Quiet, Advances, Based
<1>2. ASSUME Unblocked(q)
      PROVE  Leq(Minus(q.prev, q.turn.start), q.turn.accounted)
  <2>1. Unblocked(p) /\ q.turn.start = p.turn.start /\ q.turn.accounted = p.turn.accounted
    BY <1>2 DEF Unblocked, Quiet, Advances, Later, SameSums
  <2> QED BY <1>1, <2>1 DEF Complete
<1> QED BY <1>1, <1>2 DEF Complete

LEMMA CompleteCounted ==
  ASSUME NEW p \in Processor, NEW q \in Processor, NEW n \in Nat, n + 1 \in 1..MaxLines, InOrder(p, n),
         NEW S \in Tallies, NEW H \in Usage, NEW G \in Usage, NEW L, NEW M \in Usage,
         TotalsFit(p, S, H, L), Complete(p, S, H), G \in {M, Plus(H, M)},
         Based(q, G), NEW kind, Emits(p, q, n + 1, kind, M)
  PROVE  Complete(q, Plus(S, M), G)
<1>1. PICK e : Candidate(e, p, n + 1, kind, M) /\ Advances(p, q, {e})
  BY DEF Emits
<1>2. /\ e \in Event /\ e.at = n + 1 /\ e.usage = M /\ q.events = p.events \cup {e}
      /\ q.chain = "continuous" /\ q.prev = G
  BY <1>1 DEF Candidate, Advances, Based
<1>3. e \notin p.events
  BY <1>2, LedgerAssumption DEF InOrder
<1>4. UsageOf(q.events) = Plus(S, M)
  BY <1>2, <1>3, EventsAddUp, UsageOfMore DEF Complete
<1>5. ASSUME Unblocked(q)
      PROVE  Leq(Minus(G, q.turn.start), q.turn.accounted)
  <2>1. Unblocked(p) /\ q.turn.start = p.turn.start /\ Counts(p.turn, q.turn, e) /\ p.turn \in Turn
    BY <1>1, <1>5 DEF Unblocked, Advances, Later, Processor
  <2> DEFINE B == p.turn.start
             A == p.turn.accounted
             C == q.turn.accounted
  <2>2. C = (IF p.turn.count = 0 THEN M ELSE Plus(A, M))
    BY <1>2, <1>5, <2>1 DEF Counts, Unblocked
  <2>3. B \in Usage /\ p.prev = H /\ A \in Usage /\ (p.turn.count = 0 => A = ZeroUsage)
    BY <2>1, TurnParts, TotalParts, UsageOfNone DEF TotalsFit, TurnFits, Complete
  <2>4. Leq(Minus(H, B), A)
    BY <2>1, <2>3 DEF Complete
  <2>5. /\ B.input \in Nat /\ B.cached \in Nat /\ A.input \in Nat /\ A.cached \in Nat
        /\ H.input \in Nat /\ H.cached \in Nat /\ M.input \in Nat /\ M.cached \in Nat
    BY <2>3, TotalParts
  <2>6. C.input = A.input + M.input /\ C.cached = A.cached + M.cached
    <3>1. CASE p.turn.count = 0
      <4>1. C = M /\ A = ZeroUsage
        BY <2>2, <2>3, <3>1
      <4> HIDE DEF A, C
      <4> QED BY <2>5, <4>1 DEF ZeroUsage
    <3>2. CASE p.turn.count # 0
      <4>1. C = Plus(A, M)
        BY <2>2, <3>2
      <4> HIDE DEF A, C
      <4> QED BY <4>1 DEF Plus
    <3> QED BY <3>1, <3>2
  <2>7. G = M \/ G = Plus(H, M)
    OBVIOUS
  <2> HIDE DEF A, B, C
  <2>8. Leq(Minus(G, B), C)
    BY <2>4, <2>5, <2>6, <2>7 DEF Leq, Minus, Plus
  <2> QED BY <2>1, <2>8 DEF B, C
<1> QED BY <1>2, <1>4, <1>5 DEF Complete

LEMMA CompleteSnapshot ==
  ASSUME NEW p \in Processor, NEW n \in Nat, n + 1 \in 1..MaxLines, InOrder(p, n),
         NEW line \in TokensRecord, line.total.kind = "valid", line.timed,
         NEW S \in Tallies, NEW T, NEW H \in Usage, NEW G \in Usage, NEW L, NEW M,
         G = line.total.usage, TotalsFit(p, S, H, L), Complete(p, S, H),
         \/ /\ More(p, S, H, T, G, M) /\ G # H
            /\ \/ line.last.kind = "valid" /\ line.last.usage = M
               \/ line.last.kind = "missing" /\ G = Plus(H, M) /\ H # ZeroUsage
         \/ Again(S, H, L, T, G, M) /\ line.last.kind = "valid"
  PROVE  Complete(CountTokens(p, n + 1, line), T, G)
<1> DEFINE q == CountTokens(p, n + 1, line)
           reset == p.prev # None /\ Negative(G, p.prev)
           apart == p.chain = "continuous" /\ p.prev # G
           last == line.last
<1> SUFFICES Complete(q, T, G)
  OBVIOUS
<1>1. /\ q \in Processor
      /\ Prefix(p) => Based(q, G) /\ Quiet(p, q)
      /\ ~Prefix(p) =>
           /\ ~apart => Based(q, G) /\ Quiet(p, q)
           /\ apart =>
                /\ reset \/ last.kind # "missing" =>
                     /\ Based(q, G)
                     /\ IF last.kind = "valid"
                          THEN Emits(p, q, n + 1, "normal", last.usage)
                          ELSE Quiet(p, q)
                /\ ~reset /\ last.kind = "missing" =>
                     IF p.prev # None /\ NotAUsage(G, p.prev)
                       THEN q.chain = p.chain /\ q.prev = p.prev /\ Quiet(p, q) /\ Blocked(q)
                       ELSE /\ Based(q, G)
                            /\ IF p.prev = None THEN Quiet(p, q)
                               ELSE /\ Minus(G, p.prev) \in Usage
                                    /\ Emits(p, q, n + 1, "recovered", Minus(G, p.prev))
  BY CountTokensDoes
<1>2. /\ p.chain = "continuous" /\ (p.prev # None => p.prev = H)
      /\ p.prev = None => H = ZeroUsage
      /\ Unblocked(p) => p.prev # None /\ p.turn # None
  BY TotalParts DEF TotalsFit, Begins, Complete, TurnFits, Unblocked
<1> HIDE DEF q
<1>3. CASE Again(S, H, L, T, G, M)
  <2>1. Based(q, G) /\ Quiet(p, q)
    BY <1>1, <1>2, <1>3 DEF Again
  <2>2. Unblocked(p) => p.prev = G
    BY <1>2, <1>3 DEF Again
  <2> QED BY <1>3, <2>1, <2>2, CompleteQuiet DEF Again
<1>4. CASE More(p, S, H, T, G, M) /\ Prefix(p)
  <2>1. T = S /\ p.turn = None
    BY <1>4 DEF More
  <2> QED BY <1>1, <1>2, <1>4, <2>1, CompleteQuiet
<1>5. CASE /\ More(p, S, H, T, G, M) /\ ~Prefix(p) /\ G # H
           /\ \/ line.last.kind = "valid" /\ line.last.usage = M
              \/ line.last.kind = "missing" /\ G = Plus(H, M) /\ H # ZeroUsage
  <2>1. T = Plus(S, M) /\ M \in Usage /\ G \in {M, Plus(H, M)}
    BY <1>5, UsageIsTotal DEF More
  <2>2. apart
    BY <1>2, <1>5, TotalParts
  <2>3. CASE line.last.kind = "valid" /\ line.last.usage = M
    <3>1. Based(q, G) /\ Emits(p, q, n + 1, "normal", M)
      BY <1>1, <1>5, <2>2, <2>3
    <3> QED BY <1>1, <2>1, <3>1, CompleteCounted
  <2>4. CASE line.last.kind = "missing" /\ G = Plus(H, M) /\ H # ZeroUsage
    <3>1. p.prev = H /\ p.prev # None
      BY <1>2, <2>4
    <3>2. /\ H.input \in Nat /\ H.cached \in Nat /\ M.input \in Nat /\ M.cached \in Nat
      BY <2>1, TotalParts
    <3>3. Leq(H, G) /\ Minus(G, H) = [input |-> M.input, cached |-> M.cached]
      BY <2>4, <3>2 DEF Leq, Plus, Minus
    <3>4. Minus(G, H) = M
      BY <2>1, <3>3 DEF Usage
    <3>5. ~reset /\ ~NotAUsage(G, p.prev)
      BY <2>1, <3>1, <3>3, <3>4 DEF Negative, NotAUsage
    <3>6. Based(q, G) /\ Emits(p, q, n + 1, "recovered", M)
      BY <1>1, <1>5, <2>2, <2>4, <3>1, <3>4, <3>5
    <3> QED BY <1>1, <2>1, <3>6, CompleteCounted
  <2> QED BY <1>5, <2>3, <2>4
<1> QED BY <1>3, <1>4, <1>5

------------------------------------------------------------------------------

LEMMA ModelStaysBut ==
  ASSUME NEW p \in Processor, NEW line \in Record, NEW n \in 1..MaxLines
  PROVE  LET q == ApplyRecord(p, n, line) IN
         /\ q.subagent = p.subagent
         /\ line.is # "context" => q.model = p.model
         /\ line.is = "context" => q = [p EXCEPT !.model = line.model]
         /\ line.is = "started" => Frame(p, q) /\ Starts1(p, q, n, line)
         /\ line.is = "ended" => Frame(p, q) /\ (q = p \/ Ends(p, q) \/ Makes(p, q, n))
         /\ line.is = "gap" => q.chain = "parser_gap" /\ Quiet(p, q) /\ Blocked(q)
         /\ line.is = "tokens" => q = CountTokens(p, n, line)
<1> DEFINE q == ApplyRecord(p, n, line)
<1>1. /\ line.is \in {"context", "started", "ended", "tokens", "gap"}
      /\ line.is = "context" => line.model \in Models
      /\ line.is = "started" => line \in StartedRecord
      /\ line.is = "ended" => line \in EndedRecord
      /\ line.is = "tokens" => line \in TokensRecord
  BY RecordKinds
<1>2. q.subagent = p.subagent
  BY ApplyDoes DEF Grows
<1>3. CASE line.is = "context"
  <2>1. q = [p EXCEPT !.model = line.model]
    BY <1>3 DEF ApplyRecord
  <2> HIDE DEF q
  <2> QED BY <1>2, <1>3, <2>1 DEF q
<1>4. CASE line.is = "started"
  <2>1. q = StartTurn(p, n, line)
    BY <1>4 DEF ApplyRecord
  <2> DEFINE r == StartTurn(p, n, line)
  <2>2. Frame(p, r)
    BY <1>1, <1>4, StartTurnDoes DEF Frame
  <2>3. Starts1(p, q, n, line)
    BY <1>4, ShapesAre
  <2> HIDE DEF q, r
  <2>4. q = r
    BY <2>1 DEF r
  <2> QED BY <1>2, <1>4, <2>2, <2>3, <2>4 DEF q, Frame
<1>5. CASE line.is = "ended"
  <2>1. q = EndTurn(p, n, line)
    BY <1>5 DEF ApplyRecord
  <2> DEFINE r == EndTurn(p, n, line)
  <2>2. /\ Frame(p, r)
        /\ \/ r = p
           \/ p.turn # None /\ r.turn = None /\ r.closed = p.closed /\ r.events = p.events
           \/ /\ p.turn # None /\ r.turn = None /\ ClosedAs(p, r, "ended")
              /\ \/ r.events = p.events
                 \/ Compensates(p) /\ \E e : Compensation(e, p, n) /\ r.events = p.events \cup {e}
    BY <1>1, <1>5, EndTurnDoes
  <2> HIDE DEF q, r
  <2>3. r = p \/ Ends(p, r) \/ Makes(p, r, n)
    BY <2>2 DEF Ends, Makes
  <2>4. q = r
    BY <2>1 DEF r
  <2> QED BY <1>2, <1>5, <2>2, <2>3, <2>4 DEF q, Frame
<1>6. CASE line.is = "gap"
  <2>1. q = Interrupt(p, "parser_gap")
    BY <1>6 DEF ApplyRecord
  <2> DEFINE r == Interrupt(p, "parser_gap")
  <2>2. r.chain = "parser_gap" /\ Quiet(p, r) /\ Blocked(r)
    BY InterruptIsQuiet DEF ChainStates
  <2> HIDE DEF q, r
  <2>3. q = r
    BY <2>1 DEF r
  <2> QED BY <1>2, <1>6, <2>2, <2>3 DEF q, Quiet, Advances
<1>7. CASE line.is = "tokens"
  <2>1. q = CountTokens(p, n, line)
    BY <1>7 DEF ApplyRecord
  <2> DEFINE r == CountTokens(p, n, line)
  <2>2. Quiet(p, r) \/ \E e, used : \E kind \in {"normal", "recovered"} :
          Candidate(e, p, n, kind, used) /\ Advances(p, r, {e})
    BY <1>1, <1>7, TokensAdvance
  <2> HIDE DEF q, r
  <2>3. r.model = p.model
    BY <2>2 DEF Quiet, Advances
  <2>4. q = r
    BY <2>1 DEF r
  <2> QED BY <1>2, <1>7, <2>3, <2>4 DEF q, r
<1> QED BY <1>1, <1>3, <1>4, <1>5, <1>6, <1>7

------------------------------------------------------------------------------

\* The parent's part of the file is the one before the first model.
OwnedInv == Owned <=> ~Prefix(Caught)

CountInv ==
  /\ NamesInv /\ OwnedInv
  /\ TotalsFit(Caught, spent, shown, latest)
  /\ ~lossy => Complete(Caught, spent, shown)

LEMMA OwnedWrites ==
  ASSUME FileTyped, NEW line, NEW loses, Wrote(line, loses)
  PROVE  Owned' <=> (Owned \/ line.is = "context")
<1>1. /\ pending \in Seq(Record) /\ line \in Record /\ pending' = Append(pending, line)
      /\ subagent' = subagent /\ db' = db
  BY DEF FileTyped, Wrote
<1>2. /\ DOMAIN Append(pending, line) = 1..(Len(pending) + 1) /\ DOMAIN pending = 1..Len(pending)
      /\ Len(pending) \in Nat
      /\ Append(pending, line)[Len(pending) + 1] = line
      /\ \A i \in 1..Len(pending) : Append(pending, line)[i] = pending[i]
  BY <1>1
<1>3. (\E i \in DOMAIN pending' : pending'[i].is = "context")
        <=> (\E i \in DOMAIN pending : pending[i].is = "context") \/ line.is = "context"
  <2>1. ASSUME NEW i \in DOMAIN pending', pending'[i].is = "context"
        PROVE  (\E j \in DOMAIN pending : pending[j].is = "context") \/ line.is = "context"
    <3>1. i \in 1..Len(pending) \/ i = Len(pending) + 1
      BY <1>1, <1>2
    <3> QED BY <1>1, <1>2, <2>1, <3>1
  <2>2. ASSUME NEW i \in DOMAIN pending, pending[i].is = "context"
        PROVE  \E j \in DOMAIN pending' : pending'[j].is = "context"
    <3>1. i \in DOMAIN pending' /\ pending'[i] = pending[i]
      BY <1>1, <1>2
    <3> QED BY <2>2, <3>1
  <2>3. ASSUME line.is = "context"
        PROVE  \E j \in DOMAIN pending' : pending'[j].is = "context"
    <3>1. Len(pending) + 1 \in DOMAIN pending' /\ pending'[Len(pending) + 1] = line
      BY <1>1, <1>2
    <3> QED BY <2>3, <3>1
  <2> QED BY <2>1, <2>2, <2>3
<1> QED BY <1>1, <1>3 DEF Owned

LEMMA CountInit ==
  ASSUME TokenInit
  PROVE  CountInv
<1>1. NamesInv
  BY NamesInit
<1>2. /\ spent = ZeroUsage /\ shown = ZeroUsage /\ latest = ZeroUsage /\ started = <<>>
      /\ lossy = FALSE /\ pending = <<>> /\ db.offset = 0 /\ straight = NewProcessor(subagent)
      /\ db.model = None /\ DOMAIN pending = {} /\ subagent \in BOOLEAN
  BY DEF TokenInit
<1>3. Caught = straight
  BY <1>2, ProcessNothing DEF Caught
<1>4. /\ straight.subagent = subagent /\ straight.chain = "continuous" /\ straight.prev = None
      /\ straight.model = None /\ straight.turn = None /\ straight.events = {}
  BY <1>2 DEF NewProcessor
<1> DEFINE c == Caught
<1>5. /\ c.subagent = subagent /\ c.chain = "continuous" /\ c.prev = None /\ c.model = None
      /\ c.turn = None /\ c.events = {}
  BY <1>3, <1>4
<1>6. Owned <=> ~Prefix(c)
  BY <1>2, <1>5 DEF Owned, Prefix
<1> HIDE DEF c
<1>7. UsageOf(c.events) = ZeroUsage /\ Leq(ZeroUsage, ZeroUsage)
  BY <1>5, UsageOfNone DEF Leq, ZeroUsage
<1>8. TotalsFit(c, ZeroUsage, ZeroUsage, ZeroUsage) /\ Complete(c, ZeroUsage, ZeroUsage)
  BY <1>5, <1>7 DEF TotalsFit, Begins, Bounded, TurnFits, Unblocked, Complete
<1> QED BY <1>1, <1>2, <1>6, <1>8 DEF CountInv, OwnedInv, c

LEMMA SpendIsMore ==
  ASSUME NamesInv, OwnedInv, ~BadPrefix, NEW amount \in Amounts, NEW restart, Spend(amount, restart)
  PROVE  /\ More(Caught, spent, shown, spent', shown', amount)
         /\ latest' = amount /\ started' = started /\ shown' \in Usage
         /\ ~restart => shown' = Plus(shown, amount)
<1>1. /\ shown' = (IF restart THEN amount ELSE Plus(shown, amount)) /\ latest' = amount
      /\ spent' = (IF Owned THEN Plus(spent, amount) ELSE spent) /\ started' = started
      /\ Owned \/ started = <<>>
      /\ shown' \in Usage
  BY DEF Spend
<1>2. ASSUME Prefix(Caught)
      PROVE  spent' = spent /\ Caught.turn = None
  <2>1. ~Owned
    BY <1>2 DEF OwnedInv
  <2>2. started = <<>> /\ spent' = spent
    BY <1>1, <2>1
  <2>3. Len(started) = 0
    BY <2>2
  <2>4. Starts = {}
    BY <2>3 DEF Starts
  <2>5. Follows(Caught, Starts)
    BY DEF NamesInv
  <2> QED BY <2>2, <2>4, <2>5 DEF Follows
<1>3. ~Prefix(Caught) => spent' = Plus(spent, amount)
  BY <1>1 DEF OwnedInv
<1> QED BY <1>1, <1>2, <1>3 DEF More

------------------------------------------------------------------------------

\* What a line does to the processor that never stopped.
LEMMA LineDoes ==
  ASSUME CountInv, NamesInv', NEW line, NEW loses, Wrote(line, loses)
  PROVE  LET n == Here
             c == Caught
             d == Caught'
         IN
         /\ d = ApplyRecord(c, n + 1, line) /\ Here' = n + 1 /\ n + 1 \in 1..MaxLines /\ n \in Nat
         /\ line \in Record /\ lossy' = (lossy \/ loses)
         /\ d.subagent = c.subagent
         /\ line.is # "context" => d.model = c.model
         /\ line.is = "context" => d = [c EXCEPT !.model = line.model]
         /\ line.is = "started" => Frame(c, d) /\ Starts1(c, d, n + 1, line)
         /\ line.is = "ended" => Frame(c, d) /\ (d = c \/ Ends(c, d) \/ Makes(c, d, n + 1))
         /\ line.is = "gap" => d.chain = "parser_gap" /\ Quiet(c, d) /\ Blocked(d)
         /\ line.is = "tokens" => d = CountTokens(c, n + 1, line) /\ line \in TokensRecord
         /\ OwnedInv'
<1> DEFINE n == Here
           c == Caught
           d == Caught'
           q == ApplyRecord(c, n + 1, line)
<1>1. /\ FileTyped /\ FileTyped' /\ ResumeInv /\ ResumeInv' /\ NamesInv /\ c \in Processor
      /\ Owned <=> ~Prefix(c)
  BY DEF CountInv, NamesInv, ResumeInv, OwnedInv
<1>2. /\ d = q /\ Here' = n + 1 /\ n + 1 \in 1..MaxLines /\ n \in Nat
      /\ line \in Record /\ lossy' = (lossy \/ loses)
  BY <1>1, NextLine DEF Wrote
<1>3. /\ q.subagent = c.subagent
      /\ line.is # "context" => q.model = c.model
      /\ line.is = "context" => q = [c EXCEPT !.model = line.model]
      /\ line.is = "started" => Frame(c, q) /\ Starts1(c, q, n + 1, line)
      /\ line.is = "ended" => Frame(c, q) /\ (q = c \/ Ends(c, q) \/ Makes(c, q, n + 1))
      /\ line.is = "gap" => q.chain = "parser_gap" /\ Quiet(c, q) /\ Blocked(q)
      /\ line.is = "tokens" => q = CountTokens(c, n + 1, line)
  <2> HIDE DEF c, n
  <2> QED BY <1>1, <1>2, ModelStaysBut
<1>4. /\ line.is = "tokens" => line \in TokensRecord
      /\ line.is = "context" => line.model \in Models
  BY <1>2, RecordKinds
<1>5. Owned' <=> (Owned \/ line.is = "context")
  BY <1>1, OwnedWrites
<1> HIDE DEF q, d, c, n
<1>6. line.is = "context" => q.model # None
  <2>1. ASSUME line.is = "context"
        PROVE  q.model = line.model
    BY <1>1, <1>3, <2>1 DEF Processor
  <2> QED BY <1>4, <2>1, LedgerAssumption
<1>7. Owned' <=> ~Prefix(q)
  BY <1>1, <1>3, <1>5, <1>6 DEF Prefix
<1>8. OwnedInv'
  BY <1>2, <1>7 DEF OwnedInv, d
<1>9. d = ApplyRecord(c, n + 1, line)
  BY <1>2 DEF q
<1>10. /\ d.subagent = c.subagent
       /\ line.is # "context" => d.model = c.model
       /\ line.is = "context" => d = [c EXCEPT !.model = line.model]
       /\ line.is = "started" => Frame(c, d) /\ Starts1(c, d, n + 1, line)
       /\ line.is = "ended" => Frame(c, d) /\ (d = c \/ Ends(c, d) \/ Makes(c, d, n + 1))
       /\ line.is = "gap" => d.chain = "parser_gap" /\ Quiet(c, d) /\ Blocked(d)
       /\ line.is = "tokens" => d = CountTokens(c, n + 1, line)
  BY <1>2, <1>3
<1> QED BY <1>2, <1>4, <1>8, <1>9, <1>10 DEF c, d, n

LEMMA CountWrite ==
  ASSUME CountInv, ~BadPrefix, Write, Len(pending) < MaxBatch
  PROVE  CountInv'
<1> DEFINE n == Here
           c == Caught
           d == c'
           S == spent
           T == spent'
           H == shown
           G == shown'
           L == latest
           M == latest'
<1>1. NamesInv /\ NamesInv' /\ ResumeInv /\ ResumeInv' /\ FileTyped /\ FileTyped' /\ OwnedInv
  BY NamesWrite DEF CountInv, NamesInv, ResumeInv
<1>2. /\ S \in Tallies /\ T \in Tallies /\ H \in Usage /\ G \in Usage /\ L \in Usage /\ M \in Usage
      /\ c \in Processor /\ d \in Processor /\ InOrder(c, n) /\ InOrder(d, n')
      /\ ModelsFit(c)
  BY <1>1 DEF FileTyped, ResumeInv, NamesInv
<1>3. TotalsFit(c, S, H, L) /\ (~lossy => Complete(c, S, H)) /\ (Owned <=> ~Prefix(c))
  BY DEF CountInv, OwnedInv
\* It is enough to look at the line.
<1>4. ASSUME NEW line, NEW loses, Wrote(line, loses)
      PROVE  /\ d = ApplyRecord(c, n + 1, line) /\ n' = n + 1 /\ n + 1 \in 1..MaxLines /\ n \in Nat
             /\ line \in Record /\ lossy' = (lossy \/ loses)
             /\ d.subagent = c.subagent
             /\ line.is # "context" => d.model = c.model
             /\ line.is = "context" => d = [c EXCEPT !.model = line.model]
             /\ line.is = "started" => Frame(c, d) /\ Starts1(c, d, n + 1, line)
             /\ line.is = "ended" => Frame(c, d) /\ (d = c \/ Ends(c, d) \/ Makes(c, d, n + 1))
             /\ line.is = "gap" => d.chain = "parser_gap" /\ Quiet(c, d) /\ Blocked(d)
             /\ line.is = "tokens" => d = CountTokens(c, n + 1, line) /\ line \in TokensRecord
             /\ OwnedInv'
  BY <1>1, <1>4, LineDoes
\* What is left to prove:
<1>5. ASSUME OwnedInv', TotalsFit(d, T, G, M), ~lossy' => Complete(d, T, G)
      PROVE  CountInv'
  BY <1>1, <1>5 DEF CountInv
<1> HIDE DEF c, d, n, S, T, H, G, L, M
<1>6. CASE \E m \in Models : \E line : Wrote(line, FALSE) /\ line.is = "context" /\ line.model = m
             /\ NothingSpent /\ UNCHANGED started
  <2>1. PICK m, line : /\ m \in Models /\ Wrote(line, FALSE) /\ line.is = "context"
                       /\ line.model = m /\ NothingSpent
    BY <1>6
  <2>2. d = [c EXCEPT !.model = m] /\ OwnedInv' /\ (~lossy' => ~lossy)
    BY <1>4, <2>1
  <2>3. T = S /\ G = H /\ M = L
    BY <2>1 DEF NothingSpent, T, S, G, H, M, L
  <2>4. TotalsFit(d, S, H, L)
    BY <1>2, <1>3, <2>1, <2>2, FitsContext
  <2>5. d.events = c.events /\ d.chain = c.chain /\ d.prev = c.prev /\ d.turn = c.turn
    BY <1>2, <2>2 DEF Processor
  <2>6. ~lossy => Complete(d, S, H)
    BY <1>3, <2>5 DEF Complete, Unblocked
  <2> QED BY <1>5, <2>2, <2>3, <2>4, <2>6
<1>7. CASE \E line : Wrote(line, FALSE) /\ line.is \in {"started", "ended"} /\ NothingSpent
  <2>1. PICK line : Wrote(line, FALSE) /\ line.is \in {"started", "ended"} /\ NothingSpent
    BY <1>7
  <2>2. /\ n + 1 \in 1..MaxLines /\ n \in Nat /\ n' = n + 1 /\ (~lossy' => ~lossy) /\ OwnedInv'
        /\ line.is = "started" => Frame(c, d) /\ Starts1(c, d, n + 1, line)
        /\ line.is = "ended" => Frame(c, d) /\ (d = c \/ Ends(c, d) \/ Makes(c, d, n + 1))
    BY <1>4, <2>1
  <2>3. T = S /\ G = H /\ M = L
    BY <2>1 DEF NothingSpent, T, S, G, H, M, L
  <2>4. TotalsFit(d, S, H, L)
    BY <1>2, <1>3, <2>1, <2>2, FitsStarted, FitsEnded
  <2>5. ~lossy => Complete(d, S, H)
    BY <1>2, <1>3, <2>1, <2>2, CompleteStarted, CompleteEnded
  <2> QED BY <1>5, <2>2, <2>3, <2>4, <2>5
<1>8. ASSUME NEW amount, NEW restart, NEW line, NEW loses,
             Wrote(line, loses), SnapshotOfMore(line, amount, restart, loses)
      PROVE  CountInv'
  <2>1. /\ amount \in Amounts /\ Spend(amount, restart) /\ line \in TokensRecord
        /\ line.total.kind = "valid" /\ line.total.usage = G
        /\ line.last.kind = "valid" => Leq(line.last.usage, amount)
        /\ ~loses => /\ G # H /\ line.timed
                     /\ \/ line.last.kind = "valid" /\ line.last.usage = amount
                        \/ line.last.kind = "missing" /\ ~restart /\ H # ZeroUsage
    BY <1>8 DEF SnapshotOfMore, Snapped, G, H
  <2>2. /\ More(c, S, H, T, G, amount) /\ M = amount /\ (~restart => G = Plus(H, amount))
    BY <1>1, <2>1, SpendIsMore DEF c, S, H, T, G, M
  <2>3. line.is = "tokens"
    BY <2>1 DEF TokensRecord
  <2>4. /\ n + 1 \in 1..MaxLines /\ n \in Nat /\ n' = n + 1 /\ lossy' = (lossy \/ loses) /\ OwnedInv'
        /\ d = CountTokens(c, n + 1, line)
    BY <1>4, <1>8, <2>3
  <2>5. TotalsFit(d, T, G, M)
    BY <1>2, <1>3, <2>1, <2>2, <2>4, FitsSnapshot
  <2>6. ASSUME ~lossy'
        PROVE  Complete(d, T, G)
    <3>1. ~lossy /\ ~loses
      BY <2>4, <2>6
    <3>2. /\ G # H /\ line.timed /\ Complete(c, S, H)
          /\ \/ line.last.kind = "valid" /\ line.last.usage = M
             \/ line.last.kind = "missing" /\ G = Plus(H, M) /\ H # ZeroUsage
      BY <1>3, <2>1, <2>2, <3>1
    <3> QED BY <1>2, <1>3, <2>1, <2>2, <2>4, <3>2, CompleteSnapshot
  <2> QED BY <1>5, <2>4, <2>5, <2>6
<1>9. ASSUME NEW line, Wrote(line, FALSE), SnapshotAgain(line, FALSE)
      PROVE  CountInv'
  <2>1. /\ H # ZeroUsage /\ line \in TokensRecord /\ line.total.kind = "valid" /\ line.total.usage = G
        /\ line.last.kind = "valid" /\ Leq(line.last.usage, L) /\ line.timed
        /\ T = S /\ G = H /\ M = L
    BY <1>9 DEF SnapshotAgain, Snapped, NothingSpent, T, S, G, H, M, L
  <2>2. line.is = "tokens" /\ Again(S, H, L, T, G, M)
    BY <2>1 DEF TokensRecord, Again
  <2>3. /\ n + 1 \in 1..MaxLines /\ n \in Nat /\ n' = n + 1 /\ (~lossy' => ~lossy) /\ OwnedInv'
        /\ d = CountTokens(c, n + 1, line)
    BY <1>4, <1>9, <2>2
  <2>4. TotalsFit(d, T, G, M)
    BY <1>2, <1>3, <2>1, <2>2, <2>3, FitsSnapshot
  <2>5. ~lossy' => Complete(d, T, G)
    BY <1>2, <1>3, <2>1, <2>2, <2>3, CompleteSnapshot
  <2> QED BY <1>5, <2>3, <2>4, <2>5
<1>10. ASSUME NEW amount \in Amounts, NEW line, Owned, Wrote(line, TRUE), Spend(amount, FALSE),
              line.is = "gap" \/ (line.is = "tokens" /\ line.total.kind = "invalid")
       PROVE  CountInv'
  <2>1. /\ n + 1 \in 1..MaxLines /\ n \in Nat /\ n' = n + 1 /\ lossy' /\ OwnedInv'
        /\ line.is = "gap" => d.chain = "parser_gap" /\ Quiet(c, d) /\ Blocked(d)
        /\ line.is = "tokens" => d = CountTokens(c, n + 1, line) /\ line \in TokensRecord
    BY <1>4, <1>10
  <2>2. ~Prefix(c)
    BY <1>3, <1>10
  <2>3. d.chain # "continuous" /\ Quiet(c, d) /\ Blocked(d)
    <3>1. CASE line.is = "gap"
      BY <2>1, <3>1
    <3>2. CASE line.is = "tokens" /\ line.total.kind = "invalid"
      <4> DEFINE q == CountTokens(c, n + 1, line)
      <4>1. q.chain = "required_invalid" /\ Quiet(c, q) /\ Blocked(q)
        BY <1>2, <2>1, <2>2, <3>2, CountTokensDoes
      <4>2. d = q
        BY <2>1, <3>2
      <4> HIDE DEF q
      <4> QED BY <4>1, <4>2
    <3> QED BY <1>10, <3>1, <3>2
  <2>4. Leq(S, T)
    <3>1. More(c, S, H, T, G, amount)
      BY <1>1, <1>10, SpendIsMore DEF c, S, H, T, G
    <3> QED BY <1>2, <3>1, MorePays
  <2>5. TotalsFit(d, T, G, M)
    BY <1>2, <1>3, <2>2, <2>3, <2>4, FitsBroken
  <2> QED BY <1>5, <2>1, <2>5
<1>11. Wrote1
  BY <1>1, WriteIs
<1> QED BY <1>6, <1>7, <1>8, <1>9, <1>10, <1>11 DEF Wrote1

LEMMA CountCommit ==
  ASSUME CountInv, CommitBatch
  PROVE  CountInv'
<1>1. NamesInv /\ ResumeInv /\ NamesInv'
  BY NamesCommit DEF CountInv, NamesInv
<1>2. /\ Caught' = Caught /\ pending' = <<>> /\ spent' = spent /\ shown' = shown
      /\ latest' = latest /\ lossy' = lossy /\ subagent' = subagent
  BY <1>1, CommitKeeps
<1>3. db'.model = Fresh.model /\ Fresh.model = Caught.model /\ Caught.subagent = subagent
      /\ subagent \in BOOLEAN
  BY <1>1, CommitIs DEF ResumeInv, Lifted, Frame, FileTyped
<1>4. Owned' <=> ~Prefix(Caught)
  <2>1. DOMAIN <<>> = {}
    OBVIOUS
  <2>2. DOMAIN pending' = {}
    BY <1>2, <2>1
  <2> QED BY <1>2, <1>3, <2>2 DEF Owned, Prefix
<1>5. OwnedInv'
  BY <1>2, <1>4 DEF OwnedInv
<1> QED BY <1>1, <1>2, <1>5 DEF CountInv

LEMMA CountStutter ==
  ASSUME CountInv, UNCHANGED tokenVars
  PROVE  CountInv'
<1>1. NamesInv'
  BY NamesStutter DEF CountInv
<1>2. /\ Caught' = Caught /\ pending' = pending /\ spent' = spent /\ shown' = shown
      /\ latest' = latest /\ lossy' = lossy /\ subagent' = subagent /\ db' = db
  BY StutterKeeps
<1>3. OwnedInv'
  BY <1>2 DEF CountInv, OwnedInv, Owned
<1> QED BY <1>1, <1>2, <1>3 DEF CountInv

LEMMA AlwaysCounts ==
  ASSUME BadPrefix = FALSE
  PROVE  TokenSpec => []CountInv
<1>1. TokenInit => CountInv
  BY CountInit
<1>2. CountInv /\ [TokenNext]_tokenVars => CountInv'
  BY CountWrite, CountCommit, CountStutter DEF TokenNext
<1> QED BY <1>1, <1>2, PTL DEF TokenSpec

\* While every line can be read and is complete, or lacks only a last usage that the totals give
\* back, all of what was spent is counted once the lines are committed, for every file whose
\* parent's part has totals that can be read and comes before its turns (processor.rs:
\* token_count, compensate).
THEOREM AllThatIsReadableIsCounted ==
  ASSUME BadPrefix = FALSE
  PROVE  TokenSpec => []CountsEverythingReadable
<1>1. CountInv => CountsEverythingReadable
  <2> SUFFICES ASSUME CountInv, pending = <<>>, ~lossy
               PROVE  UsageOf(db.events) = spent
    BY DEF CountsEverythingReadable
  <2>1. db.offset \in Nat /\ db.events = straight.events
    BY DEF CountInv, NamesInv, ResumeInv, FileTyped, ResumesExactly
  <2>2. Caught = straight
    BY <2>1, ProcessNothing DEF Caught
  <2> QED BY <2>1, <2>2 DEF CountInv, Complete
<1> QED BY <1>1, AlwaysCounts, PTL

\* In all, no more is counted than was spent, whatever the amounts, the ids and the ends of batches
\* (processor.rs: token_count, compensate).
THEOREM NoMoreThanWasSpent ==
  ASSUME BadPrefix = FALSE
  PROVE  TokenSpec => []Leq(UsageOf(db.events), spent)
<1>1. CountInv => Leq(UsageOf(db.events), spent)
  <2> SUFFICES ASSUME CountInv
               PROVE  Leq(UsageOf(db.events), spent)
    OBVIOUS
  <2>1. /\ ResumeInv /\ Caught \in Processor /\ InOrder(Caught, Here)
        /\ db.events = straight.events /\ Caught.events = straight.events \cup Fresh.events
        /\ spent \in Tallies /\ Leq(UsageOf(Caught.events), spent)
    BY DEF CountInv, NamesInv, ResumeInv, ResumesExactly, Lifted, FileTyped, TotalsFit, Bounded
  <2>2. /\ Caught.events \in SUBSET Event /\ IsFiniteSet(Caught.events)
        /\ db.events \in SUBSET Caught.events
    BY <2>1, EventsAddUp
  <2>3. Leq(UsageOf(db.events), UsageOf(Caught.events))
    BY <2>2, UsageOfPart
  <2>4. /\ UsageOf(db.events).input \in Nat /\ UsageOf(db.events).cached \in Nat
        /\ UsageOf(Caught.events).input \in Nat /\ UsageOf(Caught.events).cached \in Nat
    <3>1. IsFiniteSet(db.events) /\ db.events \in SUBSET Event
      BY <2>2, FS_Subset
    <3> QED BY <2>2, <3>1, UsageOfIsTotal
  <2> QED BY <2>1, <2>3, <2>4, TotalParts DEF Leq
<1> QED BY <1>1, AlwaysCounts, PTL

------------------------------------------------------------------------------
(* What a turn counts was spent in it.  X is the set of the starts, which say *)
(* what had been spent when they were written.                                *)

Named(p, s) == {e \in p.events : e.turn = KeyOf(s)}

TurnsFit(p, X, S, H) ==
  /\ p.chain = "continuous" /\ p.prev # None => p.prev = H
  /\ Unblocked(p) => \A s \in X : s.at = p.turn.at => Leq(Plus(s.spent, Minus(H, p.turn.start)), S)
  /\ \A s \in X : Leq(Plus(s.spent, UsageOf(Named(p, s))), S)
  /\ \A s, r \in X : r.at > s.at => Leq(Plus(s.spent, UsageOf(Named(p, s))), r.spent)

SpentTyped(X) == \A s \in X : s.spent \in Tallies

LEMMA NamedAddUp ==
  ASSUME NEW p \in Processor, NEW n, InOrder(p, n), NEW s
  PROVE  /\ Named(p, s) \in SUBSET Event /\ IsFiniteSet(Named(p, s)) /\ Named(p, s) \in SUBSET p.events
         /\ UsageOf(Named(p, s)).input \in Nat /\ UsageOf(Named(p, s)).cached \in Nat
<1>1. p.events \in SUBSET Event /\ IsFiniteSet(p.events)
  BY EventsAddUp
<1>2. Named(p, s) \in SUBSET Event /\ IsFiniteSet(Named(p, s)) /\ Named(p, s) \in SUBSET p.events
  BY <1>1, FS_Subset DEF Named
<1> QED BY <1>2, UsageOfIsTotal

\* Nothing new is counted.
LEMMA TurnsFitQuiet ==
  ASSUME NEW p \in Processor, NEW q, NEW n, InOrder(p, n), NEW X, SpentTyped(X),
         NEW S \in Tallies, NEW T \in Tallies, NEW H, NEW G, TurnsFit(p, X, S, H), Leq(S, T),
         q.events = p.events,
         q.chain = "continuous" /\ q.prev # None => q.prev = G,
         Unblocked(q) => \A s \in X : s.at = q.turn.at => Leq(Plus(s.spent, Minus(G, q.turn.start)), T)
  PROVE  TurnsFit(q, X, T, G)
<1>1. \A s \in X : Named(q, s) = Named(p, s)
  BY DEF Named
<1>2. ASSUME NEW s \in X
      PROVE  Leq(Plus(s.spent, UsageOf(Named(q, s))), T)
  <2> DEFINE u == UsageOf(Named(p, s))
  <2>1. /\ u.input \in Nat /\ u.cached \in Nat /\ s.spent.input \in Nat /\ s.spent.cached \in Nat
        /\ S.input \in Nat /\ S.cached \in Nat /\ T.input \in Nat /\ T.cached \in Nat
    BY NamedAddUp, TotalParts DEF SpentTyped
  <2>2. Leq(Plus(s.spent, u), S)
    BY DEF TurnsFit
  <2> HIDE DEF u
  <2>3. Leq(Plus(s.spent, u), T)
    BY <2>1, <2>2 DEF Leq, Plus
  <2> QED BY <1>1, <2>3 DEF u
<1>3. \A s, r \in X : r.at > s.at => Leq(Plus(s.spent, UsageOf(Named(q, s))), r.spent)
  BY <1>1 DEF TurnsFit
<1> QED BY <1>2, <1>3 DEF TurnsFit

\* An event of the open turn is counted, and what it counts was spent since that turn started.
LEMMA TurnsFitCounted ==
  ASSUME NEW p \in Processor, NEW q, NEW n \in Nat, InOrder(p, n), NEW X, SpentTyped(X),
         StartTyped(X, n), Distinct(X), Follows(p, X),
         NEW S \in Tallies, NEW T \in Tallies, NEW H, NEW G, TurnsFit(p, X, S, H), Leq(S, T),
         NEW e \in Event, e.at = n + 1, e.turn = KeyNow(p), q.events = p.events \cup {e},
         q.chain = "continuous" /\ q.prev # None => q.prev = G,
         Unblocked(q) => \A s \in X : s.at = q.turn.at => Leq(Plus(s.spent, Minus(G, q.turn.start)), T),
         p.turn # None => \A s \in X : IsOf(p.turn, s) =>
           Leq(Plus(s.spent, Plus(UsageOf(Named(p, s)), e.usage)), T)
  PROVE  TurnsFit(q, X, T, G)
<1>1. \A s \in X : s.id \in Ids \cup {None} /\ s.at \in Nat /\ KeyOf(s) # None
  BY LedgerAssumption DEF StartTyped, KeyOf
<1>2. e \notin p.events
  BY LedgerAssumption DEF InOrder
<1>3. ASSUME NEW s \in X
      PROVE  IF p.turn # None /\ IsOf(p.turn, s)
               THEN /\ UsageOf(Named(q, s)) = Plus(UsageOf(Named(p, s)), e.usage)
                    /\ \A r \in X : ~(r.at > s.at)
               ELSE Named(q, s) = Named(p, s)
  <2>1. CASE p.turn # None /\ IsOf(p.turn, s)
    <3>1. e.turn = KeyOf(s)
      BY <2>1 DEF KeyNow, IsOf
    <3>2. Named(q, s) = Named(p, s) \cup {e} /\ e \notin Named(p, s)
      BY <1>2, <3>1 DEF Named
    <3>3. UsageOf(Named(q, s)) = Plus(UsageOf(Named(p, s)), e.usage)
      BY <3>2, NamedAddUp, UsageOfMore
    <3>4. PICK s0 \in X : IsOf(p.turn, s0) /\ \A r \in X : r.at <= s0.at
      BY <2>1 DEF Follows
    <3>5. s0 = s
      BY <2>1, <3>4 DEF IsOf, Distinct
    <3>6. \A r \in X : ~(r.at > s.at)
      BY <1>1, <3>4, <3>5
    <3> QED BY <2>1, <3>3, <3>6
  <2>2. CASE p.turn # None /\ ~IsOf(p.turn, s)
    <3>1. PICK s0 \in X : IsOf(p.turn, s0)
      BY <2>2 DEF Follows
    <3>2. KeyOf(s0) # KeyOf(s)
      BY <2>2, <3>1 DEF Distinct
    <3>3. e.turn # KeyOf(s)
      BY <2>2, <3>1, <3>2 DEF KeyNow, IsOf
    <3> QED BY <2>2, <3>3 DEF Named
  <2>3. CASE p.turn = None
    <3>1. e.turn # KeyOf(s)
      BY <1>1, <2>3 DEF KeyNow
    <3> QED BY <2>3, <3>1 DEF Named
  <2> QED BY <2>1, <2>2, <2>3
<1>4. ASSUME NEW s \in X
      PROVE  Leq(Plus(s.spent, UsageOf(Named(q, s))), T)
  <2>1. CASE p.turn # None /\ IsOf(p.turn, s)
    BY <1>3, <2>1
  <2>2. CASE ~(p.turn # None /\ IsOf(p.turn, s))
    <3> DEFINE u == UsageOf(Named(p, s))
    <3>1. /\ u.input \in Nat /\ u.cached \in Nat /\ s.spent.input \in Nat /\ s.spent.cached \in Nat
          /\ S.input \in Nat /\ S.cached \in Nat /\ T.input \in Nat /\ T.cached \in Nat
      BY NamedAddUp, TotalParts DEF SpentTyped
    <3>2. Leq(Plus(s.spent, u), S) /\ UsageOf(Named(q, s)) = u
      BY <1>3, <2>2 DEF TurnsFit
    <3> HIDE DEF u
    <3>3. Leq(Plus(s.spent, u), T)
      BY <3>1, <3>2 DEF Leq, Plus
    <3> QED BY <3>2, <3>3
  <2> QED BY <2>1, <2>2
<1>5. ASSUME NEW s \in X, NEW r \in X, r.at > s.at
      PROVE  Leq(Plus(s.spent, UsageOf(Named(q, s))), r.spent)
  <2>1. Named(q, s) = Named(p, s)
    BY <1>3, <1>5
  <2> QED BY <1>5, <2>1 DEF TurnsFit
<1> QED BY <1>4, <1>5 DEF TurnsFit

\* A new turn starts where the last snapshot was.
LEMMA TurnsFitStarted ==
  ASSUME NEW p \in Processor, NEW q, NEW n \in Nat, InOrder(p, n), NEW X, SpentTyped(X),
         StartTyped(X, n), Follows(p, X), NEW S \in Tallies, NEW H \in Usage, TurnsFit(p, X, S, H),
         NEW line, Starts1(p, q, n + 1, line), Frame(p, q),
         NEW s, s.at = n + 1, s.spent = S, Distinct(X \cup {s})
  PROVE  TurnsFit(q, X \cup {s}, S, H)
<1>1. q.events = p.events /\ q.chain = p.chain /\ q.prev = p.prev /\ q.turn.at = n + 1
  BY DEF Starts1, Frame
<1>2. \A r \in X : r.at \in Nat /\ r.at < s.at /\ KeyOf(r) # KeyOf(s)
  <2>1. \A r \in X : r.at \in 1..n
    BY DEF StartTyped
  <2>2. \A r \in X : r.at \in Nat /\ r.at < s.at /\ r # s
    BY <2>1
  <2> QED BY <2>2 DEF Distinct
<1>3. /\ S.input \in Nat /\ S.cached \in Nat /\ H.input \in Nat /\ H.cached \in Nat
  BY TotalParts
<1>4. \A r : Named(q, r) = Named(p, r)
  BY <1>1 DEF Named
<1>5. Named(q, s) = {}
  <2>1. s.at # None
    BY LedgerAssumption
  <2>2. KeyOf(s) # None
    BY <2>1 DEF KeyOf
  <2> QED BY <1>1, <1>2, <2>2 DEF Named, Follows
<1>6. Leq(Plus(S, UsageOf(Named(q, s))), S)
  BY <1>3, <1>5, UsageOfNone DEF Leq, Plus, ZeroUsage
<1>7. ASSUME NEW r \in X
      PROVE  Leq(Plus(r.spent, UsageOf(Named(q, r))), S)
  BY <1>4 DEF TurnsFit
<1>8. ASSUME NEW r \in X \cup {s}, NEW t \in X \cup {s}, t.at > r.at
      PROVE  Leq(Plus(r.spent, UsageOf(Named(q, r))), t.spent)
  <2>1. r \in X
    BY <1>2, <1>8
  <2>2. CASE t \in X
    BY <1>4, <1>8, <2>1, <2>2 DEF TurnsFit
  <2>3. CASE t = s
    BY <1>7, <2>1, <2>3
  <2> QED BY <2>2, <2>3
<1>9. ASSUME Unblocked(q), NEW r \in X \cup {s}, r.at = q.turn.at
      PROVE  Leq(Plus(r.spent, Minus(H, q.turn.start)), S)
  <2>1. r = s
    BY <1>1, <1>2, <1>9
  <2>2. q.turn.start = p.prev /\ p.prev \in Usage /\ p.chain = "continuous"
    BY <1>9 DEF Starts1, Unblocked
  <2>3. q.turn.start = H
    BY <2>2, TotalParts DEF TurnsFit
  <2>4. Leq(Plus(S, Minus(H, H)), S)
    BY <1>3 DEF Leq, Plus, Minus
  <2> QED BY <2>1, <2>3, <2>4
<1>10. q.chain = "continuous" /\ q.prev # None => q.prev = H
  BY <1>1 DEF TurnsFit
<1> QED BY <1>6, <1>7, <1>8, <1>9, <1>10 DEF TurnsFit

\* The end of a turn counts what the totals say of the turn, and no more.
LEMMA TurnsFitEnded ==
  ASSUME NEW p \in Processor, NEW q, NEW n \in Nat, InOrder(p, n), NEW X, SpentTyped(X),
         StartTyped(X, n), Distinct(X), Follows(p, X),
         NEW S \in Tallies, NEW H \in Usage, NEW L, TurnsFit(p, X, S, H), TotalsFit(p, S, H, L),
         Frame(p, q), Ends(p, q) \/ Makes(p, q, n + 1)
  PROVE  TurnsFit(q, X, S, H)
<1>1. q.chain = p.chain /\ q.prev = p.prev /\ ~Unblocked(q) /\ Leq(S, S)
  <2>1. S.input \in Nat /\ S.cached \in Nat
    BY TotalParts
  <2> QED BY <2>1 DEF Frame, Ends, Makes, Unblocked, Leq
<1>2. q.chain = "continuous" /\ q.prev # None => q.prev = H
  BY <1>1 DEF TurnsFit
<1>3. CASE Ends(p, q)
  BY <1>1, <1>2, <1>3, TurnsFitQuiet DEF Ends
<1>4. CASE Makes(p, q, n + 1)
  <2>1. PICK e : Compensation(e, p, n + 1) /\ q.events = p.events \cup {e}
    BY <1>4 DEF Makes
  <2>2. /\ Unblocked(p) /\ p.turn # None /\ p.turn.last # None
        /\ e \in Event /\ e.at = n + 1 /\ e.turn = KeyNow(p)
        /\ e.usage = Minus(Minus(p.turn.last, p.turn.start), p.turn.accounted)
    BY <1>4, <2>1, TotalParts DEF Makes, Compensates, Unblocked, Compensation, KeyNow
  <2>3. /\ p.turn.start \in Usage /\ p.turn.last = H /\ p.turn.accounted = UsageOf(OwnOf(p))
    BY <2>2 DEF TurnFits, TotalsFit
  <2>4. ASSUME NEW s \in X, IsOf(p.turn, s)
        PROVE  Leq(Plus(s.spent, Plus(UsageOf(Named(p, s)), e.usage)), S)
    <3> DEFINE u == UsageOf(Named(p, s))
               B == p.turn.start
               w == e.usage
    <3>1. OwnOf(p) = Named(p, s)
      BY <2>2, <2>4, OwnIsNamed DEF IsOf, Named
    <3>2. w = Minus(Minus(H, B), u)
      BY <2>2, <2>3, <3>1
    <3>3. Leq(Plus(s.spent, Minus(H, B)), S)
      BY <2>2, <2>4 DEF TurnsFit, IsOf
    <3>4. /\ u.input \in Nat /\ u.cached \in Nat /\ s.spent.input \in Nat /\ s.spent.cached \in Nat
          /\ S.input \in Nat /\ S.cached \in Nat /\ H.input \in Nat /\ H.cached \in Nat
          /\ B.input \in Nat /\ B.cached \in Nat
      BY <2>3, NamedAddUp, TotalParts DEF SpentTyped
    <3> HIDE DEF u, B, w
    <3>5. Leq(Plus(s.spent, Plus(u, w)), S)
      BY <3>2, <3>3, <3>4 DEF Leq, Plus, Minus
    <3> QED BY <3>5 DEF u, w
  <2> QED BY <1>1, <1>2, <2>1, <2>2, <2>4, TurnsFitCounted
<1> QED BY <1>3, <1>4

------------------------------------------------------------------------------

\* What a turn that stays open may still make up for stays within what was spent.
LEMMA StartStaysCovered ==
  ASSUME NEW p \in Processor, NEW q, NEW E, Advances(p, q, E), NEW X, SpentTyped(X),
         NEW S \in Tallies, NEW T \in Tallies, NEW H \in Usage, NEW G \in Usage, NEW L,
         TurnsFit(p, X, S, H), TotalsFit(p, S, H, L), p.turn # None => Pays(S, H, T, G)
  PROVE  Unblocked(q) => \A s \in X : s.at = q.turn.at => Leq(Plus(s.spent, Minus(G, q.turn.start)), T)
<1> SUFFICES ASSUME Unblocked(q), NEW s \in X, s.at = q.turn.at
             PROVE  Leq(Plus(s.spent, Minus(G, q.turn.start)), T)
  OBVIOUS
<1>1. Unblocked(p) /\ p.turn # None /\ q.turn.start = p.turn.start /\ q.turn.at = p.turn.at
  BY DEF Unblocked, Advances, Later
<1> DEFINE B == p.turn.start
<1>2. B \in Usage /\ Leq(Plus(s.spent, Minus(H, B)), S) /\ Pays(S, H, T, G)
  BY <1>1 DEF TurnsFit, TotalsFit, TurnFits
<1>3. /\ B.input \in Nat /\ B.cached \in Nat /\ s.spent.input \in Nat /\ s.spent.cached \in Nat
      /\ S.input \in Nat /\ S.cached \in Nat /\ T.input \in Nat /\ T.cached \in Nat
      /\ H.input \in Nat /\ H.cached \in Nat /\ G.input \in Nat /\ G.cached \in Nat
  BY <1>2, TotalParts DEF SpentTyped
<1> HIDE DEF B
<1>4. Leq(Plus(s.spent, Minus(G, B)), T)
  BY <1>2, <1>3 DEF Leq, Plus, Minus, Pays
<1> QED BY <1>1, <1>4 DEF B

LEMMA TurnsFitSnapshot ==
  ASSUME NEW p \in Processor, NEW n \in Nat, n + 1 \in 1..MaxLines, InOrder(p, n),
         NEW X, SpentTyped(X), StartTyped(X, n), Distinct(X), Follows(p, X),
         NEW line \in TokensRecord, line.total.kind = "valid",
         NEW S \in Tallies, NEW T \in Tallies, NEW H \in Usage, NEW G \in Usage, NEW L, NEW M \in Usage,
         G = line.total.usage, TotalsFit(p, S, H, L), TurnsFit(p, X, S, H),
         line.last.kind = "valid" => Leq(line.last.usage, M),
         \/ More(p, S, H, T, G, M) /\ (Leq(H, M) => Minus(M, H) \in Usage)
         \/ Again(S, H, L, T, G, M) /\ line.timed /\ line.last.kind = "valid"
  PROVE  TurnsFit(CountTokens(p, n + 1, line), X, T, G)
<1> DEFINE q == CountTokens(p, n + 1, line)
           reset == p.prev # None /\ Negative(G, p.prev)
           apart == p.chain = "continuous" /\ p.prev # G
           last == line.last
           Timed == line.timed
<1> SUFFICES TurnsFit(q, X, T, G)
  OBVIOUS
<1>1. /\ q \in Processor
      /\ Prefix(p) => Based(q, G) /\ Quiet(p, q)
      /\ ~Prefix(p) =>
           /\ ~Timed => Based(q, G) /\ Quiet(p, q) /\ Blocked(q)
           /\ Timed /\ ~apart => Based(q, G) /\ Quiet(p, q)
           /\ Timed /\ apart =>
                /\ reset \/ last.kind # "missing" =>
                     /\ Based(q, G)
                     /\ IF last.kind = "valid"
                          THEN Emits(p, q, n + 1, "normal", last.usage)
                          ELSE Quiet(p, q)
                /\ ~reset /\ last.kind = "missing" =>
                     IF p.prev # None /\ NotAUsage(G, p.prev)
                       THEN q.chain = p.chain /\ q.prev = p.prev /\ Quiet(p, q) /\ Blocked(q)
                       ELSE /\ Based(q, G)
                            /\ IF p.prev = None THEN Quiet(p, q)
                               ELSE /\ Minus(G, p.prev) \in Usage
                                    /\ Emits(p, q, n + 1, "recovered", Minus(G, p.prev))
  BY CountTokensDoes
<1>2. /\ S.input \in Nat /\ S.cached \in Nat /\ T.input \in Nat /\ T.cached \in Nat
      /\ H.input \in Nat /\ H.cached \in Nat /\ G.input \in Nat /\ G.cached \in Nat
      /\ M.input \in Nat /\ M.cached \in Nat
  BY TotalParts
<1>3. Leq(S, T) /\ (p.turn # None => Pays(S, H, T, G))
  <2>1. CASE More(p, S, H, T, G, M)
    BY <2>1, MorePays DEF More
  <2>2. CASE T = S /\ G = H
    <3>1. Leq(S, S) /\ Pays(S, H, S, H)
      BY <1>2 DEF Leq, Plus, Pays
    <3> QED BY <2>2, <3>1
  <2> QED BY <2>1, <2>2 DEF Again
<1>4. ASSUME apart
      PROVE  /\ p.prev = None \/ p.prev = H
             /\ Again(S, H, L, T, G, M) => FALSE
  BY <1>4 DEF TurnsFit, Again, TotalsFit, Begins
<1> HIDE DEF q
<1>5. ASSUME Based(q, G), Quiet(p, q)
      PROVE  TurnsFit(q, X, T, G)
  <2>1. q.events = p.events /\ (q.chain = "continuous" /\ q.prev # None => q.prev = G)
    BY <1>5 DEF Based, Quiet, Advances
  <2>2. Unblocked(q) => \A s \in X : s.at = q.turn.at => Leq(Plus(s.spent, Minus(G, q.turn.start)), T)
    BY <1>3, <1>5, StartStaysCovered DEF Quiet
  <2> QED BY <1>3, <2>1, <2>2, TurnsFitQuiet
<1>6. ASSUME ~Prefix(p), apart, Based(q, G), NEW kind, NEW used \in Usage,
             Emits(p, q, n + 1, kind, used), Leq(used, M)
      PROVE  TurnsFit(q, X, T, G)
  <2>1. PICK e : Candidate(e, p, n + 1, kind, used) /\ Advances(p, q, {e})
    BY <1>6 DEF Emits
  <2>2. /\ e \in Event /\ e.at = n + 1 /\ e.usage = used /\ e.turn = KeyNow(p)
        /\ q.events = p.events \cup {e}
    BY <2>1 DEF Candidate, Advances
  <2>3. q.chain = "continuous" /\ q.prev # None => q.prev = G
    BY <1>6 DEF Based
  <2>4. Unblocked(q) => \A s \in X : s.at = q.turn.at => Leq(Plus(s.spent, Minus(G, q.turn.start)), T)
    BY <1>3, <2>1, StartStaysCovered
  <2>5. ASSUME NEW s \in X
        PROVE  Leq(Plus(s.spent, Plus(UsageOf(Named(p, s)), used)), T)
    <3> DEFINE u == UsageOf(Named(p, s))
    <3>1. /\ u.input \in Nat /\ u.cached \in Nat /\ s.spent.input \in Nat /\ s.spent.cached \in Nat
          /\ used.input \in Nat /\ used.cached \in Nat
      BY NamedAddUp, TotalParts DEF SpentTyped
    <3>2. Leq(Plus(s.spent, u), S) /\ T = Plus(S, M)
      BY <1>4, <1>6 DEF TurnsFit, More
    <3> HIDE DEF u
    <3>3. Leq(Plus(s.spent, Plus(u, used)), T)
      BY <1>2, <1>6, <3>1, <3>2 DEF Leq, Plus
    <3> QED BY <3>3 DEF u
  <2> QED BY <1>3, <2>2, <2>3, <2>4, <2>5, TurnsFitCounted
<1>7. CASE Prefix(p) \/ ~Timed \/ ~apart
  BY <1>1, <1>5, <1>7
<1>8. CASE ~Prefix(p) /\ Timed /\ apart /\ (reset \/ last.kind # "missing")
  <2>1. CASE last.kind = "valid"
    <3>1. Leq(last.usage, M) /\ last.usage \in Usage
      BY <2>1 DEF TokensRecord, Tokens
    <3>2. Based(q, G) /\ Emits(p, q, n + 1, "normal", last.usage)
      BY <1>1, <1>8, <2>1
    <3> QED BY <1>6, <1>8, <3>1, <3>2
  <2>2. CASE last.kind # "valid"
    BY <1>1, <1>5, <1>8, <2>2
  <2> QED BY <2>1, <2>2
<1>9. CASE ~Prefix(p) /\ Timed /\ apart /\ ~reset /\ last.kind = "missing"
  <2>1. CASE p.prev = None
    BY <1>1, <1>5, <1>9, <2>1
  <2>2. CASE p.prev # None
    <3>1. p.prev = H /\ More(p, S, H, T, G, M) /\ (Leq(H, M) => Minus(M, H) \in Usage) /\ Leq(H, G)
      BY <1>4, <1>9, <2>2 DEF Negative
    <3>2. Minus(G, H) \in Usage /\ Leq(Minus(G, H), M)
      <4>1. CASE G = M
        <5>1. Leq(Minus(M, H), M)
          BY <1>2 DEF Leq, Minus
        <5> QED BY <3>1, <4>1, <5>1
      <4>2. CASE G = Plus(H, M)
        <5>1. Minus(G, H) = [input |-> M.input, cached |-> M.cached]
          BY <1>2, <4>2 DEF Minus, Plus
        <5>2. Minus(G, H) = M
          BY <5>1 DEF Usage
        <5> QED BY <1>2, <5>2 DEF Leq
      <4> QED BY <3>1, <4>1, <4>2 DEF More
    <3>3. ~NotAUsage(G, p.prev)
      BY <3>1, <3>2 DEF NotAUsage
    <3>4. Based(q, G) /\ Emits(p, q, n + 1, "recovered", Minus(G, H))
      BY <1>1, <1>9, <2>2, <3>1, <3>3
    <3> QED BY <1>6, <1>9, <3>2, <3>4
  <2> QED BY <2>1, <2>2
<1> QED BY <1>7, <1>8, <1>9

------------------------------------------------------------------------------

\* A holds every total that the provider may show, and the difference of an amount and a total in
\* A that it covers is a usage: a total that starts over is then never taken for one that cannot be.
Covers(A) ==
  /\ A \in SUBSET Usage /\ Amounts \subseteq A /\ ZeroUsage \in A
  /\ \A a \in A, m \in Amounts : /\ Plus(a, m) \in Usage => Plus(a, m) \in A
                                 /\ Leq(a, m) => Minus(m, a) \in Usage

TurnInv(A) ==
  /\ CountInv /\ OnceInv
  /\ TurnsFit(Caught, Starts, spent, shown)
  /\ shown \in A

LEMMA StartsHaveSpent ==
  ASSUME FileTyped
  PROVE  SpentTyped(Starts)
<1>1. \A s \in Starts : s \in StartOf(spent)
  BY DEF FileTyped, Starts
<1>2. \A i \in 0..spent.input, j \in 0..spent.cached : [input |-> i, cached |-> j] \in Tallies
  BY DEF FileTyped, Tallies
<1> QED BY <1>1, <1>2 DEF SpentTyped, StartOf

LEMMA TurnInit ==
  ASSUME TokenInit, NEW A, Covers(A)
  PROVE  TurnInv(A)
<1>1. CountInv /\ OnceInv
  BY CountInit, NamesInit
<1>2. /\ shown = ZeroUsage /\ started = <<>> /\ pending = <<>> /\ db.offset = 0
      /\ straight = NewProcessor(subagent)
  BY DEF TokenInit
<1>3. Caught = straight
  BY <1>2, ProcessNothing DEF Caught
<1>4. Caught.prev = None /\ Caught.turn = None
  BY <1>2, <1>3 DEF NewProcessor
<1>5. Starts = {}
  <2>1. Len(started) = 0
    BY <1>2
  <2> QED BY <2>1 DEF Starts
<1>6. TurnsFit(Caught, Starts, spent, shown)
  BY <1>4, <1>5 DEF TurnsFit, Unblocked
<1> QED BY <1>1, <1>2, <1>6 DEF TurnInv, Covers

LEMMA TurnWrite ==
  ASSUME NEW A, Covers(A), TurnInv(A), ~BadPrefix, ~ReusedIds, Write, Len(pending) < MaxBatch
  PROVE  TurnInv(A)'
<1> DEFINE n == Here
           c == Caught
           d == c'
           S == spent
           T == spent'
           H == shown
           G == shown'
           L == latest
           M == latest'
           X == Starts
<1>1. /\ CountInv /\ CountInv' /\ NamesInv /\ NamesInv' /\ OnceInv /\ OnceInv'
      /\ ResumeInv /\ ResumeInv' /\ FileTyped /\ FileTyped' /\ OwnedInv
  BY NamesWrite, CountWrite DEF TurnInv, CountInv, NamesInv, ResumeInv
<1>2. /\ S \in Tallies /\ T \in Tallies /\ H \in Usage /\ G \in Usage /\ L \in Usage /\ M \in Usage
      /\ c \in Processor /\ InOrder(c, n) /\ n \in Nat
      /\ SpentTyped(X) /\ StartTyped(X, n) /\ Distinct(X) /\ Distinct(X') /\ Follows(c, X)
  BY <1>1, StartsHaveSpent DEF FileTyped, ResumeInv, NamesInv, OnceInv, Here
<1>3. TotalsFit(c, S, H, L) /\ TurnsFit(c, X, S, H) /\ H \in A
  BY DEF TurnInv, CountInv
\* What is left to prove:
<1>4. ASSUME TurnsFit(d, X', T, G), G \in A
      PROVE  TurnInv(A)'
  BY <1>1, <1>4 DEF TurnInv
<1>5. started' = started => X' = X
  BY DEF Starts
<1>6. ASSUME NEW amount, NEW restart, amount \in Amounts, Spend(amount, restart)
      PROVE  /\ More(c, S, H, T, G, amount) /\ M = amount /\ started' = started
             /\ G \in A /\ (Leq(H, M) => Minus(M, H) \in Usage)
  <2>1. /\ More(c, S, H, T, G, amount) /\ M = amount /\ started' = started
    BY <1>1, <1>6, SpendIsMore
  <2>2. G \in {amount, Plus(H, amount)}
    BY <2>1 DEF More
  <2> QED BY <1>2, <1>3, <1>6, <2>1, <2>2 DEF Covers
<1>7. ASSUME NEW line, NEW loses, Wrote(line, loses)
      PROVE  /\ n + 1 \in 1..MaxLines
             /\ line.is = "context" => d = [c EXCEPT !.model = line.model]
             /\ line.is = "started" => Frame(c, d) /\ Starts1(c, d, n + 1, line)
             /\ line.is = "ended" => Frame(c, d) /\ (d = c \/ Ends(c, d) \/ Makes(c, d, n + 1))
             /\ line.is = "gap" => d.chain = "parser_gap" /\ Quiet(c, d) /\ Blocked(d)
             /\ line.is = "tokens" => d = CountTokens(c, n + 1, line) /\ line \in TokensRecord
  BY <1>1, <1>7, LineDoes
<1>8. NothingSpent => T = S /\ G = H /\ M = L
  BY DEF NothingSpent
<1> HIDE DEF c, d, n, S, T, H, G, L, M, X
<1>9. CASE \E m \in Models : \E line : Wrote(line, FALSE) /\ line.is = "context" /\ line.model = m
             /\ NothingSpent /\ UNCHANGED started
  <2>1. PICK line : Wrote(line, FALSE) /\ line.is = "context" /\ NothingSpent /\ UNCHANGED started
    BY <1>9
  <2>2. d.events = c.events /\ d.chain = c.chain /\ d.prev = c.prev /\ d.turn = c.turn
    BY <1>2, <1>7, <2>1 DEF Processor
  <2>3. TurnsFit(d, X, S, H)
    BY <1>3, <2>2 DEF TurnsFit, Unblocked, Named
  <2> QED BY <1>3, <1>4, <1>5, <1>8, <2>1, <2>3
<1>10. CASE \E id \in Ids \cup {None} : \E line :
               /\ ReusedIds \/ id = None \/ \A i \in DOMAIN started : started[i].id # id
               /\ Wrote(line, FALSE) /\ line.is = "started" /\ line.id = id
               /\ started' = <<[id |-> id, at |-> Here + 1, spent |-> spent]>> \o started
               /\ NothingSpent
  <2>1. PICK id, line :
               /\ id \in Ids \cup {None}
               /\ ReusedIds \/ id = None \/ \A i \in DOMAIN started : started[i].id # id
               /\ Wrote(line, FALSE) /\ line.is = "started" /\ line.id = id
               /\ started' = <<[id |-> id, at |-> Here + 1, spent |-> spent]>> \o started
               /\ NothingSpent
    BY <1>10
  <2> DEFINE s == [id |-> id, at |-> Here + 1, spent |-> spent]
  <2>2. StartIs(s, line)
    BY <2>1 DEF StartIs
  <2>3. s.at = n + 1 /\ s.spent = S
    BY DEF n, S
  <2> HIDE DEF s
  <2>4. X' = X \cup {s}
    BY <1>1, <2>2, StartAdded DEF X
  <2>5. Frame(c, d) /\ Starts1(c, d, n + 1, line)
    BY <1>7, <2>1
  <2>6. TurnsFit(d, X \cup {s}, S, H)
    BY <1>2, <1>3, <2>3, <2>4, <2>5, TurnsFitStarted
  <2> QED BY <1>3, <1>4, <1>8, <2>1, <2>4, <2>6
<1>11. CASE \E line : Wrote(line, FALSE) /\ line.is = "ended" /\ NothingSpent /\ UNCHANGED started
  <2>1. PICK line : Wrote(line, FALSE) /\ line.is = "ended" /\ NothingSpent /\ UNCHANGED started
    BY <1>11
  <2>2. Frame(c, d) /\ (d = c \/ Ends(c, d) \/ Makes(c, d, n + 1))
    BY <1>7, <2>1
  <2>3. TurnsFit(d, X, S, H)
    BY <1>2, <1>3, <2>2, TurnsFitEnded
  <2> QED BY <1>3, <1>4, <1>5, <1>8, <2>1, <2>3
<1>12. ASSUME NEW amount, NEW restart, NEW line, NEW loses,
              Wrote(line, loses), SnapshotOfMore(line, amount, restart, loses)
       PROVE  TurnInv(A)'
  <2>1. /\ amount \in Amounts /\ Spend(amount, restart) /\ line \in TokensRecord
        /\ line.total.kind = "valid" /\ line.total.usage = G
        /\ line.last.kind = "valid" => Leq(line.last.usage, amount)
    BY <1>12 DEF SnapshotOfMore, Snapped, G
  <2>2. line.is = "tokens"
    BY <2>1 DEF TokensRecord
  <2>3. n + 1 \in 1..MaxLines /\ d = CountTokens(c, n + 1, line)
    BY <1>7, <1>12, <2>2
  <2>4. /\ More(c, S, H, T, G, M) /\ M = amount /\ started' = started
        /\ G \in A /\ (Leq(H, M) => Minus(M, H) \in Usage)
    BY <1>6, <2>1
  <2>5. TurnsFit(d, X, T, G)
    BY <1>2, <1>3, <2>1, <2>3, <2>4, TurnsFitSnapshot
  <2> QED BY <1>4, <1>5, <2>4, <2>5
<1>13. ASSUME NEW line, Wrote(line, FALSE), SnapshotAgain(line, FALSE)
       PROVE  TurnInv(A)'
  <2>1. /\ H # ZeroUsage /\ line \in TokensRecord /\ line.total.kind = "valid" /\ line.total.usage = G
        /\ line.last.kind = "valid" /\ Leq(line.last.usage, L) /\ line.timed
        /\ NothingSpent /\ started' = started
    BY <1>13 DEF SnapshotAgain, Snapped, H, G, L
  <2>2. line.is = "tokens" /\ T = S /\ G = H /\ M = L /\ Again(S, H, L, T, G, M)
    BY <1>8, <2>1 DEF TokensRecord, Again
  <2>3. n + 1 \in 1..MaxLines /\ d = CountTokens(c, n + 1, line)
    BY <1>7, <1>13, <2>2
  <2>4. TurnsFit(d, X, T, G)
    BY <1>2, <1>3, <2>1, <2>2, <2>3, TurnsFitSnapshot
  <2> QED BY <1>3, <1>4, <1>5, <2>1, <2>2, <2>4
<1>14. ASSUME NEW amount \in Amounts, NEW line, Owned, Wrote(line, TRUE), Spend(amount, FALSE),
              line.is = "gap" \/ (line.is = "tokens" /\ line.total.kind = "invalid")
       PROVE  TurnInv(A)'
  <2>1. n + 1 \in 1..MaxLines /\ ~Prefix(c)
    BY <1>1, <1>7, <1>14 DEF OwnedInv, c
  <2>2. d.chain # "continuous" /\ Quiet(c, d) /\ Blocked(d)
    <3>1. CASE line.is = "gap"
      BY <1>7, <1>14, <3>1
    <3>2. CASE line.is = "tokens" /\ line.total.kind = "invalid"
      <4> DEFINE q == CountTokens(c, n + 1, line)
      <4>1. d = q /\ line \in TokensRecord
        BY <1>7, <1>14, <3>2
      <4>2. q.chain = "required_invalid" /\ Quiet(c, q) /\ Blocked(q)
        BY <1>2, <2>1, <3>2, <4>1, CountTokensDoes
      <4> HIDE DEF q
      <4> QED BY <4>1, <4>2
    <3> QED BY <1>14, <3>1, <3>2
  <2>3. Leq(S, T) /\ G \in A /\ started' = started
    <3>1. More(c, S, H, T, G, amount) /\ G \in A /\ started' = started
      BY <1>6, <1>14
    <3> QED BY <1>2, <3>1, MorePays
  <2>4. d.events = c.events /\ ~Unblocked(d)
    BY <2>2 DEF Quiet, Advances, Blocked, Unblocked
  <2>5. TurnsFit(d, X, T, G)
    BY <1>2, <1>3, <2>2, <2>3, <2>4, TurnsFitQuiet
  <2> QED BY <1>4, <1>5, <2>3, <2>5
<1>15. Wrote1
  BY <1>1, WriteIs
<1> QED BY <1>9, <1>10, <1>11, <1>12, <1>13, <1>14, <1>15 DEF Wrote1

LEMMA TurnCommit ==
  ASSUME NEW A, TurnInv(A), CommitBatch
  PROVE  TurnInv(A)'
<1>1. CountInv' /\ OnceInv'
  BY CountCommit, NamesCommit DEF TurnInv, CountInv
<1>2. Caught' = Caught /\ spent' = spent /\ shown' = shown /\ started' = started
  BY CommitKeeps DEF TurnInv, CountInv, NamesInv
<1>3. Starts' = Starts
  BY <1>2 DEF Starts
<1> QED BY <1>1, <1>2, <1>3 DEF TurnInv

LEMMA TurnStutter ==
  ASSUME NEW A, TurnInv(A), UNCHANGED tokenVars
  PROVE  TurnInv(A)'
<1>1. CountInv' /\ OnceInv'
  BY CountStutter, NamesStutter DEF TurnInv, CountInv
<1>2. Caught' = Caught /\ spent' = spent /\ shown' = shown /\ started' = started
  BY StutterKeeps
<1>3. Starts' = Starts
  BY <1>2 DEF Starts
<1> QED BY <1>1, <1>2, <1>3 DEF TurnInv

LEMMA AlwaysInItsTurn ==
  ASSUME ReusedIds = FALSE, BadPrefix = FALSE, NEW A, Covers(A)
  PROVE  TokenSpec => []TurnInv(A)
<1>1. TokenInit => TurnInv(A)
  BY TurnInit
<1>2. TurnInv(A) /\ [TokenNext]_tokenVars => TurnInv(A)'
  BY TurnWrite, TurnCommit, TurnStutter DEF TokenNext
<1> QED BY <1>1, <1>2, PTL DEF TokenSpec

\* What the invariant says of the lines says it of the rows.
LEMMA RowsCountTheirTurn ==
  ASSUME NEW A, TurnInv(A), NEW t \in db.turns, NEW i \in DOMAIN started, started[i].at = t.at
  PROVE  Leq(Plus(started[i].spent, UsageOf({e \in db.events : e.turn = t.key})),
             IF i = 1 THEN spent ELSE started[i - 1].spent)
<1> DEFINE X == Starts
           c == Caught
           s == started[i]
           u == UsageOf({e \in db.events : e.turn = t.key})
           v == UsageOf(Named(c, s))
           T == IF i = 1 THEN spent ELSE started[i - 1].spent
<1>1. /\ CountInv /\ OnceInv /\ NamesInv /\ ResumeInv /\ FileTyped
      /\ InOrder(c, Here) /\ c \in Processor
      /\ Distinct(X) /\ TurnsFit(c, X, spent, shown) /\ started \in Seq(StartOf(spent))
      /\ spent \in Tallies /\ StartTyped(X, Here)
  BY DEF TurnInv, CountInv, OnceInv, NamesInv, ResumeInv, FileTyped
<1>2. i \in 1..Len(started) /\ s \in X /\ Len(started) \in Nat /\ SpentTyped(X)
  BY <1>1, StartsHaveSpent DEF Starts
<1>3. t.key = KeyOf(s)
  <2>1. t \in TurnsOf(straight)
    BY <1>1 DEF ResumeInv, ResumesExactly, TurnsOf
  <2>2. PICK r \in X : IsOf(t, r)
    BY <1>1, <2>1 DEF NamesInv, TurnsListed
  <2>3. r = s
    BY <1>1, <1>2, <2>2 DEF IsOf, Distinct
  <2> QED BY <2>2, <2>3 DEF IsOf
<1>4. Leq(u, v)
  <2>1. db.events \subseteq c.events
    BY <1>1 DEF ResumeInv, ResumesExactly, Lifted
  <2>2. {e \in db.events : e.turn = t.key} \in SUBSET Named(c, s)
    BY <1>3, <2>1 DEF Named
  <2>3. Named(c, s) \in SUBSET Event /\ IsFiniteSet(Named(c, s))
    BY <1>1, NamedAddUp
  <2> QED BY <2>2, <2>3, UsageOfPart
<1>5. Leq(Plus(s.spent, v), T) /\ T \in Tallies
  <2>1. CASE i = 1
    BY <1>1, <1>2, <2>1 DEF TurnsFit
  <2>2. CASE i # 1
    <3>1. i - 1 \in 1..Len(started) /\ i - 1 < i
      BY <1>2, <2>2
    <3>2. started[i - 1] \in X
      BY <3>1 DEF Starts
    <3>3. started[i - 1].at > s.at
      <4>1. s.at < started[i - 1].at
        BY <1>1, <1>2, <3>1 DEF NamesInv
      <4> QED BY <4>1
    <3>4. Leq(Plus(s.spent, v), started[i - 1].spent) /\ started[i - 1].spent \in Tallies
      BY <1>1, <1>2, <3>2, <3>3 DEF TurnsFit, SpentTyped
    <3> QED BY <2>2, <3>4
  <2> QED BY <2>1, <2>2
<1>6. /\ v.input \in Nat /\ v.cached \in Nat /\ T.input \in Nat /\ T.cached \in Nat
      /\ s.spent.input \in Nat /\ s.spent.cached \in Nat
  BY <1>1, <1>2, <1>5, NamedAddUp, TotalParts DEF SpentTyped
<1>7. u.input \in Nat /\ u.cached \in Nat
  <2>1. {e \in db.events : e.turn = t.key} \in SUBSET Event
    BY <1>1 DEF ResumeInv, Db
  <2>2. IsFiniteSet(c.events) /\ db.events \subseteq c.events
    BY <1>1, EventsAddUp DEF ResumeInv, ResumesExactly, Lifted
  <2>3. IsFiniteSet({e \in db.events : e.turn = t.key})
    BY <2>2, FS_Subset
  <2> QED BY <2>1, <2>3, UsageOfIsTotal
<1> HIDE DEF u, v, s, T
<1>8. Leq(Plus(s.spent, u), T)
  BY <1>4, <1>5, <1>6, <1>7 DEF Leq, Plus
<1> QED BY <1>8 DEF u, s, T

\* No token is counted twice, none for the wrong turn, and none of the parent's, for every file
\* that starts no turn id twice, whose parent's part has totals that can be read and comes before
\* its turns, and whose totals are such that one that starts over is not taken for one that
\* cannot be (processor.rs: start_turn, token_count, end_turn, compensate).
THEOREM NothingIsCountedTwice ==
  ASSUME ReusedIds = FALSE, BadPrefix = FALSE, NEW A, Covers(A)
  PROVE  TokenSpec => []NeverOvercounts
<1>1. TurnInv(A) /\ Leq(UsageOf(db.events), spent) => NeverOvercounts
  BY RowsCountTheirTurn DEF NeverOvercounts
<1> QED BY <1>1, AlwaysInItsTurn, NoMoreThanWasSpent, PTL

\* The totals are such when no request has the count that may not exceed another.
THEOREM NothingPlainIsCountedTwice ==
  ASSUME ReusedIds = FALSE, BadPrefix = FALSE, \A m \in Amounts : m.cached = 0
  PROVE  TokenSpec => []NeverOvercounts
<1> DEFINE A == {u \in Usage : u.cached = 0}
<1>1. ZeroUsage \in A /\ Amounts \subseteq A
  BY UsageIsTotal DEF ZeroUsage
<1>2. ASSUME NEW a \in A, NEW m \in Amounts
      PROVE  /\ Plus(a, m) \in Usage => Plus(a, m) \in A
             /\ Leq(a, m) => Minus(m, a) \in Usage
  <2>1. a \in Usage /\ m \in Usage /\ a.cached = 0 /\ m.cached = 0
    BY <1>1, <1>2
  <2>2. Plus(a, m).cached = 0
    BY <2>1 DEF Plus
  <2>3. Leq(a, m) => Minus(m, a) \in Usage
    <3>1. a.input \in 0..MaxTokens /\ m.input \in 0..MaxTokens
      BY <2>1 DEF Usage
    <3> QED BY <2>1, <3>1, LedgerAssumption DEF Leq, Minus, Usage
  <2> QED BY <2>2, <2>3
<1>3. Covers(A)
  BY <1>1, <1>2 DEF Covers
<1> HIDE DEF A
<1> QED BY <1>3, NothingIsCountedTwice

================================================================================
