---------------------------- MODULE CostEstimation ----------------------------
(***************************************************************************)
(* What one usage event costs (cost/estimator.rs), by the price list that  *)
(* the running program carries (cost/registry.rs, cost/pricing.rs), and    *)
(* what storage/cost.rs keeps of that: a number of nano-dollars, nothing   *)
(* when the event has no price, or an error that stops the transaction.    *)
(*                                                                         *)
(* A program is its price list: the version that the database remembers,   *)
(* the models it knows, the other names of some, and the entries.  Time,   *)
(* tokens and rates are integers of 64 bits; a product that is wider than  *)
(* the 128 bits of the sums is wider than the 64 of the result, so that    *)
(* one bound stands for both.                                              *)
(***************************************************************************)
EXTENDS Integers, Sequences

CONSTANTS
  NoCount,   \* a count, a rate, a date or an entry that is not there
  MaxInt64   \* i64::MAX

ASSUME CostAssumption == MaxInt64 \in Nat /\ NoCount \notin Int

Int64 == (-MaxInt64 - 1) .. MaxInt64

\* What a token costs, by its kind.
Rates == [input : Int64, cached : Int64, write : Int64 \cup {NoCount}, output : Int64]

\* The rates of a request that is longer than a threshold.
LongContext == [threshold : Int64, rates : Rates]

Pricing ==
  [model : STRING, from : Int64, to : Int64 \cup {NoCount},
   short : Rates, long : LongContext \cup {NoCount}]

Program ==
  [version : Nat, models : SUBSET STRING, aliases : UNION {[A -> STRING] : A \in SUBSET STRING},
   prices : Seq(Pricing)]

-----------------------------------------------------------------------------
(* The price list *)

\* The entry's model a raw model is charged as.
PricingTarget(program, model) ==
  IF model \in DOMAIN program.aliases THEN program.aliases[model]
  ELSE IF model \in program.models THEN model
  ELSE NoCount

IsEffectiveAt(p, at) == p.from <= at /\ (p.to # NoCount => at < p.to)

\* The first entry that is in force.
ResolveFromCatalog(prices, model, at) ==
  LET Matches == {i \in DOMAIN prices : prices[i].model = model /\ IsEffectiveAt(prices[i], at)}
  IN  IF Matches = {} THEN NoCount
      ELSE prices[CHOOSE i \in Matches : \A j \in Matches : i <= j]

PriceOf(program, model, at) ==
  LET target == PricingTarget(program, model)
  IN  IF target = NoCount THEN NoCount ELSE ResolveFromCatalog(program.prices, target, at)

-----------------------------------------------------------------------------
(* The estimate *)

Known(nanos) == [is |-> "known", nanos |-> nanos]
Unknown      == [is |-> "unknown"]
Failed       == [is |-> "failed"]

OrZero(count) == IF count = NoCount THEN 0 ELSE count

\* Input tokens that were neither read from the cache nor written to it.
Uncached(u) == u.tokens - u.cached - OrZero(u.write)

ValidUsage(u) ==
  /\ {u.tokens, u.cached, u.output, OrZero(u.write)} \subseteq 0..MaxInt64
  /\ u.cached <= u.tokens /\ Uncached(u) >= 0
  /\ u.tokens + u.output <= MaxInt64

HasNonNegativeRates(r) ==
  /\ r.input >= 0 /\ r.cached >= 0 /\ r.output >= 0
  /\ r.write # NoCount => r.write >= 0

ValidPricing(p) ==
  /\ HasNonNegativeRates(p.short)
  /\ p.long # NoCount => p.long.threshold >= 0 /\ HasNonNegativeRates(p.long.rates)

IsLong(u, p) == p.long # NoCount /\ u.tokens > p.long.threshold

\* The sum of several requests says nothing of the length of one.
IsAmbiguous(u, p, granularity) == IsLong(u, p) /\ granularity = "aggregate"

RatesOf(u, p) == IF IsLong(u, p) THEN p.long.rates ELSE p.short

Total(u, r) ==
  Uncached(u) * r.input + u.cached * r.cached + u.output * r.output
    + (IF OrZero(u.write) = 0 THEN 0 ELSE u.write * r.write)

\* The checks in the order of the code: a rate that is missing is told before a
\* sum that is too wide.
Estimate(u, p, granularity) ==
  IF ~ValidUsage(u) \/ ~ValidPricing(p) THEN Failed
  ELSE IF IsAmbiguous(u, p, granularity) THEN Unknown
  ELSE IF OrZero(u.write) # 0 /\ RatesOf(u, p).write = NoCount THEN Unknown
  ELSE IF Total(u, RatesOf(u, p)) > MaxInt64 THEN Failed
  ELSE Known(Total(u, RatesOf(u, p)))

\* What one request used, or several together.
GranularityOf(kind) == IF kind = "compensation" THEN "aggregate" ELSE "request"

EventCost(program, e) ==
  LET p == PriceOf(program, e.model, e.at)
  IN  IF p = NoCount THEN Unknown ELSE Estimate(e, p, GranularityOf(e.kind))

\* A transaction that writes the costs of these events goes through.
Estimable(program, E) == \A e \in E : EventCost(program, e) # Failed

\* The column of the events table.
StoredCost(cost) == IF cost.is = "known" THEN cost.nanos ELSE NoCount

CostsBy(program, E) == [e \in E |-> StoredCost(EventCost(program, e))]
=============================================================================
