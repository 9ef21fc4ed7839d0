---------------------------- MODULE MCTokenLedger ----------------------------
(* Small amounts for TokenLedger. *)
EXTENDS TokenLedger, TLC

U(input, cached) == [input |-> input, cached |-> cached]

Swaps == Permutations(Models)

\* Differences of totals of these amounts are usages ...
Plain == {U(1, 0), U(2, 0)}

\* ... of these they need not be: 1 token more of input with 2 more of them cached.
Skewed == {U(1, 0), U(2, 2)}
==============================================================================
