------------------------------- MODULE Totals -------------------------------
(***************************************************************************)
(* Sums over a table's rows: the arithmetic every statement about the      *)
(* ledger rests on.  The sum is a recursive FUNCTION, not a fold of the    *)
(* community modules, so that TotalsProofs can prove what it computes.     *)
(***************************************************************************)
EXTENDS Integers, Sequences

\* w[1] + ... + w[n], for a function w from row numbers to integers
Total(w, n) == LET upTo[k \in Nat] == IF k = 0 THEN 0 ELSE upTo[k - 1] + w[k]
               IN  upTo[n]

\* A sequence of integers as such a function, 0 beyond its end
Padded(s) == [k \in Nat |-> IF k \in 1..Len(s) THEN s[k] ELSE 0]

\* The sum of a sequence of integers
TotalOf(s) == Total(Padded(s), Len(s))
=============================================================================
