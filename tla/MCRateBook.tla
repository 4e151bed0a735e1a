----------------------------- MODULE MCRateBook -----------------------------
(***************************************************************************)
(* RateBook on three currencies: one pair has a rate from the start, the   *)
(* provider answers for both directions of a pair or for one.              *)
(***************************************************************************)
EXTENDS RateBook, TLC

CONSTANTS usd, eur, lira, s1, s2

ByCodeMC == <<eur, lira, usd>>

SeededMC == <<usd, lira>> :> [rate |-> <<30, 1>>, buy |-> <<29, 1>>, sell |-> <<31, 1>>]

FeedsMC ==
  {<<[pair |-> <<usd, eur>>, rate |-> <<1, 2>>], [pair |-> <<eur, usd>>, rate |-> <<2, 1>>]>>,
   <<[pair |-> <<usd, lira>>, rate |-> <<32, 1>>]>>}

ByHandMC == {<<usd, lira>>, <<eur, lira>>}

ManualMC == {[rate |-> <<3, 2>>, buy |-> Unset, sell |-> <<2, 1>>]}

Symmetry == Permutations(Sessions)
=============================================================================
