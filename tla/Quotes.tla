------------------------------- MODULE Quotes -------------------------------
(***************************************************************************)
(* What CurrencyService derives from stored exchange rates: the inverse of *)
(* a quote, the product of two legs, and an amount brought to cents.  A    *)
(* rate is an exact fraction <<numerator, denominator>> (the code divides  *)
(* in 28 digits), and Unset, which the code treats like 0, where a quote   *)
(* has no buy or no sell rate.                                             *)
(***************************************************************************)
EXTENDS Integers

Unset == <<0, 1>>

Fractions == (Nat \ {0}) \X (Nat \ {0})

QuoteType == [rate : Fractions, buy : Fractions \cup {Unset}, sell : Fractions \cup {Unset}]

Leq(x, y)    == x[1] * y[2] <= y[1] * x[2]
\* A dealer buys a currency for less than its rate, and sells it for more.
HasSpread(q) ==
  /\ q.buy # Unset => Leq(q.buy, q.rate)
  /\ q.sell # Unset => Leq(q.rate, q.sell)

Times(x, y)  == <<x[1] * y[1], x[2] * y[2]>>
Reciprocal(x) == IF x = Unset THEN Unset ELSE <<x[2], x[1]>>

\* The operators named <definition>_<fault> are the faults the runs are tried
\* against: each replaces the definition after it by a plausible mistake.
InverseRate_SameSide(q) ==
  [rate |-> Reciprocal(q.rate), buy |-> Reciprocal(q.buy), sell |-> Reciprocal(q.sell)]

\* Selling what one bought: the inverse exchanges the two sides.
InverseRate(q) ==
  [rate |-> Reciprocal(q.rate), buy |-> Reciprocal(q.sell), sell |-> Reciprocal(q.buy)]

\* A cross rate has a side only when both legs have it.
SideThrough(x, y) == IF x = Unset \/ y = Unset THEN Unset ELSE Times(x, y)

Through(q, r) ==
  [rate |-> Times(q.rate, r.rate),
   buy  |-> SideThrough(q.buy, r.buy), sell |-> SideThrough(q.sell, r.sell)]

\* The percentage taken as an amount.
Spread_Absolute(rate, pct) ==
  [rate |-> rate, buy  |-> <<rate[1] - pct * rate[2], rate[2]>>,
                  sell |-> <<rate[1] + pct * rate[2], rate[2]>>]

\* The quote a synchronised rate is stored with, `pct` percent to each side.
Spread(rate, pct) ==
  [rate |-> rate, buy  |-> Times(rate, <<100 - pct, 100>>),
                  sell |-> Times(rate, <<100 + pct, 100>>)]

\* (amount * rate).quantize(Decimal('0.01'), rounding=ROUND_HALF_UP), in cents.
HalfUp(amount, rate) == (2 * amount * rate[1] + rate[2]) \div (2 * rate[2])

\* The side of a quote that calculate_exchange and convert_amount use.
Side(q, useBuy, useSell) ==
  CASE useBuy /\ q.buy # Unset -> q.buy
    [] useSell /\ (~ useBuy \/ q.buy = Unset) /\ q.sell # Unset -> q.sell
    [] OTHER -> q.rate
=============================================================================
