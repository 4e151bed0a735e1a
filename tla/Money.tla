-------------------------------- MODULE Money --------------------------------
(***************************************************************************)
(* Exact money arithmetic of the exchange: amounts are whole cents (the    *)
(* columns are Numeric(15, 2)), a rate and a commission percentage are     *)
(* whole multiples of a small unit, and a product is brought back to cents *)
(* by Decimal.quantize(Decimal("0.01")), which rounds half to even.        *)
(***************************************************************************)
EXTENDS Integers

CONSTANT RateScale   \* units of a rate per 1.0 (Numeric(12, 6): 10^6)

ASSUME RateScaleAssumption == RateScale \in Nat \ {0}

\* commission_percentage is Numeric(5, 2): hundredths of a percent of 100%.
PercentScale == 10000

\* (numerator / denominator).quantize(Decimal("0.01")) on a result in cents.
Quantize(numerator, denominator) ==
  LET whole == numerator \div denominator
      rest  == numerator % denominator
  IN  IF \/ 2 * rest > denominator
         \/ 2 * rest = denominator /\ whole % 2 = 1
      THEN whole + 1
      ELSE whole

\* to_amount, commission_amount and total_cost of an exchange.
ToAmount(amount, rate)          == Quantize(amount * rate, RateScale)
CommissionAmount(amount, pct)   == Quantize(amount * pct, PercentScale)
TotalCost(amount, pct)          == amount + CommissionAmount(amount, pct)
=============================================================================
