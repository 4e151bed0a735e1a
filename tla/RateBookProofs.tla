--------------------------- MODULE RateBookProofs ---------------------------
(***************************************************************************)
(* What RateBook promises holds for any currencies, seeds, provider, users *)
(* and number of sessions, however the requests interleave and wherever    *)
(* they are cut off.  A request works from what it read some commits ago,  *)
(* so the invariant says what a session still knows of the tables.         *)
(***************************************************************************)
EXTENDS RateBook, TotalsProofs, FiniteSetTheorems, SequenceTheorems

None == [kind |-> "none"]

\* The requests a session may be serving, whatever syncs there are by now.
Served ==
  [kind : {"set"}, pair : Pairs, quote : Manual, ahead : BOOLEAN]
    \cup [kind : {"fetch"}, feed : Feeds]
    \cup [kind : {"approve"}, sync : Nat, pct : Spreads]
    \cup [kind : {"reject"}, sync : Nat]
    \cup [kind : {"expire"}]
    \cup [kind : {"activate", "deactivate"}, currency : Currencies]
    \cup {None}

\* The quotes that people enter have a dealer's spread; if so, all have.
Dealers == \A q \in Manual \cup {Seeded[x] : x \in DOMAIN Seeded} : HasSpread(q)
Offered == {q \in QuoteType : Dealers => HasSpread(q)}

Stages == {"check", "find", "insert", "record"}

Nothing == <<>>

Access == [op : Stages, pair : Pairs, quote : Offered]
Other  == [op : {"begin", "create", "approved", "rejected", "expired"},
           pair : {Nothing}, quote : {Nothing}]

Plans == Seq(Access \cup Other)

Session ==
  [req : Served, todo : Plans, old : Nat, found : Nat, new : Nat,
   syncs : SUBSET Nat, applied : Nat, setting : SUBSET Pairs]

Typed ==
  /\ active \subseteq Currencies
  /\ rates \in Seq(RateRow)
  /\ \A k \in Numbers(rates) : rates[k].quote \in Offered
  /\ history \in Seq(HistoryRow)
  /\ \A n \in Numbers(history) : history[n].rate \in Numbers(rates)
  /\ syncs \in Seq(SyncRow)
  /\ overdue \subseteq Numbers(syncs)
  /\ set \in Seq(Nat) /\ Len(set) = Len(syncs)
  /\ contended \subseteq Pairs
  /\ disturbed \subseteq Numbers(syncs)
  /\ session \in [Sessions -> Session]

\* What may be left to do: the accesses of a rate come one after the other, and
\* those of a review before its status.
Follows(o, next) ==
  \/ /\ o.op \in Stages \ {"record"}
     /\ next.op = CASE o.op = "check" -> "find" [] o.op = "find" -> "insert"
                    [] o.op = "insert" -> "record"
     /\ next.pair = o.pair /\ next.quote = o.quote
  \/ o.op = "record" /\ next.op \in {"check", "approved"}

MayDo(kind) ==
  CASE kind = "set"     -> {"begin"} \cup Stages
    [] kind = "approve" -> {"begin", "approved"} \cup Stages
    [] kind = "fetch"   -> {"begin", "create"}
    [] kind = "reject"  -> {"begin", "rejected"}
    [] kind = "expire"  -> {"begin", "expired"}
    [] OTHER            -> {"begin"}

Shaped(todo, kind) ==
  /\ \A n \in Numbers(todo) : todo[n].op \in MayDo(kind)
  /\ \A n \in 1..Len(todo) - 1 : Follows(todo[n], todo[n + 1])
  /\ todo # <<>> => todo[Len(todo)].op \notin Stages \ {"record"}
  /\ todo # <<>> /\ kind = "approve" => todo[Len(todo)].op \in {"begin", "approved"}

OnCourse(s) ==
  /\ Shaped(s.todo, s.req.kind)
  /\ s.todo = <<>> => s = Idle
  /\ s.todo # <<>> /\ s.todo[1].op = "begin" => s.syncs = {} /\ s.applied = 0 /\ s.setting = {}
  /\ s.req.kind \notin {"approve", "reject", "expire"} => s.syncs = {}
  /\ s.req.kind \notin {"set", "approve"} => s.applied = 0
  /\ s.req.kind \in {"approve", "reject"} => s.req.sync \in Numbers(syncs)

\* The rates of a pair that are in force in a table.
Serving(rows, pair) ==
  {k \in 1..Len(rows) : rows[k].pair = pair /\ rows[k].until = 0 /\ rows[k].due}

\* `old` is the one rate of the pair that is in force, 0 if there is none.
Reads(rows, old, pair) == old \in Nat /\ Serving(rows, pair) = {old} \ {0}

Before(rows, k) == {j \in 1..k - 1 : rows[j].pair = rows[k].pair}

\* TookThePlaceOf in a table.
Took(rows, k, old) ==
  /\ old \in Before(rows, k) \cup {0}
  /\ \A j \in 1..Len(rows) : rows[j].until = k <=> j = old
  /\ \A j \in Before(rows, k) :
       (\A i \in Before(rows, k) : i <= j) /\ ~ rows[j].ahead => old = j

\* While a request sets a rate, what it read of it stays true unless another
\* one sets it as well or a rate set ahead takes effect.
KnowsRate(s, rows, shared) ==
  LET o == s.todo[1]
  IN s.todo # <<>> /\ o.op \in Stages \ {"check"} =>
       /\ s.setting = {o.pair}
       /\ o.op = "insert" => \/ s.found = 0
                             \/ s.found \in Numbers(rows) /\ rows[s.found].pair = o.pair
       /\ o.op = "record" => s.new \in Numbers(rows) /\ rows[s.new].pair = o.pair
       /\ o.pair \notin shared =>
            /\ o.op # "record" => Reads(rows, s.old, o.pair)
            /\ o.op = "insert" => s.found = s.old
            /\ o.op = "record" => Took(rows, s.new, s.old)

\* While a request reviews a sync, the sync waits, and the rates set for it are
\* those the request has counted and the one it is about to count.
KnowsSyncs(s, rows, counts, shared) ==
  \A i \in s.syncs :
    /\ i \in Numbers(rows)
    /\ i \notin shared =>
         /\ rows[i].status = "pending" /\ rows[i].applied = 0
         /\ counts[i] = s.applied + IF s.todo # <<>> /\ s.todo[1].op = "record" THEN 1 ELSE 0

\* A rate is ended by a later one of its pair, and is due unless set ahead.
EndedByALater(rows) ==
  \A k \in 1..Len(rows) :
    /\ rows[k].until # 0 => /\ rows[k].until \in k + 1..Len(rows)
                            /\ rows[rows[k].until].pair = rows[k].pair
    /\ ~ rows[k].ahead => rows[k].due

\* Two sessions that set one pair have made it contended.
RatesInv ==
  /\ \A p \in Sessions : KnowsRate(session[p], rates, contended)
  /\ \A p, q \in Sessions : p # q => session[p].setting \cap session[q].setting \subseteq contended
  /\ EndedByALater(rates)
  /\ UncontendedPairHasOneRate
  /\ HistoryTellsTheRateBefore

\* A sync counts the rates set for it, and is approved exactly when there are some.
Settled(rows, counts, i) ==
  /\ counts[i] = rows[i].applied
  /\ (counts[i] > 0) <=> (rows[i].status = "approved")

\* Two sessions that review one sync have disturbed it.
SyncsInv ==
  /\ \A p \in Sessions : KnowsSyncs(session[p], syncs, set, disturbed)
  /\ \A p, q \in Sessions : p # q => session[p].syncs \cap session[q].syncs \subseteq disturbed
  /\ UndisturbedSyncIsSettledOnce

\* The inductive invariant.
RateInv ==
  /\ Typed
  /\ \A p \in Sessions : OnCourse(session[p])
  /\ RatesInv
  /\ SyncsInv

-----------------------------------------------------------------------------
(* Quotes.                                                                  *)

\* A fraction is a pair of positive numbers, and is not the unset value.
LEMMA FractionFacts ==
  ASSUME NEW x \in Fractions
  PROVE  /\ x[1] \in Nat \ {0} /\ x[2] \in Nat \ {0}
         /\ x = <<x[1], x[2]>>
         /\ x # Unset
BY DEF Fractions, Unset

\* A pair of positive numbers is a fraction.
LEMMA FractionIs ==
  ASSUME NEW a \in Nat \ {0}, NEW b \in Nat \ {0}
  PROVE  <<a, b>> \in Fractions
BY DEF Fractions

\* The product of two positive numbers is positive.
LEMMA ProductIsPositive ==
  ASSUME NEW a \in Nat \ {0}, NEW b \in Nat \ {0}
  PROVE  a * b \in Nat \ {0}
OBVIOUS

\* The product of two fractions is a fraction.
LEMMA TimesType ==
  ASSUME NEW x \in Fractions, NEW y \in Fractions
  PROVE  Times(x, y) \in Fractions
BY FractionFacts, FractionIs, ProductIsPositive DEF Times

\* Multiplying both sides of an inequality.
LEMMA ScaledLeq ==
  ASSUME NEW a \in Int, NEW b \in Int, NEW c \in Nat, a <= b
  PROVE  a * c <= b * c
OBVIOUS

\* x <= y and u <= v make x u <= y v.
LEMMA TimesMonotone ==
  ASSUME NEW x \in Fractions, NEW y \in Fractions, NEW u \in Fractions, NEW v \in Fractions,
         Leq(x, y), Leq(u, v)
  PROVE  Leq(Times(x, u), Times(y, v))
<1> DEFINE a == x[1] * y[2]
           b == y[1] * x[2]
           c == u[1] * v[2]
           d == v[1] * u[2]
<1>1. /\ x[1] \in Nat /\ x[2] \in Nat /\ y[1] \in Nat /\ y[2] \in Nat
      /\ u[1] \in Nat /\ u[2] \in Nat /\ v[1] \in Nat /\ v[2] \in Nat
  BY FractionFacts
<1>2. a \in Nat /\ b \in Nat /\ c \in Nat /\ d \in Nat
  BY <1>1
<1>3. a <= b /\ c <= d
  BY DEF Leq
<1>4. /\ (x[1] * u[1]) * (y[2] * v[2]) = a * c
      /\ (y[1] * v[1]) * (x[2] * u[2]) = b * d
  BY <1>1
<1> HIDE DEF a, b, c, d
<1>5. a * c <= b * c /\ c * b <= d * b
  BY <1>2, <1>3, ScaledLeq
<1>6. a * c <= b * d
  BY <1>2, <1>5
<1>7. /\ Times(x, u)[1] = x[1] * u[1] /\ Times(x, u)[2] = x[2] * u[2]
      /\ Times(y, v)[1] = y[1] * v[1] /\ Times(y, v)[2] = y[2] * v[2]
  BY DEF Times
<1> QED
  BY <1>4, <1>6, <1>7 DEF Leq

\* The reciprocal of a fraction is the fraction turned over.
LEMMA ReciprocalFacts ==
  ASSUME NEW x \in Fractions
  PROVE  /\ Reciprocal(x) \in Fractions
         /\ Reciprocal(x)[1] = x[2] /\ Reciprocal(x)[2] = x[1]
<1>1. Reciprocal(x) = <<x[2], x[1]>>
  BY FractionFacts DEF Reciprocal
<1> QED
  BY <1>1, FractionFacts, FractionIs

\* Reciprocals reverse the order of fractions.
LEMMA ReciprocalAntitone ==
  ASSUME NEW x \in Fractions, NEW y \in Fractions, Leq(x, y)
  PROVE  Leq(Reciprocal(y), Reciprocal(x))
BY FractionFacts, ReciprocalFacts DEF Leq

\* A quote's rate is a fraction, and so are its buy and sell rates where they are set.
LEMMA QuoteFacts ==
  ASSUME NEW q \in QuoteType
  PROVE  /\ q.rate \in Fractions
         /\ q.buy # Unset => q.buy \in Fractions
         /\ q.sell # Unset => q.sell \in Fractions
BY DEF QuoteType

\* A derived quote keeps the spread of what it is derived from.
LEMMA InverseKeepsSpread ==
  ASSUME NEW q \in QuoteType
  PROVE  /\ InverseRate(q) \in QuoteType
         /\ HasSpread(q) => HasSpread(InverseRate(q))
<1> DEFINE buy  == Reciprocal(q.sell)
           sell == Reciprocal(q.buy)
           rate == Reciprocal(q.rate)
<1>1. InverseRate(q) = [rate |-> rate, buy |-> buy, sell |-> sell]
  BY DEF InverseRate
<1>2. rate \in Fractions
  BY QuoteFacts, ReciprocalFacts
<1>3. /\ q.sell = Unset => buy = Unset
      /\ q.buy = Unset => sell = Unset
  BY DEF Reciprocal
<1>4. /\ q.sell # Unset => buy \in Fractions
      /\ q.buy # Unset => sell \in Fractions
  BY QuoteFacts, ReciprocalFacts
<1>5. HasSpread(q) => /\ q.sell # Unset => Leq(buy, rate)
                      /\ q.buy # Unset => Leq(rate, sell)
  BY QuoteFacts, ReciprocalAntitone DEF HasSpread
<1> HIDE DEF buy, sell, rate
<1> QED
  BY <1>1, <1>2, <1>3, <1>4, <1>5 DEF QuoteType, HasSpread

\* A quote through an intermediate currency is a quote, with a spread if both legs have one.
LEMMA ThroughKeepsSpread ==
  ASSUME NEW q \in QuoteType, NEW r \in QuoteType
  PROVE  /\ Through(q, r) \in QuoteType
         /\ HasSpread(q) /\ HasSpread(r) => HasSpread(Through(q, r))
<1> DEFINE rate == Times(q.rate, r.rate)
           buy  == SideThrough(q.buy, r.buy)
           sell == SideThrough(q.sell, r.sell)
<1>1. Through(q, r) = [rate |-> rate, buy |-> buy, sell |-> sell]
  BY DEF Through
<1>2. rate \in Fractions
  BY QuoteFacts, TimesType
<1>3. \/ buy = Unset
      \/ q.buy # Unset /\ r.buy # Unset /\ buy = Times(q.buy, r.buy)
  BY DEF SideThrough
<1>4. \/ sell = Unset
      \/ q.sell # Unset /\ r.sell # Unset /\ sell = Times(q.sell, r.sell)
  BY DEF SideThrough
<1>5. buy \in Fractions \cup {Unset} /\ sell \in Fractions \cup {Unset}
  BY <1>3, <1>4, QuoteFacts, TimesType
<1>6. ASSUME HasSpread(q), HasSpread(r)
      PROVE  (buy # Unset => Leq(buy, rate)) /\ (sell # Unset => Leq(rate, sell))
  BY <1>3, <1>4, <1>6, QuoteFacts, TimesMonotone DEF HasSpread
<1> HIDE DEF buy, sell, rate
<1> QED
  BY <1>1, <1>2, <1>5, <1>6 DEF QuoteType, HasSpread

\* The spread of a review is one.
LEMMA SpreadFacts ==
  ASSUME NEW rate \in Fractions, NEW pct \in Spreads
  PROVE  Spread(rate, pct) \in Offered
<1> DEFINE down == <<100 - pct, 100>>
           up   == <<100 + pct, 100>>
           one  == <<100, 100>>
<1>1. pct \in 0..99
  BY RateAssumption
<1>2. down \in Fractions /\ up \in Fractions
  BY <1>1, FractionIs
<1>3. Spread(rate, pct) = [rate |-> rate, buy |-> Times(rate, down), sell |-> Times(rate, up)]
  BY DEF Spread
<1>4. Times(rate, down) \in Fractions /\ Times(rate, up) \in Fractions
  BY <1>2, TimesType
<1>5. Leq(Times(rate, down), rate) /\ Leq(rate, Times(rate, up))
  <2>1. PICK a \in Nat, b \in Nat : a = rate[1] /\ b = rate[2]
    BY FractionFacts
  <2>2. PICK z \in Nat : z = a * b
    OBVIOUS
  <2>3. /\ (a * (100 - pct)) * b = z * (100 - pct)
        /\ a * (b * 100) = z * 100
        /\ (a * (100 + pct)) * b = z * (100 + pct)
    BY <1>1, <2>2
  <2>4. z * (100 - pct) <= z * 100 /\ z * 100 <= z * (100 + pct)
    BY <1>1
  <2> QED
    BY <2>1, <2>3, <2>4 DEF Leq, Times
<1> HIDE DEF down, up
<1> QED
  BY <1>3, <1>4, <1>5 DEF Offered, QuoteType, HasSpread

\* The quotient, as the only whole number between two products.
LEMMA QuotientFacts ==
  ASSUME NEW a \in Nat, NEW d \in Nat \ {0}
  PROVE  /\ a \div d \in Nat
         /\ (a \div d) * d <= a
         /\ a < ((a \div d) + 1) * d
OBVIOUS

\* A higher rate gives no fewer cents.
LEMMA HalfUpMonotone ==
  ASSUME NEW amount \in Nat, NEW x \in Fractions, NEW y \in Fractions, Leq(x, y)
  PROVE  HalfUp(amount, x) <= HalfUp(amount, y)
<1>1. PICK a \in Nat, b \in Nat \ {0}, c \in Nat, d \in Nat \ {0} :
        a = x[1] /\ b = x[2] /\ c = y[1] /\ d = y[2]
  BY FractionFacts
<1>2. a * d <= c * b
  BY <1>1 DEF Leq
<1> DEFINE m == 2 * amount * a + b
           n == 2 * amount * c + d
           j == HalfUp(amount, x)
           k == HalfUp(amount, y)
<1>3. j = m \div (2 * b) /\ k = n \div (2 * d)
  BY <1>1 DEF HalfUp
<1>4. m \in Nat /\ n \in Nat /\ 2 * b \in Nat \ {0} /\ 2 * d \in Nat \ {0}
  OBVIOUS
<1>5. m * d <= n * b
  <2>1. (a * d) * (2 * amount) <= (c * b) * (2 * amount)
    BY <1>2, ScaledLeq
  <2>2. m * d = (a * d) * (2 * amount) + b * d /\ n * b = (c * b) * (2 * amount) + b * d
    OBVIOUS
  <2> QED
    BY <2>1, <2>2
<1> HIDE DEF m, n, j, k
<1>6. /\ j \in Nat /\ j * (2 * b) <= m
      /\ k \in Nat /\ n < (k + 1) * (2 * d)
  BY <1>3, <1>4, QuotientFacts
<1>7. SUFFICES ASSUME j > k
               PROVE  FALSE
  BY <1>6 DEF j, k
<1>8. (j * (2 * b)) * d <= m * d
  BY <1>4, <1>6, ScaledLeq
<1>9. n * b < ((k + 1) * (2 * d)) * b
  BY <1>4, <1>6
<1>10. (k + 1) * (2 * b * d) <= j * (2 * b * d)
  BY <1>6, <1>7, ScaledLeq
<1>11. /\ (j * (2 * b)) * d = j * (2 * b * d)
       /\ ((k + 1) * (2 * d)) * b = (k + 1) * (2 * b * d)
  BY <1>6
<1> QED
  BY <1>4, <1>5, <1>6, <1>8, <1>9, <1>10, <1>11

\* What an amount becomes on the three sides of a quote that has a spread.
LEMMA SidesFacts ==
  ASSUME NEW q \in QuoteType, HasSpread(q), NEW amount \in Nat
  PROVE  /\ HalfUp(amount, Side(q, TRUE, FALSE)) <= HalfUp(amount, Side(q, FALSE, FALSE))
         /\ HalfUp(amount, Side(q, FALSE, FALSE)) <= HalfUp(amount, Side(q, FALSE, TRUE))
<1>1. /\ Side(q, FALSE, FALSE) = q.rate
      /\ Side(q, TRUE, FALSE) = IF q.buy # Unset THEN q.buy ELSE q.rate
      /\ Side(q, FALSE, TRUE) = IF q.sell # Unset THEN q.sell ELSE q.rate
  BY DEF Side
<1>2. \A x \in Fractions : Leq(x, x)
  BY FractionFacts DEF Leq
<1>3. /\ Side(q, TRUE, FALSE) \in Fractions /\ Leq(Side(q, TRUE, FALSE), q.rate)
      /\ Side(q, FALSE, TRUE) \in Fractions /\ Leq(q.rate, Side(q, FALSE, TRUE))
      /\ q.rate \in Fractions
  BY <1>1, <1>2, QuoteFacts DEF HasSpread
<1> QED
  BY <1>1, <1>3, HalfUpMonotone
-----------------------------------------------------------------------------
(* What is left to do.                                                      *)

\* The operations of a plan, and what one that accesses a rate carries.
LEMMA OpTypes ==
  ASSUME NEW o \in Access \cup Other
  PROVE  /\ o.op \in Stages \cup {"begin", "create", "approved", "rejected", "expired"}
         /\ o.op \in Stages => o \in Access /\ o.pair \in Pairs /\ o.quote \in Offered
BY DEF Access, Other, Stages

\* A plan of a single operation.
LEMMA OpFacts ==
  ASSUME NEW op \in {"begin", "create", "approved", "rejected", "expired"}
  PROVE  Op(op) \in Plans /\ Len(Op(op)) = 1 /\ Op(op)[1].op = op /\ Op(op) # <<>>
<1> DEFINE o == Do(op, <<>>, <<>>)
<1>1. o.op = op /\ o \in Other
  BY DEF Do, Other, Nothing
<1> HIDE DEF o
<1>2. Op(op) = <<o>>
  BY DEF Op, o
<1> QED
  BY <1>1, <1>2 DEF Plans

\* A plan of a single operation that is no access has the shape of every kind that may do it.
LEMMA OneShaped ==
  ASSUME NEW t \in Plans, Len(t) = 1, NEW kind, t[1].op \in MayDo(kind),
         t[1].op \notin Stages, kind = "approve" => t[1].op \in {"begin", "approved"}
  PROVE  Shaped(t, kind)
<1>1. /\ \A n \in Numbers(t) : n = 1
      /\ \A n \in 1..Len(t) - 1 : FALSE
  BY DEF Numbers
<1> QED
  BY <1>1 DEF Shaped

\* What is left later was left before.
LEMMA SuffixShaped ==
  ASSUME NEW t \in Plans, NEW u \in Plans, NEW m \in 0..Len(t), NEW kind, Shaped(t, kind),
         Len(u) = Len(t) - m, \A n \in 1..Len(u) : u[n] = t[n + m]
  PROVE  Shaped(u, kind)
<1>1. Len(t) \in Nat /\ Len(u) \in Nat
  BY DEF Plans
<1>2. \A n \in 1..Len(u) : n + m \in 1..Len(t)
  BY <1>1
<1>3. \A n \in 1..Len(u) - 1 : n + m \in 1..Len(t) - 1 /\ u[n + 1] = t[(n + m) + 1]
  <2>1. TAKE n \in 1..Len(u) - 1
  <2>2. n + 1 \in 1..Len(u) /\ (n + 1) + m = (n + m) + 1
    BY <1>1
  <2> QED
    BY <1>1, <2>2
<1>4. u # <<>> => Len(u) \in 1..Len(u) /\ u[Len(u)] = t[Len(t)] /\ t # <<>>
  <2>1. SUFFICES ASSUME u # <<>>
                 PROVE  Len(u) \in 1..Len(u) /\ u[Len(u)] = t[Len(t)] /\ t # <<>>
    OBVIOUS
  <2>2. Len(u) \in 1..Len(u)
    BY <2>1, <1>1, EmptySeq DEF Plans
  <2>3. Len(u) + m = Len(t) /\ Len(t) # 0
    BY <1>1, <2>2
  <2> QED
    BY <2>2, <2>3
<1>5. \A n \in 1..Len(u) - 1 : n \in 1..Len(u)
  BY <1>1
<1>6. \A n \in Numbers(u) : u[n].op \in MayDo(kind)
  BY <1>2 DEF Shaped, Numbers
<1>7. \A n \in 1..Len(u) - 1 : Follows(u[n], u[n + 1])
  BY <1>3, <1>5 DEF Shaped
<1> QED
  BY <1>4, <1>6, <1>7 DEF Shaped

\* A request goes on: what is next is what follows, or it is over.
LEMMA TailFacts ==
  ASSUME NEW t \in Plans, t # <<>>, NEW kind, Shaped(t, kind)
  PROVE  /\ Tail(t) \in Plans
         /\ Shaped(Tail(t), kind)
         /\ Head(t) = t[1] /\ t[1] \in Access \cup Other
         /\ Tail(t) # <<>> => Follows(t[1], Tail(t)[1])
         /\ Tail(t) = <<>> => t[1].op \notin Stages \ {"record"}
         /\ Tail(t) = <<>> /\ kind = "approve" => t[1].op \in {"begin", "approved"}
<1>1. /\ Tail(t) \in Plans
      /\ Len(Tail(t)) = Len(t) - 1
      /\ \A n \in 1..Len(Tail(t)) : Tail(t)[n] = t[n + 1]
      /\ Len(t) \in Nat \ {0}
  BY HeadTailProperties, EmptySeq DEF Plans
<1>2. Shaped(Tail(t), kind)
  <2>1. 1 \in 0..Len(t)
    BY <1>1
  <2> QED
    BY <1>1, <2>1, SuffixShaped
<1>3. Head(t) = t[1] /\ t[1] \in Access \cup Other
  BY <1>1, ElementOfSeq DEF Plans
<1>4. CASE Tail(t) = <<>>
  <2>1. Len(t) = 1
    BY <1>1, <1>4, EmptySeq
  <2> QED
    BY <1>1, <1>2, <1>3, <1>4, <2>1 DEF Shaped
<1>5. CASE Tail(t) # <<>>
  <2>1. Len(Tail(t)) # 0
    BY <1>1, <1>5, EmptySeq DEF Plans
  <2>2. 1 \in 1..Len(t) - 1 /\ Tail(t)[1] = t[1 + 1]
    BY <1>1, <2>1
  <2> QED
    BY <1>1, <1>2, <1>3, <1>5, <2>2 DEF Shaped
<1> QED
  BY <1>4, <1>5

\* Accesses that are skipped leave what comes after the rate.
LEMMA SkipFacts ==
  ASSUME NEW t \in Plans, t # <<>>, NEW kind, Shaped(t, kind),
         NEW n \in {3, 4}, t[1].op = IF n = 4 THEN "check" ELSE "find"
  PROVE  LET u == SubSeq(t, n + 1, Len(t))
         IN /\ u \in Plans
            /\ Shaped(u, kind)
            /\ u # <<>> => u[1].op \in {"check", "approved"}
            /\ u = <<>> => kind # "approve"
<1> DEFINE u == SubSeq(t, n + 1, Len(t))
<1>1. Len(t) \in Nat \ {0}
  BY EmptySeq DEF Plans
<1>2. \A k \in 1..Len(t) - 1 : /\ t[k].op = "check" => t[k + 1].op = "find"
                               /\ t[k].op = "find" => t[k + 1].op = "insert"
                               /\ t[k].op = "insert" => t[k + 1].op = "record"
                               /\ t[k].op = "record" => t[k + 1].op \in {"check", "approved"}
  BY DEF Shaped, Follows, Stages
<1>3. t[Len(t)].op \notin {"check", "find", "insert"}
  BY <1>1 DEF Shaped, Stages
<1>4. Len(t) >= n /\ t[n].op = "record"
  <2>1. \A k \in 1..Len(t) : t[k].op \in {"check", "find", "insert"} => k + 1 \in 1..Len(t)
    BY <1>1, <1>3
  <2>2. ASSUME NEW k \in 1..Len(t), t[k].op = "find"
        PROVE  k + 2 \in 1..Len(t) /\ t[k + 2].op = "record"
    <3>1. PICK m \in 1..Len(t) : m = k + 1
      BY <2>1, <2>2
    <3>2. k \in 1..Len(t) - 1
      BY <1>1, <3>1
    <3>3. t[m].op = "insert"
      BY <1>2, <2>2, <3>1, <3>2
    <3>4. m + 1 \in 1..Len(t)
      BY <2>1, <3>3
    <3>5. m \in 1..Len(t) - 1
      BY <1>1, <3>4
    <3>6. t[m + 1].op = "record" /\ m + 1 = k + 2
      BY <1>2, <3>1, <3>3, <3>5
    <3> QED
      BY <3>4, <3>6
  <2>3. CASE n = 3
    <3>1. 1 \in 1..Len(t) /\ t[1].op = "find"
      BY <1>1, <2>3
    <3>2. 1 + 2 \in 1..Len(t) /\ t[1 + 2].op = "record"
      BY <2>2, <3>1
    <3> QED
      BY <1>1, <2>3, <3>2
  <2>4. CASE n = 4
    <3>1. 1 \in 1..Len(t) /\ t[1].op = "check"
      BY <1>1, <2>4
    <3>2. 2 \in 1..Len(t) /\ t[2].op = "find"
      <4>1. 1 + 1 \in 1..Len(t)
        BY <2>1, <3>1
      <4>2. 1 \in 1..Len(t) - 1
        BY <1>1, <4>1
      <4> QED
        BY <1>2, <3>1, <4>1, <4>2
    <3>3. 2 + 2 \in 1..Len(t) /\ t[2 + 2].op = "record"
      BY <2>2, <3>2
    <3> QED
      BY <1>1, <2>4, <3>3
  <2> QED
    BY <2>3, <2>4
<1>5. /\ u \in Plans
      /\ Len(u) = Len(t) - n
      /\ \A k \in 1..Len(u) : u[k] = t[k + n]
  <2>1. \A k \in n + 1..Len(t) : t[k] \in Access \cup Other
    BY <1>1, ElementOfSeq DEF Plans
  <2>2. /\ u \in Seq(Access \cup Other)
        /\ Len(u) = IF n + 1 <= Len(t) THEN Len(t) - (n + 1) + 1 ELSE 0
        /\ \A k \in 1..Len(t) - (n + 1) + 1 : u[k] = t[(n + 1) + k - 1]
    BY <1>1, <2>1, SubSeqProperties
  <2> HIDE DEF u
  <2>3. Len(u) = Len(t) - n
    BY <1>1, <1>4, <2>2
  <2>4. \A k \in 1..Len(u) : (n + 1) + k - 1 = k + n
    BY <2>3, <1>1
  <2> QED
    BY <2>2, <2>3, <2>4, <1>1 DEF Plans
<1> HIDE DEF u
<1>6. Shaped(u, kind)
  <2>1. n \in 0..Len(t)
    BY <1>1, <1>4
  <2> QED
    BY <1>5, <2>1, SuffixShaped
<1>7. u # <<>> => u[1].op \in {"check", "approved"}
  <2>1. SUFFICES ASSUME u # <<>>
                 PROVE  u[1].op \in {"check", "approved"}
    OBVIOUS
  <2>2. Len(u) \in Nat \ {0}
    BY <1>5, <2>1, EmptySeq DEF Plans
  <2>3. n \in 1..Len(t) - 1 /\ u[1] = t[1 + n]
    BY <1>1, <1>5, <2>2
  <2> QED
    BY <1>2, <1>4, <2>3
<1>8. u = <<>> => kind # "approve"
  <2>1. SUFFICES ASSUME u = <<>>, kind = "approve"
                 PROVE  FALSE
    OBVIOUS
  <2>2. Len(t) = n
    BY <1>1, <1>5, <2>1, EmptySeq
  <2> QED
    BY <1>1, <1>4, <2>1, <2>2 DEF Shaped
<1> QED
  BY <1>5, <1>6, <1>7, <1>8 DEF u
-----------------------------------------------------------------------------
(* Setting a rate, or the rates of a sync.                                  *)

\* An access to a rate: its pair, its quote and the stage it is at.
LEMMA DoFacts ==
  ASSUME NEW n \in 1..4, NEW pair \in Pairs, NEW quote \in Offered
  PROVE  LET o == Do(Accesses[n], pair, quote)
         IN /\ o \in Access \cup Other
            /\ o.pair = pair /\ o.quote = quote
            /\ o.op \in Stages
            /\ o.op = "check" <=> n = 1
            /\ o.op = "find" <=> n = 2
            /\ o.op = "insert" <=> n = 3
            /\ o.op = "record" <=> n = 4
<1>1. /\ Accesses[n] \in Stages
      /\ Accesses[n] = "check" <=> n = 1
      /\ Accesses[n] = "find" <=> n = 2
      /\ Accesses[n] = "insert" <=> n = 3
      /\ Accesses[n] = "record" <=> n = 4
  BY DEF Accesses, Stages
<1> HIDE DEF Accesses
<1> QED
  BY <1>1 DEF Do, Access

\* Each access to a rate follows the one of the stage before.
LEMMA DoFollows ==
  ASSUME NEW n \in 1..3, NEW pair \in Pairs, NEW quote \in Offered
  PROVE  Follows(Do(Accesses[n], pair, quote), Do(Accesses[n + 1], pair, quote))
<1>1. n \in 1..4 /\ n + 1 \in 1..4
  OBVIOUS
<1> DEFINE o == Do(Accesses[n], pair, quote)
           next == Do(Accesses[n + 1], pair, quote)
<1>2. /\ o.op \in Stages
      /\ o.op = "check" <=> n = 1
      /\ o.op = "find" <=> n = 2
      /\ o.op = "insert" <=> n = 3
      /\ o.op = "record" <=> n = 4
      /\ next.op = "find" <=> n + 1 = 2
      /\ next.op = "insert" <=> n + 1 = 3
      /\ next.op = "record" <=> n + 1 = 4
      /\ next.pair = o.pair /\ next.quote = o.quote
  BY <1>1, DoFacts
<1> HIDE DEF o, next
<1>3. \/ o.op = "check" /\ next.op = "find"
      \/ o.op = "find" /\ next.op = "insert"
      \/ o.op = "insert" /\ next.op = "record"
  BY <1>1, <1>2
<1>4. Follows(o, next)
  BY <1>2, <1>3 DEF Follows, Stages
<1> QED
  BY <1>4 DEF o, next

\* Setting a rate starts by checking and has the shape of a "set" request.
LEMMA SetRateFacts ==
  ASSUME NEW pair \in Pairs, NEW quote \in Offered
  PROVE  LET t == SetRate(pair, quote)
         IN /\ t \in Plans
            /\ t # <<>>
            /\ t[1].op = "check"
            /\ Shaped(t, "set")
<1> DEFINE t == SetRate(pair, quote)
<1>1. \A n \in 1..4 : Do(Accesses[n], pair, quote) \in Access \cup Other
  BY DoFacts
<1>2. t = [n \in 1..4 |-> Do(Accesses[n], pair, quote)]
  BY DEF SetRate
<1> HIDE DEF t
<1>3. t \in Plans /\ Len(t) = 4
  BY <1>1, <1>2 DEF Plans
<1>4. \A n \in 1..4 : t[n].op \in Stages /\ (t[n].op = "check" <=> n = 1)
                      /\ (t[n].op = "record" <=> n = 4)
  BY <1>2, DoFacts
<1>5. \A n \in 1..3 : Follows(t[n], t[n + 1])
  <2>1. TAKE n \in 1..3
  <2>2. n \in 1..4 /\ n + 1 \in 1..4
    OBVIOUS
  <2> QED
    BY <1>2, <2>2, DoFollows
<1>6. t # <<>>
  BY <1>3, EmptySeq
<1>7. Shaped(t, "set")
  BY <1>3, <1>4, <1>5 DEF Shaped, Numbers, MayDo
<1> QED
  BY <1>3, <1>4, <1>6, <1>7 DEF t

\* Applying a feed is a list of such settings and ends with the approval.
LEMMA ApplyRatesFacts ==
  ASSUME NEW fetched \in Feeds, NEW pct \in Spreads
  PROVE  LET t == ApplyRates(fetched, pct)
         IN /\ t \in Plans
            /\ t # <<>>
            /\ t[1].op \in {"check", "approved"}
            /\ Shaped(t, "approve")
<1> DEFINE L == 4 * Len(fetched)
           t == ApplyRates(fetched, pct)
           f(n) == fetched[(n + 3) \div 4]
           quote(n) == Spread(f(n).rate, pct)
           access(n) == Do(Accesses[((n - 1) % 4) + 1], f(n).pair, quote(n))
<1>1. Len(fetched) \in Nat /\ L \in Nat
  BY RateAssumption
<1>2. \A n \in 1..L : (n + 3) \div 4 \in 1..Len(fetched) /\ ((n - 1) % 4) + 1 \in 1..4
  BY <1>1
<1>3. \A n \in 1..L : f(n).pair \in Pairs /\ quote(n) \in Offered
  <2>1. TAKE n \in 1..L
  <2>2. PICK k \in 1..Len(fetched) : k = (n + 3) \div 4
    BY <1>2
  <2>3. fetched[k] \in [pair : Pairs, rate : Fractions]
    BY RateAssumption, ElementOfSeq
  <2>4. f(n) = fetched[k]
    BY <2>2
  <2> HIDE DEF f
  <2> QED
    BY <2>3, <2>4, SpreadFacts
<1>4. t = [n \in 1..L + 1 |-> IF n = L + 1 THEN Do("approved", <<>>, <<>>) ELSE access(n)]
  BY DEF ApplyRates
<1>5. Do("approved", <<>>, <<>>) \in Access \cup Other /\ Do("approved", <<>>, <<>>).op = "approved"
  BY DEF Do, Other, Nothing
<1> HIDE DEF L, t, f, quote
<1>6. \A n \in 1..L : access(n) \in Access \cup Other /\ access(n).op \in Stages
  BY <1>2, <1>3, DoFacts
<1>7. \A n \in 1..L : /\ access(n).op = "check" <=> ((n - 1) % 4) + 1 = 1
                      /\ access(n).op = "record" <=> ((n - 1) % 4) + 1 = 4
  BY <1>2, <1>3, DoFacts
<1>8. ASSUME NEW n \in 1..L, ((n - 1) % 4) + 1 # 4
      PROVE  n + 1 \in 1..L /\ Follows(access(n), access(n + 1))
  <2>1. /\ n + 1 \in 1..L
        /\ ((n + 1) + 3) \div 4 = (n + 3) \div 4
        /\ ((n + 1 - 1) % 4) + 1 = (((n - 1) % 4) + 1) + 1
        /\ ((n - 1) % 4) + 1 \in 1..3
    BY <1>1, <1>8 DEF L
  <2>2. f(n + 1) = f(n) /\ quote(n + 1) = quote(n)
    BY <2>1 DEF f, quote
  <2>3. access(n + 1) = Do(Accesses[(((n - 1) % 4) + 1) + 1], f(n).pair, quote(n))
    BY <2>1, <2>2
  <2> QED
    BY <1>3, <2>1, <2>3, DoFollows
<1>9. ASSUME NEW n \in 1..L, ((n - 1) % 4) + 1 = 4, n # L
      PROVE  n + 1 \in 1..L /\ Follows(access(n), access(n + 1))
  <2>1. n + 1 \in 1..L /\ ((n + 1 - 1) % 4) + 1 = 1
    BY <1>1, <1>9 DEF L
  <2>2. access(n).op = "record" /\ access(n + 1).op = "check"
    BY <1>7, <1>9, <2>1
  <2> QED
    BY <2>1, <2>2 DEF Follows
<1>10. L > 0 => ((L - 1) % 4) + 1 = 4
  BY <1>1 DEF L
<1> HIDE DEF access
<1>11. t \in Plans /\ Len(t) = L + 1 /\ t # <<>>
  <2>1. t \in Plans /\ Len(t) = L + 1
    BY <1>1, <1>4, <1>5, <1>6 DEF Plans
  <2> QED
    BY <2>1, <1>1, EmptySeq
<1>12. /\ t[L + 1].op = "approved"
       /\ \A n \in 1..L : t[n] = access(n)
  BY <1>1, <1>4, <1>5
<1>13. \A n \in Numbers(t) : t[n].op \in MayDo("approve")
  BY <1>1, <1>6, <1>11, <1>12 DEF Numbers, MayDo
<1>14. \A n \in 1..Len(t) - 1 : Follows(t[n], t[n + 1])
  <2>1. TAKE n \in 1..Len(t) - 1
  <2>2. n \in 1..L
    BY <1>1, <1>11
  <2>3. CASE n = L
    <3>1. t[n].op = "record" /\ t[n + 1].op = "approved"
      BY <1>1, <1>7, <1>10, <1>12, <2>2, <2>3
    <3> QED
      BY <3>1 DEF Follows
  <2>4. CASE n # L
    BY <1>8, <1>9, <1>12, <2>2, <2>4
  <2> QED
    BY <2>3, <2>4
<1>15. t[1].op \in {"check", "approved"}
  <2>1. CASE L = 0
    BY <1>12, <2>1
  <2>2. CASE L # 0
    <3>1. 1 \in 1..L /\ ((1 - 1) % 4) + 1 = 1
      BY <1>1, <2>2
    <3> QED
      BY <1>7, <1>12, <3>1
  <2> QED
    BY <2>1, <2>2
<1>16. Shaped(t, "approve")
  BY <1>11, <1>12, <1>13, <1>14 DEF Shaped, Stages
<1> QED
  BY <1>11, <1>15, <1>16 DEF t
-----------------------------------------------------------------------------
(* Requests and sessions.                                                   *)

\* What is known of the request a session serves: its kind, and the type of each field that kind has.
LEMMA RequestFacts ==
  ASSUME NEW r \in Served
  PROVE  /\ r.kind \in {"set", "fetch", "approve", "reject", "expire", "activate", "deactivate", "none"}
         /\ r.kind = "set" => r.pair \in Pairs /\ r.quote \in Offered /\ r.ahead \in BOOLEAN
         /\ r.kind = "fetch" => r.feed \in Feeds
         /\ r.kind = "approve" => r.pct \in Spreads
         /\ r.kind \in {"activate", "deactivate"} => r.currency \in Currencies
<1>1. Manual \subseteq Offered
  BY RateAssumption DEF Offered, Dealers
<1>2. CASE r \in [kind : {"set"}, pair : Pairs, quote : Manual, ahead : BOOLEAN]
  BY <1>1, <1>2
<1>3. CASE r \in [kind : {"fetch"}, feed : Feeds] \cup [kind : {"approve"}, sync : Nat, pct : Spreads]
  BY <1>3
<1>4. CASE r \in [kind : {"reject"}, sync : Nat] \cup [kind : {"expire"}]
  BY <1>4
<1>5. CASE r \in [kind : {"activate", "deactivate"}, currency : Currencies] \cup {None}
  BY <1>5 DEF None
<1> QED
  BY <1>2, <1>3, <1>4, <1>5 DEF Served

\* A request that begins is served, and reviews a sync that there is.
LEMMA RequestsAreServed ==
  ASSUME syncs \in Seq(SyncRow), NEW r \in Requests
  PROVE  /\ r \in Served
         /\ r.kind \in {"approve", "reject"} => r.sync \in Numbers(syncs)
<1>1. Numbers(syncs) \subseteq Nat
  BY DEF Numbers
<1>2. CASE r \in [kind : {"fetch"}, feed : Feeds] \cup [kind : {"expire"}]
                   \cup [kind : {"activate", "deactivate"}, currency : Currencies]
  BY <1>2 DEF Served
<1>5. CASE r \in [kind : {"set"}, pair : ByHand, quote : Manual, ahead : BOOLEAN]
  <2>1. r \in [kind : {"set"}, pair : Pairs, quote : Manual, ahead : BOOLEAN]
    BY <1>5, RateAssumption
  <2> QED
    BY <2>1 DEF Served
<1>3. CASE r \in [kind : {"approve"}, sync : Numbers(syncs), pct : Spreads]
  <2>1. r \in [kind : {"approve"}, sync : Nat, pct : Spreads] /\ r.sync \in Numbers(syncs)
    BY <1>1, <1>3
  <2> QED
    BY <2>1 DEF Served
<1>4. CASE r \in [kind : {"reject"}, sync : Numbers(syncs)]
  <2>1. r \in [kind : {"reject"}, sync : Nat] /\ r.sync \in Numbers(syncs)
    BY <1>1, <1>4
  <2> QED
    BY <2>1 DEF Served
<1> QED
  BY <1>2, <1>3, <1>4, <1>5 DEF Requests

\* A session that has just begun a request has nothing in hand.
LEMMA BegunFacts ==
  ASSUME NEW r \in Served
  PROVE  LET s == Begun(r)
         IN /\ s \in Session
            /\ s.req = r /\ s.todo = Op("begin")
            /\ s.syncs = {} /\ s.setting = {} /\ s.applied = 0
BY OpFacts DEF Begun, Session

\* A session between two requests has nothing in hand.
LEMMA IdleFacts ==
  /\ Idle \in Session
  /\ Idle.req = None /\ Idle.todo = <<>>
  /\ Idle.syncs = {} /\ Idle.setting = {} /\ Idle.applied = 0
<1>1. Begun(None) \in Session
  BY BegunFacts DEF Served
<1>2. <<>> \in Plans
  BY EmptySeq DEF Plans
<1>3. Idle = [Begun(None) EXCEPT !.todo = <<>>]
  BY DEF Idle, None
<1> DEFINE none == <<>>
<1> HIDE DEF none
<1>4. none \in Plans /\ Idle = [Begun(None) EXCEPT !.todo = none]
  BY <1>2, <1>3 DEF none
<1>5. Idle \in Session /\ Idle.todo = none
  BY <1>1, <1>4 DEF Session
<1>6. Idle.req = None /\ Idle.syncs = {} /\ Idle.setting = {} /\ Idle.applied = 0
  BY <1>4 DEF Begun
<1> QED
  BY <1>5, <1>6 DEF none

\* A session between two requests is on course.
LEMMA IdleOnCourse == OnCourse(Idle)
<1>1. Shaped(<<>>, "none")
  BY EmptySeq DEF Shaped, Numbers
<1> QED
  BY <1>1, IdleFacts DEF OnCourse, None

\* Where a request goes from s with `rest` still to do.
Gone(s, rest) == IF rest = <<>> THEN Idle ELSE [s EXCEPT !.todo = rest]

\* What a session keeps of its state when it moves on.
LEMMA GoneFacts ==
  ASSUME NEW s \in Session, NEW rest \in Plans
  PROVE  LET t == Gone(s, rest)
         IN /\ t \in Session
            /\ t.todo = rest
            /\ rest = <<>> => t = Idle
            /\ rest # <<>> => /\ t.req = s.req /\ t.old = s.old /\ t.found = s.found
                              /\ t.new = s.new /\ t.syncs = s.syncs
                              /\ t.applied = s.applied /\ t.setting = s.setting
<1>1. CASE rest = <<>>
  BY <1>1, IdleFacts DEF Gone
<1>2. CASE rest # <<>>
  BY <1>2 DEF Gone, Session
<1> QED
  BY <1>1, <1>2

\* Goto changes the session that takes the step and no other.
LEMMA GotoFacts ==
  ASSUME session \in [Sessions -> Session], NEW p \in Sessions, NEW s \in Session,
         NEW rest \in Plans, Goto(p, s, rest)
  PROVE  /\ session' \in [Sessions -> Session]
         /\ session'[p] = Gone(s, rest)
         /\ \A q \in Sessions \ {p} : session'[q] = session[q]
<1>1. session' = [session EXCEPT ![p] = Gone(s, rest)]
  BY DEF Goto, Gone
<1>2. Gone(s, rest) \in Session
  BY GoneFacts
<1> QED
  BY <1>1, <1>2
-----------------------------------------------------------------------------
(* Steps of one session.                                                    *)

\* p has become t, and nobody else has moved.
Becomes(p, t) ==
  /\ session' \in [Sessions -> Session]
  /\ session'[p] = t
  /\ \A q \in Sessions \ {p} : session'[q] = session[q]

\* Goto makes the session what Gone says.
LEMMA GotoBecomes ==
  ASSUME Typed, NEW p \in Sessions, NEW s \in Session, NEW rest \in Plans, Goto(p, s, rest)
  PROVE  Becomes(p, Gone(s, rest)) /\ Gone(s, rest) \in Session
BY GotoFacts, GoneFacts DEF Typed, Becomes

\* A step that touches the currencies only, besides its own session, keeps types and courses.
LEMMA TypesStill ==
  ASSUME RateInv, NEW p \in Sessions, NEW t \in Session, Becomes(p, t), OnCourse(t),
         active' \subseteq Currencies, UNCHANGED <<rates, history, syncs, overdue, set>>,
         contended' \subseteq Pairs, disturbed' \subseteq Numbers(syncs)
  PROVE  Typed' /\ \A q \in Sessions : OnCourse(session[q])'
<1>1. Typed'
  BY DEF RateInv, Typed, Becomes, Numbers
<1>2. ASSUME NEW q \in Sessions
      PROVE  OnCourse(session'[q])
  BY DEF RateInv, Becomes
<1>3. ASSUME NEW q \in Sessions
      PROVE  OnCourse(session[q])'
  BY <1>2 DEF OnCourse, Numbers, Shaped
<1> QED
  BY <1>1, <1>3

\* What a session knows of a rate stays true when more pairs become contended.
LEMMA KnowsRateStill ==
  ASSUME NEW s, NEW rows, NEW shared, NEW more, shared \subseteq more,
         KnowsRate(s, rows, shared)
  PROVE  KnowsRate(s, rows, more)
BY DEF KnowsRate

\* What a session knows of synchronisations stays true when more of them are disturbed.
LEMMA KnowsSyncsStill ==
  ASSUME NEW s, NEW rows, NEW counts, NEW shared, NEW more, shared \subseteq more,
         KnowsSyncs(s, rows, counts, shared)
  PROVE  KnowsSyncs(s, rows, counts, more)
BY DEF KnowsSyncs

\* The history still tells the rate before when rates and history are left alone.
LEMMA HistoryStill ==
  ASSUME RateInv, UNCHANGED <<rates, history>>, contended \subseteq contended'
  PROVE  HistoryTellsTheRateBefore'
BY DEF RateInv, RatesInv, HistoryTellsTheRateBefore, TookThePlaceOf, EarlierRates, Numbers

\* Took says of any table what TookThePlaceOf says of the rates.
LEMMA TookIs == \A k, old : TookThePlaceOf(k, old) <=> Took(rates, k, old)
BY DEF TookThePlaceOf, EarlierRates, Took, Before, Numbers

\* The history tells the rate before in the words of Took, now and in the next state.
LEMMA HistoryIs ==
  /\ HistoryTellsTheRateBefore <=>
       \A n \in 1..Len(history) :
         rates[history[n].rate].pair \notin contended => Took(rates, history[n].rate, history[n].old)
  /\ HistoryTellsTheRateBefore' <=>
       \A n \in 1..Len(history') :
         rates'[history'[n].rate].pair \notin contended' =>
           Took(rates', history'[n].rate, history'[n].old)
<1>1. HistoryTellsTheRateBefore' <=>
        \A n \in 1..Len(history') :
          rates'[history'[n].rate].pair \notin contended' =>
            TookThePlaceOf(history[n].rate, history[n].old)'
  BY DEF HistoryTellsTheRateBefore
<1>2. \A n : TookThePlaceOf(history[n].rate, history[n].old)' <=>
              Took(rates', history'[n].rate, history'[n].old)
  BY DEF TookThePlaceOf, EarlierRates, Took, Before, Numbers
<1> QED
  BY <1>1, <1>2, TookIs DEF HistoryTellsTheRateBefore

\* A step that changes no rate keeps what is said of the rates, if p still
\* knows what it says it does.
LEMMA RatesStill ==
  ASSUME RateInv, NEW p \in Sessions, NEW t \in Session, Becomes(p, t),
         UNCHANGED rates, HistoryTellsTheRateBefore', contended \subseteq contended',
         KnowsRate(t, rates, contended'),
         \A q \in Sessions \ {p} : t.setting \cap session[q].setting \subseteq contended'
  PROVE  RatesInv'
<1>1. ASSUME NEW q \in Sessions
      PROVE  KnowsRate(session'[q], rates, contended')
  BY KnowsRateStill DEF RateInv, RatesInv, Becomes
<1>2. ASSUME NEW q \in Sessions
      PROVE  KnowsRate(session[q], rates, contended)'
  BY <1>1 DEF KnowsRate, Reads, Serving, Took, Before, Numbers
<1>3. ASSUME NEW q \in Sessions, NEW r \in Sessions, q # r
      PROVE  session'[q].setting \cap session'[r].setting \subseteq contended'
  <2>1. session[q].setting \cap session[r].setting \subseteq contended
    BY <1>3 DEF RateInv, RatesInv
  <2>2. CASE q = p
    BY <1>3, <2>2 DEF Becomes
  <2>3. CASE r = p
    BY <1>3, <2>3 DEF Becomes
  <2>4. CASE q # p /\ r # p
    BY <2>1, <2>4 DEF Becomes
  <2> QED
    BY <2>2, <2>3, <2>4
<1>4. EndedByALater(rates)'
  BY DEF RateInv, RatesInv, EndedByALater
<1>5. UncontendedPairHasOneRate'
  BY DEF RateInv, RatesInv, UncontendedPairHasOneRate, Numbers
<1> QED
  BY <1>2, <1>3, <1>4, <1>5 DEF RatesInv

\* A step that changes no sync keeps what is said of the syncs; a sync that p
\* lets go without a verdict is disturbed.
LEMMA SyncsStill ==
  ASSUME RateInv, NEW p \in Sessions, NEW t \in Session, Becomes(p, t),
         UNCHANGED <<syncs, set>>, disturbed \subseteq disturbed',
         KnowsSyncs(t, syncs, set, disturbed'),
         \A q \in Sessions \ {p} : t.syncs \cap session[q].syncs \subseteq disturbed',
         session[p].syncs \subseteq t.syncs \cup disturbed'
  PROVE  SyncsInv'
<1>1. ASSUME NEW q \in Sessions
      PROVE  KnowsSyncs(session'[q], syncs, set, disturbed')
  BY KnowsSyncsStill DEF RateInv, SyncsInv, Becomes
<1>2. ASSUME NEW q \in Sessions
      PROVE  KnowsSyncs(session[q], syncs, set, disturbed)'
  BY <1>1 DEF KnowsSyncs, Numbers
<1>3. ASSUME NEW q \in Sessions, NEW r \in Sessions, q # r
      PROVE  session'[q].syncs \cap session'[r].syncs \subseteq disturbed'
  <2>1. session[q].syncs \cap session[r].syncs \subseteq disturbed
    BY <1>3 DEF RateInv, SyncsInv
  <2>2. CASE q = p
    BY <1>3, <2>2 DEF Becomes
  <2>3. CASE r = p
    BY <1>3, <2>3 DEF Becomes
  <2>4. CASE q # p /\ r # p
    BY <2>1, <2>4 DEF Becomes
  <2> QED
    BY <2>2, <2>3, <2>4
<1>4. UndisturbedSyncIsSettledOnce'
  <2>1. ASSUME NEW i \in Numbers(syncs) \ disturbed',
               \A q \in Sessions : i \notin session'[q].syncs
        PROVE  Settled(syncs, set, i)
    <3>1. \A q \in Sessions : i \notin session[q].syncs
      BY <2>1 DEF Becomes
    <3> QED
      BY <2>1, <3>1 DEF RateInv, SyncsInv, UndisturbedSyncIsSettledOnce, Settled
  <2>2. syncs' = syncs /\ set' = set
    OBVIOUS
  <2> QED
    BY <2>1, <2>2 DEF UndisturbedSyncIsSettledOnce, Settled, Numbers
<1> QED
  BY <1>2, <1>3, <1>4 DEF SyncsInv

\* A step that changes neither and shares nothing new.
LEMMA CalmStep ==
  ASSUME RateInv, NEW p \in Sessions, NEW t \in Session, Becomes(p, t), OnCourse(t),
         active' \subseteq Currencies, UNCHANGED <<rates, history, syncs, overdue, ghosts>>,
         KnowsRate(t, rates, contended), KnowsSyncs(t, syncs, set, disturbed),
         t.setting \subseteq session[p].setting,
         t.syncs \subseteq session[p].syncs, session[p].syncs \subseteq t.syncs
  PROVE  RateInv'
<1> USE DEF ghosts
<1>1. Typed' /\ \A q \in Sessions : OnCourse(session[q])'
  <2>1. contended' \subseteq Pairs /\ disturbed' \subseteq Numbers(syncs)
    BY DEF RateInv, Typed
  <2> QED
    BY <2>1, TypesStill
<1>2. RatesInv'
  <2>1. \A q \in Sessions \ {p} : t.setting \cap session[q].setting \subseteq contended'
    BY DEF RateInv, RatesInv
  <2> QED
    BY <2>1, HistoryStill, RatesStill
<1>3. SyncsInv'
  <2>1. \A q \in Sessions \ {p} : t.syncs \cap session[q].syncs \subseteq disturbed'
    BY DEF RateInv, SyncsInv
  <2> QED
    BY <2>1, SyncsStill
<1> QED
  BY <1>1, <1>2, <1>3 DEF RateInv

\* What is known of a session that is at an operation.
LEMMA AtFacts ==
  ASSUME RateInv, NEW p \in Sessions, NEW op, At(p, op)
  PROVE  LET s == session[p]
         IN /\ s \in Session /\ s.todo \in Plans /\ s.req \in Served
            /\ s.todo # <<>> /\ OnCourse(s) /\ Shaped(s.todo, s.req.kind)
            /\ Head(s.todo) = s.todo[1] /\ s.todo[1].op = op
            /\ s.todo[1] \in Access \cup Other
            /\ op \in MayDo(s.req.kind)
<1> DEFINE s == session[p]
<1>1. /\ s \in Session /\ s.todo \in Plans /\ s.req \in Served
      /\ s.todo # <<>> /\ OnCourse(s) /\ Shaped(s.todo, s.req.kind)
  BY DEF RateInv, Typed, Session, At, Busy, OnCourse
<1>2. Head(s.todo) = s.todo[1] /\ s.todo[1] \in Access \cup Other
  BY <1>1, TailFacts
<1>3. s.todo[1].op = op
  BY <1>2 DEF At
<1>4. 1 \in Numbers(s.todo)
  BY <1>1, EmptySeq DEF Plans, Numbers
<1>5. op \in MayDo(s.req.kind)
  BY <1>1, <1>3, <1>4 DEF Shaped
<1> QED
  BY <1>1, <1>2, <1>3, <1>5

\* Only "set" and "approve" set rates.
LEMMA StageFacts ==
  ASSUME RateInv, NEW p \in Sessions, NEW op \in Stages, At(p, op)
  PROVE  /\ session[p].req.kind \in {"set", "approve"}
         /\ session[p].todo[1] \in Access
         /\ Pair(p) = session[p].todo[1].pair /\ Pair(p) \in Pairs
         /\ Quote(p) = session[p].todo[1].quote /\ Quote(p) \in Offered
<1>1. session[p].req.kind \in {"set", "approve"}
  BY AtFacts, RequestFacts DEF MayDo, Stages
<1>2. session[p].todo[1] \in Access
  BY AtFacts, OpTypes
<1> QED
  BY <1>1, <1>2, AtFacts DEF Pair, Quote, Access

\* A request that begins has done nothing and has nothing else to do.
LEMMA BeginsFacts ==
  ASSUME RateInv, NEW p \in Sessions, NEW kind, Begins(p, kind)
  PROVE  LET s == session[p]
         IN /\ s \in Session /\ s.req \in Served /\ s.req.kind = kind /\ OnCourse(s)
            /\ s.syncs = {} /\ s.setting = {} /\ s.applied = 0
            /\ Rest(p) = <<>>
<1> DEFINE s == session[p]
<1>1. At(p, "begin") /\ s.req.kind = kind
  BY DEF Begins
<1>2. /\ s \in Session /\ s.todo \in Plans /\ s.req \in Served /\ OnCourse(s)
      /\ s.todo # <<>> /\ Shaped(s.todo, s.req.kind) /\ s.todo[1].op = "begin"
  BY <1>1, AtFacts
<1>3. s.syncs = {} /\ s.setting = {} /\ s.applied = 0
  BY <1>2 DEF OnCourse
<1>4. ~ Follows(s.todo[1], Tail(s.todo)[1])
  BY <1>2 DEF Follows, Stages
<1>5. Rest(p) = <<>>
  BY <1>2, <1>4, TailFacts DEF Rest
<1> QED
  BY <1>1, <1>2, <1>3, <1>5

\* What is left to do fits, and has not been done.
LEMMA StillOnCourse ==
  ASSUME RateInv, NEW p \in Sessions, OnCourse(session[p]), NEW s \in Session,
         s.req = session[p].req, NEW rest \in Plans, Shaped(rest, s.req.kind),
         rest # <<>> => rest[1].op # "begin",
         s.req.kind \notin {"approve", "reject", "expire"} => s.syncs = {},
         s.req.kind \notin {"set", "approve"} => s.applied = 0
  PROVE  OnCourse(Gone(s, rest))
<1>1. CASE rest = <<>>
  BY <1>1, IdleOnCourse DEF Gone
<1>2. CASE rest # <<>>
  BY <1>2, GoneFacts DEF OnCourse
<1> QED
  BY <1>1, <1>2

\* A session whose next operation is no later stage of an access knows no rate.
LEMMA NoRateInHand ==
  ASSUME NEW s \in Session, NEW rest \in Plans,
         rest # <<>> => rest[1].op \notin Stages \ {"check"},
         NEW rows, NEW shared
  PROVE  KnowsRate(Gone(s, rest), rows, shared)
BY GoneFacts DEF KnowsRate

\* A session without synchronisations in hand still has none after it moved on.
LEMMA NoSyncInHand ==
  ASSUME NEW s \in Session, s.syncs = {}, NEW rest \in Plans, NEW rows, NEW counts, NEW shared
  PROVE  Gone(s, rest).syncs = {} /\ KnowsSyncs(Gone(s, rest), rows, counts, shared)
BY GoneFacts, IdleFacts DEF KnowsSyncs

\* A request that has begun goes on with what its kind does.
LEMMA StartSafe ==
  ASSUME RateInv, NEW p \in Sessions, NEW kind, Begins(p, kind),
         NEW rest \in Plans, Shaped(rest, kind),
         rest # <<>> => rest[1].op \notin {"begin"} \cup (Stages \ {"check"}),
         Goto(p, session[p], rest),
         active' \subseteq Currencies, UNCHANGED <<rates, history, syncs, overdue, ghosts>>
  PROVE  RateInv'
<1> DEFINE s == session[p]
           t == Gone(s, rest)
<1>1. /\ s \in Session /\ s.req.kind = kind /\ OnCourse(s)
      /\ s.syncs = {} /\ s.setting = {} /\ s.applied = 0
  BY BeginsFacts
<1>2. Becomes(p, t) /\ t \in Session
  BY <1>1, GotoBecomes DEF RateInv
<1>3. OnCourse(t)
  BY <1>1, StillOnCourse
<1>4. KnowsRate(t, rates, contended)
  BY <1>1, NoRateInHand
<1>5. t.syncs = {} /\ KnowsSyncs(t, syncs, set, disturbed)
  BY <1>1, NoSyncInHand
<1>6. t.setting = {}
  BY <1>1, GoneFacts, IdleFacts
<1> HIDE DEF t
<1> QED
  BY <1>1, <1>2, <1>3, <1>4, <1>5, <1>6, CalmStep

\* BeginSet keeps the invariant.
LEMMA BeginSetSafe ==
  ASSUME RateInv, NEW p \in Sessions, BeginSet(p)
  PROVE  RateInv'
<1> DEFINE r == session[p].req
           rest == SetRate(r.pair, r.quote)
<1>1. Begins(p, "set") /\ Goto(p, session[p], rest) /\ UNCHANGED <<tables, ghosts>>
  BY DEF BeginSet
<1>2. r.pair \in Pairs /\ r.quote \in Offered
  BY <1>1, BeginsFacts, RequestFacts
<1>3. rest \in Plans /\ rest # <<>> /\ rest[1].op = "check" /\ Shaped(rest, "set")
  BY <1>2, SetRateFacts
<1> HIDE DEF rest
<1>4. active' \subseteq Currencies
  BY <1>1 DEF tables, RateInv, Typed
<1>5. rest[1].op \notin {"begin"} \cup (Stages \ {"check"})
  BY <1>3 DEF Stages
<1> QED
  BY <1>1, <1>3, <1>4, <1>5, StartSafe DEF tables

\* A request raises before it has done anything, or is done at once.
LEMMA EndSafe ==
  ASSUME RateInv, NEW p \in Sessions, NEW kind, Begins(p, kind), Goto(p, session[p], <<>>),
         active' \subseteq Currencies, UNCHANGED <<rates, history, syncs, overdue, ghosts>>
  PROVE  RateInv'
<1>1. PICK none : none = <<>>
  OBVIOUS
<1>2. none \in Plans
  BY <1>1, EmptySeq DEF Plans
<1>3. Shaped(none, kind)
  BY <1>1, EmptySeq DEF Shaped, Numbers
<1>4. Goto(p, session[p], none)
  BY <1>1
<1> QED
  BY <1>1, <1>2, <1>3, <1>4, StartSafe

\* Fail keeps the invariant.
LEMMA FailSafe ==
  ASSUME RateInv, NEW p \in Sessions, NEW kind, Begins(p, kind), Fail(p)
  PROVE  RateInv'
BY EndSafe DEF Fail, tables, RateInv, Typed

\* FetchRates keeps the invariant.
LEMMA FetchRatesSafe ==
  ASSUME RateInv, NEW p \in Sessions, FetchRates(p)
  PROVE  RateInv'
<1>1. Begins(p, "fetch")
  BY DEF FetchRates
<1>2. CASE Fail(p)
  BY <1>1, <1>2, FailSafe
<1>3. CASE Goto(p, session[p], Op("create")) /\ UNCHANGED <<tables, ghosts>>
  <2>1. PICK rest \in Plans : rest = Op("create") /\ Len(rest) = 1 /\ rest[1].op = "create"
    BY OpFacts
  <2>2. Shaped(rest, "fetch") /\ rest[1].op \notin {"begin"} \cup (Stages \ {"check"})
    BY <2>1, OneShaped DEF MayDo, Stages
  <2>3. active' \subseteq Currencies
    BY <1>3 DEF tables, RateInv, Typed
  <2> QED
    BY <1>1, <1>3, <2>1, <2>2, <2>3, StartSafe DEF tables
<1> QED
  BY <1>2, <1>3 DEF FetchRates

\* SwitchCurrency keeps the invariant.
LEMMA SwitchCurrencySafe ==
  ASSUME RateInv, NEW p \in Sessions, SwitchCurrency(p)
  PROVE  RateInv'
<1>1. PICK kind \in {"activate", "deactivate"} : Begins(p, kind)
  BY DEF SwitchCurrency
<1>2. session[p].req.currency \in Currencies /\ Rest(p) = <<>>
  BY <1>1, BeginsFacts, RequestFacts
<1>3. active' \subseteq Currencies
  BY <1>2 DEF SwitchCurrency, RateInv, Typed
<1> QED
  BY <1>1, <1>2, <1>3, EndSafe DEF SwitchCurrency

\* Begin keeps the invariant.
LEMMA BeginSafe ==
  ASSUME RateInv, NEW p \in Sessions, NEW r \in Requests, Begin(p, r)
  PROVE  RateInv'
<1> DEFINE t == Begun(r)
<1>1. session[p].todo = <<>> /\ session' = [session EXCEPT ![p] = t] /\ UNCHANGED <<tables, ghosts>>
  BY DEF Begin, Busy
<1>2. /\ r \in Served
      /\ r.kind \in {"approve", "reject"} => r.sync \in Numbers(syncs)
  BY RequestsAreServed DEF RateInv, Typed
<1>3. /\ t \in Session /\ t.req = r /\ t.todo = Op("begin")
      /\ t.syncs = {} /\ t.setting = {} /\ t.applied = 0
  BY <1>2, BegunFacts
<1> HIDE DEF t
<1>4. Becomes(p, t)
  BY <1>1, <1>3 DEF Becomes, RateInv, Typed
<1>5. t.todo \in Plans /\ Len(t.todo) = 1 /\ t.todo[1].op = "begin" /\ t.todo # <<>>
  BY <1>3, OpFacts
<1>6. Shaped(t.todo, r.kind)
  <2>1. "begin" \in MayDo(r.kind) /\ "begin" \notin Stages
    BY DEF MayDo, Stages
  <2> QED
    BY <1>5, <2>1, OneShaped
<1>7. OnCourse(t)
  BY <1>2, <1>3, <1>5, <1>6 DEF OnCourse
<1>8. KnowsRate(t, rates, contended) /\ KnowsSyncs(t, syncs, set, disturbed)
  BY <1>3, <1>5 DEF KnowsRate, KnowsSyncs, Stages
<1>9. session[p].syncs = {}
  BY <1>1, IdleFacts DEF RateInv, OnCourse
<1>10. active' \subseteq Currencies
  BY <1>1 DEF tables, RateInv, Typed
<1> QED
  BY <1>1, <1>3, <1>4, <1>7, <1>8, <1>9, <1>10, CalmStep DEF tables

\* Skip keeps the invariant, from "check" and from "find".
LEMMA SkipSafe ==
  ASSUME RateInv, NEW p \in Sessions, NEW n \in {3, 4},
         At(p, IF n = 4 THEN "check" ELSE "find"), Skip(p, n)
  PROVE  RateInv'
<1> DEFINE op == IF n = 4 THEN "check" ELSE "find"
           s == [session[p] EXCEPT !.setting = {}]
           rest == SubSeq(session[p].todo, n + 1, Len(session[p].todo))
           t == Gone(s, rest)
<1>1. /\ session[p] \in Session /\ session[p].todo \in Plans /\ session[p].todo # <<>>
      /\ OnCourse(session[p]) /\ Shaped(session[p].todo, session[p].req.kind)
      /\ session[p].todo[1].op = op
  BY AtFacts
<1>2. op \in Stages \ {"record"} /\ session[p].req.kind \in {"set", "approve"}
  <2>1. op \in Stages \ {"record"} /\ At(p, op)
    BY DEF Stages
  <2> HIDE DEF op
  <2> QED
    BY <2>1, StageFacts
<1>3. /\ rest \in Plans
      /\ Shaped(rest, session[p].req.kind)
      /\ rest # <<>> => rest[1].op \in {"check", "approved"}
      /\ rest = <<>> => session[p].req.kind # "approve"
  BY <1>1, SkipFacts
<1>4. Goto(p, s, rest) /\ UNCHANGED <<tables, ghosts>>
  BY DEF Skip
<1>5. /\ s \in Session /\ s.req = session[p].req /\ s.syncs = session[p].syncs
      /\ s.applied = session[p].applied /\ s.setting = {}
  BY <1>1 DEF Session
<1> HIDE DEF s, rest, op
<1>6. Becomes(p, t) /\ t \in Session
  BY <1>3, <1>4, <1>5, GotoBecomes DEF RateInv
<1>7. OnCourse(t)
  BY <1>1, <1>3, <1>5, StillOnCourse DEF OnCourse
<1>8. KnowsRate(t, rates, contended)
  BY <1>3, <1>5, NoRateInHand DEF Stages
<1>9. t.syncs = session[p].syncs
  <2>1. CASE rest = <<>>
    BY <1>1, <1>2, <1>3, <2>1, GoneFacts, IdleFacts, <1>5 DEF OnCourse
  <2>2. CASE rest # <<>>
    BY <1>3, <1>5, <2>2, GoneFacts
  <2> QED
    BY <2>1, <2>2
<1>10. KnowsSyncs(t, syncs, set, disturbed)
  <2>1. SUFFICES ASSUME session[p].syncs # {}
                 PROVE  KnowsSyncs(t, syncs, set, disturbed)
    BY <1>9 DEF KnowsSyncs
  <2>2. rest # <<>>
    BY <1>1, <1>2, <1>3, <2>1 DEF OnCourse
  <2>3. t.applied = session[p].applied /\ t.todo = rest /\ rest[1].op # "record"
    BY <1>3, <1>5, <2>2, GoneFacts
  <2>4. session[p].todo[1].op # "record"
    BY <1>1, <1>2
  <2>5. KnowsSyncs(session[p], syncs, set, disturbed)
    BY DEF RateInv, SyncsInv
  <2> QED
    BY <1>9, <2>3, <2>4, <2>5 DEF KnowsSyncs
<1>11. t.setting = {}
  BY <1>3, <1>5, GoneFacts, IdleFacts
<1>12. active' \subseteq Currencies
  BY <1>4 DEF tables, RateInv, Typed
<1> HIDE DEF t
<1> QED
  BY <1>4, <1>6, <1>7, <1>8, <1>9, <1>10, <1>11, <1>12, CalmStep DEF tables

-----------------------------------------------------------------------------
(* Setting a rate.                                                          *)

\* The rate that the two SELECTs of set_exchange_rate read.
LEMMA TheRateFacts ==
  ASSUME RateInv, NEW pair \in Pairs
  PROVE  LET k == TheRate(pair)
         IN /\ k \in Nat
            /\ \/ k = 0
               \/ k \in Numbers(rates) /\ rates[k].pair = pair
            /\ ~ Ambiguous(pair) => Reads(rates, k, pair)
<1> DEFINE k == TheRate(pair)
<1>1. InForce(pair) = Serving(rates, pair) /\ InForce(pair) \subseteq Numbers(rates)
  BY DEF InForce, Serving, Numbers
<1>2. CASE InForce(pair) = {}
  BY <1>1, <1>2 DEF TheRate, Reads
<1>3. CASE InForce(pair) # {}
  <2>1. k \in InForce(pair)
    BY <1>3 DEF TheRate
  <2> HIDE DEF k
  <2>2. k \in Numbers(rates) /\ rates[k].pair = pair /\ k \in Nat /\ k # 0
    BY <2>1 DEF InForce, Numbers
  <2>3. ~ Ambiguous(pair) => InForce(pair) = {k}
    BY <2>1 DEF Ambiguous
  <2> QED
    BY <1>1, <2>2, <2>3 DEF k, Reads
<1> QED
  BY <1>2, <1>3

\* A session that serves no request is setting no pair and has no synchronisation in hand.
LEMMA IdleHoldsNothing ==
  ASSUME RateInv, NEW q \in Sessions, ~ Busy(q)
  PROVE  session[q].setting = {} /\ session[q].syncs = {}
BY IdleFacts DEF RateInv, OnCourse, Busy

\* Both reads of a request that sets a rate: it goes on as s, which knows the
\* rate of its pair that is in force and has told that it sets it.
LEMMA ReadSafe ==
  ASSUME RateInv, NEW p \in Sessions, NEW op \in {"check", "find"}, At(p, op),
         NEW s \in Session, s.req = session[p].req, s.syncs = session[p].syncs,
         s.applied = session[p].applied, s.setting = {Pair(p)}, ~ Ambiguous(Pair(p)),
         op = "check" => s.old = TheRate(Pair(p)),
         op = "find" => s.old = session[p].old /\ s.found = TheRate(Pair(p)),
         Goto(p, s, Rest(p)),
         UNCHANGED <<tables, set, disturbed>>,
         contended' = IF \E q \in Others(p) : Pair(p) \in session[q].setting
                      THEN contended \cup {Pair(p)} ELSE contended
  PROVE  RateInv'
<1> DEFINE x == Pair(p)
           todo == session[p].todo
           rest == Tail(todo)
           t == Gone(s, rest)
<1>1. /\ session[p] \in Session /\ todo \in Plans /\ todo # <<>> /\ todo[1].op = op
      /\ OnCourse(session[p]) /\ Shaped(todo, session[p].req.kind)
  BY AtFacts
<1>2. /\ session[p].req.kind \in {"set", "approve"}
      /\ todo[1].pair = x /\ x \in Pairs
  BY StageFacts DEF Stages
<1>3. /\ rest \in Plans /\ Shaped(rest, session[p].req.kind)
      /\ rest # <<>> /\ Follows(todo[1], rest[1])
  BY <1>1, TailFacts DEF Stages
<1>4. /\ rest[1].pair = x
      /\ rest[1].op = IF op = "check" THEN "find" ELSE "insert"
  BY <1>1, <1>2, <1>3 DEF Follows
<1> HIDE DEF rest
<1>5. Becomes(p, t) /\ t \in Session
  BY <1>3, GotoBecomes DEF RateInv, Rest, rest
<1>6. /\ t.todo = rest /\ t.req = s.req /\ t.old = s.old /\ t.found = s.found
      /\ t.syncs = s.syncs /\ t.applied = s.applied /\ t.setting = s.setting
  BY <1>3, GoneFacts
<1>7. OnCourse(t)
  BY <1>1, <1>3, <1>4, StillOnCourse DEF OnCourse
<1> HIDE DEF t, x
<1>8. contended \subseteq contended' /\ contended' \subseteq Pairs
  BY <1>2 DEF RateInv, Typed, x
<1>9. \A q \in Sessions \ {p} : t.setting \cap session[q].setting \subseteq contended'
  <2>1. TAKE q \in Sessions \ {p}
  <2>2. CASE Busy(q)
    BY <1>6, <2>2 DEF Others, x
  <2>3. CASE ~ Busy(q)
    BY <2>3, IdleHoldsNothing
  <2> QED
    BY <2>2, <2>3
<1>10. KnowsRate(t, rates, contended')
  <2>1. /\ TheRate(x) = 0 \/ (TheRate(x) \in Numbers(rates) /\ rates[TheRate(x)].pair = x)
        /\ Reads(rates, TheRate(x), x)
    BY <1>2, TheRateFacts DEF x
  <2>2. op = "find" /\ x \notin contended => Reads(rates, session[p].old, x)
    BY <1>1, <1>2 DEF RateInv, RatesInv, KnowsRate, Stages
  <2>7. op = "find" /\ x \notin contended => session[p].old = TheRate(x)
    BY <2>1, <2>2 DEF Reads
  <2>3. t.setting = {x}
    BY <1>6 DEF x
  <2>4. /\ op = "check" => t.old = TheRate(x)
        /\ op = "find" => t.old = session[p].old /\ t.found = TheRate(x)
    BY <1>6 DEF x
  <2>5. CASE op = "check"
    BY <1>4, <1>6, <1>8, <2>1, <2>3, <2>4, <2>5 DEF KnowsRate
  <2>6. CASE op = "find"
    BY <1>4, <1>6, <1>8, <2>1, <2>2, <2>3, <2>4, <2>6, <2>7 DEF KnowsRate
  <2> QED
    BY <2>5, <2>6
<1>11. RatesInv'
  <2>1. UNCHANGED <<rates, history>>
    BY DEF tables
  <2> QED
    BY <1>5, <1>8, <1>9, <1>10, <2>1, HistoryStill, RatesStill
<1>12. KnowsSyncs(t, syncs, set, disturbed)
  <2>1. todo[1].op # "record" /\ rest[1].op # "record"
    BY <1>1, <1>4
  <2>2. KnowsSyncs(session[p], syncs, set, disturbed)
    BY DEF RateInv, SyncsInv
  <2> QED
    BY <1>6, <2>1, <2>2 DEF KnowsSyncs
<1>13. SyncsInv'
  <2>1. \A q \in Sessions \ {p} : t.syncs \cap session[q].syncs \subseteq disturbed
    BY <1>6 DEF RateInv, SyncsInv
  <2>2. UNCHANGED <<syncs, set, disturbed>>
    BY DEF tables
  <2> QED
    BY <1>5, <1>6, <1>12, <2>1, <2>2, SyncsStill
<1>14. Typed' /\ \A q \in Sessions : OnCourse(session[q])'
  <2>1. /\ active' \subseteq Currencies /\ disturbed' \subseteq Numbers(syncs)
        /\ UNCHANGED <<rates, history, syncs, overdue, set>>
    BY DEF tables, RateInv, Typed
  <2> QED
    BY <1>5, <1>7, <1>8, <2>1, TypesStill
<1> QED
  BY <1>11, <1>13, <1>14 DEF RateInv

\* CheckRate keeps the invariant.
LEMMA CheckRateSafe ==
  ASSUME RateInv, NEW p \in Sessions, CheckRate(p)
  PROVE  RateInv'
<1> DEFINE x == Pair(p)
           s == [session[p] EXCEPT !.old = TheRate(x), !.setting = {x}]
<1>1. At(p, "check")
  BY DEF CheckRate
<1>2. CASE Skip(p, 4)
  BY <1>1, <1>2, SkipSafe
<1>3. CASE ~ Skip(p, 4)
  <2>1. /\ Goto(p, s, Rest(p)) /\ UNCHANGED <<tables, set, disturbed>>
        /\ contended' = IF \E q \in Others(p) : x \in session[q].setting
                        THEN contended \cup {x} ELSE contended
        /\ ~ Ambiguous(x)
    BY <1>3 DEF CheckRate
  <2>2. x \in Pairs /\ session[p] \in Session /\ TheRate(x) \in Nat
    BY <1>1, StageFacts, AtFacts, TheRateFacts DEF Stages
  <2> HIDE DEF x
  <2>3. /\ s \in Session /\ s.req = session[p].req /\ s.syncs = session[p].syncs
        /\ s.applied = session[p].applied /\ s.setting = {x} /\ s.old = TheRate(x)
    BY <2>2 DEF Session
  <2> HIDE DEF s
  <2> QED
    BY <1>1, <2>1, <2>3, ReadSafe DEF x
<1> QED
  BY <1>2, <1>3

\* FindRate keeps the invariant.
LEMMA FindRateSafe ==
  ASSUME RateInv, NEW p \in Sessions, FindRate(p)
  PROVE  RateInv'
<1> DEFINE x == Pair(p)
           s == [session[p] EXCEPT !.found = TheRate(x)]
<1>1. At(p, "find")
  BY DEF FindRate
<1>2. CASE Skip(p, 3)
  BY <1>1, <1>2, SkipSafe
<1>3. CASE ~ Skip(p, 3)
  <2>1. Goto(p, s, Rest(p)) /\ UNCHANGED <<tables, ghosts>> /\ ~ Ambiguous(x)
    BY <1>3 DEF FindRate
  <2>2. x \in Pairs /\ session[p] \in Session /\ TheRate(x) \in Nat
    BY <1>1, StageFacts, AtFacts, TheRateFacts DEF Stages
  <2>3. session[p].setting = {x}
    <3>1. session[p].todo # <<>> /\ session[p].todo[1].op = "find" /\ session[p].todo[1].pair = x
      BY <1>1, StageFacts, AtFacts DEF Stages
    <3> QED
      BY <3>1 DEF RateInv, RatesInv, KnowsRate, Stages
  <2> HIDE DEF x
  <2>4. /\ s \in Session /\ s.req = session[p].req /\ s.syncs = session[p].syncs
        /\ s.applied = session[p].applied /\ s.setting = {x}
        /\ s.old = session[p].old /\ s.found = TheRate(x)
    BY <2>2, <2>3 DEF Session
  <2> HIDE DEF s
  <2>5. contended' = IF \E q \in Others(p) : x \in session[q].setting
                     THEN contended \cup {x} ELSE contended
    <3>1. \A q \in Others(p) : x \in session[q].setting => x \in contended
      BY <2>3 DEF RateInv, RatesInv, Others
    <3> QED
      BY <2>1, <3>1 DEF ghosts
  <2> QED
    BY <1>1, <2>1, <2>4, <2>5, ReadSafe DEF x, ghosts
<1> QED
  BY <1>2, <1>3

\* An INSERT made `more` of `rows`: the rate found is ended by the new one, of
\* the same pair, which is added at the end, and nothing else changes.
Extended(rows, more, found, pair) ==
  LET n == Len(rows) + 1
  IN /\ Len(more) = n
     /\ \A k \in 1..Len(rows) :
          /\ more[k].pair = rows[k].pair
          /\ more[k].quote = rows[k].quote
          /\ more[k].ahead = rows[k].ahead
          /\ more[k].due = rows[k].due
          /\ more[k].until = IF k = found THEN n ELSE rows[k].until
     /\ more[n].pair = pair
     /\ more[n].until = 0
     /\ ~ more[n].ahead => more[n].due
     /\ found = 0 \/ (found \in 1..Len(rows) /\ rows[found].pair = pair)

\* The rows an INSERT leaves.
LEMMA InsertFacts ==
  ASSUME RateInv, NEW p \in Sessions, InsertRate(p)
  PROVE  /\ Extended(rates, rates', session[p].found, Pair(p))
         /\ rates' \in Seq(RateRow)
         /\ rates'[Len(rates) + 1].quote = Quote(p)
<1> DEFINE found == session[p].found
           n == Len(rates) + 1
           old == Replaced(found)
           row(a) == [pair |-> Pair(p), quote |-> Quote(p), until |-> 0, ahead |-> a, due |-> ~ a]
<1>1. At(p, "insert") /\ rates' = Append(old, row(SetsAhead(p)))
  BY DEF InsertRate
<1>2. PICK a \in BOOLEAN : a = SetsAhead(p)
  <2>1. session[p].req \in Served
    BY <1>1, AtFacts
  <2>2. session[p].req.kind = "set" => session[p].req.ahead \in BOOLEAN
    BY <2>1, RequestFacts
  <2> QED
    BY <2>2 DEF SetsAhead
<1>3. row(a) \in RateRow
  BY <1>1, StageFacts DEF RateRow, Stages, Offered
<1>4. rates \in Seq(RateRow) /\ Len(rates) \in Nat /\ n \in Nat
  BY DEF RateInv, Typed
<1>5. \A k \in 1..Len(rates) : rates[k] \in RateRow
  BY <1>4, ElementOfSeq
<1>6. old = [k \in 1..Len(rates) |-> IF k = found THEN [rates[k] EXCEPT !.until = n] ELSE rates[k]]
  BY DEF Replaced, Numbers
<1> HIDE DEF n, found
<1>7. \A k \in 1..Len(rates) : /\ old[k] \in RateRow
                               /\ old[k].pair = rates[k].pair
                               /\ old[k].quote = rates[k].quote
                               /\ old[k].ahead = rates[k].ahead
                               /\ old[k].due = rates[k].due
                               /\ old[k].until = IF k = found THEN n ELSE rates[k].until
  BY <1>4, <1>5, <1>6 DEF RateRow
<1>8. old \in Seq(RateRow) /\ Len(old) = Len(rates)
  <2>1. old = [k \in 1..Len(rates) |-> old[k]]
    BY <1>6
  <2> HIDE DEF old
  <2> QED
    BY <1>4, <1>7, <2>1
<1>9. /\ row(a).pair = Pair(p) /\ row(a).until = 0 /\ row(a).quote = Quote(p)
      /\ ~ row(a).ahead => row(a).due
  OBVIOUS
<1>10. rates' = Append(old, row(a))
  BY <1>1, <1>2
<1> HIDE DEF old, row
<1>11. /\ rates' \in Seq(RateRow) /\ Len(rates') = n
       /\ \A k \in 1..Len(rates) : rates'[k] = old[k]
       /\ rates'[n] = row(a)
  BY <1>3, <1>4, <1>8, <1>10, AppendProperties DEF n
<1>12. \/ found = 0
       \/ found \in 1..Len(rates) /\ rates[found].pair = Pair(p)
  <2>1. session[p].todo # <<>> /\ session[p].todo[1].op = "insert" /\ session[p].todo[1].pair = Pair(p)
    BY <1>1, StageFacts, AtFacts DEF Stages
  <2> QED
    BY <2>1 DEF RateInv, RatesInv, KnowsRate, Stages, Numbers, found
<1> QED
  BY <1>7, <1>9, <1>11, <1>12 DEF Extended, n, found

\* What was read of another pair is still so after an INSERT.
LEMMA ReadsStill ==
  ASSUME NEW rows, NEW more, NEW found, NEW x, Len(rows) \in Nat, Extended(rows, more, found, x),
         NEW y, y # x, NEW old, Reads(rows, old, y)
  PROVE  Reads(more, old, y)
<1>1. \A k \in 1..Len(more) : k \in 1..Len(rows) \/ k = Len(rows) + 1
  BY DEF Extended
<1>2. 1..Len(rows) \subseteq 1..Len(more) /\ more[Len(rows) + 1].pair # y
  BY DEF Extended
<1>3. \A k \in 1..Len(rows) : rows[k].pair = y =>
        /\ more[k].pair = y /\ more[k].due = rows[k].due /\ more[k].until = rows[k].until
  BY DEF Extended
<1>4. \A k \in 1..Len(rows) : more[k].pair = rows[k].pair
  BY DEF Extended
<1>5. Serving(more, y) = Serving(rows, y)
  BY <1>1, <1>2, <1>3, <1>4 DEF Serving
<1> QED
  BY <1>5 DEF Reads

\* What a row took the place of stays so after an INSERT that ends a rate in
\* force, or that is of another pair.
LEMMA TookStill ==
  ASSUME NEW rows, NEW more, NEW found, NEW x, Len(rows) \in Nat, Extended(rows, more, found, x),
         NEW k \in 1..Len(rows), NEW old, Took(rows, k, old),
         \/ found = 0 \/ rows[found].until = 0 \/ rows[k].pair # x
  PROVE  Took(more, k, old)
<1> DEFINE n == Len(rows) + 1
<1>1. \A j \in 1..k - 1 : j \in 1..Len(rows)
  OBVIOUS
<1>2. more[k].pair = rows[k].pair
  BY DEF Extended
<1>3. \A j \in 1..k - 1 : more[j].pair = rows[j].pair /\ more[j].ahead = rows[j].ahead
  BY <1>1 DEF Extended
<1>4. Before(more, k) = Before(rows, k)
  BY <1>2, <1>3 DEF Before
<1>5. old \in Nat /\ old < k
  BY DEF Took, Before
<1>6. found # 0 => found # old
  <2>1. SUFFICES ASSUME found # 0, found = old
                 PROVE  FALSE
    OBVIOUS
  <2>2. found \in 1..Len(rows) /\ rows[found].pair = x
    BY <2>1 DEF Extended
  <2>3. rows[found].until = k /\ rows[found].pair = rows[k].pair
    BY <2>1, <2>2 DEF Took, Before
  <2> QED
    BY <2>1, <2>2, <2>3
<1>7. \A j \in 1..n : more[j].until = k <=> j = old
  <2>1. TAKE j \in 1..n
  <2>2. CASE j = n
    BY <1>5, <2>2 DEF Extended
  <2>3. CASE j # n
    <3>1. j \in 1..Len(rows) /\ (rows[j].until = k <=> j = old)
      BY <2>3 DEF Took
    <3>2. more[j].until = IF j = found THEN n ELSE rows[j].until
      BY <3>1 DEF Extended
    <3> QED
      BY <1>6, <3>1, <3>2
  <2> QED
    BY <2>2, <2>3
<1>8. Len(more) = n
  BY DEF Extended
<1>9. old \in Before(rows, k) \cup {0}
  BY DEF Took
<1>10. ASSUME NEW j \in Before(rows, k), \A i \in Before(rows, k) : i <= j, ~ more[j].ahead
       PROVE  old = j
  BY <1>3, <1>10 DEF Took, Before
<1> QED
  BY <1>4, <1>7, <1>8, <1>9, <1>10 DEF Took

\* The new row took the place of the one rate that was in force.
LEMMA TookNew ==
  ASSUME NEW rows, NEW more, NEW found, NEW x, Len(rows) \in Nat, Extended(rows, more, found, x),
         Reads(rows, found, x), EndedByALater(rows)
  PROVE  Took(more, Len(rows) + 1, found)
<1> DEFINE n == Len(rows) + 1
<1>1. Len(more) = n /\ more[n].pair = x /\ more[n].until = 0 /\ n # 0
  BY DEF Extended
<1>2. \A j \in 1..Len(rows) : more[j].pair = rows[j].pair /\ more[j].ahead = rows[j].ahead
  BY DEF Extended
<1>3. n - 1 = Len(rows)
  OBVIOUS
<1>4. Before(more, n) = {j \in 1..Len(rows) : rows[j].pair = x}
  BY <1>1, <1>2, <1>3 DEF Before
<1>5. found \in Before(more, n) \cup {0}
  BY <1>4 DEF Extended
<1>6. \A j \in 1..Len(more) : more[j].until = n <=> j = found
  <2>1. TAKE j \in 1..Len(more)
  <2>2. CASE j = n
    BY <1>1, <2>2 DEF Extended
  <2>3. CASE j # n
    <3>1. j \in 1..Len(rows)
      BY <1>1, <2>3
    <3>2. rows[j].until # 0 => rows[j].until \in j + 1..Len(rows)
      BY <3>1 DEF EndedByALater
    <3>3. rows[j].until # n
      BY <3>1, <3>2
    <3> QED
      BY <3>1, <3>3 DEF Extended
  <2> QED
    BY <2>2, <2>3
<1>7. ASSUME NEW j \in Before(more, n), \A i \in Before(more, n) : i <= j, ~ more[j].ahead
      PROVE  found = j
  <2>1. j \in 1..Len(rows) /\ rows[j].pair = x /\ ~ rows[j].ahead
    BY <1>2, <1>4, <1>7
  <2>2. rows[j].due
    BY <2>1 DEF EndedByALater
  <2>3. rows[j].until = 0
    <3>1. SUFFICES ASSUME rows[j].until # 0
                   PROVE  FALSE
      OBVIOUS
    <3>2. PICK i \in j + 1..Len(rows) : i = rows[j].until /\ rows[i].pair = x
      BY <2>1, <3>1 DEF EndedByALater
    <3>3. i \in 1..Len(rows)
      BY <2>1, <3>2
    <3>4. i <= j
      BY <1>4, <1>7, <3>2, <3>3
    <3> QED
      BY <2>1, <3>2, <3>4
  <2>4. j \in Serving(rows, x)
    BY <2>1, <2>2, <2>3 DEF Serving
  <2> QED
    BY <2>4 DEF Reads
<1> QED
  BY <1>5, <1>6, <1>7 DEF Took

\* An INSERT ends rates by later ones only.
LEMMA EndedStill ==
  ASSUME NEW rows, NEW more, NEW found, NEW x, Len(rows) \in Nat, Extended(rows, more, found, x),
         EndedByALater(rows)
  PROVE  EndedByALater(more)
<1> DEFINE n == Len(rows) + 1
<1>1. Len(more) = n
  BY DEF Extended
<1>2. SUFFICES ASSUME NEW k \in 1..n
               PROVE  /\ more[k].until # 0 => /\ more[k].until \in k + 1..n
                                              /\ more[more[k].until].pair = more[k].pair
                      /\ ~ more[k].ahead => more[k].due
  BY <1>1 DEF EndedByALater
<1>3. CASE k = n
  BY <1>3 DEF Extended
<1>4. CASE k # n
  <2>1. k \in 1..Len(rows)
    BY <1>4
  <2>2. ~ more[k].ahead => more[k].due
    BY <2>1 DEF Extended, EndedByALater
  <2>3. CASE k = found
    <3>1. more[k].until = n /\ more[k].pair = x /\ more[n].pair = x
      BY <2>1, <2>3 DEF Extended
    <3> QED
      BY <2>1, <2>2, <3>1
  <2>4. CASE k # found
    <3>1. more[k].until = rows[k].until /\ more[k].pair = rows[k].pair
      BY <2>1, <2>4 DEF Extended
    <3>2. ASSUME rows[k].until # 0
          PROVE  /\ rows[k].until \in k + 1..n
                 /\ more[rows[k].until].pair = rows[k].pair
      <4>1. rows[k].until \in k + 1..Len(rows) /\ rows[rows[k].until].pair = rows[k].pair
        BY <2>1, <3>2 DEF EndedByALater
      <4>2. rows[k].until \in 1..Len(rows)
        BY <2>1, <4>1
      <4> QED
        BY <2>1, <4>1, <4>2 DEF Extended
    <3> QED
      BY <2>2, <3>1, <3>2
  <2> QED
    BY <2>3, <2>4
<1> QED
  BY <1>3, <1>4

\* The rate is inserted.
LEMMA InsertKeepsRates ==
  ASSUME RateInv, NEW p \in Sessions, InsertRate(p), NEW t \in Session, Becomes(p, t),
         t.todo # <<>>, t.todo[1].op = "record", t.todo[1].pair = Pair(p),
         t.setting = session[p].setting, t.new = Len(rates) + 1, t.old = session[p].old
  PROVE  RatesInv'
<1> DEFINE x == Pair(p)
           n == Len(rates) + 1
           found == session[p].found
<1>1. /\ Extended(rates, rates', found, x)
      /\ Len(rates) \in Nat /\ n \in Nat
      /\ UNCHANGED <<history, contended>>
  <2>1. Extended(rates, rates', found, x)
    BY InsertFacts
  <2> HIDE DEF x, found
  <2> QED
    BY <2>1 DEF InsertRate, RateInv, Typed
<1>2. EndedByALater(rates)
  BY DEF RateInv, RatesInv
<1>3. /\ x \in Pairs /\ session[p].setting = {x}
      /\ x \notin contended => Reads(rates, found, x) /\ found = session[p].old
  <2>1. /\ session[p].todo # <<>> /\ session[p].todo[1].op = "insert"
        /\ session[p].todo[1].pair = x /\ x \in Pairs
    BY StageFacts, AtFacts DEF Stages, InsertRate
  <2> QED
    BY <2>1 DEF RateInv, RatesInv, KnowsRate, Stages
<1>4. t.todo[1].pair = x
  OBVIOUS
<1> HIDE DEF x, n, found
<1>5. /\ n = Len(rates) + 1 /\ Len(rates') = n
      /\ Numbers(rates) = 1..Len(rates)
      /\ Numbers(rates') = Numbers(rates) \cup {n} /\ n \notin Numbers(rates)
      /\ \A k \in Numbers(rates) : rates'[k].pair = rates[k].pair
      /\ rates'[n].pair = x
  BY <1>1 DEF Numbers, n, Extended
<1>6. ASSUME x \notin contended
      PROVE  found = 0 \/ rates[found].until = 0
  BY <1>3, <1>6 DEF Reads, Serving
<1>7. ASSUME NEW k \in Numbers(rates), NEW old, Took(rates, k, old),
             rates[k].pair \notin contended
      PROVE  Took(rates', k, old)
  BY <1>1, <1>5, <1>6, <1>7, TookStill
<1>8. ASSUME NEW y, y # x, NEW old, Reads(rates, old, y)
      PROVE  Reads(rates', old, y)
  BY <1>1, <1>8, ReadsStill
<1>9. KnowsRate(t, rates', contended')
  <2>1. t.new \in Numbers(rates') /\ rates'[t.new].pair = x /\ t.setting = {x}
    BY <1>3, <1>5
  <2>2. x \notin contended => Took(rates', t.new, t.old)
    BY <1>1, <1>2, <1>3, <1>5, TookNew
  <2> QED
    BY <1>1, <1>4, <2>1, <2>2 DEF KnowsRate
<1>10. ASSUME NEW q \in Sessions \ {p}
      PROVE  KnowsRate(session[q], rates', contended')
  <2> DEFINE o == session[q].todo[1]
             y == o.pair
  <2>1. SUFFICES ASSUME session[q].todo # <<>>, o.op \in Stages \ {"check"}
                 PROVE  KnowsRate(session[q], rates', contended')
    BY DEF KnowsRate
  <2>2. /\ session[q].setting = {y}
        /\ o.op = "insert" => \/ session[q].found = 0
                              \/ /\ session[q].found \in Numbers(rates)
                                 /\ rates[session[q].found].pair = y
        /\ o.op = "record" => session[q].new \in Numbers(rates) /\ rates[session[q].new].pair = y
        /\ y \notin contended =>
             /\ o.op # "record" => Reads(rates, session[q].old, y)
             /\ o.op = "insert" => session[q].found = session[q].old
             /\ o.op = "record" => Took(rates, session[q].new, session[q].old)
    BY <2>1 DEF RateInv, RatesInv, KnowsRate
  <2>3. y \notin contended => y # x
    BY <1>3, <2>2 DEF RateInv, RatesInv
  <2> HIDE DEF y, o
  <2>4. /\ o.op = "insert" => \/ session[q].found = 0
                              \/ /\ session[q].found \in Numbers(rates')
                                 /\ rates'[session[q].found].pair = y
        /\ o.op = "record" => session[q].new \in Numbers(rates') /\ rates'[session[q].new].pair = y
    BY <1>5, <2>2
  <2>5. y \notin contended' =>
          /\ o.op # "record" => Reads(rates', session[q].old, y)
          /\ o.op = "insert" => session[q].found = session[q].old
          /\ o.op = "record" => Took(rates', session[q].new, session[q].old)
    BY <1>1, <1>7, <1>8, <2>2, <2>3
  <2> QED
    BY <2>2, <2>4, <2>5 DEF KnowsRate, y, o
<1>11. \A q \in Sessions : KnowsRate(session[q], rates, contended)'
  <2>1. \A q \in Sessions : KnowsRate(session'[q], rates', contended')
    BY <1>9, <1>10 DEF Becomes
  <2> QED
    BY <2>1 DEF KnowsRate, Reads, Serving, Took, Before, Numbers
<1>12. \A q, r \in Sessions : q # r => session'[q].setting \cap session'[r].setting \subseteq contended'
  <2>1. \A q \in Sessions : session'[q].setting = session[q].setting
    BY DEF Becomes
  <2> QED
    BY <1>1, <2>1 DEF RateInv, RatesInv
<1>13. EndedByALater(rates)'
  <2>1. EndedByALater(rates')
    BY <1>1, <1>2, EndedStill
  <2> QED
    BY <2>1 DEF EndedByALater
<1>14. UncontendedPairHasOneRate'
  <2>1. SUFFICES ASSUME NEW j \in Numbers(rates'), NEW k \in Numbers(rates'), j < k,
                        rates'[j].pair = rates'[k].pair, ~ rates'[j].ahead, ~ rates'[k].ahead,
                        rates'[j].pair \notin contended
                 PROVE  rates'[j].until # 0
    BY <1>1 DEF UncontendedPairHasOneRate, Numbers
  <2>2. j \in Numbers(rates)
    BY <1>1, <1>5, <2>1
  <2>3. /\ rates'[j].pair = rates[j].pair /\ rates'[j].ahead = rates[j].ahead
        /\ rates'[j].until = IF j = found THEN n ELSE rates[j].until
        /\ n # 0
    BY <1>1, <1>5, <2>2 DEF Extended
  <2>4. CASE k = n
    <3>1. SUFFICES ASSUME rates[j].until = 0
                   PROVE  j = found
      BY <2>3
    <3>2. rates[j].due /\ rates[j].pair = x
      BY <1>2, <1>5, <2>1, <2>2, <2>3, <2>4 DEF EndedByALater
    <3>3. j \in Serving(rates, x)
      BY <1>5, <2>2, <3>1, <3>2 DEF Serving
    <3> QED
      BY <1>3, <2>1, <2>3, <3>2, <3>3 DEF Reads
  <2>5. CASE k # n
    <3>1. k \in Numbers(rates)
      BY <1>5, <2>5
    <3>2. rates'[k].pair = rates[k].pair /\ rates'[k].ahead = rates[k].ahead
      BY <1>1, <1>5, <3>1 DEF Extended
    <3>3. rates[j].until # 0
      BY <2>1, <2>2, <2>3, <3>1, <3>2 DEF RateInv, RatesInv, UncontendedPairHasOneRate
    <3> QED
      BY <2>3, <3>3
  <2> QED
    BY <2>4, <2>5
<1>15. HistoryTellsTheRateBefore'
  <2>1. SUFFICES ASSUME NEW m \in 1..Len(history), rates'[history[m].rate].pair \notin contended
                 PROVE  Took(rates', history[m].rate, history[m].old)
    BY <1>1, HistoryIs
  <2>2. PICK k \in Numbers(rates) : k = history[m].rate
    BY DEF RateInv, Typed, Numbers
  <2>3. rates'[k].pair = rates[k].pair
    BY <1>5
  <2>4. Took(rates, k, history[m].old)
    BY <2>1, <2>2, <2>3, HistoryIs DEF RateInv, RatesInv
  <2> QED
    BY <1>7, <2>1, <2>2, <2>3, <2>4
<1> QED
  BY <1>11, <1>12, <1>13, <1>14, <1>15 DEF RatesInv

\* InsertRate keeps the invariant.
LEMMA InsertRateSafe ==
  ASSUME RateInv, NEW p \in Sessions, InsertRate(p)
  PROVE  RateInv'
<1> DEFINE x == Pair(p)
           todo == session[p].todo
           mine == session[p].syncs
           s == [session[p] EXCEPT !.new = Len(rates) + 1]
           rest == Tail(todo)
           t == Gone(s, rest)
<1>1. /\ At(p, "insert") /\ Goto(p, s, rest)
      /\ set' = [i \in Numbers(syncs) |-> set[i] + IF i \in mine THEN 1 ELSE 0]
      /\ UNCHANGED <<active, history, syncs, overdue, contended, disturbed>>
  BY DEF InsertRate, Rest
<1>2. /\ session[p] \in Session /\ todo \in Plans /\ todo # <<>> /\ todo[1].op = "insert"
      /\ OnCourse(session[p]) /\ Shaped(todo, session[p].req.kind)
  BY <1>1, AtFacts
<1>3. /\ session[p].req.kind \in {"set", "approve"}
      /\ todo[1].pair = x /\ x \in Pairs
  BY <1>1, StageFacts DEF Stages
<1>4. /\ rest \in Plans /\ Shaped(rest, session[p].req.kind)
      /\ rest # <<>> /\ Follows(todo[1], rest[1])
  BY <1>2, TailFacts DEF Stages
<1>5. rest[1].pair = x /\ rest[1].op = "record"
  BY <1>2, <1>3, <1>4 DEF Follows
<1> HIDE DEF rest
<1>6. Len(rates) + 1 \in Nat
  BY DEF RateInv, Typed
<1>7. /\ s \in Session /\ s.req = session[p].req /\ s.syncs = mine
      /\ s.applied = session[p].applied /\ s.setting = session[p].setting
      /\ s.old = session[p].old /\ s.new = Len(rates) + 1
  BY <1>2, <1>6 DEF Session
<1> HIDE DEF s
<1>8. Becomes(p, t) /\ t \in Session
  BY <1>1, <1>4, <1>7, GotoBecomes DEF RateInv
<1>9. /\ t.todo = rest /\ t.req = s.req /\ t.old = s.old /\ t.new = s.new
      /\ t.syncs = s.syncs /\ t.applied = s.applied /\ t.setting = s.setting
  BY <1>4, <1>7, GoneFacts
<1>10. OnCourse(t)
  BY <1>2, <1>4, <1>5, <1>7, StillOnCourse DEF OnCourse
<1> HIDE DEF t, x, mine
<1>11. RatesInv'
  BY <1>4, <1>5, <1>7, <1>8, <1>9, InsertKeepsRates DEF x
<1>12. /\ set \in Seq(Nat) /\ Len(set) = Len(syncs) /\ Len(syncs) \in Nat
       /\ \A i \in Numbers(syncs) : set[i] \in Nat
  BY ElementOfSeq DEF RateInv, Typed, Numbers
<1>13. set' \in Seq(Nat) /\ Len(set') = Len(syncs)
  <2>1. \A i \in 1..Len(syncs) : (set[i] + IF i \in mine THEN 1 ELSE 0) \in Nat
    BY <1>12 DEF Numbers
  <2> QED
    BY <1>1, <1>12, <2>1 DEF Numbers
<1>14. Typed'
  <2>1. /\ rates' \in Seq(RateRow)
        /\ Numbers(rates) \subseteq Numbers(rates')
    <3>1. rates' \in Seq(RateRow) /\ Len(rates') = Len(rates) + 1
      BY InsertFacts DEF Extended
    <3>2. Len(rates) \in Nat
      BY DEF RateInv, Typed
    <3> QED
      BY <3>1, <3>2 DEF Numbers
  <2>2. \A k \in Numbers(rates') : rates'[k].quote \in Offered
    <3>1. /\ \A k \in Numbers(rates) : rates'[k].quote = rates[k].quote
          /\ rates'[Len(rates) + 1].quote = Quote(p)
          /\ Len(rates') = Len(rates) + 1
      BY InsertFacts DEF Extended, Numbers
    <3>2. Quote(p) \in Offered
      BY <1>1, StageFacts DEF Stages
    <3>3. \A k \in Numbers(rates') : k \in Numbers(rates) \/ k = Len(rates) + 1
      BY <1>6, <3>1 DEF Numbers
    <3> QED
      BY <3>1, <3>2, <3>3 DEF RateInv, Typed
  <2> QED
    BY <1>1, <1>8, <1>13, <2>1, <2>2 DEF RateInv, Typed, Becomes, Numbers
<1>15. \A q \in Sessions : OnCourse(session[q])'
  <2>1. \A q \in Sessions : OnCourse(session'[q])
    BY <1>8, <1>10 DEF RateInv, Becomes
  <2> QED
    BY <1>1, <2>1 DEF OnCourse, Numbers, Shaped
<1>16. KnowsSyncs(t, syncs, set', disturbed)
  <2>1. KnowsSyncs(session[p], syncs, set, disturbed)
    BY DEF RateInv, SyncsInv
  <2>2. session[p].applied \in Nat
    BY <1>2 DEF Session
  <2>3. \A i \in mine : /\ i \in Numbers(syncs)
                        /\ i \notin disturbed =>
                             /\ syncs[i].status = "pending" /\ syncs[i].applied = 0
                             /\ set[i] = session[p].applied + 0
    BY <1>2, <2>1 DEF KnowsSyncs, mine
  <2>4. t.todo # <<>> /\ t.todo[1].op = "record" /\ t.syncs = mine /\ t.applied = session[p].applied
    BY <1>4, <1>5, <1>7, <1>9
  <2>5. \A i \in mine : i \notin disturbed => set'[i] = session[p].applied + 1
    BY <1>1, <2>2, <2>3
  <2> QED
    BY <2>3, <2>4, <2>5 DEF KnowsSyncs
<1>17. ASSUME NEW q \in Sessions \ {p}
       PROVE  KnowsSyncs(session[q], syncs, set', disturbed)
  <2>1. KnowsSyncs(session[q], syncs, set, disturbed)
    BY DEF RateInv, SyncsInv
  <2>2. \A i \in session[q].syncs : i \notin disturbed => i \notin mine
    BY DEF RateInv, SyncsInv, mine
  <2>3. \A i \in session[q].syncs : i \notin disturbed => set'[i] = set[i]
    BY <1>1, <1>12, <2>1, <2>2 DEF KnowsSyncs
  <2> QED
    BY <2>1, <2>3 DEF KnowsSyncs
<1>18. \A q \in Sessions : session'[q].syncs = session[q].syncs
  BY <1>7, <1>8, <1>9 DEF Becomes, mine
<1>19. UndisturbedSyncIsSettledOnce'
  <2>1. ASSUME NEW i \in Numbers(syncs) \ disturbed,
               \A q \in Sessions : i \notin session'[q].syncs
        PROVE  Settled(syncs, set', i)
    <3>1. \A q \in Sessions : i \notin session[q].syncs
      BY <1>18, <2>1
    <3>2. Settled(syncs, set, i)
      BY <2>1, <3>1 DEF RateInv, SyncsInv, UndisturbedSyncIsSettledOnce, Settled
    <3>3. set'[i] = set[i]
      BY <1>1, <1>12, <2>1, <3>1 DEF mine
    <3> QED
      BY <3>2, <3>3 DEF Settled
  <2>2. syncs' = syncs /\ disturbed' = disturbed
    BY <1>1
  <2> QED
    BY <2>1, <2>2 DEF UndisturbedSyncIsSettledOnce, Settled, Numbers
<1>20. SyncsInv'
  <2>1. \A q \in Sessions : KnowsSyncs(session'[q], syncs, set', disturbed)
    BY <1>8, <1>16, <1>17 DEF Becomes
  <2>2. \A q \in Sessions : KnowsSyncs(session[q], syncs, set, disturbed)'
    BY <1>1, <2>1 DEF KnowsSyncs, Numbers
  <2>3. \A q, r \in Sessions : q # r => session'[q].syncs \cap session'[r].syncs \subseteq disturbed'
    BY <1>1, <1>18 DEF RateInv, SyncsInv
  <2> QED
    BY <1>19, <2>2, <2>3 DEF SyncsInv
<1> QED
  BY <1>11, <1>14, <1>15, <1>20 DEF RateInv

\* RecordRate keeps the invariant.
LEMMA RecordRateSafe ==
  ASSUME RateInv, NEW p \in Sessions, RecordRate(p)
  PROVE  RateInv'
<1> DEFINE x == Pair(p)
           todo == session[p].todo
           entry == Entry(p)
           s == [session[p] EXCEPT !.setting = {}, !.applied = @ + 1]
           rest == Tail(todo)
           t == Gone(s, rest)
<1>1. /\ At(p, "record") /\ Goto(p, s, rest) /\ history' = Append(history, entry)
      /\ UNCHANGED <<active, rates, syncs, overdue, ghosts>>
  BY DEF RecordRate, Rest
<1>2. /\ session[p] \in Session /\ todo \in Plans /\ todo # <<>> /\ todo[1].op = "record"
      /\ OnCourse(session[p]) /\ Shaped(todo, session[p].req.kind)
  BY <1>1, AtFacts
<1>3. /\ session[p].req.kind \in {"set", "approve"}
      /\ todo[1].pair = x /\ x \in Pairs
  BY <1>1, StageFacts DEF Stages
<1>4. /\ rest \in Plans /\ Shaped(rest, session[p].req.kind)
      /\ rest # <<>> => Follows(todo[1], rest[1])
      /\ rest = <<>> => session[p].req.kind # "approve"
  BY <1>2, TailFacts DEF Stages
<1>5. rest # <<>> => rest[1].op \in {"check", "approved"}
  BY <1>2, <1>4 DEF Follows, Stages
<1> HIDE DEF rest
<1>6. /\ s \in Session /\ s.req = session[p].req /\ s.syncs = session[p].syncs
      /\ s.applied = session[p].applied + 1 /\ s.setting = {}
  <2>1. PICK n \in Nat : n = session[p].applied + 1
    BY <1>2 DEF Session
  <2>2. s = [session[p] EXCEPT !.setting = {}, !.applied = n]
    BY <2>1
  <2> HIDE DEF s
  <2>3. /\ s \in Session /\ s.req = session[p].req /\ s.syncs = session[p].syncs
        /\ s.applied = n /\ s.setting = {}
    BY <1>2, <2>2 DEF Session
  <2> QED
    BY <2>1, <2>3
<1> HIDE DEF s
<1>7. Becomes(p, t) /\ t \in Session
  BY <1>1, <1>4, <1>6, GotoBecomes DEF RateInv
<1>8. OnCourse(t)
  BY <1>2, <1>3, <1>4, <1>5, <1>6, StillOnCourse DEF OnCourse
<1>9. KnowsRate(t, rates, contended)
  BY <1>4, <1>5, <1>6, NoRateInHand DEF Stages
<1>10. t.setting = {}
  BY <1>4, <1>6, GoneFacts, IdleFacts
<1>11. t.syncs = session[p].syncs
  <2>1. CASE rest = <<>>
    BY <1>2, <1>3, <1>4, <1>6, <2>1, GoneFacts, IdleFacts DEF OnCourse
  <2>2. CASE rest # <<>>
    BY <1>4, <1>6, <2>2, GoneFacts
  <2> QED
    BY <2>1, <2>2
<1>12. KnowsSyncs(t, syncs, set, disturbed)
  <2>1. SUFFICES ASSUME session[p].syncs # {}
                 PROVE  KnowsSyncs(t, syncs, set, disturbed)
    BY <1>11 DEF KnowsSyncs
  <2>2. rest # <<>>
    BY <1>2, <1>3, <1>4, <2>1 DEF OnCourse
  <2>3. t.applied = session[p].applied + 1 /\ t.todo = rest /\ rest[1].op # "record"
    BY <1>4, <1>5, <1>6, <2>2, GoneFacts
  <2>4. KnowsSyncs(session[p], syncs, set, disturbed) /\ session[p].applied \in Nat
    BY <1>2 DEF RateInv, SyncsInv, Session
  <2>5. \A i \in session[p].syncs : /\ i \in Numbers(syncs)
                                    /\ i \notin disturbed =>
                                         /\ syncs[i].status = "pending" /\ syncs[i].applied = 0
                                         /\ set[i] = (session[p].applied + 1) + 0
    BY <1>2, <2>4 DEF KnowsSyncs
  <2> QED
    BY <1>11, <2>3, <2>5 DEF KnowsSyncs
<1> HIDE DEF t, x, entry
<1>13. UNCHANGED <<contended, disturbed, set>>
  BY <1>1 DEF ghosts
<1>14. /\ entry \in HistoryRow /\ entry.rate \in Numbers(rates)
       /\ rates[entry.rate].pair = x
       /\ x \notin contended => Took(rates, entry.rate, entry.old)
  <2>1. /\ session[p].new \in Numbers(rates) /\ rates[session[p].new].pair = x
        /\ x \notin contended => Took(rates, session[p].new, session[p].old)
    BY <1>2, <1>3 DEF RateInv, RatesInv, KnowsRate, Stages
  <2> QED
    BY <1>2, <2>1 DEF entry, Entry, HistoryRow, Session
<1>15. /\ history \in Seq(HistoryRow) /\ Len(history) \in Nat
       /\ history' \in Seq(HistoryRow) /\ Len(history') = Len(history) + 1
       /\ \A n \in 1..Len(history) : history'[n] = history[n]
       /\ history'[Len(history) + 1] = entry
  BY <1>1, <1>14, AppendProperties DEF RateInv, Typed
<1>16. \A n \in 1..Len(history') : n \in 1..Len(history) \/ n = Len(history) + 1
  BY <1>15
<1>17. HistoryTellsTheRateBefore'
  <2>1. SUFFICES ASSUME NEW n \in 1..Len(history'), rates[history'[n].rate].pair \notin contended
                 PROVE  Took(rates, history'[n].rate, history'[n].old)
    BY <1>1, <1>13, HistoryIs
  <2>2. CASE n \in 1..Len(history)
    BY <1>15, <2>1, <2>2, HistoryIs DEF RateInv, RatesInv
  <2>3. CASE n = Len(history) + 1
    BY <1>14, <1>15, <2>1, <2>3
  <2> QED
    BY <1>16, <2>2, <2>3
<1>18. RatesInv'
  BY <1>1, <1>7, <1>9, <1>10, <1>13, <1>17, RatesStill
<1>19. SyncsInv'
  <2>1. \A q \in Sessions \ {p} : t.syncs \cap session[q].syncs \subseteq disturbed
    BY <1>11 DEF RateInv, SyncsInv
  <2> QED
    BY <1>1, <1>7, <1>11, <1>12, <1>13, <2>1, SyncsStill
<1>20. Typed'
  <2>1. \A n \in Numbers(history') : history'[n].rate \in Numbers(rates)
    BY <1>14, <1>15, <1>16 DEF RateInv, Typed, Numbers
  <2> QED
    BY <1>1, <1>7, <1>13, <1>15, <2>1 DEF RateInv, Typed, Becomes, Numbers
<1>21. \A q \in Sessions : OnCourse(session[q])'
  <2>1. \A q \in Sessions : OnCourse(session'[q])
    BY <1>7, <1>8 DEF RateInv, Becomes
  <2> QED
    BY <1>1, <2>1 DEF OnCourse, Numbers, Shaped
<1> QED
  BY <1>18, <1>19, <1>20, <1>21 DEF RateInv
-----------------------------------------------------------------------------
(* Syncs.                                                                   *)

\* A fetched feed makes a pending synchronisation row.
LEMMA FeedsAreFetched ==
  ASSUME NEW feed \in Feeds
  PROVE  [fetched |-> feed, status |-> "pending", applied |-> 0] \in SyncRow
BY DEF SyncRow, Statuses

\* The new sync waits, and no rate was set for it.
LEMMA CreateSyncSafe ==
  ASSUME RateInv, NEW p \in Sessions, CreateSync(p)
  PROVE  RateInv'
<1> DEFINE row == [fetched |-> session[p].req.feed, status |-> "pending", applied |-> 0]
           n == Len(syncs) + 1
           rest == Tail(session[p].todo)
           t == Gone(session[p], rest)
<1>1. /\ At(p, "create") /\ syncs' = Append(syncs, row) /\ set' = Append(set, 0)
      /\ Goto(p, session[p], rest)
      /\ UNCHANGED <<active, rates, history, overdue, contended, disturbed>>
  BY DEF CreateSync, Rest
<1>2. /\ session[p] \in Session /\ session[p].todo \in Plans /\ session[p].todo # <<>>
      /\ session[p].todo[1].op = "create" /\ session[p].req \in Served
      /\ OnCourse(session[p]) /\ Shaped(session[p].todo, session[p].req.kind)
      /\ "create" \in MayDo(session[p].req.kind)
  BY <1>1, AtFacts
<1>3. session[p].req.kind = "fetch" /\ session[p].req.feed \in Feeds
  BY <1>2, RequestFacts DEF MayDo, Stages
<1>4. session[p].syncs = {}
  BY <1>2, <1>3 DEF OnCourse
<1>5. rest \in Plans /\ rest = <<>>
  <2>1. ~ Follows(session[p].todo[1], rest[1])
    BY <1>2 DEF Follows, Stages
  <2> HIDE DEF rest
  <2> QED
    BY <1>2, <2>1, TailFacts DEF rest
<1> HIDE DEF rest
<1>6. Becomes(p, t) /\ t = Idle
  BY <1>1, <1>2, <1>5, GotoBecomes, GoneFacts DEF RateInv
<1>7. row \in SyncRow
  BY <1>3, FeedsAreFetched
<1> HIDE DEF row
<1>8. /\ syncs' \in Seq(SyncRow) /\ Len(syncs') = n /\ Len(syncs) \in Nat
      /\ \A i \in 1..Len(syncs) : syncs'[i] = syncs[i]
      /\ syncs'[n] = row
  BY <1>1, <1>7, AppendProperties DEF RateInv, Typed
<1>9. /\ set' \in Seq(Nat) /\ Len(set') = n
      /\ \A i \in 1..Len(syncs) : set'[i] = set[i]
      /\ set'[n] = 0
  BY <1>1, AppendProperties DEF RateInv, Typed
<1>10. Numbers(syncs') = Numbers(syncs) \cup {n} /\ n \notin Numbers(syncs)
  BY <1>8 DEF Numbers
<1> HIDE DEF n
<1>11. Typed'
  BY <1>1, <1>6, <1>8, <1>9, <1>10 DEF RateInv, Typed, Becomes, Numbers
<1>12. \A q \in Sessions : OnCourse(session[q])'
  <2>1. \A q \in Sessions : OnCourse(session'[q])
    BY <1>6, IdleOnCourse DEF RateInv, Becomes
  <2>2. Numbers(syncs) \subseteq Numbers(syncs')
    BY <1>10
  <2> QED
    BY <2>1, <2>2 DEF OnCourse, Numbers, Shaped
<1>13. RatesInv'
  <2>1. KnowsRate(Idle, rates, contended) /\ Idle.setting = {}
    BY IdleFacts DEF KnowsRate
  <2> QED
    BY <1>1, <1>6, <2>1, IdleFacts, HistoryStill, RatesStill
<1>14. SyncsInv'
  <2>1. \A q \in Sessions : session'[q].syncs = session[q].syncs /\ session'[q].syncs \subseteq Numbers(syncs)
    BY <1>4, <1>6, IdleFacts DEF Becomes, RateInv, SyncsInv, KnowsSyncs
  <2>2. \A q \in Sessions : KnowsSyncs(session'[q], syncs, set, disturbed)
    BY <1>6, IdleFacts DEF Becomes, RateInv, SyncsInv, KnowsSyncs
  <2>3. \A q \in Sessions : KnowsSyncs(session'[q], syncs', set', disturbed)
    BY <1>8, <1>9, <1>10, <2>1, <2>2 DEF KnowsSyncs, Numbers
  <2>4. \A q \in Sessions : KnowsSyncs(session[q], syncs, set, disturbed)'
    BY <1>1, <2>3 DEF KnowsSyncs, Numbers
  <2>5. \A q, r \in Sessions : q # r => session'[q].syncs \cap session'[r].syncs \subseteq disturbed'
    BY <1>1, <2>1 DEF RateInv, SyncsInv
  <2>6. UndisturbedSyncIsSettledOnce'
    <3>1. ASSUME NEW i \in Numbers(syncs') \ disturbed,
                 \A q \in Sessions : i \notin session'[q].syncs
          PROVE  Settled(syncs', set', i)
      <4>1. CASE i = n
        BY <1>8, <1>9, <4>1 DEF Settled, row
      <4>2. CASE i \in Numbers(syncs)
        <5>1. Settled(syncs, set, i)
          BY <2>1, <3>1, <4>2 DEF RateInv, SyncsInv, UndisturbedSyncIsSettledOnce, Settled
        <5> QED
          BY <1>8, <1>9, <4>2, <5>1 DEF Settled, Numbers
      <4> QED
        BY <1>10, <3>1, <4>1, <4>2
    <3> QED
      BY <1>1, <3>1 DEF UndisturbedSyncIsSettledOnce, Settled, Numbers
  <2> QED
    BY <2>4, <2>5, <2>6 DEF SyncsInv
<1> QED
  BY <1>11, <1>12, <1>13, <1>14 DEF RateInv

\* A request takes syncs that wait in hand, and tells so.
LEMMA HandleSafe ==
  ASSUME RateInv, NEW p \in Sessions, NEW kind \in {"approve", "reject", "expire"}, Begins(p, kind),
         NEW S \in SUBSET Numbers(syncs), \A i \in S : syncs[i].status = "pending",
         NEW rest \in Plans, Shaped(rest, kind), rest # <<>>,
         rest[1].op \notin {"begin"} \cup (Stages \ {"check"}),
         Handle(p, S, rest)
  PROVE  RateInv'
<1> DEFINE s == [session[p] EXCEPT !.syncs = S]
           t == Gone(s, rest)
<1>1. /\ Goto(p, s, rest)
      /\ disturbed' = disturbed \cup {i \in S : \E q \in Others(p) : i \in session[q].syncs}
      /\ UNCHANGED <<tables, set, contended>>
  BY DEF Handle
<1>2. /\ session[p] \in Session /\ session[p].req.kind = kind /\ OnCourse(session[p])
      /\ session[p].syncs = {} /\ session[p].setting = {} /\ session[p].applied = 0
  BY BeginsFacts
<1>3. S \subseteq Nat
  BY DEF Numbers
<1>4. /\ s \in Session /\ s.req = session[p].req /\ s.syncs = S
      /\ s.applied = 0 /\ s.setting = {}
  BY <1>2, <1>3 DEF Session
<1> HIDE DEF s
<1>5. Becomes(p, t) /\ t \in Session
  BY <1>1, <1>4, GotoBecomes DEF RateInv
<1>6. OnCourse(t)
  BY <1>2, <1>4, StillOnCourse
<1>7. t.todo = rest /\ t.syncs = S /\ t.applied = 0 /\ t.setting = {}
  BY <1>4, GoneFacts
<1>8. KnowsRate(t, rates, contended)
  BY <1>4, NoRateInHand
<1> HIDE DEF t
<1>9. UNCHANGED <<active, rates, history, syncs, overdue, set, contended>>
  BY <1>1 DEF tables
<1>10. disturbed \subseteq disturbed' /\ disturbed' \subseteq Numbers(syncs)
  BY <1>1 DEF RateInv, Typed
<1>11. RatesInv'
  BY <1>5, <1>7, <1>8, <1>9, HistoryStill, RatesStill
<1>12. \A q \in Sessions \ {p} : S \cap session[q].syncs \subseteq disturbed'
  <2>1. TAKE q \in Sessions \ {p}
  <2>2. CASE Busy(q)
    BY <1>1, <2>2 DEF Others
  <2>3. CASE ~ Busy(q)
    BY <2>3, IdleHoldsNothing
  <2> QED
    BY <2>2, <2>3
<1>13. KnowsSyncs(t, syncs, set, disturbed')
  <2>1. ASSUME NEW i \in S, i \notin disturbed'
        PROVE  syncs[i].applied = 0 /\ set[i] = 0
    <3>1. \A q \in Sessions : i \notin session[q].syncs
      BY <1>2, <1>12, <2>1
    <3>2. set[i] = syncs[i].applied /\ (set[i] > 0 <=> syncs[i].status = "approved")
      BY <1>10, <2>1, <3>1 DEF RateInv, SyncsInv, UndisturbedSyncIsSettledOnce
    <3>3. set[i] \in Nat
      BY ElementOfSeq DEF RateInv, Typed, Numbers
    <3> QED
      BY <3>2, <3>3
  <2>2. t.todo[1].op # "record"
    BY <1>7 DEF Stages
  <2> QED
    BY <1>7, <2>1, <2>2 DEF KnowsSyncs
<1>14. SyncsInv'
  BY <1>2, <1>5, <1>7, <1>9, <1>10, <1>12, <1>13, SyncsStill
<1>15. Typed' /\ \A q \in Sessions : OnCourse(session[q])'
  <2>1. active' \subseteq Currencies /\ contended' \subseteq Pairs
    BY <1>9 DEF RateInv, Typed
  <2> QED
    BY <1>5, <1>6, <1>9, <1>10, <2>1, TypesStill
<1> QED
  BY <1>11, <1>14, <1>15 DEF RateInv

\* BeginReview keeps the invariant.
LEMMA BeginReviewSafe ==
  ASSUME RateInv, NEW p \in Sessions, BeginReview(p)
  PROVE  RateInv'
<1>1. PICK kind \in {"approve", "reject"} :
        /\ Begins(p, kind)
        /\ LET r == session[p].req
               i == r.sync
           IN IF ~ IsPending(i) THEN Fail(p)
              ELSE Handle(p, {i}, IF kind = "approve" THEN ApplyRates(syncs[i].fetched, r.pct)
                                                      ELSE Op("rejected"))
  BY DEF BeginReview
<1> DEFINE r == session[p].req
           i == r.sync
           rest == IF kind = "approve" THEN ApplyRates(syncs[i].fetched, r.pct) ELSE Op("rejected")
<1>2. CASE ~ IsPending(i)
  BY <1>1, <1>2, FailSafe
<1>3. CASE IsPending(i)
  <2>1. Handle(p, {i}, rest) /\ syncs[i].status = "pending"
    BY <1>1, <1>3 DEF IsPending
  <2>2. r \in Served /\ r.kind = kind /\ i \in Numbers(syncs)
    BY <1>1, BeginsFacts DEF OnCourse
  <2>3. syncs[i].fetched \in Feeds
    <3>1. syncs[i] \in SyncRow
      BY <2>2, ElementOfSeq DEF RateInv, Typed, Numbers
    <3> QED
      BY <3>1 DEF SyncRow
  <2>4. /\ rest \in Plans /\ Shaped(rest, kind) /\ rest # <<>>
        /\ rest[1].op \in {"check", "approved", "rejected"}
    <3>1. CASE kind = "approve"
      BY <2>2, <2>3, <3>1, RequestFacts, ApplyRatesFacts
    <3>2. CASE kind = "reject"
      <4>1. rest = Op("rejected")
        BY <3>2
      <4> HIDE DEF rest
      <4>2. rest \in Plans /\ Len(rest) = 1 /\ rest[1].op = "rejected" /\ rest # <<>>
        BY <4>1, OpFacts
      <4> QED
        BY <3>2, <4>2, OneShaped DEF MayDo, Stages
    <3> QED
      BY <3>1, <3>2
  <2> HIDE DEF rest
  <2>5. rest[1].op \notin {"begin"} \cup (Stages \ {"check"})
    BY <2>4 DEF Stages
  <2> QED
    BY <1>1, <2>1, <2>2, <2>4, <2>5, HandleSafe
<1> QED
  BY <1>2, <1>3

\* BeginExpiry keeps the invariant.
LEMMA BeginExpirySafe ==
  ASSUME RateInv, NEW p \in Sessions, BeginExpiry(p)
  PROVE  RateInv'
<1> DEFINE late == {i \in overdue : syncs[i].status = "pending"}
<1>1. Begins(p, "expire")
  BY DEF BeginExpiry
<1>2. CASE late = {}
  BY <1>1, <1>2, FailSafe DEF BeginExpiry
<1>3. CASE late # {}
  <2>1. PICK rest \in Plans : /\ rest = Op("expired") /\ Len(rest) = 1
                              /\ rest[1].op = "expired" /\ rest # <<>>
    BY OpFacts
  <2>2. Handle(p, late, rest)
    BY <1>3, <2>1 DEF BeginExpiry
  <2>3. late \in SUBSET Numbers(syncs) /\ \A i \in late : syncs[i].status = "pending"
    BY DEF RateInv, Typed
  <2>4. Shaped(rest, "expire") /\ rest[1].op \notin {"begin"} \cup (Stages \ {"check"})
    BY <2>1, OneShaped DEF MayDo, Stages
  <2> HIDE DEF late
  <2> QED
    BY <1>1, <2>1, <2>2, <2>3, <2>4, HandleSafe
<1> QED
  BY <1>2, <1>3
\* The verdict on a sync that only p has in hand agrees with the rates it set.
LEMMA SetStatusSafe ==
  ASSUME RateInv, NEW p \in Sessions, SetStatus(p)
  PROVE  RateInv'
<1> DEFINE mine == session[p].syncs
           count == session[p].applied
           rest == Tail(session[p].todo)
           t == Gone(session[p], rest)
<1>1. PICK status \in {"approved", "rejected", "expired"} :
        /\ At(p, status)
        /\ syncs' = [i \in Numbers(syncs) |->
                       IF i \in mine
                       THEN [syncs[i] EXCEPT !.status = Verdict(p, status),
                                             !.applied = IF status = "approved" THEN count ELSE @]
                       ELSE syncs[i]]
        /\ Goto(p, session[p], rest)
        /\ UNCHANGED <<active, rates, history, overdue, ghosts>>
  BY DEF SetStatus, Rest
<1>2. /\ session[p] \in Session /\ session[p].todo \in Plans /\ session[p].todo # <<>>
      /\ session[p].todo[1].op = status /\ session[p].req \in Served
      /\ OnCourse(session[p]) /\ Shaped(session[p].todo, session[p].req.kind)
      /\ status \in MayDo(session[p].req.kind)
  BY <1>1, AtFacts
<1>3. /\ count \in Nat
      /\ status = "approved" <=> session[p].req.kind = "approve"
      /\ status # "approved" => count = 0
  <2>1. status = "approved" <=> session[p].req.kind = "approve"
    BY <1>2, RequestFacts DEF MayDo, Stages
  <2>2. status # "approved" => session[p].req.kind \in {"reject", "expire"}
    BY <1>2, RequestFacts DEF MayDo, Stages
  <2> QED
    BY <1>2, <2>1, <2>2 DEF Session, OnCourse
<1>4. rest \in Plans /\ rest = <<>>
  <2>1. ~ Follows(session[p].todo[1], rest[1])
    BY <1>2 DEF Follows, Stages
  <2> HIDE DEF rest
  <2> QED
    BY <1>2, <2>1, TailFacts DEF rest
<1> HIDE DEF rest
<1>5. Becomes(p, t) /\ t = Idle
  BY <1>1, <1>2, <1>4, GotoBecomes, GoneFacts DEF RateInv
<1>6. PICK verdict \in Statuses : /\ verdict = Verdict(p, status)
                                  /\ verdict = IF status = "approved" /\ count = 0 THEN "failed" ELSE status
  BY DEF Verdict, Statuses
<1>7. /\ syncs \in Seq(SyncRow) /\ Len(syncs) \in Nat
      /\ \A i \in Numbers(syncs) : syncs[i] \in SyncRow
  BY ElementOfSeq DEF RateInv, Typed, Numbers
<1>8. \A i \in Numbers(syncs) :
        /\ syncs'[i] \in SyncRow
        /\ i \in mine => /\ syncs'[i].status = verdict
                         /\ syncs'[i].applied = IF status = "approved" THEN count ELSE syncs[i].applied
        /\ i \notin mine => syncs'[i] = syncs[i]
  <2>1. TAKE i \in Numbers(syncs)
  <2>2. CASE i \notin mine
    BY <1>1, <1>7, <2>2
  <2>3. CASE i \in mine
    <3>1. PICK n \in Nat : n = IF status = "approved" THEN count ELSE syncs[i].applied
      BY <1>3, <1>7 DEF SyncRow
    <3>2. syncs'[i] = [syncs[i] EXCEPT !.status = verdict, !.applied = n]
      BY <1>1, <1>6, <2>3, <3>1
    <3>3. syncs'[i] \in SyncRow /\ syncs'[i].status = verdict /\ syncs'[i].applied = n
      BY <1>7, <3>2 DEF SyncRow
    <3> QED
      BY <2>3, <3>1, <3>3
  <2> QED
    BY <2>2, <2>3
<1>9. syncs' \in Seq(SyncRow) /\ Len(syncs') = Len(syncs)
  <2> DEFINE row(i) == IF i \in mine
                       THEN [syncs[i] EXCEPT !.status = Verdict(p, status),
                                             !.applied = IF status = "approved" THEN count ELSE @]
                       ELSE syncs[i]
  <2>1. syncs' = [i \in 1..Len(syncs) |-> row(i)]
    BY <1>1 DEF Numbers
  <2>2. \A i \in 1..Len(syncs) : syncs'[i] = row(i)
    BY <2>1
  <2> HIDE DEF row
  <2>3. \A i \in 1..Len(syncs) : row(i) \in SyncRow
    BY <1>8, <2>2 DEF Numbers
  <2> QED
    BY <1>7, <2>1, <2>3
<1>10. Numbers(syncs') = Numbers(syncs)
  BY <1>9 DEF Numbers
<1>11. UNCHANGED <<contended, disturbed, set>>
  BY <1>1 DEF ghosts
<1>12. Typed'
  BY <1>1, <1>5, <1>9, <1>10, <1>11 DEF RateInv, Typed, Becomes, Numbers
<1>13. \A q \in Sessions : OnCourse(session[q])'
  <2>1. \A q \in Sessions : OnCourse(session'[q])
    BY <1>5, IdleOnCourse DEF RateInv, Becomes
  <2> QED
    BY <1>10, <2>1 DEF OnCourse, Numbers, Shaped
<1>14. RatesInv'
  <2>1. KnowsRate(Idle, rates, contended) /\ Idle.setting = {}
    BY IdleFacts DEF KnowsRate
  <2> QED
    BY <1>1, <1>5, <1>11, <2>1, IdleFacts, HistoryStill, RatesStill
<1>15. ASSUME NEW i \in mine, i \notin disturbed
       PROVE  Settled(syncs', set, i)
  <2>1. /\ i \in Numbers(syncs) /\ syncs[i].applied = 0 /\ set[i] = count + 0
    <3>1. KnowsSyncs(session[p], syncs, set, disturbed)
      BY DEF RateInv, SyncsInv
    <3>2. session[p].todo[1].op # "record"
      BY <1>2
    <3> QED
      BY <1>2, <1>15, <3>1, <3>2 DEF KnowsSyncs
  <2>2. set[i] = count /\ syncs'[i].status = verdict
        /\ syncs'[i].applied = IF status = "approved" THEN count ELSE 0
    BY <1>3, <1>8, <1>15, <2>1
  <2> QED
    BY <1>3, <1>6, <2>2 DEF Settled
<1>16. SyncsInv'
  <2>1. /\ session'[p].syncs = {}
        /\ \A q \in Sessions \ {p} : session'[q].syncs = session[q].syncs
    BY <1>5, IdleFacts DEF Becomes
  <2>2. ASSUME NEW q \in Sessions
        PROVE  KnowsSyncs(session'[q], syncs', set, disturbed)
    <3>1. CASE q = p
      BY <2>1, <3>1 DEF KnowsSyncs
    <3>2. CASE q # p
      <4>1. KnowsSyncs(session[q], syncs, set, disturbed) /\ session'[q] = session[q]
        BY <1>5, <3>2 DEF RateInv, SyncsInv, Becomes
      <4>2. \A i \in session[q].syncs : i \notin disturbed => i \notin mine
        BY <3>2 DEF RateInv, SyncsInv
      <4>3. \A i \in session[q].syncs : i \in Numbers(syncs) /\ (i \notin disturbed => syncs'[i] = syncs[i])
        BY <1>8, <4>1, <4>2 DEF KnowsSyncs
      <4> QED
        BY <1>10, <4>1, <4>3 DEF KnowsSyncs
    <3> QED
      BY <3>1, <3>2
  <2>3. \A q \in Sessions : KnowsSyncs(session[q], syncs, set, disturbed)'
    BY <1>11, <2>2 DEF KnowsSyncs, Numbers
  <2>4. \A q, r \in Sessions : q # r => session'[q].syncs \cap session'[r].syncs \subseteq disturbed'
    <3>1. \A q, r \in Sessions : q # r => session[q].syncs \cap session[r].syncs \subseteq disturbed
      BY DEF RateInv, SyncsInv
    <3>2. \A q \in Sessions : session'[q].syncs \subseteq session[q].syncs
      BY <2>1
    <3> QED
      BY <1>11, <3>1, <3>2
  <2>5. UndisturbedSyncIsSettledOnce'
    <3>1. ASSUME NEW i \in Numbers(syncs) \ disturbed,
                 \A q \in Sessions : i \notin session'[q].syncs
          PROVE  Settled(syncs', set, i)
      <4>1. CASE i \in mine
        BY <1>15, <3>1, <4>1
      <4>2. CASE i \notin mine
        <5>1. \A q \in Sessions : i \notin session[q].syncs
          BY <2>1, <3>1, <4>2
        <5>2. Settled(syncs, set, i)
          BY <3>1, <5>1 DEF RateInv, SyncsInv, UndisturbedSyncIsSettledOnce, Settled
        <5> QED
          BY <1>8, <3>1, <4>2, <5>2 DEF Settled
      <4> QED
        BY <4>1, <4>2
    <3> QED
      BY <1>10, <1>11, <3>1 DEF UndisturbedSyncIsSettledOnce, Settled, Numbers
  <2> QED
    BY <2>3, <2>4, <2>5 DEF SyncsInv
<1> QED
  BY <1>12, <1>13, <1>14, <1>16 DEF RateInv

\* What a request had in hand when it was cut off is disturbed.
LEMMA CrashSafe ==
  ASSUME RateInv, NEW p \in Sessions, Crash(p)
  PROVE  RateInv'
<1>1. /\ session' = [session EXCEPT ![p] = Idle]
      /\ disturbed' = disturbed \cup session[p].syncs
      /\ UNCHANGED <<tables, set, contended>>
  BY DEF Crash, Goto
<1>2. Idle \in Session /\ Idle.syncs = {} /\ Idle.setting = {} /\ Idle.todo = <<>>
  BY IdleFacts
<1>3. Becomes(p, Idle)
  BY <1>1, <1>2 DEF Becomes, RateInv, Typed
<1>4. UNCHANGED <<active, rates, history, syncs, overdue, set, contended>>
  BY <1>1 DEF tables
<1>5. session[p].syncs \subseteq Numbers(syncs)
  BY DEF RateInv, SyncsInv, KnowsSyncs
<1>6. Typed' /\ \A q \in Sessions : OnCourse(session[q])'
  <2>1. active' \subseteq Currencies /\ contended' \subseteq Pairs /\ disturbed' \subseteq Numbers(syncs)
    BY <1>1, <1>4, <1>5 DEF RateInv, Typed
  <2> QED
    BY <1>2, <1>3, <1>4, <2>1, IdleOnCourse, TypesStill
<1>7. RatesInv'
  <2>1. KnowsRate(Idle, rates, contended)
    BY <1>2 DEF KnowsRate
  <2> QED
    BY <1>2, <1>3, <1>4, <2>1, HistoryStill, RatesStill
<1>8. SyncsInv'
  <2>1. KnowsSyncs(Idle, syncs, set, disturbed')
    BY <1>2 DEF KnowsSyncs
  <2> QED
    BY <1>1, <1>2, <1>3, <1>4, <2>1, SyncsStill
<1> QED
  BY <1>6, <1>7, <1>8 DEF RateInv

\* That time passes, and what no variable of the model tells, changes nothing.
LEMMA StillSafe ==
  ASSUME RateInv, overdue' \subseteq Numbers(syncs),
         UNCHANGED <<active, rates, history, syncs, session, ghosts>>
  PROVE  RateInv'
<1> USE DEF ghosts
<1>1. Typed'
  BY DEF RateInv, Typed, Numbers
<1>2. \A q \in Sessions : OnCourse(session[q])'
  BY DEF RateInv, OnCourse, Numbers, Shaped
<1>3. RatesInv'
  <2>1. ASSUME NEW q \in Sessions
        PROVE  KnowsRate(session[q], rates, contended)'
    <3>1. KnowsRate(session[q], rates, contended)
      BY DEF RateInv, RatesInv
    <3> QED
      BY <3>1 DEF KnowsRate, Reads, Serving, Took, Before, Numbers
  <2>2. EndedByALater(rates)' /\ UncontendedPairHasOneRate' /\ HistoryTellsTheRateBefore'
    BY DEF RateInv, RatesInv, EndedByALater, UncontendedPairHasOneRate,
           HistoryTellsTheRateBefore, TookThePlaceOf, EarlierRates, Numbers
  <2> QED
    BY <2>1, <2>2 DEF RateInv, RatesInv
<1>4. SyncsInv'
  BY DEF RateInv, SyncsInv, KnowsSyncs, UndisturbedSyncIsSettledOnce, Numbers
<1> QED
  BY <1>1, <1>2, <1>3, <1>4 DEF RateInv

\* A rate set ahead takes effect: who is setting its pair has read it as not in
\* force, and the pair is contended from then on.
LEMMA TakesEffectSafe ==
  ASSUME RateInv, NEW k \in Numbers(rates), TakesEffect(k)
  PROVE  RateInv'
<1> DEFINE x == rates[k].pair
           sharing == contended \cup {y \in {x} : \E p \in Sessions : y \in session[p].setting}
<1>1. /\ rates' = [rates EXCEPT ![k].due = TRUE]
      /\ contended' = sharing
      /\ UNCHANGED <<active, history, syncs, overdue, session, set, disturbed>>
  BY DEF TakesEffect
<1>2. rates \in Seq(RateRow) /\ Len(rates) \in Nat /\ k \in 1..Len(rates)
  BY DEF RateInv, Typed, Numbers
<1>3. rates[k] \in RateRow /\ x \in Pairs
  <2>1. rates[k] \in RateRow
    BY <1>2, ElementOfSeq
  <2> QED
    BY <2>1 DEF RateRow
<1>4. contended \subseteq contended' /\ contended' \subseteq Pairs
  BY <1>1, <1>3 DEF RateInv, Typed
<1>5. \A q \in Sessions : x \in session[q].setting => x \in contended'
  BY <1>1
<1> HIDE DEF x, sharing
<1>6. [rates[k] EXCEPT !.due = TRUE] \in RateRow
  BY <1>3 DEF RateRow
<1>7. rates' = [rates EXCEPT ![k] = [rates[k] EXCEPT !.due = TRUE]]
  BY <1>1
<1>8. rates' \in Seq(RateRow) /\ Len(rates') = Len(rates)
  BY <1>2, <1>6, <1>7, ExceptSeq
<1>9. \A j \in 1..Len(rates) :
        /\ rates'[j].pair = rates[j].pair
        /\ rates'[j].quote = rates[j].quote
        /\ rates'[j].until = rates[j].until
        /\ rates'[j].ahead = rates[j].ahead
        /\ j = k => rates'[j].due
        /\ j # k => rates'[j].due = rates[j].due
  <2>1. PICK row \in RateRow : row = [rates[k] EXCEPT !.due = TRUE]
    BY <1>6
  <2>2. /\ row.pair = rates[k].pair /\ row.quote = rates[k].quote
        /\ row.until = rates[k].until /\ row.ahead = rates[k].ahead /\ row.due
    BY <1>3, <2>1 DEF RateRow
  <2>3. \A j \in 1..Len(rates) : rates'[j] = IF j = k THEN row ELSE rates[j]
    BY <1>2, <1>7, <2>1, ExceptSeq
  <2> QED
    BY <2>2, <2>3
<1>10. Numbers(rates') = Numbers(rates) /\ Numbers(rates) = 1..Len(rates)
  BY <1>8 DEF Numbers
<1>11. Typed'
  <2>1. \A j \in Numbers(rates') : rates'[j].quote \in Offered
    BY <1>9, <1>10 DEF RateInv, Typed
  <2> QED
    BY <1>1, <1>4, <1>8, <1>10, <2>1 DEF RateInv, Typed, Numbers
<1>12. \A q \in Sessions : OnCourse(session[q])'
  BY <1>1 DEF RateInv, OnCourse, Numbers, Shaped
<1>13. ASSUME NEW y, y # x, NEW old, Reads(rates, old, y)
       PROVE  Reads(rates', old, y)
  <2>1. \A j \in 1..Len(rates) : rates[j].pair = y => rates'[j].due = rates[j].due
    <3>1. rates[k].pair # y
      BY <1>13 DEF x
    <3> QED
      BY <1>9, <3>1
  <2>2. Serving(rates', y) = Serving(rates, y)
    BY <1>8, <1>9, <2>1 DEF Serving
  <2> QED
    BY <1>13, <2>2 DEF Reads
<1>14. ASSUME NEW n \in 1..Len(rates), NEW old, Took(rates, n, old)
       PROVE  Took(rates', n, old)
  <2>1. Before(rates', n) = Before(rates, n) /\ Before(rates, n) \subseteq 1..Len(rates)
    <3>1. \A j \in 1..n - 1 : j \in 1..Len(rates)
      BY <1>2
    <3> QED
      BY <1>9, <3>1 DEF Before
  <2> QED
    BY <1>8, <1>9, <1>14, <2>1 DEF Took
<1>15. ASSUME NEW q \in Sessions
       PROVE  KnowsRate(session[q], rates', contended')
  <2> DEFINE o == session[q].todo[1]
             y == o.pair
  <2>1. SUFFICES ASSUME session[q].todo # <<>>, o.op \in Stages \ {"check"}
                 PROVE  KnowsRate(session[q], rates', contended')
    BY DEF KnowsRate
  <2>2. /\ session[q].setting = {y}
        /\ o.op = "insert" => \/ session[q].found = 0
                              \/ /\ session[q].found \in Numbers(rates)
                                 /\ rates[session[q].found].pair = y
        /\ o.op = "record" => session[q].new \in Numbers(rates) /\ rates[session[q].new].pair = y
        /\ y \notin contended =>
             /\ o.op # "record" => Reads(rates, session[q].old, y)
             /\ o.op = "insert" => session[q].found = session[q].old
             /\ o.op = "record" => Took(rates, session[q].new, session[q].old)
    BY <2>1 DEF RateInv, RatesInv, KnowsRate
  <2>3. y \notin contended' => y # x /\ y \notin contended
    BY <1>4, <1>5, <2>2
  <2> HIDE DEF y, o
  <2>4. /\ o.op = "insert" => \/ session[q].found = 0
                              \/ /\ session[q].found \in Numbers(rates')
                                 /\ rates'[session[q].found].pair = y
        /\ o.op = "record" => session[q].new \in Numbers(rates') /\ rates'[session[q].new].pair = y
    BY <1>9, <1>10, <2>2
  <2>5. y \notin contended' =>
          /\ o.op # "record" => Reads(rates', session[q].old, y)
          /\ o.op = "insert" => session[q].found = session[q].old
          /\ o.op = "record" => Took(rates', session[q].new, session[q].old)
    BY <1>10, <1>13, <1>14, <2>2, <2>3
  <2> QED
    BY <2>2, <2>4, <2>5 DEF KnowsRate, y, o
<1>16. \A q \in Sessions : KnowsRate(session[q], rates, contended)'
  <2>1. \A q \in Sessions : KnowsRate(session'[q], rates', contended')
    BY <1>1, <1>15
  <2> QED
    BY <2>1 DEF KnowsRate, Reads, Serving, Took, Before, Numbers
<1>17. EndedByALater(rates)'
  <2>1. SUFFICES ASSUME NEW j \in 1..Len(rates)
                 PROVE  /\ rates'[j].until # 0 => /\ rates'[j].until \in j + 1..Len(rates)
                                                  /\ rates'[rates'[j].until].pair = rates'[j].pair
                        /\ ~ rates'[j].ahead => rates'[j].due
    BY <1>8 DEF EndedByALater
  <2>2. rates[j].until # 0 => /\ rates[j].until \in 1..Len(rates)
                              /\ rates[j].until \in j + 1..Len(rates)
                              /\ rates[rates[j].until].pair = rates[j].pair
    BY <1>2 DEF RateInv, RatesInv, EndedByALater
  <2>3. ~ rates[j].ahead => rates[j].due
    BY DEF RateInv, RatesInv, EndedByALater
  <2> QED
    BY <1>9, <2>2, <2>3
<1>18. UncontendedPairHasOneRate'
  BY <1>4, <1>9, <1>10 DEF RateInv, RatesInv, UncontendedPairHasOneRate
<1>19. HistoryTellsTheRateBefore'
  <2>1. SUFFICES ASSUME NEW m \in 1..Len(history), rates'[history[m].rate].pair \notin contended'
                 PROVE  Took(rates', history[m].rate, history[m].old)
    BY <1>1, HistoryIs
  <2>2. PICK n \in Numbers(rates) : n = history[m].rate
    BY DEF RateInv, Typed, Numbers
  <2>3. rates[n].pair \notin contended
    BY <1>4, <1>9, <1>10, <2>1, <2>2
  <2>4. Took(rates, n, history[m].old)
    BY <2>2, <2>3, HistoryIs DEF RateInv, RatesInv
  <2> QED
    BY <1>10, <1>14, <2>2, <2>4
<1>20. RatesInv'
  <2>1. \A q, r \in Sessions : q # r => session'[q].setting \cap session'[r].setting \subseteq contended'
    BY <1>1, <1>4 DEF RateInv, RatesInv
  <2> QED
    BY <1>16, <1>17, <1>18, <1>19, <2>1 DEF RatesInv
<1>21. SyncsInv'
  BY <1>1 DEF RateInv, SyncsInv, KnowsSyncs, UndisturbedSyncIsSettledOnce, Numbers
<1> QED
  BY <1>11, <1>12, <1>20, <1>21 DEF RateInv

\* The seeds: every pair has one rate at most, and nobody is at work.
LEMMA InitSafe ==
  ASSUME Init
  PROVE  RateInv
<1> DEFINE n == Cardinality(DOMAIN Seeded)
           Rows == {[pair |-> x, quote |-> Seeded[x], until |-> 0, ahead |-> FALSE, due |-> TRUE] : x \in DOMAIN Seeded}
<1>1. n \in Nat
  BY RateAssumption, FS_CardinalityType
<1>2. rates \in [1..n -> Rows] /\ \A j, k \in DOMAIN rates : rates[j].pair = rates[k].pair => j = k
  BY DEF Init
<1>3. ASSUME NEW row \in Rows
      PROVE  row \in RateRow /\ row.until = 0 /\ row.due /\ row.quote \in Offered
  <2>1. PICK x \in DOMAIN Seeded : row = [pair |-> x, quote |-> Seeded[x], until |-> 0, ahead |-> FALSE, due |-> TRUE]
    BY <1>3
  <2>2. x \in Pairs /\ Seeded[x] \in QuoteType /\ (Dealers => HasSpread(Seeded[x]))
    BY <2>1, RateAssumption DEF Dealers
  <2> QED
    BY <2>1, <2>2 DEF RateRow, Offered
<1> HIDE DEF n, Rows
<1>4. /\ rates \in Seq(RateRow) /\ Len(rates) = n /\ Numbers(rates) = 1..n
      /\ \A k \in 1..n : rates[k].until = 0 /\ rates[k].due /\ rates[k].quote \in Offered
      /\ \A j, k \in 1..n : rates[j].pair = rates[k].pair => j = k
  <2>1. \A k \in 1..n : rates[k] \in Rows
    BY <1>2
  <2>2. rates = [k \in 1..n |-> rates[k]]
    BY <1>2
  <2>3. rates \in Seq(RateRow) /\ Len(rates) = n
    BY <1>1, <1>3, <2>1, <2>2
  <2> QED
    BY <1>2, <1>3, <2>1, <2>3 DEF Numbers
<1>5. /\ active = Currencies /\ history = <<>> /\ syncs = <<>> /\ overdue = {} /\ set = <<>>
      /\ contended = {} /\ disturbed = {} /\ session = [p \in Sessions |-> Idle]
  BY DEF Init
<1>6. Len(history) = 0 /\ Len(syncs) = 0 /\ Len(set) = 0
  BY <1>5, EmptySeq
<1>7. Typed
  BY <1>4, <1>5, <1>6, IdleFacts, EmptySeq DEF Typed, Numbers
<1>8. ASSUME NEW p \in Sessions
      PROVE  /\ session[p] = Idle
             /\ OnCourse(session[p])
             /\ KnowsRate(session[p], rates, contended)
             /\ KnowsSyncs(session[p], syncs, set, disturbed)
  BY <1>5, IdleFacts, IdleOnCourse DEF KnowsRate, KnowsSyncs
<1>9. EndedByALater(rates)
  BY <1>4 DEF EndedByALater
<1>10. UncontendedPairHasOneRate
  <2>1. \A k \in 1..n : k \in Int /\ ~ (k < k)
    BY <1>1
  <2> QED
    BY <1>4, <2>1 DEF UncontendedPairHasOneRate
<1>11. HistoryTellsTheRateBefore /\ UndisturbedSyncIsSettledOnce
  BY <1>6 DEF HistoryTellsTheRateBefore, UndisturbedSyncIsSettledOnce, Numbers
<1> QED
  BY <1>7, <1>8, <1>9, <1>10, <1>11, IdleFacts DEF RateInv, RatesInv, SyncsInv

\* The inductive invariant holds in every reachable state: the types, what each session may still
\* believe of the rates and synchronisations it read, and what the committed rates and history say
\* (set_exchange_rate and the review and expiry of synchronisations, with sessions interleaved).
THEOREM RateInvariant == Spec => []RateInv
<1>1. Init => RateInv
  BY InitSafe
<1>2. RateInv /\ [Next]_vars => RateInv'
  <2>1. SUFFICES ASSUME RateInv, [Next]_vars
                 PROVE  RateInv'
    OBVIOUS
  <2>2. ASSUME NEW p \in Sessions, Step(p)
        PROVE  RateInv'
    <3>1. CASE BeginSet(p) \/ CheckRate(p) \/ FindRate(p) \/ InsertRate(p) \/ RecordRate(p)
      BY <2>1, <3>1, BeginSetSafe, CheckRateSafe, FindRateSafe, InsertRateSafe, RecordRateSafe
    <3>2. CASE FetchRates(p) \/ CreateSync(p) \/ BeginReview(p) \/ BeginExpiry(p) \/ SetStatus(p)
      BY <2>1, <3>2, FetchRatesSafe, CreateSyncSafe, BeginReviewSafe, BeginExpirySafe, SetStatusSafe
    <3>3. CASE SwitchCurrency(p)
      BY <2>1, <3>3, SwitchCurrencySafe
    <3> QED
      BY <2>2, <3>1, <3>2, <3>3 DEF Step
  <2>3. ASSUME NEW p \in Sessions, Crash(p)
        PROVE  RateInv'
    BY <2>1, <2>3, CrashSafe
  <2>4. ASSUME NEW p \in Sessions, NEW r \in Requests, Begin(p, r)
        PROVE  RateInv'
    BY <2>1, <2>4, BeginSafe
  <2>5. ASSUME NEW i \in Numbers(syncs), Lapse(i)
        PROVE  RateInv'
    <3>1. overdue' \subseteq Numbers(syncs)
      BY <2>1, <2>5 DEF Lapse, RateInv, Typed
    <3> QED
      BY <2>1, <2>5, <3>1, StillSafe DEF Lapse
  <2>7. ASSUME NEW k \in Numbers(rates), TakesEffect(k)
        PROVE  RateInv'
    BY <2>1, <2>7, TakesEffectSafe
  <2>6. CASE UNCHANGED vars
    <3>1. overdue' \subseteq Numbers(syncs)
      BY <2>1, <2>6 DEF vars, tables, RateInv, Typed
    <3> QED
      BY <2>1, <2>6, <3>1, StillSafe DEF vars, tables
  <2> QED
    BY <2>1, <2>2, <2>3, <2>4, <2>5, <2>6, <2>7 DEF Next
<1> QED
  BY <1>1, <1>2, PTL DEF Spec
-----------------------------------------------------------------------------
(* The properties the run checks.                                           *)

\* Tables hold rows of their types, and ghosts speak of what is there.
THEOREM RatesTypeCorrect == Spec => []TypeOK
<1>1. RateInv => TypeOK
  BY DEF RateInv, Typed, TypeOK, Numbers
<1> QED
  BY <1>1, RateInvariant, PTL

\* However requests fail or are cut off, a pair that no two of them set at one
\* time has, besides the rates set ahead, no rate without an end but the last.
THEOREM OneRateIsOpen == Spec => []UncontendedPairHasOneRate
<1>1. RateInv => UncontendedPairHasOneRate
  BY DEF RateInv, RatesInv
<1> QED
  BY <1>1, RateInvariant, PTL

\* Its history tells the rate that each one took the place of, none if it ended
\* none, though history is a commit of its own.
THEOREM HistoryIsRight == Spec => []HistoryTellsTheRateBefore
<1>1. RateInv => HistoryTellsTheRateBefore
  BY DEF RateInv, RatesInv
<1> QED
  BY <1>1, RateInvariant, PTL

\* A sync reviewed by one request at a time says how many rates were set for it.
THEOREM SyncsAreSettledOnce == Spec => []UndisturbedSyncIsSettledOnce
<1>1. RateInv => UndisturbedSyncIsSettledOnce
  BY DEF RateInv, SyncsInv
<1> QED
  BY <1>1, RateInvariant, PTL

\* What is derived from quotes with a spread has one.
LEMMA LegIsOffered ==
  ASSUME Typed, NEW a, NEW b, NEW q \in Leg(a, b)
  PROVE  q \in Offered
<1>1. ASSUME NEW pair, NEW k \in InForce(pair)
      PROVE  rates[k].quote \in Offered
  BY <1>1 DEF Typed, InForce
<1>2. ASSUME NEW r \in Offered
      PROVE  InverseRate(r) \in Offered
  BY <1>2, InverseKeepsSpread DEF Offered
<1> QED
  BY <1>1, <1>2 DEF Leg

\* A rate through an intermediate currency is one that may be offered.
LEMMA HopIsOffered ==
  ASSUME Typed, NEW a, NEW m, NEW b, NEW q \in Hop(a, m, b)
  PROVE  q \in Offered
<1>1. PICK r \in Leg(a, m), s \in Leg(m, b) : q = Through(r, s)
  BY DEF Hop
<1>2. r \in Offered /\ s \in Offered
  BY LegIsOffered
<1> QED
  BY <1>1, <1>2, ThroughKeepsSpread DEF Offered

\* A rate through a base currency is one that may be offered.
LEMMA BaseRatesAreOffered ==
  ASSUME Typed, NEW a, NEW b, NEW q \in BaseRates(a, b)
  PROVE  q \in Offered
<1>1. \A m : Hop(a, m, b) \subseteq Offered
  BY HopIsOffered
<1>2. LatestRate(a, b) \subseteq Offered
  BY <1>1, LegIsOffered DEF LatestRate, Cross
<1> QED
  BY <1>1, <1>2 DEF BaseRates

\* Whatever legs a rate is derived from, in whatever state of the rate book.
THEOREM SpreadSurvives == Spec => []SpreadKept
<1>1. RateInv => SpreadKept
  <2>1. SUFFICES ASSUME RateInv, Dealers, NEW x \in Pairs, NEW amount \in Amounts,
                        NEW q \in BaseRates(x[1], x[2])
                 PROVE  /\ HalfUp(amount, Side(q, TRUE, FALSE)) <= HalfUp(amount, Side(q, FALSE, FALSE))
                        /\ HalfUp(amount, Side(q, FALSE, FALSE)) <= HalfUp(amount, Side(q, FALSE, TRUE))
    BY DEF SpreadKept, Dealers
  <2>2. q \in QuoteType /\ HasSpread(q)
    BY <2>1, BaseRatesAreOffered DEF RateInv, Offered
  <2>3. amount \in Nat
    BY RateAssumption
  <2> QED
    BY <2>2, <2>3, SidesFacts
<1> QED
  BY <1>1, RateInvariant, PTL
-----------------------------------------------------------------------------
(* What can be converted.                                                   *)

\* There is a rate of one direction or of the other.
IsQuoted(a, b) == InForce(<<a, b>>) # {} \/ InForce(<<b, a>>) # {}

\* get_latest_rate finds one: directly, by the inverse, or through USD.
HasLatest(a, b) ==
  \/ IsQuoted(a, b)
  \/ Usd \notin {a, b} /\ IsQuoted(a, Usd) /\ IsQuoted(Usd, b)

\* Two distinct currencies are a pair in both orders.
LEMMA PairsFacts ==
  ASSUME NEW a \in Currencies, NEW b \in Currencies, a # b
  PROVE  <<a, b>> \in Pairs /\ <<b, a>> \in Pairs
BY DEF Pairs

\* A leg of a cross rate that is found is quoted in one direction or the other.
LEMMA LegWhen ==
  ASSUME NEW a, NEW b, Leg(a, b) # {}
  PROVE  IsQuoted(a, b)
BY DEF Leg, IsQuoted

\* A leg that is quoted is found, without an error, when no pair has two current rates.
LEMMA LegIf ==
  ASSUME Unambiguous, NEW a \in Currencies, NEW b \in Currencies, a # b, IsQuoted(a, b)
  PROVE  Leg(a, b) # {} /\ ~ Raises(a, b)
<1>1. ~ Raises(a, b)
  BY PairsFacts DEF Unambiguous, Raises
<1>2. CASE InForce(<<a, b>>) # {}
  BY <1>1, <1>2 DEF Leg
<1>3. CASE InForce(<<a, b>>) = {}
  BY <1>1, <1>3 DEF Leg, IsQuoted
<1> QED
  BY <1>1, <1>2, <1>3

\* A cross rate is found exactly when both its legs are.
LEMMA HopWhen ==
  ASSUME NEW a, NEW m, NEW b
  PROVE  Hop(a, m, b) # {} <=> Leg(a, m) # {} /\ Leg(m, b) # {}
BY DEF Hop

\* A latest rate that is found comes from a direct, inverse or cross quote.
LEMMA LatestWhen == \A x \in Pairs : LatestRate(x[1], x[2]) # {} => HasLatest(x[1], x[2])
BY LegWhen, HopWhen DEF LatestRate, Cross, HasLatest

\* A pair with such a quote has a latest rate when no pair has two current rates.
LEMMA LatestIf ==
  Unambiguous => \A x \in Pairs : HasLatest(x[1], x[2]) => LatestRate(x[1], x[2]) # {}
<1>1. SUFFICES ASSUME Unambiguous, NEW x \in Pairs, HasLatest(x[1], x[2])
               PROVE  LatestRate(x[1], x[2]) # {}
  OBVIOUS
<1>2. PICK a \in Currencies, b \in Currencies : a = x[1] /\ b = x[2] /\ a # b
  BY DEF Pairs
<1>3. ~ Raises(a, b)
  BY <1>1, <1>2, PairsFacts DEF Unambiguous, Raises
<1>4. CASE Leg(a, b) # {}
  BY <1>2, <1>4 DEF LatestRate
<1>5. CASE Leg(a, b) = {}
  <2>1. Usd \notin {a, b} /\ IsQuoted(a, Usd) /\ IsQuoted(Usd, b)
    BY <1>1, <1>2, <1>5, LegIf DEF HasLatest
  <2>2. Leg(a, Usd) # {} /\ Leg(Usd, b) # {}
    BY <1>1, <2>1, LegIf, RateAssumption
  <2>3. Cross(a, b) # {}
    BY <2>1, <2>2, HopWhen DEF Cross
  <2> QED
    BY <1>2, <1>3, <1>5, <2>3 DEF LatestRate
<1> QED
  BY <1>4, <1>5

\* Being quoted does not depend on the order of the pair.
LEMMA QuotedBothWays ==
  ASSUME NEW a, NEW b
  PROVE  IsQuoted(a, b) <=> IsQuoted(b, a)
BY DEF IsQuoted

\* The first currency that has both legs is one that has.
LEMMA FirstFacts ==
  ASSUME NEW S \in SUBSET Nat, S # {}
  PROVE  \E n \in S : First(S) = ByCode[n]
<1>1. \E n \in S : \A k \in S : n <= k
  BY LeastElement
<1> QED
  BY <1>1 DEF First

\* An amount can be converted when there is a rate, or a currency in between.
LEMMA BaseRatesWhen ==
  ASSUME NEW a, NEW b
  PROVE  BaseRates(a, b) # {} <=> LatestRate(a, b) # {} \/ Intermediaries(a, b) # {}
<1>1. CASE LatestRate(a, b) # {} \/ Intermediaries(a, b) = {}
  BY <1>1 DEF BaseRates
<1>2. CASE LatestRate(a, b) = {} /\ Intermediaries(a, b) # {}
  <2>1. Intermediaries(a, b) \in SUBSET Nat
    BY RateAssumption DEF Intermediaries
  <2>2. PICK n \in Intermediaries(a, b) : First(Intermediaries(a, b)) = ByCode[n]
    BY <1>2, <2>1, FirstFacts
  <2>3. Hop(a, ByCode[n], b) # {}
    BY DEF Intermediaries
  <2> QED
    BY <1>2, <2>2, <2>3 DEF BaseRates
<1> QED
  BY <1>1, <1>2

\* A rate through a base currency is found in both directions or in neither.
LEMMA BothWays ==
  ASSUME Unambiguous, NEW a \in Currencies, NEW b \in Currencies, a # b, BaseRates(a, b) # {}
  PROVE  BaseRates(b, a) # {}
<1>1. ASSUME NEW c \in Currencies, NEW d \in Currencies, c # d, Leg(c, d) # {}
      PROVE  Leg(d, c) # {}
  BY <1>1, LegWhen, LegIf, QuotedBothWays
<1>2. ASSUME NEW m \in Currencies \ {a, b}, Hop(a, m, b) # {}
      PROVE  Hop(b, m, a) # {}
  BY <1>1, <1>2, HopWhen
<1>3. ASSUME LatestRate(a, b) # {}
      PROVE  LatestRate(b, a) # {}
  <2>1. <<a, b>> \in Pairs /\ <<b, a>> \in Pairs
    BY PairsFacts
  <2>2. HasLatest(a, b)
    BY <1>3, <2>1, LatestWhen
  <2>3. HasLatest(b, a)
    BY <2>2, QuotedBothWays DEF HasLatest
  <2> QED
    BY <2>1, <2>3, LatestIf
<1>4. ASSUME NEW n \in Intermediaries(a, b)
      PROVE  n \in Intermediaries(b, a)
  <2>1. /\ n \in 1..Len(ByCode) /\ ByCode[n] \in active \ {a, b}
        /\ Hop(a, ByCode[n], b) # {}
    BY <1>4 DEF Intermediaries
  <2>2. ByCode[n] \in Currencies
    BY <2>1, RateAssumption, ElementOfSeq
  <2>3. Hop(b, ByCode[n], a) # {}
    BY <1>2, <2>1, <2>2
  <2> QED
    BY <2>1, <2>3 DEF Intermediaries
<1> QED
  BY <1>3, <1>4, BaseRatesWhen

\* An amount that was converted can be converted back.
THEOREM ConvertsBack == Spec => []ConversionBothWays
<1>1. ConversionBothWays
  <2>1. SUFFICES ASSUME Unambiguous, NEW x \in Pairs
                 PROVE  BaseRates(x[1], x[2]) # {} <=> BaseRates(x[2], x[1]) # {}
    BY DEF ConversionBothWays
  <2>2. PICK a \in Currencies, b \in Currencies : a = x[1] /\ b = x[2] /\ a # b
    BY DEF Pairs
  <2> QED
    BY <2>1, <2>2, BothWays
<1> QED
  BY <1>1, PTL

\* The step inserts no rate that was set ahead.
SetsNoneAhead == \A k \in Numbers(rates)' : k > Len(rates) => ~ rates[k]'.ahead

\* A rate in force is ended only by the INSERT of another one of the pair,
\* which is in force unless it was set ahead.
LEMMA ServedStill ==
  ASSUME RateInv, [Next]_vars, SetsNoneAhead, NEW x, InForce(x) # {}
  PROVE  InForce(x)' # {}
<1>1. CASE UNCHANGED rates
  BY <1>1 DEF InForce, Numbers
<1>2. ASSUME NEW p \in Sessions, InsertRate(p)
      PROVE  InForce(x)' # {}
  <2> DEFINE n == Len(rates) + 1
             found == session[p].found
  <2>1. Extended(rates, rates', found, Pair(p)) /\ Len(rates) \in Nat
    BY <1>2, InsertFacts DEF RateInv, Typed
  <2>2. PICK k \in 1..Len(rates) : rates[k].pair = x /\ rates[k].until = 0 /\ rates[k].due
    BY DEF InForce, Numbers
  <2>3. n \in 1..Len(rates') /\ k \in 1..Len(rates')
    BY <2>1 DEF Extended
  <2>4. CASE k = found
    <3>1. ~ rates'[n].ahead
      BY <2>1, <2>3 DEF SetsNoneAhead, Numbers
    <3>2. rates'[n].pair = x /\ rates'[n].until = 0 /\ rates'[n].due
      BY <2>1, <2>2, <2>4, <3>1 DEF Extended
    <3> QED
      BY <2>3, <3>2 DEF InForce, Numbers
  <2>5. CASE k # found
    <3>1. rates'[k].pair = x /\ rates'[k].until = 0 /\ rates'[k].due
      BY <2>1, <2>2, <2>5 DEF Extended
    <3> QED
      BY <2>3, <3>1 DEF InForce, Numbers
  <2> QED
    BY <2>4, <2>5
<1>3. ASSUME NEW p \in Sessions, Step(p), ~ InsertRate(p)
      PROVE  UNCHANGED rates
  <2>1. CASE BeginSet(p) \/ CheckRate(p) \/ FindRate(p) \/ RecordRate(p)
    BY <2>1 DEF BeginSet, CheckRate, FindRate, RecordRate, Skip, tables
  <2>2. CASE FetchRates(p) \/ CreateSync(p) \/ SetStatus(p) \/ SwitchCurrency(p)
    BY <2>2 DEF FetchRates, CreateSync, SetStatus, SwitchCurrency, Fail, tables
  <2>3. CASE BeginReview(p) \/ BeginExpiry(p)
    BY <2>3 DEF BeginReview, BeginExpiry, Handle, Fail, tables
  <2> QED
    BY <1>3, <2>1, <2>2, <2>3 DEF Step
<1>4. ASSUME NEW p \in Sessions, Crash(p) \/ \E r \in Requests : Begin(p, r)
      PROVE  UNCHANGED rates
  BY <1>4 DEF Crash, Begin, tables
<1>5. ASSUME NEW i \in Numbers(syncs), Lapse(i)
      PROVE  UNCHANGED rates
  BY <1>5 DEF Lapse
<1>6. CASE UNCHANGED vars
  BY <1>1, <1>6 DEF vars, tables
<1>7. ASSUME NEW k \in Numbers(rates), TakesEffect(k)
      PROVE  InForce(x)' # {}
  <2>1. rates' = [rates EXCEPT ![k].due = TRUE] /\ rates \in Seq(RateRow)
    BY <1>7 DEF TakesEffect, RateInv, Typed
  <2>2. PICK j \in 1..Len(rates) : rates[j].pair = x /\ rates[j].until = 0 /\ rates[j].due
    BY DEF InForce, Numbers
  <2>3. rates[j] \in RateRow /\ rates' \in Seq(RateRow) /\ Len(rates') = Len(rates)
    <3>1. \A i \in 1..Len(rates) : rates[i] \in RateRow
      BY <2>1, ElementOfSeq
    <3>2. rates' = [rates EXCEPT ![k] = [rates[k] EXCEPT !.due = TRUE]]
      BY <2>1
    <3>3. [rates[k] EXCEPT !.due = TRUE] \in RateRow
      BY <3>1 DEF RateRow, Numbers
    <3> QED
      BY <2>1, <3>1, <3>2, <3>3, ExceptSeq DEF Numbers
  <2>4. rates'[j].pair = x /\ rates'[j].until = 0 /\ rates'[j].due
    BY <2>1, <2>2, <2>3 DEF RateRow
  <2> QED
    BY <2>2, <2>3, <2>4 DEF InForce, Numbers
<1> QED
  BY <1>1, <1>2, <1>3, <1>4, <1>5, <1>6, <1>7 DEF Next

\* No step of any request, but the INSERT of a rate set ahead, leaves a pair
\* without the rate it had.
THEOREM RatesHaveNoGap == Spec => NoRateGap
<1>1. RateInv /\ [Next]_vars =>
        (Unambiguous' /\ SetsNoneAhead =>
           \A x \in Pairs : LatestRate(x[1], x[2]) # {} => LatestRate(x[1], x[2])' # {})
  <2>1. Unambiguous' => \A x \in Pairs : HasLatest(x[1], x[2])' => LatestRate(x[1], x[2])' # {}
    <3>1. (Unambiguous => \A x \in Pairs : HasLatest(x[1], x[2]) => LatestRate(x[1], x[2]) # {})'
      BY LatestIf, PTL
    <3> QED
      BY <3>1
  <2>2. ASSUME RateInv, [Next]_vars, SetsNoneAhead, NEW a, NEW b, IsQuoted(a, b)
        PROVE  IsQuoted(a, b)'
    BY <2>2, ServedStill DEF IsQuoted
  <2>3. ASSUME RateInv, [Next]_vars, SetsNoneAhead, NEW x \in Pairs, LatestRate(x[1], x[2]) # {}
        PROVE  HasLatest(x[1], x[2])'
    <3>1. HasLatest(x[1], x[2])
      BY <2>3, LatestWhen
    <3> QED
      BY <2>2, <2>3, <3>1 DEF HasLatest
  <2> QED
    BY <2>1, <2>3
<1> QED
  BY <1>1, RateInvariant, PTL DEF Spec, NoRateGap, SetsNoneAhead

=============================================================================
