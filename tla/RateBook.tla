------------------------------ MODULE RateBook ------------------------------
(***************************************************************************)
(* CurrencyService and RateSyncService: the exchange rates of pairs of     *)
(* currencies, each valid from its effective_from until the next one is    *)
(* set, and the rates fetched from an external provider, which wait for a  *)
(* review before they are set.  A request is a sequence of SELECTs and     *)
(* commits between which other requests run (READ COMMITTED, no locks      *)
(* asked for); setting one rate commits twice, applying fetched rates      *)
(* commits twice for each of them and once more for their status.          *)
(*                                                                         *)
(* Moments are only compared: with now when a row is read (a rate is `due` *)
(* once its effective_from has passed, a sync `overdue` once its           *)
(* expires_at has) and when it is written (a rate set `ahead` takes effect *)
(* later).  An effective_to is told by the rate whose INSERT wrote it.     *)
(***************************************************************************)
EXTENDS Quotes, Sequences, FiniteSets

CONSTANTS
  Currencies, Usd,     \* the currencies; the one that cross rates go through
  ByCode,              \* the currencies in the order of their codes
  Seeded,              \* the rates of the seed script: quotes of some pairs
  Feeds,               \* what a provider may answer: sequences of [pair, rate]
  ByHand, Manual,      \* the pairs that users set rates of, and the quotes they set
  Spreads,             \* spread percentages of a review
  Amounts,             \* amounts that are converted, in cents
  Sessions,            \* requests that may run at the same time
  Kinds,               \* which requests are made
  MaxRequests          \* bound: requests ever made

Pairs == {x \in Currencies \X Currencies : x[1] # x[2]}

ASSUME RateAssumption ==
  /\ Usd \in Currencies
  /\ ByCode \in Seq(Currencies)
  /\ DOMAIN Seeded \subseteq Pairs /\ IsFiniteSet(DOMAIN Seeded)
  /\ Seeded \in [DOMAIN Seeded -> QuoteType]
  /\ Feeds \subseteq Seq([pair : Pairs, rate : Fractions])
  /\ ByHand \subseteq Pairs
  /\ Manual \subseteq QuoteType
  /\ Spreads \subseteq 0..99
  /\ Amounts \subseteq Nat \ {0}
  /\ MaxRequests \in Nat

VARIABLES
  active,      \* currencies whose is_active flag is set
  rates,       \* the exchange_rates table, oldest first
  history,     \* the exchange_rate_history rows CurrencyService writes (the
               \*   trigger of the table adds one of its own to each INSERT)
  syncs,       \* the rate_update_requests table, oldest first
  overdue,     \* syncs whose expires_at has passed
  session,     \* per session, what its request has still to do
  made,        \* requests made
  set,         \* history: per sync, how many rates were set for it
  contended,   \* history: pairs whose rate two requests were setting at one time,
               \*   or one while a rate set ahead took effect
  disturbed    \* history: syncs that two requests were reviewing at one time,
               \*   or whose review was cut off

tables == <<active, rates, history, syncs, overdue>>
ghosts == <<set, contended, disturbed>>
vars   == <<tables, session, made, ghosts>>

Statuses == {"pending", "approved", "rejected", "expired", "failed"}

\* `until` is the number of the row whose commit set effective_to, 0 for NULL;
\* `ahead`: the caller gave an effective_from later than the INSERT.
RateRow    == [pair : Pairs, quote : QuoteType, until : Nat, ahead : BOOLEAN, due : BOOLEAN]
HistoryRow == [rate : Nat, old : Nat]
SyncRow    == [fetched : Feeds, status : Statuses, applied : Nat]

-----------------------------------------------------------------------------
(* The rates the services find.                                            *)

Numbers(s) == 1..Len(s)

\* get_exchange_rate: effective_from has passed, effective_to is not set;
\* scalar_one_or_none raises when there are two.
InForce(pair) ==
  {k \in Numbers(rates) : rates[k].pair = pair /\ rates[k].until = 0 /\ rates[k].due}

Ambiguous(pair) == \E j, k \in InForce(pair) : j # k

\* get_latest_rate looks for the pair, then for its opposite.
Raises(a, b) == Ambiguous(<<a, b>>) \/ (InForce(<<a, b>>) = {} /\ Ambiguous(<<b, a>>))

Leg_OneWay(a, b) == {rates[k].quote : k \in InForce(<<a, b>>)}

\* get_latest_rate without an intermediary: the rate of the pair, or else the
\* inverse of the opposite one; {} when there is none or it raises.
Leg(a, b) ==
  IF Raises(a, b) THEN {}
  ELSE IF InForce(<<a, b>>) # {} THEN {rates[k].quote : k \in InForce(<<a, b>>)}
  ELSE {InverseRate(rates[k].quote) : k \in InForce(<<b, a>>)}

Hop(a, m, b) == {Through(q, r) : q \in Leg(a, m), r \in Leg(m, b)}

\* _get_cross_rate_via_usd; whatever goes wrong in it counts as no rate.
Cross(a, b) == IF Usd \in {a, b} THEN {} ELSE Hop(a, Usd, b)

\* get_latest_rate; {} is an exception.
LatestRate(a, b) == IF Leg(a, b) # {} \/ Raises(a, b) THEN Leg(a, b) ELSE Cross(a, b)

\* _convert_via_intermediary_currency: where in the order of codes a currency
\* stands that has both legs; the first of them is taken.
Intermediaries(a, b) ==
  {n \in 1..Len(ByCode) : ByCode[n] \in active \ {a, b} /\ Hop(a, ByCode[n], b) # {}}

First(positions) == ByCode[CHOOSE n \in positions : \A k \in positions : n <= k]

\* The rates convert_to_base_currency may use; {} makes it return 0.
BaseRates(a, base) ==
  IF LatestRate(a, base) # {} THEN LatestRate(a, base)
  ELSE IF Intermediaries(a, base) = {} THEN {}
  ELSE Hop(a, First(Intermediaries(a, base)), base)

-----------------------------------------------------------------------------
(* Requests, and what each handler does, in its order.                     *)

Requests ==
  {r \in [kind : {"set"}, pair : ByHand, quote : Manual, ahead : BOOLEAN]
      \cup [kind : {"fetch"}, feed : Feeds]
      \cup [kind : {"approve"}, sync : Numbers(syncs), pct : Spreads]
      \cup [kind : {"reject"}, sync : Numbers(syncs)]
      \cup [kind : {"expire"}]
      \cup [kind : {"activate", "deactivate"}, currency : Currencies] :
    r.kind \in Kinds}

Do(op, pair, quote) == [op |-> op, pair |-> pair, quote |-> quote]

Op(op) == <<Do(op, <<>>, <<>>)>>

\* set_exchange_rate: its SELECT, the repository's SELECT, the commit of the
\* rate and the commit of its history.
Accesses == <<"check", "find", "insert", "record">>

SetRate(pair, quote) == [n \in 1..4 |-> Do(Accesses[n], pair, quote)]

\* approve_and_apply_rates once it has seen a pending sync: one rate after the
\* other, and the status.
ApplyRates(fetched, pct) ==
  [n \in 1..4 * Len(fetched) + 1 |->
     IF n = 4 * Len(fetched) + 1 THEN Do("approved", <<>>, <<>>)
     ELSE LET f == fetched[(n + 3) \div 4]
          IN  Do(Accesses[((n - 1) % 4) + 1], f.pair, Spread(f.rate, pct))]

-----------------------------------------------------------------------------
(* Sessions.                                                               *)

(* `todo` is what is left to do; `old` and `found` are the rate in force as
   set_exchange_rate and as the repository read it (0 if none), `new` the rate
   just inserted; `syncs` are those the request handles, `applied` how many
   rates it set; `setting` only serves `contended`.                        *)
Begun(r) ==
  [req |-> r, todo |-> Op("begin"), old |-> 0, found |-> 0, new |-> 0,
   syncs |-> {}, applied |-> 0, setting |-> {}]

Idle == [Begun([kind |-> "none"]) EXCEPT !.todo = <<>>]

Busy(p)      == session[p].todo # <<>>
At(p, op)    == Busy(p) /\ Head(session[p].todo).op = op
Begins(p, k) == At(p, "begin") /\ session[p].req.kind = k
Others(p)    == {q \in Sessions \ {p} : Busy(q)}
Pair(p)      == Head(session[p].todo).pair
Quote(p)     == Head(session[p].todo).quote

\* p goes on as s, with `rest` still to do.
Goto(p, s, rest) ==
  session' = [session EXCEPT ![p] = IF rest = <<>> THEN Idle
                                    ELSE [s EXCEPT !.todo = rest]]

Rest(p) == Tail(session[p].todo)

\* The handler raises before it has committed anything.
Fail(p) == Goto(p, session[p], <<>>) /\ UNCHANGED <<tables, ghosts>>

\* Setting one rate raises, with n accesses of it to go: a "set" is over,
\* approve_and_apply_rates goes on with the next rate.
Skip(p, n) ==
  /\ Goto(p, [session[p] EXCEPT !.setting = {}],
          SubSeq(session[p].todo, n + 1, Len(session[p].todo)))
  /\ UNCHANGED <<tables, ghosts>>

TheRate(pair) == IF InForce(pair) = {} THEN 0 ELSE CHOOSE k \in InForce(pair) : TRUE

-----------------------------------------------------------------------------
(* Setting a rate.                                                         *)

\* set_exchange_rate by hand has nothing to look at before its first SELECT.
BeginSet(p) ==
  /\ Begins(p, "set")
  /\ Goto(p, session[p], SetRate(session[p].req.pair, session[p].req.quote))
  /\ UNCHANGED <<tables, ghosts>>

CheckRate(p) ==
  LET pair == Pair(p)
  IN /\ At(p, "check")
     /\ IF {pair[1], pair[2]} \subseteq active /\ ~ Ambiguous(pair)
        THEN /\ Goto(p, [session[p] EXCEPT !.old = TheRate(pair), !.setting = {pair}],
                     Rest(p))
             /\ contended' = IF \E q \in Others(p) : pair \in session[q].setting
                             THEN contended \cup {pair} ELSE contended
             /\ UNCHANGED <<tables, set, disturbed>>
        ELSE Skip(p, 4)

Replaced_Never(found) == rates

\* The rate the repository found gets an effective_to, whatever it has by now.
Replaced(found) ==
  [k \in Numbers(rates) |-> IF k = found THEN [rates[k] EXCEPT !.until = Len(rates) + 1]
                                         ELSE rates[k]]

\* The old rate is closed in a commit of its own.
FindRate_ClosesFirst(p) ==
  /\ At(p, "find")
  /\ IF Ambiguous(Pair(p)) THEN Skip(p, 3)
     ELSE /\ Goto(p, [session[p] EXCEPT !.found = TheRate(Pair(p))], Rest(p))
          /\ rates' = Replaced(TheRate(Pair(p)))
          /\ UNCHANGED <<active, history, syncs, overdue, ghosts>>

FindRate(p) ==
  /\ At(p, "find")
  /\ IF Ambiguous(Pair(p)) THEN Skip(p, 3)
     ELSE /\ Goto(p, [session[p] EXCEPT !.found = TheRate(Pair(p))], Rest(p))
          /\ UNCHANGED <<tables, ghosts>>

\* Only the caller of set_exchange_rate gives an effective_from; the rates of a
\* review have that of their ExchangeRateCreate, its utcnow().
SetsAhead(p) == session[p].req.kind = "set" /\ session[p].req.ahead

\* The commit of the new rate and of the effective_to of the one found, now and
\* not when the new one takes effect.  (A caller's effective_from may also be
\* refused, for a time zone that the column has not or as that of another rate
\* of the pair: nothing is committed, and the request ends as in Crash.)
InsertRate(p) ==
  /\ At(p, "insert")
  /\ rates' = Append(Replaced(session[p].found),
                     [pair |-> Pair(p), quote |-> Quote(p), until |-> 0,
                      ahead |-> SetsAhead(p), due |-> ~ SetsAhead(p)])
  /\ Goto(p, [session[p] EXCEPT !.new = Len(rates) + 1], Rest(p))
  /\ set' = [i \in Numbers(syncs) |-> set[i] + IF i \in session[p].syncs THEN 1 ELSE 0]
  /\ UNCHANGED <<active, history, syncs, overdue, contended, disturbed>>

Entry_Latest(p) == [rate |-> session[p].new, old |-> TheRate(Pair(p))]

\* "updated" with the old values, or "created" (0).
Entry(p) == [rate |-> session[p].new, old |-> session[p].old]

RecordRate(p) ==
  /\ At(p, "record")
  /\ history' = Append(history, Entry(p))
  /\ Goto(p, [session[p] EXCEPT !.setting = {}, !.applied = @ + 1], Rest(p))
  /\ UNCHANGED <<active, rates, syncs, overdue, ghosts>>

-----------------------------------------------------------------------------
(* Syncs.                                                                  *)

\* _compare_with_current_rates.
Comparable(feed) == \A n \in 1..Len(feed) : ~ Raises(feed[n].pair[1], feed[n].pair[2])

\* The provider's answer, compared with the current rates: a pair with two of
\* them stops it.
FetchRates(p) ==
  /\ Begins(p, "fetch")
  /\ IF Comparable(session[p].req.feed)
     THEN Goto(p, session[p], Op("create")) /\ UNCHANGED <<tables, ghosts>>
     ELSE Fail(p)

CreateSync(p) ==
  /\ At(p, "create")
  /\ syncs' = Append(syncs, [fetched |-> session[p].req.feed, status |-> "pending", applied |-> 0])
  /\ set' = Append(set, 0)
  /\ Goto(p, session[p], Rest(p))
  /\ UNCHANGED <<active, rates, history, overdue, contended, disturbed>>

\* A pending sync that is overdue is not pending any more.
IsPending(i) == syncs[i].status = "pending" /\ i \notin overdue

Handle(p, S, rest) ==
  /\ Goto(p, [session[p] EXCEPT !.syncs = S], rest)
  /\ disturbed' = disturbed \cup {i \in S : \E q \in Others(p) : i \in session[q].syncs}
  /\ UNCHANGED <<tables, set, contended>>

BeginReview(p) ==
  \E kind \in {"approve", "reject"} :
    /\ Begins(p, kind)
    /\ LET r == session[p].req
           i == r.sync
       IN IF ~ IsPending(i) THEN Fail(p)
          ELSE Handle(p, {i}, IF kind = "approve" THEN ApplyRates(syncs[i].fetched, r.pct)
                                                  ELSE Op("rejected"))

\* expire_old_requests.
BeginExpiry(p) ==
  LET late == {i \in overdue : syncs[i].status = "pending"}
  IN /\ Begins(p, "expire")
     /\ IF late = {} THEN Fail(p) ELSE Handle(p, late, Op("expired"))

Verdict_AlwaysApproved(p, status) == status

Verdict(p, status) ==
  IF status = "approved" /\ session[p].applied = 0 THEN "failed" ELSE status

\* The commit of a status, whatever the status is by now.
SetStatus(p) ==
  \E status \in {"approved", "rejected", "expired"} :
    /\ At(p, status)
    /\ syncs' = [i \in Numbers(syncs) |->
                   IF i \in session[p].syncs
                   THEN [syncs[i] EXCEPT !.status = Verdict(p, status),
                                         !.applied = IF status = "approved"
                                                     THEN session[p].applied ELSE @]
                   ELSE syncs[i]]
    /\ Goto(p, session[p], Rest(p))
    /\ UNCHANGED <<active, rates, history, overdue, ghosts>>

-----------------------------------------------------------------------------
\* activate_currency, deactivate_currency and update_currency; a base currency
\* can be deactivated through the last of them.
SwitchCurrency(p) ==
  LET c == session[p].req.currency
  IN /\ \/ Begins(p, "activate") /\ active' = active \cup {c}
        \/ Begins(p, "deactivate") /\ active' = active \ {c}
     /\ Goto(p, session[p], Rest(p))
     /\ UNCHANGED <<rates, history, syncs, overdue, ghosts>>

\* The effective_from of a rate set ahead passes.
TakesEffect(k) ==
  /\ ~ rates[k].due
  /\ rates' = [rates EXCEPT ![k].due = TRUE]
  /\ contended' = contended \cup {x \in {rates[k].pair} :
                                    \E p \in Sessions : x \in session[p].setting}
  /\ UNCHANGED <<active, history, syncs, overdue, session, made, set, disturbed>>

Step(p) ==
  /\ \/ BeginSet(p) \/ CheckRate(p) \/ FindRate(p) \/ InsertRate(p) \/ RecordRate(p)
     \/ FetchRates(p) \/ CreateSync(p) \/ BeginReview(p) \/ BeginExpiry(p) \/ SetStatus(p)
     \/ SwitchCurrency(p)
  /\ UNCHANGED made

Begin(p, r) ==
  /\ ~ Busy(p)
  /\ made < MaxRequests
  /\ made' = made + 1
  /\ session' = [session EXCEPT ![p] = Begun(r)]
  /\ UNCHANGED <<tables, ghosts>>

\* The server dies or loses its connection between two accesses: what it has
\* committed stays.
Crash(p) ==
  /\ Busy(p)
  /\ Goto(p, session[p], <<>>)
  /\ disturbed' = disturbed \cup session[p].syncs
  /\ UNCHANGED <<tables, made, set, contended>>

\* Twenty-four hours after it was made.
Lapse(i) ==
  /\ i \notin overdue
  /\ overdue' = overdue \cup {i}
  /\ UNCHANGED <<active, rates, history, syncs, session, made, ghosts>>

Init ==
  /\ active = Currencies
  /\ rates \in {s \in [1..Cardinality(DOMAIN Seeded) ->
                         {[pair |-> x, quote |-> Seeded[x], until |-> 0,
                            ahead |-> FALSE, due |-> TRUE] : x \in DOMAIN Seeded}] :
                 \A j, k \in DOMAIN s : s[j].pair = s[k].pair => j = k}
  /\ history = <<>>
  /\ syncs = <<>>
  /\ overdue = {}
  /\ session = [p \in Sessions |-> Idle]
  /\ made = 0
  /\ set = <<>>
  /\ contended = {}
  /\ disturbed = {}

Next ==
  \/ \E p \in Sessions : Step(p) \/ Crash(p) \/ \E r \in Requests : Begin(p, r)
  \/ \E i \in Numbers(syncs) : Lapse(i)
  \/ \E k \in Numbers(rates) : TakesEffect(k)

Spec == Init /\ [][Next]_vars
-----------------------------------------------------------------------------
(* What the rates promise.                                                 *)

TypeOK ==
  /\ active \subseteq Currencies
  /\ rates \in Seq(RateRow)
  /\ history \in Seq(HistoryRow)
  /\ syncs \in Seq(SyncRow)
  /\ overdue \subseteq Numbers(syncs)
  /\ DOMAIN set = Numbers(syncs)
  /\ contended \subseteq Pairs
  /\ disturbed \subseteq Numbers(syncs)

(* A rate ends when the next one is set: whatever fails or is cut off, a pair
   that no two requests set at one time has, besides those set ahead, no rate
   without an effective_to but the last one.  For two rates to be in force at
   one time it takes an overlap, or a rate set ahead and not in force yet when
   the next one was set.                                                   *)
UncontendedPairHasOneRate ==
  \A j, k \in Numbers(rates) :
    /\ j < k /\ rates[j].pair = rates[k].pair
    /\ ~ rates[j].ahead /\ ~ rates[k].ahead
    /\ rates[j].pair \notin contended
    => rates[j].until # 0

EarlierRates(k) == {j \in 1..k - 1 : rates[j].pair = rates[k].pair}

(* Row k took the place of rate `old`: it is the one rate that got its
   effective_to from k; and a rate that was due when it was set is replaced by
   the next one set for its pair.                                          *)
TookThePlaceOf(k, old) ==
  /\ old \in EarlierRates(k) \cup {0}
  /\ \A j \in Numbers(rates) : rates[j].until = k <=> j = old
  /\ \A j \in EarlierRates(k) :
       (\A i \in EarlierRates(k) : i <= j) /\ ~ rates[j].ahead => old = j

(* A history row of such a pair tells, as its old rate, the rate that the new
   one took the place of, even when rows of other rates were lost in a crash:
   "created" (0) is said of a rate only if it ended none.                  *)
HistoryTellsTheRateBefore ==
  \A n \in 1..Len(history) :
    rates[history[n].rate].pair \notin contended => TookThePlaceOf(history[n].rate, history[n].old)

(* A sync whose reviews came one after the other and were not cut off has set
   as many rates as it says, at least one of them if it was approved, and
   none at all if it waits, was rejected, failed or expired.               *)
UndisturbedSyncIsSettledOnce ==
  \A i \in Numbers(syncs) \ disturbed :
    (\A p \in Sessions : i \notin session[p].syncs) =>
      /\ set[i] = syncs[i].applied
      /\ (set[i] > 0) <=> (syncs[i].status = "approved")

(* Deriving a rate, over whatever legs, keeps a dealer's spread: an amount
   converted at the buy rate gives no more cents than at the rate itself, and
   at the sell rate no less.  It is so for the rates of a sync; of the quotes
   that people enter the services ask only that they be positive.          *)
SpreadKept ==
  (\A q \in Manual \cup {Seeded[x] : x \in DOMAIN Seeded} : HasSpread(q)) =>
    \A x \in Pairs, amount \in Amounts : \A q \in BaseRates(x[1], x[2]) :
      /\ HalfUp(amount, Side(q, TRUE, FALSE)) <= HalfUp(amount, Side(q, FALSE, FALSE))
      /\ HalfUp(amount, Side(q, FALSE, FALSE)) <= HalfUp(amount, Side(q, FALSE, TRUE))

Unambiguous == \A x \in Pairs : ~ Ambiguous(x)

(* What can be converted one way can be converted back, unless overlapping
   requests have left a pair two rates.                                    *)
ConversionBothWays ==
  Unambiguous => \A x \in Pairs : BaseRates(x[1], x[2]) # {} <=> BaseRates(x[2], x[1]) # {}

(* While a rate is replaced by one that is due there is no moment without one:
   what could be converted still can be, unless overlapping requests leave a
   pair two rates.  The one step after which a rate is missing is to set one
   ahead, which ends the old one on the spot.                              *)
NoRateGap ==
  [][Unambiguous' /\ (\A k \in Numbers(rates)' : k > Len(rates) => ~ rates[k]'.ahead) =>
       \A x \in Pairs : LatestRate(x[1], x[2]) # {} => LatestRate(x[1], x[2])' # {}]_vars
=============================================================================
