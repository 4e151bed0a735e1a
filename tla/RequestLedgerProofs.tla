------------------------- MODULE RequestLedgerProofs -------------------------
(***************************************************************************)
(* What overlapping requests keep, for any number of sessions and requests *)
(* of any length of run: nothing is half done, the books of a cell that no *)
(* two requests used at one time are right, and where only creations       *)
(* overlap the requests implement BranchLedger.  The invariant says, for   *)
(* each access of a handler, what the accesses before it have established. *)
(***************************************************************************)
EXTENDS RequestLedger, TotalsProofs, FiniteSetTheorems, SequenceTheorems

Creating == {"income", "expense", "exchange", "transfer"}

\* Only creations overlap: every other request runs alone.
Separate == Overlapping \subseteq Creating

\* What a session has read of row x still is so.
Trusted(x, raced) == (Separate /\ Midnight \notin raced) \/ x \notin raced

\* What `contended` may hold.
Racing == Cells \cup {Midnight}

-----------------------------------------------------------------------------
(* Requests and their plans.                                               *)

\* The requests a session may be serving, whatever transactions there are by now.
Served ==
  {r \in [kind : {"income"}, cell : Cells, amount : Amounts]
      \cup [kind : {"expense"}, cell : Cells, amount : Amounts, approval : BOOLEAN]
      \cup [kind : {"exchange"}, cell : Cells, toCell : Cells, amount : Amounts,
            rate : Rates, pct : Commissions]
      \cup [kind : {"transfer"}, cell : Cells, toCell : Cells, amount : Amounts]
      \cup [kind : Settling, txn : Nat \ {0}]
      \cup [kind : {"reconcile"}, cell : Cells, count : Counts]
      \cup [kind : {"delete", "open", "close"}, branch : Branches] :
    /\ r.kind \in Kinds
    /\ r.kind = "expense" => r.amount <= ExpenseLimit
    /\ r.kind = "exchange" => r.cell[1] = r.toCell[1] /\ r.cell[2] # r.toCell[2]
    /\ r.kind = "transfer" => r.cell[1] # r.toCell[1] /\ r.cell[2] = r.toCell[2]}

Ops == {"load", "active", "empty", "find", "create", "select", "enough", "number", "insert",
        "update", "count", "reserve", "release", "commit"}

Accesses == [op : Ops, cell : Cells \cup Branches \cup {<<>>}, amount : Int,
             change : Ledger!ChangeTypes \cup {""}]

\* The transaction a request is about, in the table it finds.
Subject(r, table) == IF r.kind \in Settling THEN table[r.txn] ELSE RowOf(r)

\* The changes of balances a request makes: cell, amount, kind of change.
Dues(r, t) ==
  CASE r.kind = "income"   -> {<<t.cell, t.amount, "transaction">>}
    [] r.kind = "expense"  -> {<<t.cell, -t.amount, "transaction">>}
    [] r.kind = "exchange" -> {<<t.cell, -t.cost, "transaction">>,
                               <<t.toCell, t.toAmount, "transaction">>}
    [] r.kind = "receive"  -> {<<t.cell, -t.amount, "transfer_out">>,
                               <<t.toCell, t.amount, "transfer_in">>}
    [] r.kind = "cancel"   -> IF t.type = "transfer" THEN {}
                              ELSE {<<t.cell, Ledger!Reversal(t), "adjustment">>}
    [] OTHER -> {}

Releases(r, t) == r.kind = "receive" \/ (r.kind = "cancel" /\ t.type = "transfer")

\* The order of a plan P: what comes before and after an access.
OrderedAt(P, j) ==
  LET a == P[j] IN
  /\ a.op = "commit" <=> j = Len(P)
  /\ a.op \notin {"commit", "empty"} => a.cell \in Cells
  /\ a.op = "find" => P[j + 1].op = "create" /\ P[j + 1].cell = a.cell /\ j + 1 < Len(P)
  /\ a.op = "create" =>
       /\ j > 1 /\ P[j - 1].op = "find" /\ P[j - 1].cell = a.cell
       /\ P[j + 1].op = "number" \/ (P[j + 1].op = "update" /\ P[j + 1].cell = a.cell)
  /\ a.op = "update" =>
       /\ j > 1 /\ P[j - 1].op = "create" /\ P[j - 1].cell = a.cell
       /\ a.change \in Ledger!ChangeTypes
  /\ a.op \in {"reserve", "release", "count"} =>
       j > 1 /\ P[j - 1].op = "select" /\ P[j - 1].cell = a.cell /\ a.amount \in Nat
  /\ a.op = "count" => a.change \in Ledger!ChangeTypes
  /\ a.op = "insert" => j > 1 /\ P[j - 1].op = "number"

Ordered(P) == \A j \in 1..Len(P) : OrderedAt(P, j)

\* A plan writes each row once, and creates before it writes.
Simple(P) ==
  \A i, j \in 1..Len(P) :
    LET a == P[i]
        b == P[j]
    IN /\ a.op = "insert" /\ b.op = "insert" => i = j
       /\ a.op \in {"reserve", "release"} /\ b.op \in {"reserve", "release"} => i = j
       /\ a.op = "update" /\ b.op = "update" /\ a.cell = b.cell => i = j
       /\ a.op = "update" /\ b.op \in {"reserve", "release"} => i < j
       /\ a.op = "insert" /\ b.op \in {"update", "reserve", "release"} => i < j
       /\ a.op = "number" /\ b.op \in {"insert", "update"} => i < j
       /\ a.op = "count" /\ b.op = "count" => i = j
       /\ a.op = "count" => b.op \notin {"update", "reserve", "release"}

\* Which requests make which accesses.
Suits(P, r) ==
  \A j \in 1..Len(P) :
    /\ P[j].op \in {"number", "insert"} => r.kind \in Creating
    /\ P[j].op = "count" => r.kind = "reconcile" /\ P[j].change = "reconciliation"
    /\ P[j].op = "load" <=> j = 1 /\ r.kind \in Settling
    /\ P[j].op \in {"active", "enough"} => r.kind \in Creating

\* What a plan does for request r about transaction t.
Serves(P, r, t) ==
  /\ r.kind \in Creating => \E j \in 1..Len(P) : P[j].op = "insert"
  /\ \A j \in 1..Len(P) :
       P[j].op = "update" => <<P[j].cell, P[j].amount, P[j].change>> \in Dues(r, t)
  /\ \A d \in Dues(r, t) : \E j \in 1..Len(P) :
       P[j].op = "update" /\ P[j].cell = d[1] /\ P[j].amount = d[2] /\ P[j].change = d[3]
  /\ \A j \in 1..Len(P) :
       /\ P[j].op = "reserve" => r.kind = "transfer" /\ P[j].cell = t.cell /\ P[j].amount = t.amount
       /\ P[j].op = "release" => Releases(r, t) /\ P[j].cell = t.cell /\ P[j].amount = t.amount
       /\ P[j].op = "load" => P[j].cell = t.cell
       /\ P[j].op = "empty" => r.kind = "delete" /\ P[j].cell = r.branch
       /\ P[j].op = "count" => P[j].cell = r.cell /\ P[j].amount = r.count
  /\ \A j \in 1..Len(P) : P[j].op = "create" =>
       \E i \in 1..Len(P) : P[i].op = "update" /\ P[i].cell = P[j].cell
  /\ r.kind = "transfer" => \E j \in 1..Len(P) : P[j].op = "reserve"
  /\ Releases(r, t) => \E j \in 1..Len(P) : P[j].op = "release"
  /\ r.kind \in Creating => \E j \in 1..Len(P) : P[j].op = "active" /\ P[j].cell = t.cell
  /\ r.kind = "transfer" => \E j \in 1..Len(P) : P[j].op = "active" /\ P[j].cell = t.toCell
  /\ r.kind \in {"expense", "exchange", "transfer"} =>
       \E j \in 1..Len(P) : P[j].op = "enough" /\ P[j].cell = t.cell
  /\ r.kind = "reconcile" => \E j \in 1..Len(P) : P[j].op = "count"
  /\ r.kind = "delete" => \E j \in 1..Len(P) : P[j].op = "empty"

Plan(P, r, t) ==
  /\ P \in Seq(Accesses) /\ Len(P) > 0
  /\ Ordered(P)
  /\ (r.kind = "receive" => t.type = "transfer") => Simple(P)
  /\ Suits(P, r) /\ Serves(P, r, t)

-----------------------------------------------------------------------------
(* What a session knows at access k of its plan P, of the tables d.        *)

Fields == {"req", "todo", "copy", "number", "seen", "inserted", "created", "bal", "res", "posts"}

Copies == [found : BOOLEAN, balance : Nat, reserved : Nat]

\* The history rows of a session, which refer to its transaction once it commits.
Postings == [change : Ledger!ChangeTypes, amount : Int, before : Nat, after : Nat]

SessionType(s) ==
  /\ DOMAIN s = Fields
  /\ s.req \in Served
  /\ s.copy \in Copies
  /\ s.number \in {<<>>} \cup (Days \X Nat)
  /\ s.seen \subseteq Cells
  /\ s.created \subseteq Cells
  /\ DOMAIN s.bal \subseteq Cells /\ \A x \in DOMAIN s.bal : s.bal[x] \in Nat
  /\ DOMAIN s.res \subseteq Cells /\ \A x \in DOMAIN s.res : s.res[x] \in Nat

BalanceIn(s, x, d)  == IF x \in DOMAIN s.bal THEN s.bal[x] ELSE d.balance[x]
ReservedIn(s, x, d) == IF x \in DOMAIN s.res THEN s.res[x] ELSE d.reserved[x]

\* The transaction its history rows refer to, and what they are in the tables.
Ref(s, d) ==
  CASE s.req.kind \in Settling -> s.req.txn
    [] s.req.kind = "reconcile" -> 0
    [] OTHER -> Len(d.txns) + 1

Row(s, x, d) == Referring(s.posts[x][1], Ref(s, d))

\* The request is at its access k, and settles a transaction there is.
OnCourse(s, P, k, d) ==
  /\ k \in 1..Len(P)
  /\ s.todo = SubSeq(P, k, Len(P))
  /\ s.req.kind \in Settling => s.req.txn \in 1..Len(d.txns)

\* The number it has generated, and inserted before anybody else could.
NumberOf(s, d) == s.number \in Days \X Nat /\ s.number[2] \in 1..d.last[s.number[1]] + 1

KnowsNumber(s, P, k, d) ==
  /\ (\E j \in 1..k - 1 : P[j].op = "number") => NumberOf(s, d)
  /\ \A j \in 1..k - 1 : P[j].op = "insert" => s.inserted # <<>>
  /\ s.inserted # <<>> =>
       /\ \E j \in 1..k - 1 : P[j].op = "insert"
       /\ s.inserted = <<RowOf(s.req)>>
       /\ NumberOf(s, d) /\ s.number[2] = d.last[s.number[1]] + 1

\* The rows it has read, created and written.
KnowsRows(s, P, k, d) ==
  /\ \A j \in 1..k - 1 :
       LET x == P[j].cell IN
       /\ P[j].op \in {"load", "find", "select", "enough"} => x \in s.seen
       /\ P[j].op \in {"create", "select", "enough"} => x \in d.rows \cup s.created
       /\ P[j].op = "update" => x \in DOMAIN s.bal
       /\ P[j].op \in {"reserve", "release"} => x \in DOMAIN s.res
  /\ \A x \in s.created : \E j \in 1..k - 1 : P[j].op = "create" /\ P[j].cell = x
  /\ \A x \in DOMAIN s.bal : \E j \in 1..k - 1 : P[j].op \in {"update", "count"} /\ P[j].cell = x
  /\ \A x \in DOMAIN s.res : \E j \in 1..k - 1 : P[j].op \in {"reserve", "release"} /\ P[j].cell = x

\* The history rows it has flushed: one for each balance it has written.
KnowsPosts(s, P, k, d, raced) ==
  /\ DOMAIN s.posts = DOMAIN s.bal
  /\ \A x \in DOMAIN s.bal :
       LET e == s.posts[x][1] IN
         /\ s.posts[x] = <<e>> /\ e \in Postings
         /\ e.after = s.bal[x] /\ e.after = e.before + e.amount
         /\ \A j \in 1..k - 1 :
              P[j].cell = x =>
                /\ P[j].op = "update" => e.amount = P[j].amount /\ e.change = P[j].change
                /\ P[j].op = "count" =>
                     e.after = P[j].amount /\ e.amount # 0 /\ e.change = P[j].change
         /\ Trusted(x, raced) => e.before = d.balance[x] /\ d.reserved[x] <= s.bal[x]

\* The row object in its hands, when it is about to write.
KnowsCopy(s, P, k, d, raced) ==
  LET x == P[k].cell IN
  P[k].op \in {"update", "count", "reserve", "release"} /\ Trusted(x, raced) =>
    s.copy.balance = BalanceIn(s, x, d) /\ s.copy.reserved = ReservedIn(s, x, d)

\* What it holds reserved, never more than there is.
KnowsReserved(s, P, k, d, raced) ==
  /\ \A x \in Cells : ReservedIn(s, x, d) <= BalanceIn(s, x, d)
  /\ \A j \in 1..k - 1 :
       LET x == P[j].cell IN
       Trusted(x, raced) =>
         /\ P[j].op = "reserve" => s.res[x] = d.reserved[x] + P[j].amount
         /\ P[j].op = "release" => s.res[x] = d.reserved[x] - P[j].amount

Settleable(r, t) ==
  /\ t.status = "pending"
  /\ r.kind = "receive" => t.type = "transfer"
  /\ r.kind = "approve" => t.type = "expense" /\ t.approvalRequired /\ ~ t.approved

\* The transaction it settles, and the branches it works for.
KnowsSubject(s, P, k, d, raced) ==
  /\ s.req.kind \in Settling /\ k > 1 =>
       LET t == d.txns[s.req.txn] IN
       /\ s.req.kind = "receive" => t.type = "transfer"
       /\ s.req.kind = "approve" => t.type = "expense"
       /\ Trusted(t.cell, raced) => Settleable(s.req, t)
  /\ \A j \in 1..k - 1 :
       Separate =>
         /\ P[j].op = "active" => P[j].cell[1] \in d.active
         /\ P[j].op = "empty" =>
              /\ P[j].cell \notin MainBranches
              /\ \A c \in Currencies : d.balance[<<P[j].cell, c>>] = 0

Knows(s, P, k, d, raced) ==
  /\ SessionType(s)
  /\ Plan(P, s.req, Subject(s.req, d.txns))
  /\ OnCourse(s, P, k, d)
  /\ KnowsNumber(s, P, k, d)
  /\ KnowsRows(s, P, k, d)
  /\ KnowsPosts(s, P, k, d, raced)
  /\ KnowsCopy(s, P, k, d, raced)
  /\ KnowsReserved(s, P, k, d, raced)
  /\ KnowsSubject(s, P, k, d, raced)

Informed(s, d, raced) == s = Idle \/ \E k \in Nat : Knows(s, Program(s.req), k, d, raced)

Held(s) == DOMAIN s.bal \cup DOMAIN s.res

\* Two requests that have inserted have numbers of different days.
ApartByDay(s, u, raced) ==
  \/ s.inserted = <<>> \/ u.inserted = <<>>
  \/ Midnight \in raced /\ s.number[1] # u.number[1]

\* Two requests never have one row in hand both, nor a number; two that have read
\* one row have made it contended; and only creations overlap, where that is so.
Apart(s, u, raced) ==
  s # Idle /\ u # Idle =>
    /\ ApartByDay(s, u, raced)
    /\ Held(s) \cap Held(u) = {}
    /\ s.seen \cap u.seen \subseteq raced
    /\ Separate => {s.req.kind, u.req.kind} \subseteq Creating

-----------------------------------------------------------------------------
(* The invariant.                                                          *)

\* A transaction is about the cells its request was about.
Sound(t) ==
  /\ t \in Ledger!Transactions
  /\ t.type \in {"exchange", "transfer"} => t.cell # t.toCell
  /\ t.type \in {"income", "expense"} => t.cell = t.toCell
  /\ t.type = "transfer" => t.cost = t.amount /\ t.toAmount = t.amount
  /\ t.type = "exchange" => t.status # "pending" /\ t.cost # 0

Tables ==
  /\ DOMAIN db = {"active", "rows", "balance", "reserved", "txns", "history", "last"}
  /\ Ledger!TypeOK
  /\ db.last \in [Days -> Nat]
  /\ \A i \in 1..Len(db.txns) : Sound(db.txns[i])
  /\ \A x \in Cells : x \notin db.rows => db.balance[x] = 0
  /\ \A x \in Cells : db.reserved[x] <= db.balance[x]

AtWork == {p \in Sessions : session[p] # Idle}

Counted ==
  /\ IsFiniteSet(AtWork)
  /\ made \in 0..MaxRequests
  /\ Cardinality(AtWork) + Len(db.txns) <= made
  /\ \A x \in Cells : Cardinality(AtWork) + Len(db.history[x]) <= made

RequestInv ==
  /\ Tables
  /\ contended \subseteq Racing
  /\ DOMAIN session = Sessions
  /\ \A p \in Sessions : Informed(session[p], db, contended)
  /\ \A p, q \in Sessions : p # q => Apart(session[p], session[q], contended)
  /\ Counted
  /\ UncontendedBooks
  /\ NothingHalfDone

-----------------------------------------------------------------------------
(* Plans.                                                                   *)

\* An access of a plan has the fields it was given.
LEMMA AccessFields ==
  \A op, cell, amount, change :
    LET a == Access(op, cell, amount, change)
    IN a.op = op /\ a.cell = cell /\ a.amount = amount /\ a.change = change
  BY DEF Access

\* An access of a handler is one of those that a plan may hold.
LEMMA AccessType ==
  ASSUME NEW op \in Ops, NEW cell \in Cells \cup Branches \cup {<<>>}, NEW amount \in Int,
         NEW change \in Ledger!ChangeTypes \cup {""}
  PROVE  Access(op, cell, amount, change) \in Accesses
  BY DEF Access, Accesses

\* Short names for the accesses that carry no kind of change, or no amount either.
With(op, x, amount) == Access(op, x, amount, "")
Do(op, x) == Access(op, x, 0, "")

\* The same of an access without a kind of change.
LEMMA WithFields ==
  \A op, cell, amount : LET a == With(op, cell, amount)
                        IN a.op = op /\ a.cell = cell /\ a.amount = amount
  BY DEF With, Access

\* An operation with a cell and an amount is an access.
LEMMA WithType ==
  ASSUME NEW op \in Ops, NEW cell \in Cells \cup Branches \cup {<<>>}, NEW amount \in Int
  PROVE  With(op, cell, amount) \in Accesses
  BY DEF With, Access, Accesses

\* The same of an access without an amount either.
LEMMA DoFields == \A op, cell : Do(op, cell).op = op /\ Do(op, cell).cell = cell
  BY DEF Do, Access

\* An operation on a cell is an access.
LEMMA DoType ==
  ASSUME NEW op \in Ops, NEW cell \in Cells \cup Branches \cup {<<>>}
  PROVE  Do(op, cell) \in Accesses
  BY DEF Do, Access, Accesses

\* What requests carry: cells, amounts, and whole numbers of cents.
LEMMA ServedFacts ==
  ASSUME NEW r \in Served
  PROVE  /\ r.kind \in Creating \cup Settling \cup {"reconcile", "delete", "open", "close"}
         /\ r.kind \in Kinds
         /\ r.kind \in Creating => r.cell \in Cells /\ r.amount \in Amounts
              /\ r.amount \in Nat \ {0}
         /\ r.kind = "expense" => r.approval \in BOOLEAN /\ r.amount <= ExpenseLimit
         /\ r.kind \in {"exchange", "transfer"} => r.toCell \in Cells /\ r.cell # r.toCell
         /\ r.kind = "exchange" =>
              /\ r.rate \in Rates /\ r.pct \in Commissions
              /\ r.cell[1] = r.toCell[1] /\ r.cell[2] # r.toCell[2]
         /\ r.kind = "transfer" => r.cell[1] # r.toCell[1] /\ r.cell[2] = r.toCell[2]
         /\ r.kind \in Settling => r.txn \in Nat \ {0}
         /\ r.kind = "reconcile" => r.cell \in Cells /\ r.count \in Counts /\ r.count \in Nat
         /\ r.kind \in {"delete", "open", "close"} => r.branch \in Branches
<1>1. Amounts \subseteq Nat \ {0}
  BY RequestAssumption, SMTT(60)
<1>2. Counts \subseteq Nat
  BY RequestAssumption, SMTT(60)
<1> QED
  BY <1>1, <1>2 DEF Served, Creating, Settling

\* What an exchange costs and brings in is whole cents, and it costs something.
LEMMA RoundedToCents ==
  ASSUME NEW a \in Nat, NEW rate \in Rates, NEW pct \in Commissions
  PROVE  /\ Ledger!ToAmount(a, rate) \in Nat /\ Ledger!TotalCost(a, pct) \in Nat
         /\ a # 0 => Ledger!TotalCost(a, pct) # 0
<1>1. a * rate \in Nat /\ a * pct \in Nat
  BY RequestAssumption, SMTT(60)
<1>2. ASSUME NEW n \in Nat, NEW d \in Nat \ {0} PROVE Ledger!Quantize(n, d) \in Nat
  <2>1. n \div d \in Nat
    OBVIOUS
  <2> QED
    BY <2>1 DEF Ledger!Quantize
<1>3. RateScale \in Nat \ {0}
  BY RequestAssumption
<1>4. Ledger!Quantize(a * rate, RateScale) \in Nat /\ Ledger!Quantize(a * pct, 10000) \in Nat
  BY <1>1, <1>2, <1>3
<1> QED
  BY <1>4 DEF Ledger!ToAmount, Ledger!TotalCost, Ledger!CommissionAmount, Ledger!PercentScale

\* The transaction a creation inserts.
LEMMA RowOfFacts ==
  ASSUME NEW r \in Served, r.kind \in Creating
  PROVE  LET t == RowOf(r)
         IN /\ Sound(t)
            /\ t.type = r.kind /\ t.cell = r.cell /\ t.amount = r.amount
            /\ r.kind = "income" => t.toCell = r.cell /\ t.toAmount = r.amount /\ t.cost = 0
            /\ r.kind = "expense" => t.cost = r.amount /\ t.toAmount = 0
            /\ r.kind \in {"exchange", "transfer"} => t.toCell = r.toCell
            /\ t.status = "pending" <=> r.kind = "transfer" \/ (r.kind = "expense" /\ r.approval)
<1>1. CASE r.kind = "income"
  <2>1. RowOf(r) = Ledger!Income(r.cell, r.amount)
    BY <1>1 DEF RowOf
  <2> QED
    BY <1>1, <2>1, ServedFacts DEF Ledger!Income, Sound, Ledger!Transactions, Ledger!Cells, Cells,
       Ledger!Types, Ledger!Statuses, Creating
<1>2. CASE r.kind = "expense"
  <2>1. RowOf(r) = Ledger!Expense(r.cell, r.amount, r.approval)
    BY <1>2 DEF RowOf
  <2> QED
    BY <1>2, <2>1, ServedFacts DEF Ledger!Expense, Sound, Ledger!Transactions, Ledger!Cells, Cells,
       Ledger!Types, Ledger!Statuses, Creating
<1>3. CASE r.kind = "exchange"
  <2>1. RowOf(r) = Ledger!Exchange(r.cell, r.toCell, r.amount, r.rate, r.pct)
    BY <1>3 DEF RowOf
  <2>2. /\ Ledger!ToAmount(r.amount, r.rate) \in Nat /\ Ledger!TotalCost(r.amount, r.pct) \in Nat
        /\ Ledger!TotalCost(r.amount, r.pct) # 0
    BY <1>3, ServedFacts, RoundedToCents DEF Creating
  <2> QED
    BY <1>3, <2>1, <2>2, ServedFacts DEF Ledger!Exchange, Sound, Ledger!Transactions, Ledger!Cells,
       Cells, Ledger!Types, Ledger!Statuses, Creating
<1>4. CASE r.kind = "transfer"
  <2>1. RowOf(r) = Ledger!Transfer(r.cell, r.toCell, r.amount)
    BY <1>4 DEF RowOf
  <2> QED
    BY <1>4, <2>1, ServedFacts DEF Ledger!Transfer, Sound, Ledger!Transactions, Ledger!Cells, Cells,
       Ledger!Types, Ledger!Statuses, Creating
<1> QED
  BY <1>1, <1>2, <1>3, <1>4 DEF Creating

\* create_income checks the branch, books the transaction, then credits the cell.
LEMMA IncomePlan ==
  ASSUME NEW r \in Served, r.kind = "income"
  PROVE  Plan(Program(r), r, Subject(r, db.txns))
<1> DEFINE P == Program(r)
           t == RowOf(r)
<1>1. r.cell \in Cells /\ r.amount \in Nat /\ r.amount \in Int /\ -r.amount \in Int
        /\ t.cell = r.cell /\ t.amount = r.amount
  <2>1. Sound(t)
    BY RowOfFacts DEF Creating
  <2>2. t.cost \in Nat /\ t.toAmount \in Nat
    BY <2>1 DEF Sound, Ledger!Transactions
  <2>3. r.cell \in Cells /\ r.amount \in Nat /\ r.amount \in Int /\ t.cell = r.cell
          /\ t.amount = r.amount
    BY ServedFacts, RowOfFacts DEF Creating
  <2> QED
    BY <2>2, <2>3, ServedFacts, RowOfFacts DEF Creating
<1>2. P = ((((<<Do("active", r.cell)>> \o <<Do("find", r.cell), Do("create", r.cell)>>) \o
          <<Do("number", r.cell), Do("insert", r.cell)>>) \o
          (<<Do("find", r.cell), Do("create", r.cell)>> \o
          <<Access("update", r.cell, r.amount, "transaction")>>)) \o <<Do("commit", <<>>)>>)
  <2>1. Checks(r) = (<<Do("active", r.cell)>> \o <<Do("find", r.cell), Do("create", r.cell)>>)
    BY DEF Checks, EnsureRow, Active, Do
  <2>2. Payments(r) = (<<Do("find", r.cell), Do("create", r.cell)>> \o
          <<Access("update", r.cell, r.amount, "transaction")>>)
    BY <1>1 DEF Payments, Update, EnsureRow, Select, Do, With
  <2>3. Program(r) = ((Checks(r) \o <<Do("number", r.cell), Do("insert", r.cell)>>) \o Payments(r))
          \o <<Do("commit", <<>>)>>
    BY DEF Program, Settling, Creation, Numbered, Finish, Do
  <2> QED
    BY <2>1, <2>2, <2>3
<1>3. /\ Do("active", r.cell) \in Accesses
      /\ Do("find", r.cell) \in Accesses
      /\ Do("create", r.cell) \in Accesses
      /\ Do("number", r.cell) \in Accesses
      /\ Do("insert", r.cell) \in Accesses
      /\ Access("update", r.cell, r.amount, "transaction") \in Accesses
      /\ Do("commit", <<>>) \in Accesses
  <2>1. Do("active", r.cell) \in Accesses
    BY <1>1, DoType DEF Ops
  <2>2. Do("find", r.cell) \in Accesses
    BY <1>1, DoType DEF Ops
  <2>3. Do("create", r.cell) \in Accesses
    BY <1>1, DoType DEF Ops
  <2>4. Do("number", r.cell) \in Accesses
    BY <1>1, DoType DEF Ops
  <2>5. Do("insert", r.cell) \in Accesses
    BY <1>1, DoType DEF Ops
  <2>6. Access("update", r.cell, r.amount, "transaction") \in Accesses
    BY <1>1, AccessType DEF Ops, Ledger!ChangeTypes
  <2>7. Do("commit", <<>>) \in Accesses
    BY <1>1, DoType DEF Ops
  <2> QED
    BY <2>1, <2>2, <2>3, <2>4, <2>5, <2>6, <2>7
<1>4. P \in Seq(Accesses) /\ Len(P) = 9
  BY <1>2, <1>3
<1>5. /\ P[1] = Do("active", r.cell) /\ P[2] = Do("find", r.cell) /\ P[3] = Do("create", r.cell) /\
         P[4] = Do("number", r.cell) /\ P[5] = Do("insert", r.cell) /\ P[6] = Do("find", r.cell) /\
         P[7] = Do("create", r.cell) /\ P[8] = Access("update", r.cell, r.amount, "transaction") /\
         P[9] = Do("commit", <<>>)
  BY <1>2, <1>3
<1> HIDE DEF P
<1>6. /\ P[1].op = "active" /\ P[1].cell = r.cell
      /\ P[2].op = "find" /\ P[2].cell = r.cell
      /\ P[3].op = "create" /\ P[3].cell = r.cell
      /\ P[4].op = "number" /\ P[4].cell = r.cell
      /\ P[5].op = "insert" /\ P[5].cell = r.cell
      /\ P[6].op = "find" /\ P[6].cell = r.cell
      /\ P[7].op = "create" /\ P[7].cell = r.cell
      /\ P[8].op = "update" /\ P[8].cell = r.cell /\ P[8].amount = r.amount
           /\ P[8].change = "transaction"
      /\ P[9].op = "commit"
  BY <1>5, DoFields, WithFields, AccessFields
<1>7. \A j \in 1..9 : j = 1 \/ j = 2 \/ j = 3 \/ j = 4 \/ j = 5 \/ j = 6 \/ j = 7 \/ j = 8 \/ j = 9
  OBVIOUS
<1>8. \A j \in 1..9 :
        /\ P[j].op = "active" <=> j = 1
        /\ P[j].op = "find" <=> j \in {2, 6}
        /\ P[j].op = "create" <=> j \in {3, 7}
        /\ P[j].op = "number" <=> j = 4
        /\ P[j].op = "insert" <=> j = 5
        /\ P[j].op = "update" <=> j = 8
        /\ P[j].op = "commit" <=> j = 9
        /\ P[j].op \notin {"load", "empty", "select", "enough", "count", "reserve", "release"}
  BY <1>6, <1>7
<1>9. Ordered(P)
  <2> SUFFICES ASSUME NEW j \in 1..9 PROVE OrderedAt(P, j)
    BY <1>4 DEF Ordered
  <2>1. P[j].op \notin {"commit", "empty"} => P[j].cell \in Cells
    BY <1>1, <1>6, <1>7
  <2>2. P[j].op = "find" => P[j + 1].op = "create" /\ P[j + 1].cell = P[j].cell /\ j + 1 < 9
    BY <1>6, <1>7
  <2>3. P[j].op = "create" =>
         /\ j > 1 /\ P[j - 1].op = "find" /\ P[j - 1].cell = P[j].cell
         /\ P[j + 1].op = "number" \/ (P[j + 1].op = "update" /\ P[j + 1].cell = P[j].cell)
    BY <1>6, <1>7
  <2>4. P[j].op = "update" =>
         /\ j > 1 /\ P[j - 1].op = "create" /\ P[j - 1].cell = P[j].cell
         /\ P[j].change \in Ledger!ChangeTypes
    BY <1>6, <1>7 DEF Ledger!ChangeTypes
  <2>5. P[j].op = "insert" => j > 1 /\ P[j - 1].op = "number"
    BY <1>6, <1>7
  <2> QED
    BY <1>4, <1>8, <2>1, <2>2, <2>3, <2>4, <2>5 DEF OrderedAt
<1>10. Simple(P)
  BY <1>1, <1>4, <1>6, <1>8 DEF Simple
<1>11. Serves(P, r, t)
  <2>1. Dues(r, t) = {<<r.cell, r.amount, "transaction">>}
    BY <1>1 DEF Dues
  <2>2. ~ Releases(r, t)
    BY DEF Releases
  <2> QED
    BY <1>1, <1>4, <1>6, <1>8, <2>1, <2>2, SMTT(60) DEF Serves, Creating
<1>12. Suits(P, r)
  BY <1>4, <1>6, <1>8 DEF Suits, Creating, Settling
<1>13. Subject(r, db.txns) = t
  BY DEF Subject, Settling
<1> QED
  BY <1>4, <1>9, <1>10, <1>11, <1>12, <1>13 DEF Plan, P

\* create_expense also checks the balance, and debits the cell.
LEMMA ExpensePlan ==
  ASSUME NEW r \in Served, r.kind = "expense"
  PROVE  Plan(Program(r), r, Subject(r, db.txns))
<1> DEFINE P == Program(r)
           t == RowOf(r)
<1>1. r.cell \in Cells /\ r.amount \in Nat /\ r.amount \in Int /\ -r.amount \in Int
        /\ t.cell = r.cell /\ t.amount = r.amount
  <2>1. Sound(t)
    BY RowOfFacts DEF Creating
  <2>2. t.cost \in Nat /\ t.toAmount \in Nat
    BY <2>1 DEF Sound, Ledger!Transactions
  <2>3. r.cell \in Cells /\ r.amount \in Nat /\ r.amount \in Int /\ t.cell = r.cell
          /\ t.amount = r.amount
    BY ServedFacts, RowOfFacts DEF Creating
  <2> QED
    BY <2>2, <2>3, ServedFacts, RowOfFacts DEF Creating
<1>2. P = (((<<Do("active", r.cell), With("enough", r.cell, r.amount)>> \o
          <<Do("number", r.cell), Do("insert", r.cell)>>) \o
          (<<Do("find", r.cell), Do("create", r.cell)>> \o
          <<Access("update", r.cell, -r.amount, "transaction")>>)) \o <<Do("commit", <<>>)>>)
  <2>1. Checks(r) = <<Do("active", r.cell), With("enough", r.cell, r.amount)>>
    BY DEF Checks, EnsureRow, Active, Enough, With, Do
  <2>2. Payments(r) = (<<Do("find", r.cell), Do("create", r.cell)>> \o
          <<Access("update", r.cell, -r.amount, "transaction")>>)
    BY <1>1 DEF Payments, Update, EnsureRow, Select, Do, With
  <2>3. Program(r) = ((Checks(r) \o <<Do("number", r.cell), Do("insert", r.cell)>>) \o Payments(r))
          \o <<Do("commit", <<>>)>>
    BY DEF Program, Settling, Creation, Numbered, Finish, Do
  <2> QED
    BY <2>1, <2>2, <2>3
<1>3. /\ Do("active", r.cell) \in Accesses
      /\ With("enough", r.cell, r.amount) \in Accesses
      /\ Do("number", r.cell) \in Accesses
      /\ Do("insert", r.cell) \in Accesses
      /\ Do("find", r.cell) \in Accesses
      /\ Do("create", r.cell) \in Accesses
      /\ Access("update", r.cell, -r.amount, "transaction") \in Accesses
      /\ Do("commit", <<>>) \in Accesses
  <2>1. Do("active", r.cell) \in Accesses
    BY <1>1, DoType DEF Ops
  <2>2. With("enough", r.cell, r.amount) \in Accesses
    BY <1>1, WithType DEF Ops
  <2>3. Do("number", r.cell) \in Accesses
    BY <1>1, DoType DEF Ops
  <2>4. Do("insert", r.cell) \in Accesses
    BY <1>1, DoType DEF Ops
  <2>5. Do("find", r.cell) \in Accesses
    BY <1>1, DoType DEF Ops
  <2>6. Do("create", r.cell) \in Accesses
    BY <1>1, DoType DEF Ops
  <2>7. Access("update", r.cell, -r.amount, "transaction") \in Accesses
    BY <1>1, AccessType DEF Ops, Ledger!ChangeTypes
  <2>8. Do("commit", <<>>) \in Accesses
    BY <1>1, DoType DEF Ops
  <2> QED
    BY <2>1, <2>2, <2>3, <2>4, <2>5, <2>6, <2>7, <2>8
<1>4. P \in Seq(Accesses) /\ Len(P) = 8
  BY <1>2, <1>3
<1>5. /\ P[1] = Do("active", r.cell) /\ P[2] = With("enough", r.cell, r.amount) /\
         P[3] = Do("number", r.cell) /\ P[4] = Do("insert", r.cell) /\ P[5] = Do("find", r.cell) /\
         P[6] = Do("create", r.cell) /\
         P[7] = Access("update", r.cell, -r.amount, "transaction") /\ P[8] = Do("commit", <<>>)
  BY <1>2, <1>3
<1> HIDE DEF P
<1>6. /\ P[1].op = "active" /\ P[1].cell = r.cell
      /\ P[2].op = "enough" /\ P[2].cell = r.cell /\ P[2].amount = r.amount
      /\ P[3].op = "number" /\ P[3].cell = r.cell
      /\ P[4].op = "insert" /\ P[4].cell = r.cell
      /\ P[5].op = "find" /\ P[5].cell = r.cell
      /\ P[6].op = "create" /\ P[6].cell = r.cell
      /\ P[7].op = "update" /\ P[7].cell = r.cell /\ P[7].amount = -r.amount
           /\ P[7].change = "transaction"
      /\ P[8].op = "commit"
  BY <1>5, DoFields, WithFields, AccessFields
<1>7. \A j \in 1..8 : j = 1 \/ j = 2 \/ j = 3 \/ j = 4 \/ j = 5 \/ j = 6 \/ j = 7 \/ j = 8
  OBVIOUS
<1>8. \A j \in 1..8 :
        /\ P[j].op = "active" <=> j = 1
        /\ P[j].op = "find" <=> j = 5
        /\ P[j].op = "create" <=> j = 6
        /\ P[j].op = "enough" <=> j = 2
        /\ P[j].op = "number" <=> j = 3
        /\ P[j].op = "insert" <=> j = 4
        /\ P[j].op = "update" <=> j = 7
        /\ P[j].op = "commit" <=> j = 8
        /\ P[j].op \notin {"load", "empty", "select", "count", "reserve", "release"}
  BY <1>6, <1>7
<1>9. Ordered(P)
  <2> SUFFICES ASSUME NEW j \in 1..8 PROVE OrderedAt(P, j)
    BY <1>4 DEF Ordered
  <2>1. P[j].op \notin {"commit", "empty"} => P[j].cell \in Cells
    BY <1>1, <1>6, <1>7
  <2>2. P[j].op = "find" => P[j + 1].op = "create" /\ P[j + 1].cell = P[j].cell /\ j + 1 < 8
    BY <1>6, <1>7
  <2>3. P[j].op = "create" =>
         /\ j > 1 /\ P[j - 1].op = "find" /\ P[j - 1].cell = P[j].cell
         /\ P[j + 1].op = "number" \/ (P[j + 1].op = "update" /\ P[j + 1].cell = P[j].cell)
    BY <1>6, <1>7
  <2>4. P[j].op = "update" =>
         /\ j > 1 /\ P[j - 1].op = "create" /\ P[j - 1].cell = P[j].cell
         /\ P[j].change \in Ledger!ChangeTypes
    BY <1>6, <1>7 DEF Ledger!ChangeTypes
  <2>5. P[j].op = "insert" => j > 1 /\ P[j - 1].op = "number"
    BY <1>6, <1>7
  <2> QED
    BY <1>4, <1>8, <2>1, <2>2, <2>3, <2>4, <2>5 DEF OrderedAt
<1>10. Simple(P)
  BY <1>1, <1>4, <1>6, <1>8, SMTT(60) DEF Simple
<1>11. Serves(P, r, t)
  <2>1. Dues(r, t) = {<<r.cell, -r.amount, "transaction">>}
    BY <1>1 DEF Dues
  <2>2. ~ Releases(r, t)
    BY DEF Releases
  <2> QED
    BY <1>1, <1>4, <1>6, <1>8, <2>1, <2>2, SMTT(60) DEF Serves, Creating
<1>12. Suits(P, r)
  BY <1>4, <1>6, <1>8 DEF Suits, Creating, Settling
<1>13. Subject(r, db.txns) = t
  BY DEF Subject, Settling
<1> QED
  BY <1>4, <1>9, <1>10, <1>11, <1>12, <1>13 DEF Plan, P

\* create_exchange debits one cell of the branch and credits another.
LEMMA ExchangePlan ==
  ASSUME NEW r \in Served, r.kind = "exchange"
  PROVE  Plan(Program(r), r, Subject(r, db.txns))
<1> DEFINE P == Program(r)
           t == RowOf(r)
<1>1. r.cell \in Cells /\ r.amount \in Nat /\ r.amount \in Int /\ -r.amount \in Int
        /\ t.cell = r.cell /\ t.amount = r.amount
      /\ r.toCell \in Cells /\ t.toCell = r.toCell /\ r.cell # r.toCell
      /\ t.cost \in Int /\ -t.cost \in Int /\ t.toAmount \in Int
  <2>1. Sound(t)
    BY RowOfFacts DEF Creating
  <2>2. t.cost \in Nat /\ t.toAmount \in Nat
    BY <2>1 DEF Sound, Ledger!Transactions
  <2>3. r.cell \in Cells /\ r.amount \in Nat /\ r.amount \in Int /\ t.cell = r.cell
          /\ t.amount = r.amount
    BY ServedFacts, RowOfFacts DEF Creating
  <2> QED
    BY <2>2, <2>3, ServedFacts, RowOfFacts DEF Creating
<1>2. P = (((<<Do("active", r.cell), With("enough", r.cell, t.cost)>> \o
          <<Do("number", r.cell), Do("insert", r.cell)>>) \o
          ((<<Do("find", r.cell), Do("create", r.cell)>> \o
          <<Access("update", r.cell, -t.cost, "transaction")>>) \o
          (<<Do("find", r.toCell), Do("create", r.toCell)>> \o
          <<Access("update", r.toCell, t.toAmount, "transaction")>>))) \o
          <<Do("commit", <<>>)>>)
  <2>1. Checks(r) = <<Do("active", r.cell), With("enough", r.cell, t.cost)>>
    BY DEF Checks, EnsureRow, Active, Enough, With, Do
  <2>2. Payments(r) = ((<<Do("find", r.cell), Do("create", r.cell)>> \o
          <<Access("update", r.cell, -t.cost, "transaction")>>) \o
          (<<Do("find", r.toCell), Do("create", r.toCell)>> \o
          <<Access("update", r.toCell, t.toAmount, "transaction")>>))
    BY <1>1 DEF Payments, Update, EnsureRow, Select, Do, With
  <2>3. Program(r) = ((Checks(r) \o <<Do("number", r.cell), Do("insert", r.cell)>>) \o Payments(r))
          \o <<Do("commit", <<>>)>>
    BY DEF Program, Settling, Creation, Numbered, Finish, Do
  <2> QED
    BY <2>1, <2>2, <2>3
<1>3. /\ Do("active", r.cell) \in Accesses
      /\ With("enough", r.cell, t.cost) \in Accesses
      /\ Do("number", r.cell) \in Accesses
      /\ Do("insert", r.cell) \in Accesses
      /\ Do("find", r.cell) \in Accesses
      /\ Do("create", r.cell) \in Accesses
      /\ Access("update", r.cell, -t.cost, "transaction") \in Accesses
      /\ Do("find", r.toCell) \in Accesses
      /\ Do("create", r.toCell) \in Accesses
      /\ Access("update", r.toCell, t.toAmount, "transaction") \in Accesses
      /\ Do("commit", <<>>) \in Accesses
  <2>1. Do("active", r.cell) \in Accesses
    BY <1>1, DoType DEF Ops
  <2>2. With("enough", r.cell, t.cost) \in Accesses
    BY <1>1, WithType DEF Ops
  <2>3. Do("number", r.cell) \in Accesses
    BY <1>1, DoType DEF Ops
  <2>4. Do("insert", r.cell) \in Accesses
    BY <1>1, DoType DEF Ops
  <2>5. Do("find", r.cell) \in Accesses
    BY <1>1, DoType DEF Ops
  <2>6. Do("create", r.cell) \in Accesses
    BY <1>1, DoType DEF Ops
  <2>7. Access("update", r.cell, -t.cost, "transaction") \in Accesses
    BY <1>1, AccessType DEF Ops, Ledger!ChangeTypes
  <2>8. Do("find", r.toCell) \in Accesses
    BY <1>1, DoType DEF Ops
  <2>9. Do("create", r.toCell) \in Accesses
    BY <1>1, DoType DEF Ops
  <2>10. Access("update", r.toCell, t.toAmount, "transaction") \in Accesses
    BY <1>1, AccessType DEF Ops, Ledger!ChangeTypes
  <2>11. Do("commit", <<>>) \in Accesses
    BY <1>1, DoType DEF Ops
  <2> QED
    BY <2>1, <2>2, <2>3, <2>4, <2>5, <2>6, <2>7, <2>8, <2>9, <2>10, <2>11
<1>4. P \in Seq(Accesses) /\ Len(P) = 11
  BY <1>2, <1>3
<1>5. /\ P[1] = Do("active", r.cell) /\ P[2] = With("enough", r.cell, t.cost) /\
         P[3] = Do("number", r.cell) /\ P[4] = Do("insert", r.cell) /\ P[5] = Do("find", r.cell) /\
         P[6] = Do("create", r.cell) /\ P[7] = Access("update", r.cell, -t.cost, "transaction") /\
         P[8] = Do("find", r.toCell) /\ P[9] = Do("create", r.toCell) /\
         P[10] = Access("update", r.toCell, t.toAmount, "transaction") /\
         P[11] = Do("commit", <<>>)
  BY <1>2, <1>3
<1> HIDE DEF P
<1>6. /\ P[1].op = "active" /\ P[1].cell = r.cell
      /\ P[2].op = "enough" /\ P[2].cell = r.cell /\ P[2].amount = t.cost
      /\ P[3].op = "number" /\ P[3].cell = r.cell
      /\ P[4].op = "insert" /\ P[4].cell = r.cell
      /\ P[5].op = "find" /\ P[5].cell = r.cell
      /\ P[6].op = "create" /\ P[6].cell = r.cell
      /\ P[7].op = "update" /\ P[7].cell = r.cell /\ P[7].amount = -t.cost
           /\ P[7].change = "transaction"
      /\ P[8].op = "find" /\ P[8].cell = r.toCell
      /\ P[9].op = "create" /\ P[9].cell = r.toCell
      /\ P[10].op = "update" /\ P[10].cell = r.toCell /\ P[10].amount = t.toAmount
           /\ P[10].change = "transaction"
      /\ P[11].op = "commit"
  BY <1>5, DoFields, WithFields, AccessFields
<1>7. \A j \in 1..11 : j = 1 \/ j = 2 \/ j = 3 \/ j = 4 \/ j = 5 \/ j = 6 \/ j = 7 \/ j = 8
        \/ j = 9 \/ j = 10 \/
        j = 11
  OBVIOUS
<1>8. \A j \in 1..11 :
        /\ P[j].op = "active" <=> j = 1
        /\ P[j].op = "find" <=> j \in {5, 8}
        /\ P[j].op = "create" <=> j \in {6, 9}
        /\ P[j].op = "enough" <=> j = 2
        /\ P[j].op = "number" <=> j = 3
        /\ P[j].op = "insert" <=> j = 4
        /\ P[j].op = "update" <=> j \in {7, 10}
        /\ P[j].op = "commit" <=> j = 11
        /\ P[j].op \notin {"load", "empty", "select", "count", "reserve", "release"}
  BY <1>6, <1>7
<1>9. Ordered(P)
  <2> SUFFICES ASSUME NEW j \in 1..11 PROVE OrderedAt(P, j)
    BY <1>4 DEF Ordered
  <2>1. P[j].op \notin {"commit", "empty"} => P[j].cell \in Cells
    BY <1>1, <1>6, <1>7
  <2>2. P[j].op = "find" => P[j + 1].op = "create" /\ P[j + 1].cell = P[j].cell /\ j + 1 < 11
    BY <1>6, <1>7
  <2>3. P[j].op = "create" =>
         /\ j > 1 /\ P[j - 1].op = "find" /\ P[j - 1].cell = P[j].cell
         /\ P[j + 1].op = "number" \/ (P[j + 1].op = "update" /\ P[j + 1].cell = P[j].cell)
    BY <1>6, <1>7
  <2>4. P[j].op = "update" =>
         /\ j > 1 /\ P[j - 1].op = "create" /\ P[j - 1].cell = P[j].cell
         /\ P[j].change \in Ledger!ChangeTypes
    BY <1>6, <1>7 DEF Ledger!ChangeTypes
  <2>5. P[j].op = "insert" => j > 1 /\ P[j - 1].op = "number"
    BY <1>6, <1>7
  <2> QED
    BY <1>4, <1>8, <2>1, <2>2, <2>3, <2>4, <2>5 DEF OrderedAt
<1>10. Simple(P)
  <2>1. \A i, j \in {7, 10} : P[i].cell = P[j].cell => i = j
    BY <1>1, <1>6
  <2>2. \A i, j \in 1..11 : P[i].op \in {"insert", "number"} /\ P[j].op = "update" => i < j
    BY <1>8
  <2> QED
    BY <1>4, <1>8, <2>1, <2>2, SMTT(60) DEF Simple
<1>11. Serves(P, r, t)
  <2>1. Dues(r, t) = {<<r.cell, -t.cost, "transaction">>,
                    <<r.toCell, t.toAmount, "transaction">>}
    BY <1>1 DEF Dues
  <2>2. ~ Releases(r, t)
    BY DEF Releases
  <2> QED
    BY <1>1, <1>4, <1>6, <1>8, <2>1, <2>2, SMTT(60) DEF Serves, Creating
<1>12. Suits(P, r)
  BY <1>4, <1>6, <1>8 DEF Suits, Creating, Settling
<1>13. Subject(r, db.txns) = t
  BY DEF Subject, Settling
<1> QED
  BY <1>4, <1>9, <1>10, <1>11, <1>12, <1>13 DEF Plan, P

\* create_transfer only reserves.
LEMMA TransferPlan ==
  ASSUME NEW r \in Served, r.kind = "transfer"
  PROVE  Plan(Program(r), r, Subject(r, db.txns))
<1> DEFINE P == Program(r)
           t == RowOf(r)
<1>1. r.cell \in Cells /\ r.amount \in Nat /\ r.amount \in Int /\ -r.amount \in Int
        /\ t.cell = r.cell /\ t.amount = r.amount
      /\ r.toCell \in Cells /\ t.toCell = r.toCell
  <2>1. Sound(t)
    BY RowOfFacts DEF Creating
  <2>2. t.cost \in Nat /\ t.toAmount \in Nat
    BY <2>1 DEF Sound, Ledger!Transactions
  <2>3. r.cell \in Cells /\ r.amount \in Nat /\ r.amount \in Int /\ t.cell = r.cell
          /\ t.amount = r.amount
    BY ServedFacts, RowOfFacts DEF Creating
  <2> QED
    BY <2>2, <2>3, ServedFacts, RowOfFacts DEF Creating
<1>2. P = (((<<Do("active", r.cell), Do("active", r.toCell), With("enough", r.cell, r.amount)>> \o
          <<Do("number", r.cell), Do("insert", r.cell)>>) \o
          <<Do("select", r.cell), With("reserve", r.cell, r.amount)>>) \o
          <<Do("commit", <<>>)>>)
  <2>1. Checks(r) = <<Do("active", r.cell), Do("active", r.toCell),
          With("enough", r.cell, r.amount)>>
    BY DEF Checks, EnsureRow, Active, Enough, With, Do
  <2>2. Payments(r) = <<Do("select", r.cell), With("reserve", r.cell, r.amount)>>
    BY <1>1 DEF Payments, Update, EnsureRow, Select, Do, With
  <2>3. Program(r) = ((Checks(r) \o <<Do("number", r.cell), Do("insert", r.cell)>>) \o Payments(r))
          \o <<Do("commit", <<>>)>>
    BY DEF Program, Settling, Creation, Numbered, Finish, Do
  <2> QED
    BY <2>1, <2>2, <2>3
<1>3. /\ Do("active", r.cell) \in Accesses
      /\ Do("active", r.toCell) \in Accesses
      /\ With("enough", r.cell, r.amount) \in Accesses
      /\ Do("number", r.cell) \in Accesses
      /\ Do("insert", r.cell) \in Accesses
      /\ Do("select", r.cell) \in Accesses
      /\ With("reserve", r.cell, r.amount) \in Accesses
      /\ Do("commit", <<>>) \in Accesses
  <2>1. Do("active", r.cell) \in Accesses
    BY <1>1, DoType DEF Ops
  <2>2. Do("active", r.toCell) \in Accesses
    BY <1>1, DoType DEF Ops
  <2>3. With("enough", r.cell, r.amount) \in Accesses
    BY <1>1, WithType DEF Ops
  <2>4. Do("number", r.cell) \in Accesses
    BY <1>1, DoType DEF Ops
  <2>5. Do("insert", r.cell) \in Accesses
    BY <1>1, DoType DEF Ops
  <2>6. Do("select", r.cell) \in Accesses
    BY <1>1, DoType DEF Ops
  <2>7. With("reserve", r.cell, r.amount) \in Accesses
    BY <1>1, WithType DEF Ops
  <2>8. Do("commit", <<>>) \in Accesses
    BY <1>1, DoType DEF Ops
  <2> QED
    BY <2>1, <2>2, <2>3, <2>4, <2>5, <2>6, <2>7, <2>8
<1>4. P \in Seq(Accesses) /\ Len(P) = 8
  BY <1>2, <1>3
<1>5. /\ P[1] = Do("active", r.cell) /\ P[2] = Do("active", r.toCell) /\
         P[3] = With("enough", r.cell, r.amount) /\ P[4] = Do("number", r.cell) /\
         P[5] = Do("insert", r.cell) /\ P[6] = Do("select", r.cell) /\
         P[7] = With("reserve", r.cell, r.amount) /\ P[8] = Do("commit", <<>>)
  BY <1>2, <1>3
<1> HIDE DEF P
<1>6. /\ P[1].op = "active" /\ P[1].cell = r.cell
      /\ P[2].op = "active" /\ P[2].cell = r.toCell
      /\ P[3].op = "enough" /\ P[3].cell = r.cell /\ P[3].amount = r.amount
      /\ P[4].op = "number" /\ P[4].cell = r.cell
      /\ P[5].op = "insert" /\ P[5].cell = r.cell
      /\ P[6].op = "select" /\ P[6].cell = r.cell
      /\ P[7].op = "reserve" /\ P[7].cell = r.cell /\ P[7].amount = r.amount
      /\ P[8].op = "commit"
  BY <1>5, DoFields, WithFields, AccessFields
<1>7. \A j \in 1..8 : j = 1 \/ j = 2 \/ j = 3 \/ j = 4 \/ j = 5 \/ j = 6 \/ j = 7 \/ j = 8
  OBVIOUS
<1>8. \A j \in 1..8 :
        /\ P[j].op = "active" <=> j \in {1, 2}
        /\ P[j].op = "select" <=> j = 6
        /\ P[j].op = "enough" <=> j = 3
        /\ P[j].op = "number" <=> j = 4
        /\ P[j].op = "insert" <=> j = 5
        /\ P[j].op = "reserve" <=> j = 7
        /\ P[j].op = "commit" <=> j = 8
        /\ P[j].op \notin {"load", "empty", "find", "create", "update", "count", "release"}
  BY <1>6, <1>7
<1>9. Ordered(P)
  <2> SUFFICES ASSUME NEW j \in 1..8 PROVE OrderedAt(P, j)
    BY <1>4 DEF Ordered
  <2>1. P[j].op \notin {"commit", "empty"} => P[j].cell \in Cells
    BY <1>1, <1>6, <1>7
  <2>2. P[j].op \in {"reserve", "release", "count"} =>
         j > 1 /\ P[j - 1].op = "select" /\ P[j - 1].cell = P[j].cell /\ P[j].amount \in Nat
    BY <1>1, <1>6, <1>7
  <2>3. P[j].op = "insert" => j > 1 /\ P[j - 1].op = "number"
    BY <1>6, <1>7
  <2> QED
    BY <1>4, <1>8, <2>1, <2>2, <2>3 DEF OrderedAt
<1>10. Simple(P)
  BY <1>1, <1>4, <1>6, <1>8, SMTT(60) DEF Simple
<1>11. Serves(P, r, t)
  <2>1. Dues(r, t) = {}
    BY <1>1 DEF Dues
  <2>2. ~ Releases(r, t)
    BY DEF Releases
  <2> QED
    BY <1>1, <1>4, <1>6, <1>8, <2>1, <2>2 DEF Serves, Creating
<1>12. Suits(P, r)
  BY <1>4, <1>6, <1>8 DEF Suits, Creating, Settling
<1>13. Subject(r, db.txns) = t
  BY DEF Subject, Settling
<1> QED
  BY <1>4, <1>9, <1>10, <1>11, <1>12, <1>13 DEF Plan, P

\* The parts of a receipt, one after the other.
LEMMA ReceiptParts ==
  ASSUME NEW S, NEW a \in S, NEW b \in S, NEW c \in S, NEW d \in S, NEW e \in S, NEW f \in S,
         NEW g \in S, NEW h \in S, NEW i \in S, NEW j \in S,
         NEW u, u = <<b, c>> \o <<d>>, NEW v, v = <<e, f>> \o <<g>>,
         NEW w, w = u \o v, NEW x, x = w \o <<h, i>>, NEW y, y = <<a>> \o x,
         NEW P, P = y \o <<j>>
  PROVE  /\ P \in Seq(S) /\ Len(P) = 10
         /\ P[1] = a /\ P[2] = b /\ P[3] = c /\ P[4] = d /\ P[5] = e /\ P[6] = f /\ P[7] = g
         /\ P[8] = h /\ P[9] = i /\ P[10] = j
<1>1. u \in Seq(S) /\ Len(u) = 3 /\ u[1] = b /\ u[2] = c /\ u[3] = d
  OBVIOUS
<1>2. v \in Seq(S) /\ Len(v) = 3 /\ v[1] = e /\ v[2] = f /\ v[3] = g
  OBVIOUS
<1>3. /\ <<a>> \in Seq(S) /\ <<j>> \in Seq(S) /\ <<h, i>> \in Seq(S)
      /\ Len(<<a>>) = 1 /\ Len(<<j>>) = 1 /\ Len(<<h, i>>) = 2
  OBVIOUS
<1>4. /\ w \in Seq(S) /\ Len(w) = 6
      /\ \A k \in 1..6 : w[k] = IF k <= 3 THEN u[k] ELSE v[k - 3]
  BY <1>1, <1>2
<1>5. /\ x \in Seq(S) /\ Len(x) = 8
      /\ \A k \in 1..8 : x[k] = IF k <= 6 THEN w[k] ELSE <<h, i>>[k - 6]
  BY <1>3, <1>4
<1>6. /\ y \in Seq(S) /\ Len(y) = 9
      /\ \A k \in 1..9 : y[k] = IF k <= 1 THEN <<a>>[k] ELSE x[k - 1]
  BY <1>3, <1>5
<1>7. /\ P \in Seq(S) /\ Len(P) = 10
      /\ \A k \in 1..10 : P[k] = IF k <= 9 THEN y[k] ELSE <<j>>[k - 9]
  BY <1>3, <1>6
<1>8. P[1] = a /\ P[2] = b /\ P[3] = c /\ P[4] = d
  BY <1>1, <1>4, <1>5, <1>6, <1>7
<1>9. P[5] = e /\ P[6] = f /\ P[7] = g
  BY <1>2, <1>4, <1>5, <1>6, <1>7
<1>10. P[8] = h /\ P[9] = i /\ P[10] = j
  BY <1>5, <1>6, <1>7
<1> QED
  BY <1>7, <1>8, <1>9, <1>10

\* ReceiptParts without its names.
LEMMA ReceiptJoined ==
  ASSUME NEW S, NEW a \in S, NEW b \in S, NEW c \in S, NEW d \in S, NEW e \in S, NEW f \in S,
         NEW g \in S, NEW h \in S, NEW i \in S, NEW j \in S, NEW P,
         P = (<<a>> \o (((<<b, c>> \o <<d>>) \o (<<e, f>> \o <<g>>)) \o <<h, i>>)) \o <<j>>
  PROVE  /\ P \in Seq(S) /\ Len(P) = 10
         /\ P[1] = a /\ P[2] = b /\ P[3] = c /\ P[4] = d /\ P[5] = e /\ P[6] = f /\ P[7] = g
         /\ P[8] = h /\ P[9] = i /\ P[10] = j
<1>1. PICK u : u = <<b, c>> \o <<d>>
  OBVIOUS
<1>2. PICK v : v = <<e, f>> \o <<g>>
  OBVIOUS
<1>3. PICK w : w = u \o v
  OBVIOUS
<1>4. PICK x : x = w \o <<h, i>>
  OBVIOUS
<1>5. PICK y : y = <<a>> \o x
  OBVIOUS
<1>6. P = y \o <<j>>
  BY <1>1, <1>2, <1>3, <1>4, <1>5
<1> QED
  BY <1>1, <1>2, <1>3, <1>4, <1>5, <1>6, ReceiptParts

\* complete_transfer debits, credits, then releases.
LEMMA ReceivePlan ==
  ASSUME NEW r \in Served, r.kind = "receive", Sound(db.txns[r.txn])
  PROVE  Plan(Program(r), r, Subject(r, db.txns))
<1> DEFINE P == Program(r)
           t == db.txns[r.txn]
<1>1. t.cell \in Cells /\ t.toCell \in Cells /\ t.amount \in Nat /\ t.amount \in Int
        /\ -t.amount \in Int
      /\ Ledger!Reversal(t) \in Int /\ (t.type = "transfer" => t.cell # t.toCell)
  BY DEF Sound, Ledger!Transactions, Ledger!Cells, Cells, Ledger!Reversal
<1>2. P = ((<<Do("load", t.cell)>> \o (((<<Do("find", t.cell), Do("create", t.cell)>> \o
          <<Access("update", t.cell, -t.amount, "transfer_out")>>) \o
          (<<Do("find", t.toCell), Do("create", t.toCell)>> \o
          <<Access("update", t.toCell, t.amount, "transfer_in")>>)) \o
          <<Do("select", t.cell), With("release", t.cell, t.amount)>>)) \o
          <<Do("commit", <<>>)>>)
  <2>1. Settlement(r)
          = (<<Do("load", t.cell)>> \o (((<<Do("find", t.cell), Do("create", t.cell)>> \o
          <<Access("update", t.cell, -t.amount, "transfer_out")>>) \o
          (<<Do("find", t.toCell), Do("create", t.toCell)>> \o
          <<Access("update", t.toCell, t.amount, "transfer_in")>>)) \o
          <<Do("select", t.cell), With("release", t.cell, t.amount)>>))
    BY <1>1 DEF Settlement, Update, EnsureRow, Do, Select, With
  <2>2. Program(r) = Settlement(r) \o <<Do("commit", <<>>)>>
    BY DEF Program, Settling, Finish, Do
  <2> QED
    BY <2>1, <2>2
<1>3. /\ Do("load", t.cell) \in Accesses
      /\ Do("find", t.cell) \in Accesses
      /\ Do("create", t.cell) \in Accesses
      /\ Access("update", t.cell, -t.amount, "transfer_out") \in Accesses
      /\ Do("find", t.toCell) \in Accesses
      /\ Do("create", t.toCell) \in Accesses
      /\ Access("update", t.toCell, t.amount, "transfer_in") \in Accesses
      /\ Do("select", t.cell) \in Accesses
      /\ With("release", t.cell, t.amount) \in Accesses
      /\ Do("commit", <<>>) \in Accesses
  <2>1. Do("load", t.cell) \in Accesses
    BY <1>1, DoType DEF Ops
  <2>2. Do("find", t.cell) \in Accesses
    BY <1>1, DoType DEF Ops
  <2>3. Do("create", t.cell) \in Accesses
    BY <1>1, DoType DEF Ops
  <2>4. Access("update", t.cell, -t.amount, "transfer_out") \in Accesses
    BY <1>1, AccessType DEF Ops, Ledger!ChangeTypes
  <2>5. Do("find", t.toCell) \in Accesses
    BY <1>1, DoType DEF Ops
  <2>6. Do("create", t.toCell) \in Accesses
    BY <1>1, DoType DEF Ops
  <2>7. Access("update", t.toCell, t.amount, "transfer_in") \in Accesses
    BY <1>1, AccessType DEF Ops, Ledger!ChangeTypes
  <2>8. Do("select", t.cell) \in Accesses
    BY <1>1, DoType DEF Ops
  <2>9. With("release", t.cell, t.amount) \in Accesses
    BY <1>1, WithType DEF Ops
  <2>10. Do("commit", <<>>) \in Accesses
    BY <1>1, DoType DEF Ops
  <2> QED
    BY <2>1, <2>2, <2>3, <2>4, <2>5, <2>6, <2>7, <2>8, <2>9, <2>10
<1>14. PICK Q : Q = P
  OBVIOUS
<1>15. Q = (<<Do("load", t.cell)>> \o (((<<Do("find", t.cell), Do("create", t.cell)>> \o
          <<Access("update", t.cell, -t.amount, "transfer_out")>>) \o
          (<<Do("find", t.toCell), Do("create", t.toCell)>> \o
          <<Access("update", t.toCell, t.amount, "transfer_in")>>)) \o
          <<Do("select", t.cell), With("release", t.cell, t.amount)>>)) \o
          <<Do("commit", <<>>)>>
  BY <1>2, <1>14
<1> HIDE DEF P
<1>16. /\ Q \in Seq(Accesses) /\ Len(Q) = 10
       /\ Q[1] = Do("load", t.cell) /\ Q[2] = Do("find", t.cell) /\ Q[3] = Do("create", t.cell)
       /\ Q[4] = Access("update", t.cell, -t.amount, "transfer_out")
       /\ Q[5] = Do("find", t.toCell) /\ Q[6] = Do("create", t.toCell)
       /\ Q[7] = Access("update", t.toCell, t.amount, "transfer_in")
       /\ Q[8] = Do("select", t.cell) /\ Q[9] = With("release", t.cell, t.amount)
       /\ Q[10] = Do("commit", <<>>)
  <2> DEFINE a == Do("load", t.cell)
             b == Do("find", t.cell)
             c == Do("create", t.cell)
             d == Access("update", t.cell, -t.amount, "transfer_out")
             e == Do("find", t.toCell)
             f == Do("create", t.toCell)
             g == Access("update", t.toCell, t.amount, "transfer_in")
             h == Do("select", t.cell)
             i == With("release", t.cell, t.amount)
             j == Do("commit", <<>>)
  <2>1. /\ a \in Accesses /\ b \in Accesses /\ c \in Accesses /\ d \in Accesses
        /\ e \in Accesses /\ f \in Accesses /\ g \in Accesses /\ h \in Accesses
        /\ i \in Accesses /\ j \in Accesses
    BY <1>3
  <2>2. Q = (<<a>> \o (((<<b, c>> \o <<d>>) \o (<<e, f>> \o <<g>>)) \o <<h, i>>)) \o <<j>>
    BY <1>15
  <2> HIDE DEF a, b, c, d, e, f, g, h, i, j
  <2>3. /\ Q \in Seq(Accesses) /\ Len(Q) = 10
        /\ Q[1] = a /\ Q[2] = b /\ Q[3] = c /\ Q[4] = d /\ Q[5] = e /\ Q[6] = f /\ Q[7] = g
        /\ Q[8] = h /\ Q[9] = i /\ Q[10] = j
    BY <2>1, <2>2, ReceiptJoined, SMTT(60)
  <2> QED
    BY <2>3 DEF a, b, c, d, e, f, g, h, i, j
<1>4. P \in Seq(Accesses) /\ Len(P) = 10
  BY <1>14, <1>16
<1>5. /\ P[1] = Do("load", t.cell) /\ P[2] = Do("find", t.cell) /\ P[3] = Do("create", t.cell)
      /\ P[4] = Access("update", t.cell, -t.amount, "transfer_out")
      /\ P[5] = Do("find", t.toCell) /\ P[6] = Do("create", t.toCell)
      /\ P[7] = Access("update", t.toCell, t.amount, "transfer_in")
      /\ P[8] = Do("select", t.cell) /\ P[9] = With("release", t.cell, t.amount)
      /\ P[10] = Do("commit", <<>>)
  BY <1>14, <1>16
<1>6. /\ P[1].op = "load" /\ P[1].cell = t.cell
      /\ P[2].op = "find" /\ P[2].cell = t.cell
      /\ P[3].op = "create" /\ P[3].cell = t.cell
      /\ P[4].op = "update" /\ P[4].cell = t.cell /\ P[4].amount = -t.amount
           /\ P[4].change = "transfer_out"
      /\ P[5].op = "find" /\ P[5].cell = t.toCell
      /\ P[6].op = "create" /\ P[6].cell = t.toCell
      /\ P[7].op = "update" /\ P[7].cell = t.toCell /\ P[7].amount = t.amount
           /\ P[7].change = "transfer_in"
      /\ P[8].op = "select" /\ P[8].cell = t.cell
      /\ P[9].op = "release" /\ P[9].cell = t.cell /\ P[9].amount = t.amount
      /\ P[10].op = "commit"
  BY <1>5, DoFields, WithFields, AccessFields, SMTT(60)
<1>7. \A j \in 1..10 : j = 1 \/ j = 2 \/ j = 3 \/ j = 4 \/ j = 5 \/ j = 6 \/ j = 7 \/ j = 8
        \/ j = 9 \/ j = 10
  OBVIOUS
<1>8. \A j \in 1..10 :
        /\ P[j].op = "load" <=> j = 1
        /\ P[j].op = "find" <=> j \in {2, 5}
        /\ P[j].op = "create" <=> j \in {3, 6}
        /\ P[j].op = "select" <=> j = 8
        /\ P[j].op = "update" <=> j \in {4, 7}
        /\ P[j].op = "release" <=> j = 9
        /\ P[j].op = "commit" <=> j = 10
        /\ P[j].op \notin {"active", "empty", "enough", "number", "insert", "count", "reserve"}
  BY <1>6, <1>7
<1>9. Ordered(P)
  <2> SUFFICES ASSUME NEW j \in 1..10 PROVE OrderedAt(P, j)
    BY <1>4 DEF Ordered
  <2>1. P[j].op \notin {"commit", "empty"} => P[j].cell \in Cells
    BY <1>1, <1>6, <1>7
  <2>2. P[j].op = "find" => P[j + 1].op = "create" /\ P[j + 1].cell = P[j].cell /\ j + 1 < 10
    BY <1>6, <1>7
  <2>3. P[j].op = "create" =>
         /\ j > 1 /\ P[j - 1].op = "find" /\ P[j - 1].cell = P[j].cell
         /\ P[j + 1].op = "number" \/ (P[j + 1].op = "update" /\ P[j + 1].cell = P[j].cell)
    BY <1>6, <1>7
  <2>4. P[j].op = "update" =>
         /\ j > 1 /\ P[j - 1].op = "create" /\ P[j - 1].cell = P[j].cell
         /\ P[j].change \in Ledger!ChangeTypes
    BY <1>6, <1>7 DEF Ledger!ChangeTypes
  <2>5. P[j].op \in {"reserve", "release", "count"} =>
         j > 1 /\ P[j - 1].op = "select" /\ P[j - 1].cell = P[j].cell /\ P[j].amount \in Nat
    BY <1>1, <1>6, <1>7
  <2> QED
    BY <1>4, <1>8, <2>1, <2>2, <2>3, <2>4, <2>5 DEF OrderedAt
<1>10. t.type = "transfer" => Simple(P)
  <2>1. t.type = "transfer" => \A i, j \in {4, 7} : P[i].cell = P[j].cell => i = j
    BY <1>1, <1>6
  <2>2. \A i, j \in 1..10 : P[i].op = "update" /\ P[j].op \in {"reserve", "release"} => i < j
    BY <1>8
  <2>3. \A i, j \in 1..10 :
          P[i].op \in {"reserve", "release"} /\ P[j].op \in {"reserve", "release"} => i = j
    BY <1>8
  <2> QED
    BY <1>4, <1>8, <2>1, <2>2, <2>3, SMTT(60) DEF Simple
<1>11. Serves(P, r, t)
  <2>1. Dues(r, t) = {<<t.cell, -t.amount, "transfer_out">>,
                    <<t.toCell, t.amount, "transfer_in">>}
    BY <1>1 DEF Dues
  <2>2. Releases(r, t)
    BY DEF Releases
  <2>3. \A j \in 1..10 : P[j].op = "update" =>
          <<P[j].cell, P[j].amount, P[j].change>> \in Dues(r, t)
    BY <1>6, <1>8, <2>1, SMTT(60)
  <2>4. \A d \in Dues(r, t) : \E j \in 1..10 :
          P[j].op = "update" /\ P[j].cell = d[1] /\ P[j].amount = d[2] /\ P[j].change = d[3]
    BY <1>6, <2>1, SMTT(60)
  <2>5. \A j \in 1..10 :
          /\ P[j].op = "release" => P[j].cell = t.cell /\ P[j].amount = t.amount
          /\ P[j].op = "load" => P[j].cell = t.cell
    BY <1>6, <1>8
  <2>6. \E j \in 1..10 : P[j].op = "release"
    BY <1>6
  <2>7. \A j \in 1..10 : P[j].op = "create" =>
          \E i \in 1..10 : P[i].op = "update" /\ P[i].cell = P[j].cell
    BY <1>6, <1>8
  <2>8. /\ r.kind \notin Creating /\ r.kind \notin {"transfer", "expense", "exchange"}
        /\ r.kind # "reconcile" /\ r.kind # "delete"
    BY DEF Creating
  <2>9. \A j \in 1..10 : P[j].op \notin {"reserve", "empty", "count"}
    BY <1>8
  <2>10. \A j \in 1..10 :
           /\ P[j].op = "reserve" =>
                r.kind = "transfer" /\ P[j].cell = t.cell /\ P[j].amount = t.amount
           /\ P[j].op = "release" =>
                Releases(r, t) /\ P[j].cell = t.cell /\ P[j].amount = t.amount
           /\ P[j].op = "load" => P[j].cell = t.cell
           /\ P[j].op = "empty" => r.kind = "delete" /\ P[j].cell = r.branch
           /\ P[j].op = "count" => P[j].cell = r.cell /\ P[j].amount = r.count
    BY <2>2, <2>5, <2>9
  <2>11. /\ r.kind \in Creating => \E j \in 1..Len(P) : P[j].op = "insert"
         /\ r.kind = "transfer" => \E j \in 1..Len(P) : P[j].op = "reserve"
         /\ r.kind \in Creating => \E j \in 1..Len(P) : P[j].op = "active" /\ P[j].cell = t.cell
         /\ r.kind = "transfer" =>
              \E j \in 1..Len(P) : P[j].op = "active" /\ P[j].cell = t.toCell
         /\ r.kind \in {"expense", "exchange", "transfer"} =>
              \E j \in 1..Len(P) : P[j].op = "enough" /\ P[j].cell = t.cell
         /\ r.kind = "reconcile" => \E j \in 1..Len(P) : P[j].op = "count"
         /\ r.kind = "delete" => \E j \in 1..Len(P) : P[j].op = "empty"
    BY <2>8
  <2>12. /\ \A j \in 1..Len(P) :
              P[j].op = "update" => <<P[j].cell, P[j].amount, P[j].change>> \in Dues(r, t)
         /\ \A d \in Dues(r, t) : \E j \in 1..Len(P) :
              P[j].op = "update" /\ P[j].cell = d[1] /\ P[j].amount = d[2] /\ P[j].change = d[3]
    BY <1>4, <2>3, <2>4
  <2>13. \A j \in 1..Len(P) : P[j].op = "create" =>
           \E i \in 1..Len(P) : P[i].op = "update" /\ P[i].cell = P[j].cell
    BY <1>4, <2>7
  <2>14. Releases(r, t) => \E j \in 1..Len(P) : P[j].op = "release"
    BY <1>4, <2>6
  <2>15. Len(P) = 10
    BY <1>4
  <2> HIDE DEF P, t
  <2> QED
    BY <2>10, <2>11, <2>12, <2>13, <2>14, <2>15 DEF Serves
<1>12. Suits(P, r)
  BY <1>4, <1>6, <1>8 DEF Suits, Creating, Settling
<1>13. Subject(r, db.txns) = t
  BY DEF Subject, Settling
<1> QED
  BY <1>4, <1>9, <1>10, <1>11, <1>12, <1>13 DEF Plan, P

\* approve_expense moves no money.
LEMMA ApprovePlan ==
  ASSUME NEW r \in Served, r.kind = "approve", Sound(db.txns[r.txn])
  PROVE  Plan(Program(r), r, Subject(r, db.txns))
<1> DEFINE P == Program(r)
           t == db.txns[r.txn]
<1>1. t.cell \in Cells /\ t.toCell \in Cells /\ t.amount \in Nat /\ t.amount \in Int
        /\ -t.amount \in Int
      /\ Ledger!Reversal(t) \in Int /\ (t.type = "transfer" => t.cell # t.toCell)
  BY DEF Sound, Ledger!Transactions, Ledger!Cells, Cells, Ledger!Reversal
<1>2. P = ((<<Do("load", t.cell)>> \o <<>>) \o <<Do("commit", <<>>)>>)
  <2>1. Settlement(r) = (<<Do("load", t.cell)>> \o <<>>)
    BY <1>1 DEF Settlement, Update, EnsureRow, Do
  <2>2. Program(r) = Settlement(r) \o <<Do("commit", <<>>)>>
    BY DEF Program, Settling, Finish, Do
  <2> QED
    BY <2>1, <2>2
<1>3. /\ Do("load", t.cell) \in Accesses
      /\ Do("commit", <<>>) \in Accesses
  <2>1. Do("load", t.cell) \in Accesses
    BY <1>1, DoType DEF Ops
  <2>2. Do("commit", <<>>) \in Accesses
    BY <1>1, DoType DEF Ops
  <2> QED
    BY <2>1, <2>2
<1>4. P \in Seq(Accesses) /\ Len(P) = 2
  BY <1>2, <1>3
<1>5. /\ P[1] = Do("load", t.cell) /\ P[2] = Do("commit", <<>>)
  BY <1>2, <1>3
<1> HIDE DEF P
<1>6. /\ P[1].op = "load" /\ P[1].cell = t.cell
      /\ P[2].op = "commit"
  BY <1>5, DoFields, WithFields, AccessFields
<1>7. \A j \in 1..2 : j = 1 \/ j = 2
  OBVIOUS
<1>8. \A j \in 1..2 :
        /\ P[j].op = "load" <=> j = 1
        /\ P[j].op = "commit" <=> j = 2
        /\ P[j].op \notin {"active", "empty", "find", "create", "select", "enough", "number",
                        "insert", "update", "count", "reserve", "release"}
  BY <1>6, <1>7
<1>9. Ordered(P)
  <2> SUFFICES ASSUME NEW j \in 1..2 PROVE OrderedAt(P, j)
    BY <1>4 DEF Ordered
  <2>1. P[j].op \notin {"commit", "empty"} => P[j].cell \in Cells
    BY <1>1, <1>6, <1>7
  <2> QED
    BY <1>4, <1>8, <2>1 DEF OrderedAt
<1>10. Simple(P)
  BY <1>1, <1>4, <1>6, <1>8 DEF Simple
<1>11. Serves(P, r, t)
  <2>1. Dues(r, t) = {}
    BY <1>1 DEF Dues
  <2>2. ~ Releases(r, t)
    BY DEF Releases
  <2> QED
    BY <1>1, <1>4, <1>6, <1>8, <2>1, <2>2 DEF Serves, Creating
<1>12. Suits(P, r)
  BY <1>4, <1>6, <1>8 DEF Suits, Creating, Settling
<1>13. Subject(r, db.txns) = t
  BY DEF Subject, Settling
<1> QED
  BY <1>4, <1>9, <1>10, <1>11, <1>12, <1>13 DEF Plan, P

\* Cancelling a transfer gives back its reservation.
LEMMA CancelTransferPlan ==
  ASSUME NEW r \in Served, r.kind = "cancel", db.txns[r.txn].type = "transfer",
           Sound(db.txns[r.txn])
  PROVE  Plan(Program(r), r, Subject(r, db.txns))
<1> DEFINE P == Program(r)
           t == db.txns[r.txn]
<1>1. t.cell \in Cells /\ t.toCell \in Cells /\ t.amount \in Nat /\ t.amount \in Int
        /\ -t.amount \in Int
      /\ Ledger!Reversal(t) \in Int /\ (t.type = "transfer" => t.cell # t.toCell)
  BY DEF Sound, Ledger!Transactions, Ledger!Cells, Cells, Ledger!Reversal
<1>2. P = ((<<Do("load", t.cell)>> \o
          <<Do("select", t.cell), With("release", t.cell, t.amount)>>) \o
          <<Do("commit", <<>>)>>)
  <2>1. Settlement(r) = (<<Do("load", t.cell)>> \o
          <<Do("select", t.cell), With("release", t.cell, t.amount)>>)
    BY <1>1 DEF Settlement, Update, EnsureRow, Do, Undo, Select, With
  <2>2. Program(r) = Settlement(r) \o <<Do("commit", <<>>)>>
    BY DEF Program, Settling, Finish, Do
  <2> QED
    BY <2>1, <2>2
<1>3. /\ Do("load", t.cell) \in Accesses
      /\ Do("select", t.cell) \in Accesses
      /\ With("release", t.cell, t.amount) \in Accesses
      /\ Do("commit", <<>>) \in Accesses
  <2>1. Do("load", t.cell) \in Accesses
    BY <1>1, DoType DEF Ops
  <2>2. Do("select", t.cell) \in Accesses
    BY <1>1, DoType DEF Ops
  <2>3. With("release", t.cell, t.amount) \in Accesses
    BY <1>1, WithType DEF Ops
  <2>4. Do("commit", <<>>) \in Accesses
    BY <1>1, DoType DEF Ops
  <2> QED
    BY <2>1, <2>2, <2>3, <2>4
<1>4. P \in Seq(Accesses) /\ Len(P) = 4
  BY <1>2, <1>3
<1>5. /\ P[1] = Do("load", t.cell) /\ P[2] = Do("select", t.cell) /\
         P[3] = With("release", t.cell, t.amount) /\ P[4] = Do("commit", <<>>)
  BY <1>2, <1>3
<1> HIDE DEF P
<1>6. /\ P[1].op = "load" /\ P[1].cell = t.cell
      /\ P[2].op = "select" /\ P[2].cell = t.cell
      /\ P[3].op = "release" /\ P[3].cell = t.cell /\ P[3].amount = t.amount
      /\ P[4].op = "commit"
  BY <1>5, DoFields, WithFields, AccessFields
<1>7. \A j \in 1..4 : j = 1 \/ j = 2 \/ j = 3 \/ j = 4
  OBVIOUS
<1>8. \A j \in 1..4 :
        /\ P[j].op = "load" <=> j = 1
        /\ P[j].op = "select" <=> j = 2
        /\ P[j].op = "release" <=> j = 3
        /\ P[j].op = "commit" <=> j = 4
        /\ P[j].op \notin {"active", "empty", "find", "create", "enough", "number", "insert",
                        "update", "count", "reserve"}
  BY <1>6, <1>7
<1>9. Ordered(P)
  <2> SUFFICES ASSUME NEW j \in 1..4 PROVE OrderedAt(P, j)
    BY <1>4 DEF Ordered
  <2>1. P[j].op \notin {"commit", "empty"} => P[j].cell \in Cells
    BY <1>1, <1>6, <1>7
  <2>2. P[j].op \in {"reserve", "release", "count"} =>
         j > 1 /\ P[j - 1].op = "select" /\ P[j - 1].cell = P[j].cell /\ P[j].amount \in Nat
    BY <1>1, <1>6, <1>7
  <2> QED
    BY <1>4, <1>8, <2>1, <2>2 DEF OrderedAt
<1>10. Simple(P)
  BY <1>1, <1>4, <1>6, <1>8 DEF Simple
<1>11. Serves(P, r, t)
  <2>1. Dues(r, t) = {}
    BY <1>1 DEF Dues
  <2>2. Releases(r, t)
    BY DEF Releases
  <2> QED
    BY <1>1, <1>4, <1>6, <1>8, <2>1, <2>2, SMTT(60) DEF Serves, Creating
<1>12. Suits(P, r)
  BY <1>4, <1>6, <1>8 DEF Suits, Creating, Settling
<1>13. Subject(r, db.txns) = t
  BY DEF Subject, Settling
<1> QED
  BY <1>4, <1>9, <1>10, <1>11, <1>12, <1>13 DEF Plan, P

\* Cancelling an income or an expense posts its reversal.
LEMMA CancelOtherPlan ==
  ASSUME NEW r \in Served, r.kind = "cancel", db.txns[r.txn].type # "transfer",
           Sound(db.txns[r.txn])
  PROVE  Plan(Program(r), r, Subject(r, db.txns))
<1> DEFINE P == Program(r)
           t == db.txns[r.txn]
<1>1. t.cell \in Cells /\ t.toCell \in Cells /\ t.amount \in Nat /\ t.amount \in Int
        /\ -t.amount \in Int
      /\ Ledger!Reversal(t) \in Int /\ (t.type = "transfer" => t.cell # t.toCell)
  BY DEF Sound, Ledger!Transactions, Ledger!Cells, Cells, Ledger!Reversal
<1>2. P = ((<<Do("load", t.cell)>> \o (<<Do("find", t.cell), Do("create", t.cell)>> \o
          <<Access("update", t.cell, Ledger!Reversal(t), "adjustment")>>)) \o
          <<Do("commit", <<>>)>>)
  <2>1. Settlement(r) = (<<Do("load", t.cell)>> \o (<<Do("find", t.cell), Do("create", t.cell)>> \o
          <<Access("update", t.cell, Ledger!Reversal(t), "adjustment")>>))
    BY <1>1 DEF Settlement, Update, EnsureRow, Do, Undo
  <2>2. Program(r) = Settlement(r) \o <<Do("commit", <<>>)>>
    BY DEF Program, Settling, Finish, Do
  <2> QED
    BY <2>1, <2>2
<1>3. /\ Do("load", t.cell) \in Accesses
      /\ Do("find", t.cell) \in Accesses
      /\ Do("create", t.cell) \in Accesses
      /\ Access("update", t.cell, Ledger!Reversal(t), "adjustment") \in Accesses
      /\ Do("commit", <<>>) \in Accesses
  <2>1. Do("load", t.cell) \in Accesses
    BY <1>1, DoType DEF Ops
  <2>2. Do("find", t.cell) \in Accesses
    BY <1>1, DoType DEF Ops
  <2>3. Do("create", t.cell) \in Accesses
    BY <1>1, DoType DEF Ops
  <2>4. Access("update", t.cell, Ledger!Reversal(t), "adjustment") \in Accesses
    BY <1>1, AccessType DEF Ops, Ledger!ChangeTypes
  <2>5. Do("commit", <<>>) \in Accesses
    BY <1>1, DoType DEF Ops
  <2> QED
    BY <2>1, <2>2, <2>3, <2>4, <2>5
<1>4. P \in Seq(Accesses) /\ Len(P) = 5
  BY <1>2, <1>3
<1>5. /\ P[1] = Do("load", t.cell) /\ P[2] = Do("find", t.cell) /\ P[3] = Do("create", t.cell) /\
         P[4] = Access("update", t.cell, Ledger!Reversal(t), "adjustment") /\
         P[5] = Do("commit", <<>>)
  BY <1>2, <1>3
<1> HIDE DEF P
<1>6. /\ P[1].op = "load" /\ P[1].cell = t.cell
      /\ P[2].op = "find" /\ P[2].cell = t.cell
      /\ P[3].op = "create" /\ P[3].cell = t.cell
      /\ P[4].op = "update" /\ P[4].cell = t.cell /\ P[4].amount = Ledger!Reversal(t)
           /\ P[4].change = "adjustment"
      /\ P[5].op = "commit"
  BY <1>5, DoFields, WithFields, AccessFields
<1>7. \A j \in 1..5 : j = 1 \/ j = 2 \/ j = 3 \/ j = 4 \/ j = 5
  OBVIOUS
<1>8. \A j \in 1..5 :
        /\ P[j].op = "load" <=> j = 1
        /\ P[j].op = "find" <=> j = 2
        /\ P[j].op = "create" <=> j = 3
        /\ P[j].op = "update" <=> j = 4
        /\ P[j].op = "commit" <=> j = 5
        /\ P[j].op \notin {"active", "empty", "select", "enough", "number", "insert", "count",
                        "reserve", "release"}
  BY <1>6, <1>7
<1>9. Ordered(P)
  <2> SUFFICES ASSUME NEW j \in 1..5 PROVE OrderedAt(P, j)
    BY <1>4 DEF Ordered
  <2>1. P[j].op \notin {"commit", "empty"} => P[j].cell \in Cells
    BY <1>1, <1>6, <1>7
  <2>2. P[j].op = "find" => P[j + 1].op = "create" /\ P[j + 1].cell = P[j].cell /\ j + 1 < 5
    BY <1>6, <1>7
  <2>3. P[j].op = "create" =>
         /\ j > 1 /\ P[j - 1].op = "find" /\ P[j - 1].cell = P[j].cell
         /\ P[j + 1].op = "number" \/ (P[j + 1].op = "update" /\ P[j + 1].cell = P[j].cell)
    BY <1>6, <1>7
  <2>4. P[j].op = "update" =>
         /\ j > 1 /\ P[j - 1].op = "create" /\ P[j - 1].cell = P[j].cell
         /\ P[j].change \in Ledger!ChangeTypes
    BY <1>6, <1>7 DEF Ledger!ChangeTypes
  <2> QED
    BY <1>4, <1>8, <2>1, <2>2, <2>3, <2>4 DEF OrderedAt
<1>10. Simple(P)
  BY <1>1, <1>4, <1>6, <1>8 DEF Simple
<1>11. Serves(P, r, t)
  <2>1. Dues(r, t) = {<<t.cell, Ledger!Reversal(t), "adjustment">>}
    BY <1>1 DEF Dues
  <2>2. ~ Releases(r, t)
    BY DEF Releases
  <2> QED
    BY <1>1, <1>4, <1>6, <1>8, <2>1, <2>2, SMTT(60) DEF Serves, Creating
<1>12. Suits(P, r)
  BY <1>4, <1>6, <1>8 DEF Suits, Creating, Settling
<1>13. Subject(r, db.txns) = t
  BY DEF Subject, Settling
<1> QED
  BY <1>4, <1>9, <1>10, <1>11, <1>12, <1>13 DEF Plan, P

\* reconcile_branch_balance posts the difference from the count.
LEMMA ReconcilePlan ==
  ASSUME NEW r \in Served, r.kind = "reconcile"
  PROVE  Plan(Program(r), r, Subject(r, db.txns))
<1> DEFINE P == Program(r)
           t == RowOf(r)
<1>1. r.cell \in Cells /\ r.count \in Nat /\ r.count \in Int
  BY ServedFacts
<1>2. P = (<<Do("select", r.cell), Access("count", r.cell, r.count, "reconciliation")>> \o
          <<Do("commit", <<>>)>>)
  BY DEF Program, Settling, Finish, Do, Select
<1>3. /\ Do("select", r.cell) \in Accesses
      /\ Access("count", r.cell, r.count, "reconciliation") \in Accesses
      /\ Do("commit", <<>>) \in Accesses
  <2>1. Do("select", r.cell) \in Accesses
    BY <1>1, DoType DEF Ops
  <2>2. Access("count", r.cell, r.count, "reconciliation") \in Accesses
    BY <1>1, AccessType DEF Ops, Ledger!ChangeTypes
  <2>3. Do("commit", <<>>) \in Accesses
    BY <1>1, DoType DEF Ops
  <2> QED
    BY <2>1, <2>2, <2>3
<1>4. P \in Seq(Accesses) /\ Len(P) = 3
  BY <1>2, <1>3
<1>5. /\ P[1] = Do("select", r.cell) /\
         P[2] = Access("count", r.cell, r.count, "reconciliation") /\ P[3] = Do("commit", <<>>)
  BY <1>2, <1>3
<1> HIDE DEF P
<1>6. /\ P[1].op = "select" /\ P[1].cell = r.cell
      /\ P[2].op = "count" /\ P[2].cell = r.cell /\ P[2].amount = r.count
           /\ P[2].change = "reconciliation"
      /\ P[3].op = "commit"
  BY <1>5, DoFields, WithFields, AccessFields
<1>7. \A j \in 1..3 : j = 1 \/ j = 2 \/ j = 3
  OBVIOUS
<1>8. \A j \in 1..3 :
        /\ P[j].op = "select" <=> j = 1
        /\ P[j].op = "count" <=> j = 2
        /\ P[j].op = "commit" <=> j = 3
        /\ P[j].op \notin {"load", "active", "empty", "find", "create", "enough", "number",
                        "insert", "update", "reserve", "release"}
  BY <1>6, <1>7
<1>9. Ordered(P)
  <2> SUFFICES ASSUME NEW j \in 1..3 PROVE OrderedAt(P, j)
    BY <1>4 DEF Ordered
  <2>1. P[j].op \notin {"commit", "empty"} => P[j].cell \in Cells
    BY <1>1, <1>6, <1>7
  <2>2. P[j].op \in {"reserve", "release", "count"} =>
         j > 1 /\ P[j - 1].op = "select" /\ P[j - 1].cell = P[j].cell /\ P[j].amount \in Nat
    BY <1>1, <1>6, <1>7
  <2>3. P[j].op = "count" => P[j].change \in Ledger!ChangeTypes
    BY <1>6, <1>7 DEF Ledger!ChangeTypes
  <2> QED
    BY <1>4, <1>8, <2>1, <2>2, <2>3 DEF OrderedAt
<1>10. Simple(P)
  BY <1>1, <1>4, <1>6, <1>8 DEF Simple
<1>11. Serves(P, r, t)
  <2>1. Dues(r, t) = {}
    BY <1>1 DEF Dues
  <2>2. ~ Releases(r, t)
    BY DEF Releases
  <2> QED
    BY <1>1, <1>4, <1>6, <1>8, <2>1, <2>2 DEF Serves, Creating
<1>12. Suits(P, r)
  BY <1>4, <1>6, <1>8 DEF Suits, Creating, Settling
<1>13. Subject(r, db.txns) = t
  BY DEF Subject, Settling
<1> QED
  BY <1>4, <1>9, <1>10, <1>11, <1>12, <1>13 DEF Plan, P

\* delete_branch only looks at the balances.
LEMMA DeletePlan ==
  ASSUME NEW r \in Served, r.kind = "delete"
  PROVE  Plan(Program(r), r, Subject(r, db.txns))
<1> DEFINE P == Program(r)
           t == RowOf(r)
<1>1. r.branch \in Branches
  BY ServedFacts
<1>2. P = (<<Do("empty", r.branch)>> \o <<Do("commit", <<>>)>>)
  BY DEF Program, Settling, Finish, Do
<1>3. /\ Do("empty", r.branch) \in Accesses
      /\ Do("commit", <<>>) \in Accesses
  <2>1. Do("empty", r.branch) \in Accesses
    BY <1>1, DoType DEF Ops
  <2>2. Do("commit", <<>>) \in Accesses
    BY <1>1, DoType DEF Ops
  <2> QED
    BY <2>1, <2>2
<1>4. P \in Seq(Accesses) /\ Len(P) = 2
  BY <1>2, <1>3
<1>5. /\ P[1] = Do("empty", r.branch) /\ P[2] = Do("commit", <<>>)
  BY <1>2, <1>3
<1> HIDE DEF P
<1>6. /\ P[1].op = "empty" /\ P[1].cell = r.branch
      /\ P[2].op = "commit"
  BY <1>5, DoFields, WithFields, AccessFields
<1>7. \A j \in 1..2 : j = 1 \/ j = 2
  OBVIOUS
<1>8. \A j \in 1..2 :
        /\ P[j].op = "empty" <=> j = 1
        /\ P[j].op = "commit" <=> j = 2
        /\ P[j].op \notin {"load", "active", "find", "create", "select", "enough", "number",
                        "insert", "update", "count", "reserve", "release"}
  BY <1>6, <1>7
<1>9. Ordered(P)
  <2> SUFFICES ASSUME NEW j \in 1..2 PROVE OrderedAt(P, j)
    BY <1>4 DEF Ordered
  <2> QED
    BY <1>4, <1>8 DEF OrderedAt
<1>10. Simple(P)
  BY <1>1, <1>4, <1>6, <1>8 DEF Simple
<1>11. Serves(P, r, t)
  <2>1. Dues(r, t) = {}
    BY <1>1 DEF Dues
  <2>2. ~ Releases(r, t)
    BY DEF Releases
  <2> QED
    BY <1>1, <1>4, <1>6, <1>8, <2>1, <2>2 DEF Serves, Creating
<1>12. Suits(P, r)
  BY <1>4, <1>6, <1>8 DEF Suits, Creating, Settling
<1>13. Subject(r, db.txns) = t
  BY DEF Subject, Settling
<1> QED
  BY <1>4, <1>9, <1>10, <1>11, <1>12, <1>13 DEF Plan, P

\* update_branch looks at nothing.
LEMMA SetActivePlan ==
  ASSUME NEW r \in Served, r.kind \in {"open", "close"}
  PROVE  Plan(Program(r), r, Subject(r, db.txns))
<1> DEFINE P == Program(r)
           t == RowOf(r)
<1>1. r.kind \in {"open", "close"}
  OBVIOUS
<1>2. P = <<Do("commit", <<>>)>>
  BY DEF Program, Settling, Finish, Do
<1>3. /\ Do("commit", <<>>) \in Accesses
  <2>1. Do("commit", <<>>) \in Accesses
    BY <1>1, DoType DEF Ops
  <2> QED
    BY <2>1
<1>4. P \in Seq(Accesses) /\ Len(P) = 1
  BY <1>2, <1>3
<1>5. /\ P[1] = Do("commit", <<>>)
  BY <1>2, <1>3
<1> HIDE DEF P
<1>6. /\ P[1].op = "commit"
  BY <1>5, DoFields, WithFields, AccessFields
<1>7. \A j \in 1..1 : j = 1
  OBVIOUS
<1>8. \A j \in 1..1 :
        /\ P[j].op = "commit" <=> j = 1
        /\ P[j].op \notin {"load", "active", "empty", "find", "create", "select", "enough",
                        "number", "insert", "update", "count", "reserve", "release"}
  BY <1>6, <1>7
<1>9. Ordered(P)
  BY <1>4, <1>6, <1>7, <1>8 DEF Ordered, OrderedAt
<1>10. Simple(P)
  BY <1>1, <1>4, <1>6, <1>8 DEF Simple
<1>11. Serves(P, r, t)
  <2>1. Dues(r, t) = {}
    BY <1>1 DEF Dues
  <2>2. ~ Releases(r, t)
    BY DEF Releases
  <2> QED
    BY <1>1, <1>4, <1>6, <1>8, <2>1, <2>2 DEF Serves, Creating
<1>12. Suits(P, r)
  BY <1>4, <1>6, <1>8 DEF Suits, Creating, Settling
<1>13. Subject(r, db.txns) = t
  BY DEF Subject, Settling
<1> QED
  BY <1>4, <1>9, <1>10, <1>11, <1>12, <1>13 DEF Plan, P

\* Every request has a plan.
LEMMA PlanOf ==
  ASSUME NEW r \in Served, r.kind \in Settling => Sound(db.txns[r.txn])
  PROVE  Plan(Program(r), r, Subject(r, db.txns))
<1>1. CASE r.kind \in Creating
  BY <1>1, IncomePlan, ExpensePlan, ExchangePlan, TransferPlan DEF Creating
<1>2. CASE r.kind \in Settling
  BY <1>2, ReceivePlan, ApprovePlan, CancelTransferPlan, CancelOtherPlan DEF Settling
<1>3. CASE r.kind \in {"reconcile", "delete", "open", "close"}
  BY <1>3, ReconcilePlan, DeletePlan, SetActivePlan
<1> QED
  BY <1>1, <1>2, <1>3, ServedFacts

\* A plan only depends on what a settlement leaves as it is.
LEMMA PlanKept ==
  ASSUME NEW r \in Served,
         r.kind \in Settling =>
           /\ Sound(db.txns[r.txn])
           /\ \A f \in {"type", "cell", "toCell", "amount"} : db'.txns[r.txn][f] = db.txns[r.txn][f]
  PROVE  Program(r)' = Program(r)
<1>1. CASE r.kind \in Settling
  <2> DEFINE t == db.txns[r.txn]
             v == db'.txns[r.txn]
  <2>1. v.type = t.type /\ v.cell = t.cell /\ v.toCell = t.toCell /\ v.amount = t.amount
    BY <1>1
  <2> HIDE DEF t, v
  <2>2. Settlement(r)' = Settlement(r)
    BY <2>1 DEF Settlement, Undo, Ledger!Reversal, t, v
  <2> QED
    BY <1>1, <2>2 DEF Program
<1>2. CASE r.kind \notin Settling
  <2>1. Creation(r)' = Creation(r)
    BY DEF Creation, Checks, Payments, RowOf, Ledger!Income, Ledger!Expense, Ledger!Exchange,
       Ledger!Transfer, Ledger!TotalCost, Ledger!ToAmount
  <2> QED
    BY <1>2, <2>1 DEF Program
<1> QED
  BY <1>1, <1>2

-----------------------------------------------------------------------------
(* From one access of a plan to the next.                                  *)

\* What is trusted of fewer cells is still true.
LEMMA KnowsLess ==
  ASSUME NEW s, NEW P, NEW k, NEW d, NEW old, NEW raced, old \subseteq raced,
         Knows(s, P, k, d, old)
  PROVE  Knows(s, P, k, d, raced)
<1>1. \A x : Trusted(x, raced) => Trusted(x, old)
  BY DEF Trusted
<1>2. KnowsPosts(s, P, k, d, raced)
  BY <1>1 DEF Knows, KnowsPosts
<1>3. KnowsCopy(s, P, k, d, raced)
  BY <1>1 DEF Knows, KnowsCopy
<1>4. KnowsReserved(s, P, k, d, raced)
  BY <1>1 DEF Knows, KnowsReserved
<1>5. KnowsSubject(s, P, k, d, raced)
  BY <1>1 DEF Knows, KnowsSubject
<1> QED
  BY <1>2, <1>3, <1>4, <1>5 DEF Knows

\* A session at access k of its plan has that access at hand.
LEMMA AtHand ==
  ASSUME NEW s, NEW P \in Seq(Accesses), NEW k, NEW d, OnCourse(s, P, k, d)
  PROVE  /\ k \in 1..Len(P) /\ s.todo # <<>> /\ Head(s.todo) = P[k] /\ P[k] \in Accesses
         /\ Tail(s.todo) = SubSeq(P, k + 1, Len(P))
<1>1. k \in 1..Len(P) /\ Len(P) \in k..Len(P) /\ s.todo = SubSeq(P, k, Len(P))
  BY DEF OnCourse
<1>2. Head(s.todo) = P[k] /\ Tail(s.todo) = SubSeq(P, k + 1, Len(P))
  BY <1>1, HeadTailOfSubSeq
<1>3. Len(SubSeq(P, k, Len(P))) = Len(P) - k + 1
  <2>1. \A i \in k..Len(P) : P[i] \in Accesses
    BY <1>1
  <2>2. k \in Int /\ Len(P) \in Int /\ k <= Len(P)
    BY <1>1
  <2>3. Len(SubSeq(P, k, Len(P))) = Len(P) - k + 1
    BY <2>1, <2>2, SubSeqProperties
  <2> QED
    BY <2>3
<1> DEFINE rest == SubSeq(P, k, Len(P))
<1>4. s.todo # <<>>
  <2>1. Len(rest) \in Nat \ {0}
    BY <1>1, <1>3
  <2> HIDE DEF rest
  <2>2. rest # <<>>
    BY <2>1
  <2> QED
    BY <1>1, <2>2 DEF rest
<1> QED
  BY <1>1, <1>2, <1>4

\* The session goes on with its request.
Goes(s, u) ==
  /\ DOMAIN u = Fields
  /\ u.req = s.req /\ u.todo = Tail(s.todo)
  /\ s.seen \subseteq u.seen /\ u.seen \subseteq Cells

\* The next access is the one after this one.
LEMMA CourseGoes ==
  ASSUME NEW s, NEW u, NEW P \in Seq(Accesses), NEW k, NEW d,
         Ordered(P), OnCourse(s, P, k, d), P[k].op # "commit", Goes(s, u)
  PROVE  OnCourse(u, P, k + 1, d)
<1>1. k \in 1..Len(P) /\ Tail(s.todo) = SubSeq(P, k + 1, Len(P))
  BY AtHand
<1>2. k # Len(P)
  BY <1>1 DEF Ordered, OrderedAt
<1>3. k + 1 \in 1..Len(P)
  BY <1>1, <1>2
<1> QED
  BY <1>1, <1>3 DEF OnCourse, Goes

\* An access that inserts nothing leaves what is known of the number.
LEMMA NumberGoes ==
  ASSUME NEW s, NEW u, NEW P, NEW k \in Nat \ {0}, NEW d,
         KnowsNumber(s, P, k, d), Goes(s, u), u.number = s.number, u.inserted = s.inserted,
         P[k].op \notin {"number", "insert"}
  PROVE  KnowsNumber(u, P, k + 1, d)
<1>1. \A j \in 1..k : j \in 1..k - 1 \/ j = k
  OBVIOUS
<1>2. \A j \in 1..k - 1 : j \in 1..k
  OBVIOUS
<1>3. NumberOf(u, d) <=> NumberOf(s, d)
  BY DEF NumberOf
<1> QED
  BY <1>1, <1>2, <1>3 DEF KnowsNumber, Goes

\* An access that reads, creates and writes no row leaves what is known of them.
LEMMA RowsGo ==
  ASSUME NEW s, NEW u, NEW P, NEW k \in Nat \ {0}, NEW d,
         KnowsRows(s, P, k, d), Goes(s, u),
         u.bal = s.bal, u.res = s.res,
         \/ u.created = s.created
         \/ P[k].op = "create" /\ u.created = s.created \cup {P[k].cell},
         P[k].op \in {"load", "find", "select", "enough"} => P[k].cell \in u.seen,
         P[k].op \in {"create", "select", "enough"} => P[k].cell \in d.rows \cup u.created,
         P[k].op \notin {"update", "reserve", "release"}
  PROVE  KnowsRows(u, P, k + 1, d)
<1>1. \A j \in 1..k : j \in 1..k - 1 \/ j = k
  OBVIOUS
<1>2. \A j \in 1..k - 1 : j \in 1..k
  OBVIOUS
<1>3. k \in 1..k /\ k + 1 - 1 = k
  OBVIOUS
<1> DEFINE Kept(j) ==
             LET x == P[j].cell IN
             /\ P[j].op \in {"load", "find", "select", "enough"} => x \in u.seen
             /\ P[j].op \in {"create", "select", "enough"} => x \in d.rows \cup u.created
             /\ P[j].op = "update" => x \in DOMAIN u.bal
             /\ P[j].op \in {"reserve", "release"} => x \in DOMAIN u.res
<1>4. \A j \in 1..k - 1 : Kept(j)
  BY DEF KnowsRows, Goes
<1>5. Kept(k)
  OBVIOUS
<1>6. \A j \in 1..k : Kept(j)
  BY <1>1, <1>4, <1>5
<1> HIDE DEF Kept
<1>7. \A x \in u.created : \E j \in 1..k : P[j].op = "create" /\ P[j].cell = x
  BY <1>2, <1>3 DEF KnowsRows
<1>8. \A x \in DOMAIN u.bal : \E j \in 1..k : P[j].op \in {"update", "count"} /\ P[j].cell = x
  BY <1>2 DEF KnowsRows
<1>9. \A x \in DOMAIN u.res : \E j \in 1..k : P[j].op \in {"reserve", "release"} /\ P[j].cell = x
  BY <1>2 DEF KnowsRows
<1> QED
  BY <1>3, <1>6, <1>7, <1>8, <1>9 DEF KnowsRows, Kept

\* The history rows are those of the balances, before and after the access.
LEMMA PostsGo ==
  ASSUME NEW s, NEW u, NEW P, NEW k \in Nat \ {0}, NEW d, NEW raced,
         KnowsPosts(s, P, k, d, raced), u.bal = s.bal, u.posts = s.posts,
         P[k].op \notin {"update", "count"} \/ P[k].cell \notin DOMAIN s.bal
  PROVE  KnowsPosts(u, P, k + 1, d, raced)
<1>1. \A j \in 1..k : j \in 1..k - 1 \/ j = k
  OBVIOUS
<1>2. k + 1 - 1 = k
  OBVIOUS
<1>3. ASSUME NEW x \in DOMAIN s.bal
      PROVE  LET e == s.posts[x][1] IN
             /\ s.posts[x] = <<e>> /\ e \in Postings
             /\ e.after = s.bal[x] /\ e.after = e.before + e.amount
             /\ \A j \in 1..k - 1 :
                  P[j].cell = x =>
                    /\ P[j].op = "update" => e.amount = P[j].amount /\ e.change = P[j].change
                    /\ P[j].op = "count" => e.after = P[j].amount /\ e.amount # 0
                         /\ e.change = P[j].change
             /\ Trusted(x, raced) => e.before = d.balance[x] /\ d.reserved[x] <= s.bal[x]
  BY <1>3 DEF KnowsPosts
<1>4. DOMAIN u.posts = DOMAIN u.bal
  BY DEF KnowsPosts
<1> QED
  BY <1>1, <1>2, <1>3, <1>4 DEF KnowsPosts

\* An access that reserves and releases nothing leaves what is known of that.
LEMMA ReservedGoes ==
  ASSUME NEW s, NEW u, NEW P, NEW k \in Nat \ {0}, NEW d, NEW raced,
         KnowsReserved(s, P, k, d, raced), u.bal = s.bal, u.res = s.res,
         P[k].op \notin {"reserve", "release"}
  PROVE  KnowsReserved(u, P, k + 1, d, raced)
<1>1. \A j \in 1..k : j \in 1..k - 1 \/ j = k
  OBVIOUS
<1>2. k + 1 - 1 = k
  OBVIOUS
<1>3. \A x \in Cells : ReservedIn(u, x, d) <= BalanceIn(u, x, d)
  BY DEF KnowsReserved, ReservedIn, BalanceIn
<1> QED
  BY <1>1, <1>2, <1>3 DEF KnowsReserved

\* A row object is only in hand between the access that reads the row and the
\* one that writes it.
LEMMA CopyGoes ==
  ASSUME NEW u, NEW P \in Seq(Accesses), NEW k \in 1..Len(P), NEW d, NEW raced,
         Ordered(P), P[k].op # "commit", P[k].op \notin {"create", "select"}
  PROVE  KnowsCopy(u, P, k + 1, d, raced)
<1>1. k # Len(P)
  BY DEF Ordered, OrderedAt
<1>2. k + 1 \in 1..Len(P) /\ k + 1 - 1 = k
  BY <1>1
<1>3. P[k + 1].op \notin {"update", "count", "reserve", "release"}
  BY <1>2 DEF Ordered, OrderedAt
<1> QED
  BY <1>3 DEF KnowsCopy

\* What is known of the transaction settled stays, and an access adds to it.
LEMMA SubjectGoes ==
  ASSUME NEW s, NEW u, NEW P, NEW k \in Nat \ {0}, NEW d, NEW raced,
         KnowsSubject(s, P, k, d, raced), Goes(s, u),
         s.req.kind \in Settling => k > 1, P[k].op \notin {"active", "empty"}
  PROVE  KnowsSubject(u, P, k + 1, d, raced)
<1>1. \A j \in 1..k : j \in 1..k - 1 \/ j = k
  OBVIOUS
<1>2. k + 1 - 1 = k
  OBVIOUS
<1> QED
  BY <1>1, <1>2 DEF KnowsSubject, Goes

-----------------------------------------------------------------------------
(* The accesses that write nothing.                                        *)

\* A transaction to be received is known to be a transfer once it is loaded.
LEMMA SimplePlan ==
  ASSUME NEW s, NEW P, NEW k, NEW d, NEW raced, Knows(s, P, k, d, raced), k > 1
  PROVE  Simple(P)
BY DEF Knows, Plan, KnowsSubject, Subject, Settling

\* At the number nothing is inserted or written yet, and a count is the first write.
LEMMA NothingWritten ==
  ASSUME NEW s, NEW P, NEW k, NEW d, NEW raced, Knows(s, P, k, d, raced),
         P[k].op \in {"number", "count"}
  PROVE  /\ DOMAIN s.bal = {}
         /\ P[k].op = "count" => DOMAIN s.res = {}
         /\ P[k].op = "number" => s.inserted = <<>>
<1>1. k \in 1..Len(P)
  BY DEF Knows, OnCourse
<1>2. /\ \A x \in DOMAIN s.bal : \E j \in 1..k - 1 : P[j].op \in {"update", "count"}
           /\ P[j].cell = x
      /\ \A x \in DOMAIN s.res : \E j \in 1..k - 1 : P[j].op \in {"reserve", "release"}
           /\ P[j].cell = x
      /\ s.inserted # <<>> => \E j \in 1..k - 1 : P[j].op = "insert"
  BY DEF Knows, KnowsRows, KnowsNumber
<1>3. CASE k = 1
  BY <1>2, <1>3
<1>4. CASE k > 1
  <2>1. Simple(P)
    BY <1>4, SimplePlan
  <2>2. \A j \in 1..k - 1 : j \in 1..Len(P) /\ j # k /\ ~ (k < j)
    BY <1>1
  <2>3. \A j \in 1..k - 1 : P[j].op \notin {"update", "count"}
    <3>1. \A j \in 1..k - 1 : P[j].op # "update"
      BY <1>1, <2>1, <2>2 DEF Simple
    <3>2. P[k].op = "count" => \A j \in 1..k - 1 : P[j].op # "count"
      BY <1>1, <2>1, <2>2 DEF Simple
    <3>3. P[k].op = "number" => \A j \in 1..k - 1 : P[j].op # "count"
      BY <1>1, <2>2 DEF Knows, Plan, Suits, Creating
    <3> QED
      BY <3>1, <3>2, <3>3
  <2>4. P[k].op = "count" => \A j \in 1..k - 1 : P[j].op \notin {"reserve", "release"}
    BY <1>1, <2>1, <2>2 DEF Simple
  <2>5. P[k].op = "number" => \A j \in 1..k - 1 : P[j].op # "insert"
    BY <1>1, <2>1, <2>2 DEF Simple
  <2> QED
    BY <1>2, <2>3, <2>4, <2>5
<1> QED
  BY <1>1, <1>3, <1>4

\* What a request knows after an access that only looks.
LEMMA Looks ==
  ASSUME NEW s, NEW u, NEW P, NEW k, NEW d, NEW raced,
         Knows(s, P, k, d, raced), d.last \in [Days -> Nat], Goes(s, u),
         u.bal = s.bal, u.res = s.res, u.posts = s.posts, u.inserted = s.inserted,
         \/ u.created = s.created
         \/ P[k].op = "create" /\ u.created = s.created \cup {P[k].cell},
         \/ u.number = s.number /\ P[k].op # "number"
         \/ P[k].op = "number" /\ \E day \in Days : u.number = <<day, d.last[day] + 1>>,
         u.copy \in Copies,
         P[k].op \notin {"insert", "update", "reserve", "release", "commit"},
         P[k].op \in {"load", "find", "select", "enough"} => P[k].cell \in u.seen,
         P[k].op \in {"create", "select", "enough"} => P[k].cell \in d.rows \cup u.created,
         KnowsCopy(u, P, k + 1, d, raced),
         KnowsSubject(u, P, k + 1, d, raced)
  PROVE  Knows(u, P, k + 1, d, raced)
<1>1. /\ P \in Seq(Accesses) /\ Ordered(P) /\ OnCourse(s, P, k, d) /\ SessionType(s)
      /\ Plan(P, s.req, Subject(s.req, d.txns)) /\ k \in 1..Len(P) /\ k \in Nat \ {0}
  BY DEF Knows, Plan, OnCourse
<1>2. OnCourse(u, P, k + 1, d)
  BY <1>1, CourseGoes
<1>3. SessionType(u)
  <2>1. P[k].op = "create" => P[k].cell \in Cells
    BY <1>1 DEF Ordered, OrderedAt
  <2>2. u.created \subseteq Cells
    BY <1>1, <2>1 DEF SessionType
  <2>3. u.number \in {<<>>} \cup (Days \X Nat)
    <3>1. s.number \in {<<>>} \cup (Days \X Nat)
      BY <1>1 DEF SessionType
    <3>2. \A day \in Days : d.last[day] \in Nat /\ d.last[day] + 1 \in Nat
      OBVIOUS
    <3>3. \A day \in Days : <<day, d.last[day] + 1>> \in Days \X Nat
      BY <3>2
    <3> QED
      BY <3>1, <3>3
  <2> QED
    BY <1>1, <2>2, <2>3 DEF SessionType, Goes
<1>4. KnowsNumber(u, P, k + 1, d)
  <2>1. CASE P[k].op # "number"
    BY <1>1, <2>1, NumberGoes DEF Knows
  <2>2. CASE P[k].op = "number"
    <3>1. NumberOf(u, d) /\ u.number[2] = d.last[u.number[1]] + 1
      <4>1. PICK day \in Days : u.number = <<day, d.last[day] + 1>>
        BY <2>2
      <4>2. d.last[day] \in Nat
        OBVIOUS
      <4> QED
        BY <4>1, <4>2 DEF NumberOf
    <3>2. \A j \in 1..k : (j \in 1..k - 1 \/ j = k) /\ (j \in 1..k - 1 => j \in 1..k)
      BY <1>1
    <3>3. \A j \in 1..k - 1 : j \in 1..k
      BY <1>1
    <3>5. /\ \A j \in 1..k - 1 : P[j].op = "insert" => s.inserted # <<>>
          /\ s.inserted # <<>> =>
                /\ \E j \in 1..k - 1 : P[j].op = "insert"
                /\ s.inserted = <<RowOf(s.req)>>
      BY DEF Knows, KnowsNumber
    <3>6. \A j \in 1..k : P[j].op = "insert" => u.inserted # <<>>
      BY <2>2, <3>2, <3>5
    <3>7. u.inserted # <<>> =>
            /\ \E j \in 1..k : P[j].op = "insert"
            /\ u.inserted = <<RowOf(u.req)>>
      BY <3>3, <3>5 DEF Goes
    <3> QED
      BY <1>1, <3>1, <3>6, <3>7 DEF KnowsNumber
  <2> QED
    BY <2>1, <2>2
<1>5. KnowsRows(u, P, k + 1, d)
  BY <1>1, RowsGo DEF Knows
<1>6. KnowsPosts(u, P, k + 1, d, raced)
  BY <1>1, PostsGo, NothingWritten DEF Knows
<1>7. KnowsReserved(u, P, k + 1, d, raced)
  BY <1>1, ReservedGoes DEF Knows
<1> QED
  BY <1>1, <1>2, <1>3, <1>4, <1>5, <1>6, <1>7 DEF Knows, Goes

-----------------------------------------------------------------------------
(* The accesses that write.                                                *)

\* The insertion of the transaction.
LEMMA Inserts ==
  ASSUME NEW s, NEW u, NEW P, NEW k, NEW d, NEW raced,
         Knows(s, P, k, d, raced), d.last \in [Days -> Nat], Goes(s, u),
         u.bal = s.bal, u.res = s.res, u.posts = s.posts, u.created = s.created,
         u.number = s.number, u.copy = s.copy,
         P[k].op = "insert", s.number[2] > d.last[s.number[1]], u.inserted = <<RowOf(s.req)>>
  PROVE  /\ Knows(u, P, k + 1, d, raced)
         /\ NumberOf(u, d) /\ u.number[2] = d.last[u.number[1]] + 1
<1>1. /\ P \in Seq(Accesses) /\ Ordered(P) /\ OnCourse(s, P, k, d) /\ SessionType(s)
      /\ Plan(P, s.req, Subject(s.req, d.txns)) /\ k \in 1..Len(P) /\ k \in Nat \ {0}
  BY DEF Knows, Plan, OnCourse
<1>2. k > 1 /\ P[k - 1].op = "number"
  BY <1>1 DEF Ordered, OrderedAt
<1>3. OnCourse(u, P, k + 1, d)
  BY <1>1, CourseGoes
<1>4. SessionType(u)
  BY <1>1 DEF SessionType, Goes
<1>5. NumberOf(u, d) /\ u.number[2] = d.last[u.number[1]] + 1
  <2>1. k - 1 \in 1..k - 1
    BY <1>1, <1>2
  <2>2. NumberOf(s, d)
    BY <1>2, <2>1 DEF Knows, KnowsNumber
  <2>3. d.last[s.number[1]] \in Nat
    BY <2>2 DEF NumberOf
  <2> QED
    BY <2>2, <2>3 DEF NumberOf
<1>6. KnowsNumber(u, P, k + 1, d)
  <2>1. u.inserted # <<>>
    OBVIOUS
  <2>2. k \in 1..k
    BY <1>1
  <2>3. u.inserted = <<RowOf(u.req)>>
    BY DEF Goes
  <2> QED
    BY <1>1, <1>5, <2>1, <2>2, <2>3 DEF KnowsNumber
<1>7. KnowsRows(u, P, k + 1, d)
  BY <1>1, RowsGo DEF Knows
<1>8. KnowsPosts(u, P, k + 1, d, raced)
  BY <1>1, PostsGo DEF Knows
<1>9. KnowsReserved(u, P, k + 1, d, raced)
  BY <1>1, ReservedGoes DEF Knows
<1>10. KnowsCopy(u, P, k + 1, d, raced)
  BY <1>1, CopyGoes
<1>11. KnowsSubject(u, P, k + 1, d, raced)
  BY <1>1, <1>2, SubjectGoes DEF Knows
<1> QED
  BY <1>1, <1>3, <1>4, <1>5, <1>6, <1>7, <1>8, <1>9, <1>10, <1>11 DEF Knows, Goes

\* A row is written once.
LEMMA FirstWrite ==
  ASSUME NEW s, NEW P, NEW k, NEW d, NEW raced, Knows(s, P, k, d, raced)
  PROVE  /\ P[k].op \in {"update", "count"} =>
              P[k].cell \notin DOMAIN s.bal /\ DOMAIN s.res = {}
         /\ P[k].op \in {"reserve", "release"} => DOMAIN s.res = {}
<1> SUFFICES ASSUME P[k].op \in {"update", "count", "reserve", "release"}
    PROVE  /\ P[k].op \in {"update", "count"} =>
                P[k].cell \notin DOMAIN s.bal /\ DOMAIN s.res = {}
           /\ P[k].op \in {"reserve", "release"} => DOMAIN s.res = {}
  OBVIOUS
<1>1. k \in 1..Len(P) /\ k > 1 /\ Len(P) \in Nat
  BY DEF Knows, OnCourse, Plan, Ordered, OrderedAt
<1>2. /\ \A x \in DOMAIN s.bal : \E j \in 1..k - 1 : P[j].op \in {"update", "count"}
           /\ P[j].cell = x
      /\ \A x \in DOMAIN s.res : \E j \in 1..k - 1 : P[j].op \in {"reserve", "release"}
           /\ P[j].cell = x
  BY DEF Knows, KnowsRows
<1>3. Simple(P)
  BY <1>1, SimplePlan
<1>4. \A j \in 1..k - 1 : j \in 1..Len(P) /\ j # k /\ ~ (k < j)
  BY <1>1
<1>5. P[k].op \in {"update", "count"} => \A j \in 1..k - 1 : P[j].op \notin {"reserve", "release"}
  BY <1>1, <1>3, <1>4 DEF Simple
<1>6. P[k].op \in {"reserve", "release"} =>
        \A j \in 1..k - 1 : P[j].op \notin {"reserve", "release"}
  BY <1>1, <1>3, <1>4 DEF Simple
<1>7. P[k].op \in {"update", "count"} =>
        \A j \in 1..k - 1 : P[j].op \in {"update", "count"} => P[j].cell # P[k].cell
  BY <1>1, <1>3, <1>4 DEF Simple
<1> QED
  BY <1>2, <1>5, <1>6, <1>7

\* An update_balance that goes through.
LEMMA Posts ==
  ASSUME NEW s, NEW u, NEW P, NEW k, NEW d, NEW raced,
         Knows(s, P, k, d, raced), Goes(s, u), NEW amount \in Int,
         u.res = s.res, u.created = s.created, u.inserted = s.inserted,
         u.number = s.number, u.copy = s.copy,
         P[k].op \in {"update", "count"},
         P[k].op = "update" => amount = P[k].amount,
         P[k].op = "count" => amount = P[k].amount - s.copy.balance /\ amount # 0,
         NEW new, new = s.copy.balance + amount, new >= 0,
         NEW e, e = [change |-> P[k].change, amount |-> amount,
                     before |-> s.copy.balance, after |-> new],
         ReservedIn(s, P[k].cell, d) <= new,
         u.bal = Over(s.bal, P[k].cell, new),
         u.posts = Over(s.posts, P[k].cell, Append(PostsOn(s, P[k].cell), e))
  PROVE  Knows(u, P, k + 1, d, raced)
<1> DEFINE x == P[k].cell
<1>1. /\ P \in Seq(Accesses) /\ Ordered(P) /\ OnCourse(s, P, k, d) /\ SessionType(s)
      /\ Plan(P, s.req, Subject(s.req, d.txns)) /\ k \in 1..Len(P) /\ k \in Nat \ {0}
  BY DEF Knows, Plan, OnCourse
<1>2. k > 1 /\ x \in Cells /\ P[k].change \in Ledger!ChangeTypes /\ P[k] \in Accesses
  BY <1>1 DEF Ordered, OrderedAt
<1>3. x \notin DOMAIN s.bal /\ DOMAIN s.res = {} /\ Simple(P)
  BY <1>2, FirstWrite, SimplePlan
<1>4. s.copy.balance \in Nat /\ new \in Nat
  <2>1. s.copy.balance \in Nat
    BY <1>1 DEF SessionType, Copies
  <2> QED
    BY <2>1
<1>5. e \in Postings
  BY <1>2, <1>4 DEF Postings
<1>6. /\ e.change = P[k].change /\ e.amount = amount
      /\ e.before = s.copy.balance /\ e.after = new
  OBVIOUS
<1> HIDE DEF x
<1>7. /\ DOMAIN u.bal = DOMAIN s.bal \cup {x} /\ u.bal[x] = new
      /\ \A y \in DOMAIN s.bal : u.bal[y] = s.bal[y]
  <2>1. u.bal = Over(s.bal, x, new)
    BY DEF x
  <2>2. /\ DOMAIN Over(s.bal, x, new) = DOMAIN s.bal \cup {x}
        /\ Over(s.bal, x, new)[x] = new
        /\ \A y \in DOMAIN s.bal : y # x => Over(s.bal, x, new)[y] = s.bal[y]
    BY DEF Over
  <2> QED
    BY <1>3, <2>1, <2>2
<1>8. DOMAIN s.posts = DOMAIN s.bal
  BY DEF Knows, KnowsPosts
<1>9. Append(PostsOn(s, x), e) = <<e>>
  <2>1. PostsOn(s, x) = <<>>
    BY <1>3, <1>8 DEF PostsOn
  <2> QED
    BY <2>1
<1>10. /\ DOMAIN u.posts = DOMAIN s.bal \cup {x} /\ u.posts[x] = <<e>>
       /\ \A y \in DOMAIN s.bal : u.posts[y] = s.posts[y]
  <2>1. u.posts = Over(s.posts, x, <<e>>)
    BY <1>9 DEF x
  <2>2. /\ DOMAIN Over(s.posts, x, <<e>>) = DOMAIN s.posts \cup {x}
        /\ Over(s.posts, x, <<e>>)[x] = <<e>>
        /\ \A y \in DOMAIN s.posts : y # x => Over(s.posts, x, <<e>>)[y] = s.posts[y]
    BY DEF Over
  <2> QED
    BY <1>3, <1>8, <2>1, <2>2
<1>11. \A j \in 1..k : j \in 1..k - 1 \/ j = k
  BY <1>1
<1>12. (k + 1) - 1 = k /\ k \in 1..k /\ \A j \in 1..k - 1 : j \in 1..k
  BY <1>1
<1>13. OnCourse(u, P, k + 1, d)
  BY <1>1, CourseGoes
<1>14. SessionType(u)
  <2>1. DOMAIN u.bal \subseteq Cells /\ \A y \in DOMAIN u.bal : u.bal[y] \in Nat
    BY <1>1, <1>2, <1>4, <1>7 DEF SessionType
  <2> QED
    BY <1>1, <2>1 DEF SessionType, Goes
<1>15. KnowsNumber(u, P, k + 1, d)
  BY <1>1, NumberGoes DEF Knows
<1>16. KnowsRows(u, P, k + 1, d)
  <2> DEFINE Kept(j) ==
               LET y == P[j].cell IN
               /\ P[j].op \in {"load", "find", "select", "enough"} => y \in u.seen
               /\ P[j].op \in {"create", "select", "enough"} => y \in d.rows \cup u.created
               /\ P[j].op = "update" => y \in DOMAIN u.bal
               /\ P[j].op \in {"reserve", "release"} => y \in DOMAIN u.res
  <2>1. \A j \in 1..k - 1 : Kept(j)
    BY <1>7 DEF Knows, KnowsRows, Goes
  <2>2. Kept(k)
    BY <1>7 DEF x
  <2>3. \A j \in 1..k : Kept(j)
    BY <1>11, <2>1, <2>2
  <2> HIDE DEF Kept
  <2>4. \A y \in u.created : \E j \in 1..k : P[j].op = "create" /\ P[j].cell = y
    BY <1>12 DEF Knows, KnowsRows
  <2>5. \A y \in DOMAIN u.bal : \E j \in 1..k : P[j].op \in {"update", "count"} /\ P[j].cell = y
    BY <1>7, <1>12 DEF Knows, KnowsRows, x
  <2>6. \A y \in DOMAIN u.res : \E j \in 1..k : P[j].op \in {"reserve", "release"} /\ P[j].cell = y
    BY <1>12 DEF Knows, KnowsRows
  <2> QED
    BY <1>12, <2>3, <2>4, <2>5, <2>6 DEF KnowsRows, Kept
<1>17. Trusted(x, raced) => e.before = d.balance[x] /\ d.reserved[x] <= new
  <2>1. Trusted(x, raced) => s.copy.balance = BalanceIn(s, x, d)
    BY DEF Knows, KnowsCopy, x
  <2>2. BalanceIn(s, x, d) = d.balance[x]
    BY <1>3 DEF BalanceIn
  <2>3. ReservedIn(s, x, d) = d.reserved[x]
    BY <1>3 DEF ReservedIn
  <2> QED
    BY <1>6, <2>1, <2>2, <2>3 DEF x
<1>18. KnowsPosts(u, P, k + 1, d, raced)
  <2> DEFINE Fits(y, f) ==
               /\ f \in Postings
               /\ f.after = u.bal[y] /\ f.after = f.before + f.amount
               /\ \A j \in 1..k :
                    P[j].cell = y =>
                      /\ P[j].op = "update" => f.amount = P[j].amount /\ f.change = P[j].change
                      /\ P[j].op = "count" => f.after = P[j].amount /\ f.amount # 0
                           /\ f.change = P[j].change
               /\ Trusted(y, raced) => f.before = d.balance[y] /\ d.reserved[y] <= u.bal[y]
  <2>2. ASSUME NEW y \in DOMAIN s.bal PROVE u.posts[y] = <<u.posts[y][1]>> /\ Fits(y, u.posts[y][1])
    <3> DEFINE f == s.posts[y][1]
    <3>1. /\ s.posts[y] = <<f>> /\ f \in Postings
          /\ f.after = s.bal[y] /\ f.after = f.before + f.amount
          /\ \A j \in 1..k - 1 :
               P[j].cell = y =>
                 /\ P[j].op = "update" => f.amount = P[j].amount /\ f.change = P[j].change
                 /\ P[j].op = "count" => f.after = P[j].amount /\ f.amount # 0
                      /\ f.change = P[j].change
          /\ Trusted(y, raced) => f.before = d.balance[y] /\ d.reserved[y] <= s.bal[y]
      BY DEF Knows, KnowsPosts
    <3>2. y # P[k].cell
      BY <1>3 DEF x
    <3>3. u.posts[y] = s.posts[y] /\ u.bal[y] = s.bal[y]
      BY <1>7, <1>10
    <3> HIDE DEF f
    <3>4. \A j \in 1..k :
               P[j].cell = y =>
                 /\ P[j].op = "update" => f.amount = P[j].amount /\ f.change = P[j].change
                 /\ P[j].op = "count" => f.after = P[j].amount /\ f.amount # 0
                      /\ f.change = P[j].change
      BY <1>11, <3>1, <3>2
    <3>5. Fits(y, f)
      BY <3>1, <3>3, <3>4
    <3> QED
      BY <3>1, <3>3, <3>5 DEF f
  <2>3. Fits(x, e)
    <3>1. \A j \in 1..k - 1 : P[j].cell = x => P[j].op \notin {"update", "count"}
      <4>1. \A j \in 1..k - 1 : j \in 1..Len(P) /\ j # k
        BY <1>1
      <4> QED
        BY <1>1, <1>3, <4>1 DEF Simple, x
    <3>2. P[k].op = "count" => new = P[k].amount /\ e.amount # 0
      <4>1. P[k].amount \in Int
        BY <1>2 DEF Accesses
      <4> QED
        BY <1>4, <1>6, <4>1
    <3>3. \A j \in 1..k :
               P[j].cell = x =>
                 /\ P[j].op = "update" => e.amount = P[j].amount /\ e.change = P[j].change
                 /\ P[j].op = "count" => e.after = P[j].amount /\ e.amount # 0
                      /\ e.change = P[j].change
      BY <1>6, <1>11, <3>1, <3>2
    <3>4. e.after = u.bal[x] /\ e.after = e.before + e.amount
      BY <1>6, <1>7
    <3>5. Trusted(x, raced) => e.before = d.balance[x] /\ d.reserved[x] <= u.bal[x]
      BY <1>7, <1>17
    <3> QED
      BY <1>5, <3>3, <3>4, <3>5
  <2> HIDE DEF Fits
  <2>4. u.posts[x] = <<u.posts[x][1]>> /\ Fits(x, u.posts[x][1])
    BY <1>10, <2>3
  <2>5. \A y \in DOMAIN u.bal : u.posts[y] = <<u.posts[y][1]>> /\ Fits(y, u.posts[y][1])
    BY <1>7, <2>2, <2>4
  <2>6. DOMAIN u.posts = DOMAIN u.bal
    BY <1>7, <1>10
  <2> QED
    BY <1>12, <2>5, <2>6, ZenonT(60) DEF KnowsPosts, Fits
<1>19. KnowsReserved(u, P, k + 1, d, raced)
  <2>1. \A y \in Cells : ReservedIn(s, y, d) <= BalanceIn(s, y, d)
    BY DEF Knows, KnowsReserved
  <2>2. \A y \in Cells : ReservedIn(u, y, d) <= BalanceIn(u, y, d)
    <3>1. ReservedIn(u, x, d) <= BalanceIn(u, x, d)
      BY <1>7 DEF ReservedIn, BalanceIn, x
    <3>2. ASSUME NEW y \in Cells, y # x PROVE ReservedIn(u, y, d) <= BalanceIn(u, y, d)
      BY <1>7, <2>1, <3>2 DEF ReservedIn, BalanceIn
    <3> QED
      BY <3>1, <3>2
  <2>3. \A j \in 1..k - 1 :
          LET y == P[j].cell IN
          Trusted(y, raced) =>
            /\ P[j].op = "reserve" => s.res[y] = d.reserved[y] + P[j].amount
            /\ P[j].op = "release" => s.res[y] = d.reserved[y] - P[j].amount
    BY DEF Knows, KnowsReserved
  <2> QED
    BY <1>11, <1>12, <2>2, <2>3 DEF KnowsReserved
<1>20. KnowsCopy(u, P, k + 1, d, raced)
  BY <1>1, CopyGoes
<1>21. KnowsSubject(u, P, k + 1, d, raced)
  BY <1>1, <1>2, SubjectGoes DEF Knows
<1> QED
  BY <1>1, <1>13, <1>14, <1>15, <1>16, <1>18, <1>19, <1>20, <1>21 DEF Knows, Goes

\* A reserve_balance or release_reserved_balance that goes through.
LEMMA Reserves ==
  ASSUME NEW s, NEW u, NEW P, NEW k, NEW d, NEW raced,
         Knows(s, P, k, d, raced), Goes(s, u),
         u.bal = s.bal, u.posts = s.posts, u.created = s.created, u.inserted = s.inserted,
         u.number = s.number, u.copy = s.copy,
         NEW new \in Nat, new <= BalanceIn(s, P[k].cell, d),
         \/ P[k].op = "reserve" /\ new = s.copy.reserved + P[k].amount
         \/ P[k].op = "release" /\ new = s.copy.reserved - P[k].amount,
         u.res = Over(s.res, P[k].cell, new)
  PROVE  Knows(u, P, k + 1, d, raced)
<1> DEFINE x == P[k].cell
<1>1. /\ P \in Seq(Accesses) /\ Ordered(P) /\ OnCourse(s, P, k, d) /\ SessionType(s)
      /\ Plan(P, s.req, Subject(s.req, d.txns)) /\ k \in 1..Len(P) /\ k \in Nat \ {0}
  BY DEF Knows, Plan, OnCourse
<1>2. k > 1 /\ x \in Cells
  BY <1>1 DEF Ordered, OrderedAt
<1>3. DOMAIN s.res = {} /\ Simple(P)
  BY <1>2, FirstWrite, SimplePlan
<1> HIDE DEF x
<1>4. DOMAIN u.res = {x} /\ u.res[x] = new
  <2>1. u.res = Over(s.res, x, new)
    BY DEF x
  <2>2. DOMAIN Over(s.res, x, new) = DOMAIN s.res \cup {x} /\ Over(s.res, x, new)[x] = new
    BY DEF Over
  <2> QED
    BY <1>3, <2>1, <2>2
<1>5. \A j \in 1..k : j \in 1..k - 1 \/ j = k
  BY <1>1
<1>6. (k + 1) - 1 = k /\ k \in 1..k /\ \A j \in 1..k - 1 : j \in 1..k
  BY <1>1
<1>7. OnCourse(u, P, k + 1, d)
  BY <1>1, CourseGoes
<1>8. SessionType(u)
  BY <1>1, <1>2, <1>4 DEF SessionType, Goes
<1>9. KnowsNumber(u, P, k + 1, d)
  BY <1>1, NumberGoes DEF Knows
<1>10. \A j \in 1..k - 1 : P[j].op \notin {"reserve", "release"}
  <2>1. \A j \in 1..k - 1 : j \in 1..Len(P) /\ j # k
    BY <1>1
  <2> QED
    BY <1>1, <1>3, <2>1 DEF Simple
<1>11. KnowsRows(u, P, k + 1, d)
  <2> DEFINE Kept(j) ==
               LET y == P[j].cell IN
               /\ P[j].op \in {"load", "find", "select", "enough"} => y \in u.seen
               /\ P[j].op \in {"create", "select", "enough"} => y \in d.rows \cup u.created
               /\ P[j].op = "update" => y \in DOMAIN u.bal
               /\ P[j].op \in {"reserve", "release"} => y \in DOMAIN u.res
  <2>1. \A j \in 1..k - 1 : Kept(j)
    BY <1>10 DEF Knows, KnowsRows, Goes
  <2>2. Kept(k)
    BY <1>4 DEF x
  <2>3. \A j \in 1..k : Kept(j)
    BY <1>5, <2>1, <2>2
  <2> HIDE DEF Kept
  <2>4. \A y \in u.created : \E j \in 1..k : P[j].op = "create" /\ P[j].cell = y
    BY <1>6 DEF Knows, KnowsRows
  <2>5. \A y \in DOMAIN u.bal : \E j \in 1..k : P[j].op \in {"update", "count"} /\ P[j].cell = y
    BY <1>6 DEF Knows, KnowsRows
  <2>6. \A y \in DOMAIN u.res : \E j \in 1..k : P[j].op \in {"reserve", "release"} /\ P[j].cell = y
    BY <1>4, <1>6 DEF x
  <2> QED
    BY <1>6, <2>3, <2>4, <2>5, <2>6 DEF KnowsRows, Kept
<1>12. KnowsPosts(u, P, k + 1, d, raced)
  BY <1>1, PostsGo DEF Knows
<1>13. KnowsReserved(u, P, k + 1, d, raced)
  <2>1. \A y \in Cells : ReservedIn(s, y, d) <= BalanceIn(s, y, d)
    BY DEF Knows, KnowsReserved
  <2>2. \A y \in Cells : ReservedIn(u, y, d) <= BalanceIn(u, y, d)
    <3>1. ReservedIn(u, x, d) <= BalanceIn(u, x, d)
      BY <1>4 DEF ReservedIn, BalanceIn, x
    <3>2. ASSUME NEW y \in Cells, y # x PROVE ReservedIn(u, y, d) <= BalanceIn(u, y, d)
      BY <1>3, <1>4, <2>1, <3>2 DEF ReservedIn, BalanceIn
    <3> QED
      BY <3>1, <3>2
  <2>3. Trusted(x, raced) => s.copy.reserved = d.reserved[x]
    BY <1>3 DEF Knows, KnowsCopy, ReservedIn, x
  <2>4. Trusted(x, raced) =>
          /\ P[k].op = "reserve" => u.res[x] = d.reserved[x] + P[k].amount
          /\ P[k].op = "release" => u.res[x] = d.reserved[x] - P[k].amount
    BY <1>4, <2>3
  <2> QED
    BY <1>5, <1>6, <1>10, <2>2, <2>4 DEF KnowsReserved, x
<1>14. KnowsCopy(u, P, k + 1, d, raced)
  BY <1>1, CopyGoes
<1>15. KnowsSubject(u, P, k + 1, d, raced)
  BY <1>1, <1>2, SubjectGoes DEF Knows
<1> QED
  BY <1>1, <1>7, <1>8, <1>9, <1>11, <1>12, <1>13, <1>14, <1>15 DEF Knows, Goes

-----------------------------------------------------------------------------
(* Steps that leave the tables as they are.                                *)

\* A session that has begun is not idle.
LEMMA IdleFacts ==
  /\ Idle.req.kind = "none" /\ Idle.todo = <<>> /\ Idle.seen = {} /\ Idle.inserted = <<>>
  /\ Idle.created = {} /\ Idle.number = <<>> /\ Idle.copy = NoRow
  /\ Idle.bal = <<>> /\ Idle.res = <<>> /\ Idle.posts = <<>>
  BY DEF Idle, Begun, NoRequest

\* A session that knows what it has done is at work.
LEMMA KnowsBusy ==
  ASSUME NEW s, NEW P, NEW k, NEW d, NEW raced, Knows(s, P, k, d, raced)
  PROVE  s # Idle /\ s.todo # <<>>
<1>1. s.req.kind # "none"
  BY ServedFacts DEF Knows, SessionType, Creating, Settling
<1> QED
  BY <1>1, IdleFacts, AtHand DEF Knows, Plan

\* What the invariant says of a session at work.
LEMMA AtWorkFacts ==
  ASSUME RequestInv, NEW p \in Sessions, session[p] # Idle \/ Busy(p)
  PROVE  /\ session[p] # Idle /\ Busy(p) /\ p \in AtWork
         /\ \E k \in Nat : /\ Knows(session[p], Program(session[p].req), k, db, contended)
                           /\ k \in 1..Len(Program(session[p].req))
                           /\ Op(p) = Program(session[p].req)[k]
<1>1. Informed(session[p], db, contended)
  BY DEF RequestInv
<1>2. session[p] # Idle
  BY IdleFacts DEF Busy
<1>3. PICK k \in Nat : Knows(session[p], Program(session[p].req), k, db, contended)
  BY <1>1, <1>2 DEF Informed
<1>4. Busy(p)
  BY <1>3, KnowsBusy DEF Busy
<1>5. k \in 1..Len(Program(session[p].req)) /\ Op(p) = Program(session[p].req)[k]
  BY <1>3, AtHand DEF Knows, Plan, Op
<1> QED
  BY <1>2, <1>3, <1>4, <1>5 DEF AtWork

\* Being apart is mutual.
LEMMA ApartBoth ==
  ASSUME NEW s, NEW u, NEW raced, Apart(s, u, raced)
  PROVE  Apart(u, s, raced)
  BY DEF Apart, ApartByDay

\* More contended cells only ask less.
LEMMA ApartLess ==
  ASSUME NEW s, NEW u, NEW old, NEW raced, old \subseteq raced, Apart(s, u, old)
  PROVE  Apart(s, u, raced)
  BY DEF Apart, ApartByDay

\* A step of p that leaves the tables and the other sessions as they are.
LEMMA QuietStep ==
  ASSUME RequestInv, NEW p \in Sessions, NEW u,
         session' = [session EXCEPT ![p] = u], db' = db,
         contended \subseteq contended', contended' \subseteq Racing,
         u = Idle \/ \E k \in Nat : Knows(u, Program(u.req), k, db, contended'),
         \A q \in Sessions \ {p} : Apart(u, session[q], contended'),
         Counted'
  PROVE  RequestInv'
<1>1. DOMAIN session = Sessions
  BY DEF RequestInv
<1>2. /\ DOMAIN session' = Sessions /\ session'[p] = u
      /\ \A q \in Sessions \ {p} : session'[q] = session[q]
  BY <1>1
<1>3. Tables'
  BY DEF RequestInv, Tables, Ledger!TypeOK
<1>4. \A r : Program(r)' = Program(r)
  <2>1. \A r : Creation(r)' = Creation(r)
    BY DEF Creation, Checks, Payments, RowOf, Ledger!Income, Ledger!Expense, Ledger!Exchange,
       Ledger!Transfer
  <2>2. \A r : Settlement(r)' = Settlement(r)
    BY DEF Settlement, Undo, Ledger!Reversal
  <2> QED
    BY <2>1, <2>2 DEF Program
<1>5. ASSUME NEW q \in Sessions PROVE Informed(session[q], db, contended)'
  <2>1. CASE q = p
    BY <1>2, <1>4, <2>1 DEF Informed
  <2>2. CASE q # p
    <3>1. Informed(session[q], db, contended)
      BY DEF RequestInv
    <3>2. ASSUME NEW k \in Nat, Knows(session[q], Program(session[q].req), k, db, contended)
          PROVE  Knows(session[q], Program(session[q].req), k, db, contended')
      BY <3>2, KnowsLess
    <3> QED
      BY <1>2, <1>4, <2>2, <3>1, <3>2 DEF Informed
  <2> QED
    BY <2>1, <2>2
<1>6. ASSUME NEW q \in Sessions, NEW o \in Sessions, q # o
      PROVE  Apart(session[q], session[o], contended)'
  <2>1. CASE q = p
    BY <1>2, <1>6, <2>1
  <2>2. CASE o = p
    BY <1>2, <1>6, <2>2, ApartBoth
  <2>3. CASE q # p /\ o # p
    <3>1. Apart(session[q], session[o], contended)
      BY <1>6 DEF RequestInv
    <3>2. Apart(session[q], session[o], contended')
      BY <3>1, ApartLess
    <3> QED
      BY <1>2, <2>3, <3>2
  <2> QED
    BY <2>1, <2>2, <2>3
<1>7. UncontendedBooks'
  BY DEF RequestInv, UncontendedBooks, Ledger!Explained, Ledger!Net, Ledger!PostOf, Ledger!Claims,
     Ledger!ClaimOf, Ledger!TotalOf
<1>8. NothingHalfDone'
  <2>1. \A x : Entries(x)' = Entries(x)
    BY DEF Entries
  <2>2. \A h, i : Ledger!Net(h, i)' = Ledger!Net(h, i)
    BY DEF Ledger!Net, Ledger!PostOf, Ledger!TotalOf
  <2>3. \A x \in Cells : \A e \in Entries(x)' : e.txn \in 0..Len(db'.txns)
    BY <2>1 DEF RequestInv, NothingHalfDone
  <2> QED
    BY <2>1, <2>2, <2>3, ZenonT(60) DEF RequestInv, NothingHalfDone
<1> QED
  BY <1>2, <1>3, <1>5, <1>6, <1>7, <1>8 DEF RequestInv

\* An access of p after which it knows what its place says.
LEMMA AdvanceStep ==
  ASSUME RequestInv, NEW p \in Sessions, NEW u, NEW k \in Nat,
         session' = [session EXCEPT ![p] = u], db' = db, made' = made,
         contended \subseteq contended', contended' \subseteq Racing,
         session[p] # Idle, u.req = session[p].req,
         Knows(u, Program(u.req), k, db, contended'),
         \A q \in Sessions \ {p} : session[q] # Idle =>
           /\ \/ u.inserted = <<>>
              \/ u.inserted = session[p].inserted /\ u.number = session[p].number
              \/ ApartByDay(u, session[q], contended')
           /\ Held(u) = Held(session[p]) \/ Held(u) \cap Held(session[q]) = {}
           /\ u.seen \cap session[q].seen \subseteq contended'
  PROVE  RequestInv'
<1>1. \A q \in Sessions \ {p} : Apart(u, session[q], contended')
  <2> SUFFICES ASSUME NEW q \in Sessions \ {p}, session[q] # Idle
      PROVE  /\ ApartByDay(u, session[q], contended')
             /\ Held(u) \cap Held(session[q]) = {}
             /\ u.seen \cap session[q].seen \subseteq contended'
             /\ Separate => {u.req.kind, session[q].req.kind} \subseteq Creating
    BY DEF Apart
  <2>1. Apart(session[p], session[q], contended)
    BY DEF RequestInv
  <2>2. ApartByDay(u, session[q], contended')
    BY <2>1 DEF Apart, ApartByDay
  <2> QED
    BY <2>1, <2>2 DEF Apart
<1>2. DOMAIN session = Sessions /\ u # Idle
  BY KnowsBusy DEF RequestInv
<1>3. AtWork' = AtWork
  BY <1>2 DEF AtWork
<1>4. Counted'
  BY <1>3 DEF Counted, RequestInv
<1> QED
  BY <1>1, <1>4, QuietStep

\* A session that gives up leaves no trace but what it has made contended.
LEMMA RollbackStep ==
  ASSUME RequestInv, NEW p \in Sessions, Busy(p), Rollback(p), made' = made
  PROVE  RequestInv'
<1>1. /\ session' = [session EXCEPT ![p] = Idle] /\ db' = db
      /\ contended' = contended /\ contended \subseteq Racing /\ DOMAIN session = Sessions
  BY DEF Rollback, RequestInv
<1>2. \A q \in Sessions \ {p} : Apart(Idle, session[q], contended')
  BY DEF Apart
<1>3. Counted'
  <2>1. AtWork' \subseteq AtWork
    BY <1>1 DEF AtWork
  <2>2. /\ IsFiniteSet(AtWork) /\ made \in 0..MaxRequests
        /\ Cardinality(AtWork) + Len(db.txns) <= made
        /\ \A x \in Cells : Cardinality(AtWork) + Len(db.history[x]) <= made
        /\ Len(db.txns) \in Nat /\ \A x \in Cells : Len(db.history[x]) \in Nat
    BY DEF RequestInv, Counted, Tables, Ledger!TypeOK, Ledger!Cells, Cells
  <2>3. /\ IsFiniteSet(AtWork') /\ Cardinality(AtWork') <= Cardinality(AtWork)
        /\ Cardinality(AtWork) \in Nat /\ Cardinality(AtWork') \in Nat
    BY <2>1, <2>2, FS_Subset, FS_CardinalityType
  <2>4. made \in Nat
    BY <2>2, RequestAssumption
  <2> QED
    BY <1>1, <2>2, <2>3, <2>4 DEF Counted
<1> QED
  BY <1>1, <1>2, <1>3, QuietStep

\* What an access needs of the invariant.
Ready(p, k) ==
  LET s == session[p]
      P == Program(s.req)
  IN /\ k \in 1..Len(P) /\ k \in Nat
     /\ P \in Seq(Accesses) /\ Ordered(P) /\ Op(p) = P[k]
     /\ SessionType(s) /\ s # Idle
     /\ Knows(s, P, k, db, contended')
     /\ db.last \in [Days -> Nat]

\* A busy session is at some access of its plan.
LEMMA GetReady ==
  ASSUME RequestInv, NEW p \in Sessions, Busy(p), contended \subseteq contended'
  PROVE  \E k : Ready(p, k)
<1>1. PICK k \in Nat : /\ Knows(session[p], Program(session[p].req), k, db, contended)
                       /\ k \in 1..Len(Program(session[p].req))
                       /\ Op(p) = Program(session[p].req)[k]
  BY AtWorkFacts
<1>2. Knows(session[p], Program(session[p].req), k, db, contended')
  BY <1>1, KnowsLess
<1>3. db.last \in [Days -> Nat]
  BY DEF RequestInv, Tables
<1> QED
  BY <1>1, <1>2, <1>3, KnowsBusy DEF Ready, Knows, Plan

\* Who goes on and has touched row x.
LEMMA TouchSeen ==
  ASSUME RequestInv, NEW p \in Sessions, session[p] # Idle, NEW x \in Cells, NEW v, Touch(p, x, v),
         v.seen = session[p].seen
  PROVE  /\ contended \subseteq contended' /\ contended' \subseteq Racing
         /\ \A q \in Sessions \ {p} : session[q] # Idle =>
              (session[p].seen \cup {x}) \cap session[q].seen \subseteq contended'
<1>1. /\ contended \subseteq contended' /\ contended' \subseteq Racing
      /\ \A q \in Sessions \ {p} : x \in session[q].seen => x \in contended'
  BY DEF Touch, RequestInv, Racing
<1>2. \A q \in Sessions \ {p} : session[q] # Idle =>
        session[p].seen \cap session[q].seen \subseteq contended
  BY DEF RequestInv, Apart
<1> QED
  BY <1>1, <1>2

\* The sessions after an access, as the handlers write them.
Gone(s)        == [s EXCEPT !.todo = Tail(@)]
GoneSeen(s, x) == [s EXCEPT !.todo = Tail(@), !.seen = @ \cup {x}]

\* What an access does to a session that only looks.
Looking(s, u, P, k, d) ==
  /\ Goes(s, u)
  /\ u.bal = s.bal /\ u.res = s.res /\ u.posts = s.posts /\ u.inserted = s.inserted
  /\ \/ u.created = s.created
     \/ P[k].op = "create" /\ u.created = s.created \cup {P[k].cell}
  /\ \/ u.number = s.number /\ P[k].op # "number"
     \/ P[k].op = "number" /\ \E day \in Days : u.number = <<day, d.last[day] + 1>>
  /\ u.copy \in Copies
  /\ P[k].op \notin {"insert", "update", "reserve", "release", "commit"}
  /\ P[k].op \in {"load", "find", "select", "enough"} => P[k].cell \in u.seen
  /\ P[k].op \in {"create", "select", "enough"} => P[k].cell \in d.rows \cup u.created

\* What it knows then, where only its copy and its subject are in question.
LEMMA LookingKnows ==
  ASSUME NEW s, NEW u, NEW P, NEW k, NEW d, NEW raced, Knows(s, P, k, d, raced),
         d.last \in [Days -> Nat], Looking(s, u, P, k, d),
         P[k].op \in {"create", "select"} => KnowsCopy(u, P, k + 1, d, raced),
         P[k].op \in {"load", "active", "empty"} => KnowsSubject(u, P, k + 1, d, raced)
  PROVE  Knows(u, P, k + 1, d, raced)
<1>1. k \in 1..Len(P) /\ k \in Nat \ {0} /\ P \in Seq(Accesses) /\ Ordered(P) /\ Goes(s, u)
      /\ P[k].op # "commit"
  BY DEF Knows, Plan, OnCourse, Looking
<1>2. KnowsCopy(u, P, k + 1, d, raced)
  BY <1>1, CopyGoes
<1>3. KnowsSubject(u, P, k + 1, d, raced)
  <2>1. P[k].op # "load" => (s.req.kind \in Settling => k > 1)
    BY <1>1 DEF Knows, Plan, Suits
  <2>2. KnowsSubject(s, P, k, d, raced)
    BY DEF Knows
  <2> QED
    BY <1>1, <2>1, <2>2, SubjectGoes
<1> QED
  BY <1>2, <1>3, Looks DEF Looking

\* A step that only looks, and adds to what is known, keeps the invariant.
LEMMA LooksStep ==
  ASSUME RequestInv, NEW p \in Sessions, NEW k, Ready(p, k), NEW u,
         session' = [session EXCEPT ![p] = u], db' = db, made' = made,
         contended \subseteq contended', contended' \subseteq Racing,
         Looking(session[p], u, Program(session[p].req), k, db),
         Program(session[p].req)[k].op \in {"create", "select"} =>
           KnowsCopy(u, Program(session[p].req), k + 1, db, contended'),
         Program(session[p].req)[k].op \in {"load", "active", "empty"} =>
           KnowsSubject(u, Program(session[p].req), k + 1, db, contended'),
         \A q \in Sessions \ {p} : session[q] # Idle =>
           u.seen \cap session[q].seen \subseteq contended'
  PROVE  RequestInv'
<1> DEFINE s == session[p]
           P == Program(s.req)
<1>1. Knows(s, P, k, db, contended') /\ db.last \in [Days -> Nat] /\ k \in Nat /\ s # Idle
  BY DEF Ready
<1>2. Knows(u, P, k + 1, db, contended')
  BY <1>1, LookingKnows
<1>3. /\ Held(u) = Held(s) /\ u.req = s.req /\ u.inserted = s.inserted
      /\ u.number = s.number \/ u.inserted = <<>>
  BY <1>1, NothingWritten DEF Held, Goes, Looking
<1>4. k + 1 \in Nat
  BY <1>1
<1> HIDE DEF s, P
<1> QED
  BY <1>1, <1>2, <1>3, <1>4, AdvanceStep DEF s, P

\* What Continue leaves: the same session, one access further.
LEMMA GoesOn ==
  ASSUME NEW s, SessionType(s)
  PROVE  /\ Goes(s, Gone(s))
         /\ \A x \in Cells : Goes(s, GoneSeen(s, x))
  BY DEF Goes, Gone, GoneSeen, SessionType, Fields

\* Sessions other than p that have read what p has read.
LEMMA SeenApart ==
  ASSUME RequestInv, NEW p \in Sessions, session[p] # Idle
  PROVE  /\ contended \subseteq Racing
         /\ \A q \in Sessions \ {p} : session[q] # Idle =>
              session[p].seen \cap session[q].seen \subseteq contended
  BY DEF RequestInv, Apart

\* A look at the branch keeps the invariant.
LEMMA CheckBranchStep ==
  ASSUME RequestInv, NEW p \in Sessions, CheckBranch(p), made' = made
  PROVE  RequestInv'
<1>1. Busy(p) /\ Op(p).op \in {"active", "empty"}
  BY DEF CheckBranch, At
<1>2. CASE Rollback(p)
  BY <1>1, <1>2, RollbackStep
<1>3. ASSUME Continue(p, session[p]),
             Op(p).op = "active" => Op(p).cell[1] \in db.active,
             Op(p).op = "empty" => /\ Op(p).cell \notin MainBranches
                                   /\ \A c \in Currencies : db.balance[<<Op(p).cell, c>>] = 0
      PROVE  RequestInv'
  <2> DEFINE s == session[p]
             P == Program(s.req)
             u == Gone(s)
  <2>1. session' = [session EXCEPT ![p] = u] /\ db' = db /\ contended' = contended
    BY <1>3 DEF Continue, Gone
  <2>2. PICK k : Ready(p, k)
    BY <1>1, <2>1, GetReady
  <2>3. /\ Knows(s, P, k, db, contended') /\ k \in 1..Len(P) /\ P[k] = Op(p) /\ SessionType(s)
             /\ s # Idle
    BY <2>2 DEF Ready
  <2>4. /\ u.bal = s.bal /\ u.res = s.res /\ u.posts = s.posts /\ u.inserted = s.inserted
        /\ u.created = s.created /\ u.number = s.number /\ u.copy = s.copy /\ u.seen = s.seen
        /\ Goes(s, u) /\ u.copy \in Copies
    BY <2>3, GoesOn DEF Gone, SessionType, Fields
  <2> HIDE DEF s, P, u
  <2>5. KnowsSubject(u, P, k + 1, db, contended')
    <3>1. s.req.kind \in Settling => k > 1
      BY <1>1, <2>3 DEF Knows, Plan, Suits, Creating, Settling, Serves
    <3>2. KnowsSubject(s, P, k, db, contended') /\ u.req = s.req
      BY <2>3, <2>4 DEF Knows, Goes
    <3>3. \A j \in 1..k : j \in 1..k - 1 \/ j = k
      BY <2>3
    <3>4. /\ P[k].op = "active" => P[k].cell[1] \in db.active
          /\ P[k].op = "empty" =>
               /\ P[k].cell \notin MainBranches
               /\ \A c \in Currencies : db.balance[<<P[k].cell, c>>] = 0
      BY <1>3, <2>3
    <3>5. (k + 1) - 1 = k
      BY <2>3
    <3> QED
      BY <3>1, <3>2, <3>3, <3>4, <3>5 DEF KnowsSubject
  <2>6. \A q \in Sessions \ {p} : session[q] # Idle =>
          u.seen \cap session[q].seen \subseteq contended'
    BY <2>1, <2>3, <2>4, SeenApart DEF s
  <2>7. contended \subseteq contended' /\ contended' \subseteq Racing
    BY <2>1, <2>3, SeenApart DEF s
  <2>8. P[k].op \in {"active", "empty"}
    BY <1>1, <2>3
  <2>9. Looking(s, u, P, k, db)
    BY <2>4, <2>8 DEF Looking
  <2> QED
    BY <2>1, <2>2, <2>5, <2>6, <2>7, <2>8, <2>9, LooksStep DEF s, P
<1> QED
  BY <1>1, <1>2, <1>3 DEF CheckBranch, Proceed, At

\* A look at the transaction to settle keeps it: the status read holds
\* until the commit unless another request has read the same cell.
LEMMA LoadTransactionStep ==
  ASSUME RequestInv, NEW p \in Sessions, LoadTransaction(p), made' = made
  PROVE  RequestInv'
<1>1. Busy(p) /\ Op(p).op = "load"
  BY DEF LoadTransaction, At
<1>2. CASE Rollback(p)
  BY <1>1, <1>2, RollbackStep
<1>3. ASSUME MaySettle(session[p].req), Touch(p, Op(p).cell, session[p])
      PROVE  RequestInv'
  <2> DEFINE s == session[p]
             P == Program(s.req)
             x == Op(p).cell
             u == GoneSeen(s, x)
  <2>1. session' = [session EXCEPT ![p] = u] /\ db' = db /\ contended \subseteq contended'
    BY <1>3 DEF Touch, GoneSeen
  <2>2. PICK k : Ready(p, k)
    BY <1>1, <2>1, GetReady
  <2>3. /\ Knows(s, P, k, db, contended') /\ k \in 1..Len(P) /\ P[k] = Op(p) /\ SessionType(s)
             /\ s # Idle
        /\ x \in Cells
    BY <1>1, <2>2 DEF Ready, Ordered, OrderedAt
  <2>4. /\ u.bal = s.bal /\ u.res = s.res /\ u.posts = s.posts /\ u.inserted = s.inserted
        /\ u.created = s.created /\ u.number = s.number /\ u.copy = s.copy
        /\ u.seen = s.seen \cup {x} /\ Goes(s, u) /\ u.copy \in Copies
    BY <2>3, GoesOn DEF GoneSeen, SessionType, Fields
  <2>5. /\ contended' \subseteq Racing
        /\ \A q \in Sessions \ {p} : session[q] # Idle =>
             u.seen \cap session[q].seen \subseteq contended'
    BY <1>3, <2>3, <2>4, TouchSeen
  <2>6. MaySettle(s.req)
    BY <1>3
  <2> HIDE DEF s, P, u, x
  <2>7. P[k].op = "load" /\ P[k].cell = x
    BY <1>1, <2>3 DEF x
  <2>8. KnowsSubject(u, P, k + 1, db, contended')
    <3>1. k = 1 /\ s.req.kind \in Settling
      BY <2>3, <2>7 DEF Knows, Plan, Suits
    <3>2. Settleable(s.req, db.txns[s.req.txn])
      BY <2>6 DEF MaySettle, Settleable
    <3>3. \A j \in 1..(k + 1) - 1 : P[j].op = "load"
      BY <2>7, <3>1
    <3>4. u.req = s.req
      BY <2>4 DEF Goes
    <3> QED
      BY <3>1, <3>2, <3>3, <3>4 DEF KnowsSubject, Settleable
  <2>9. Looking(s, u, P, k, db)
    BY <2>4, <2>7 DEF Looking
  <2> QED
    BY <2>1, <2>2, <2>5, <2>7, <2>8, <2>9, LooksStep DEF s, P
<1> QED
  BY <1>2, <1>3 DEF LoadTransaction

\* The number that a request generates is the one after the last committed that day.
LEMMA GenerateNumberStep ==
  ASSUME RequestInv, NEW p \in Sessions, GenerateNumber(p), made' = made
  PROVE  RequestInv'
<1>0. PICK day \in Days :
        Continue(p, [session[p] EXCEPT !.number = <<day, db.last[day] + 1>>])
  BY DEF GenerateNumber
<1> DEFINE s == session[p]
           P == Program(s.req)
           n == [s EXCEPT !.number = <<day, db.last[day] + 1>>]
           u == Gone(n)
<1>1. Busy(p) /\ Op(p).op = "number"
  BY DEF GenerateNumber, At
<1>2. session' = [session EXCEPT ![p] = u] /\ db' = db /\ contended' = contended
  BY <1>0 DEF Continue, Gone
<1>3. PICK k : Ready(p, k)
  BY <1>1, <1>2, GetReady
<1>4. /\ Knows(s, P, k, db, contended') /\ k \in 1..Len(P) /\ P[k] = Op(p) /\ SessionType(s)
           /\ s # Idle
  BY <1>3 DEF Ready
<1>5. /\ u.bal = s.bal /\ u.res = s.res /\ u.posts = s.posts /\ u.inserted = s.inserted
      /\ u.created = s.created /\ u.number = <<day, db.last[day] + 1>>
      /\ u.copy = s.copy /\ u.seen = s.seen /\ Goes(s, u) /\ u.copy \in Copies
  BY <1>4 DEF Goes, Gone, SessionType, Fields
<1> HIDE DEF s, P, u, n
<1>6. \A q \in Sessions \ {p} : session[q] # Idle =>
        u.seen \cap session[q].seen \subseteq contended'
  BY <1>2, <1>4, <1>5, SeenApart DEF s
<1>7. contended \subseteq contended' /\ contended' \subseteq Racing
  BY <1>2, <1>4, SeenApart DEF s
<1>8. P[k].op = "number"
  BY <1>1, <1>4
<1>9. Looking(s, u, P, k, db)
  BY <1>5, <1>8 DEF Looking
<1> QED
  BY <1>2, <1>3, <1>6, <1>7, <1>8, <1>9, LooksStep DEF s, P

\* What a SELECT returns.
LEMMA VisibleFacts ==
  ASSUME RequestInv, NEW p \in Sessions, SessionType(session[p]), NEW x \in Cells
  PROVE  /\ Visible(p, x) \in Copies
         /\ Visible(p, x).found <=> x \in db.rows \cup session[p].created
         /\ Visible(p, x).balance = BalanceIn(session[p], x, db)
         /\ Visible(p, x).reserved = ReservedIn(session[p], x, db)
<1>1. db.balance[x] \in Nat /\ db.reserved[x] \in Nat
  BY DEF RequestInv, Tables, Ledger!TypeOK, Ledger!Cells, Cells
<1> DEFINE s == session[p]
<1>2. BalanceIn(s, x, db) \in Nat /\ ReservedIn(s, x, db) \in Nat
  BY <1>1 DEF SessionType, BalanceIn, ReservedIn
<1>3. Visible(p, x) = [found |-> x \in db.rows \cup s.created, balance |-> BalanceIn(s, x, db),
                       reserved |-> ReservedIn(s, x, db)]
  BY DEF Visible, BalanceIn, ReservedIn
<1>4. CASE x \in db.rows \cup s.created
  <2>1. (x \in db.rows \cup s.created) = TRUE
    BY <1>4
  <2>2. Visible(p, x) = [found |-> TRUE, balance |-> BalanceIn(s, x, db),
                         reserved |-> ReservedIn(s, x, db)]
    BY <1>3, <2>1, Zenon
  <2> HIDE DEF s
  <2> QED
    BY <1>2, <1>4, <2>2 DEF Copies, s
<1>5. CASE x \notin db.rows \cup s.created
  <2>1. (x \in db.rows \cup s.created) = FALSE
    BY <1>5
  <2>2. Visible(p, x) = [found |-> FALSE, balance |-> BalanceIn(s, x, db),
                         reserved |-> ReservedIn(s, x, db)]
    BY <1>3, <2>1, Zenon
  <2> HIDE DEF s
  <2> QED
    BY <1>2, <1>5, <2>2 DEF Copies, s
<1> QED
  BY <1>4, <1>5

\* The row object is as the SELECT of that row returned it.
LEMMA CopyRead ==
  ASSUME NEW u, NEW P \in Seq(Accesses), NEW k \in 1..Len(P), NEW d, NEW raced,
         Ordered(P), P[k].op \in {"create", "select"},
         u.copy.balance = BalanceIn(u, P[k].cell, d),
         u.copy.reserved = ReservedIn(u, P[k].cell, d)
  PROVE  KnowsCopy(u, P, k + 1, d, raced)
<1>1. k # Len(P)
  BY DEF Ordered, OrderedAt
<1>2. k + 1 \in 1..Len(P) /\ (k + 1) - 1 = k
  BY <1>1
<1>3. P[k + 1].op \in {"update", "count", "reserve", "release"} => P[k + 1].cell = P[k].cell
  BY <1>2 DEF Ordered, OrderedAt
<1> QED
  BY <1>3 DEF KnowsCopy

\* A SELECT that finds its row keeps it.
LEMMA SelectStep ==
  ASSUME RequestInv, NEW p \in Sessions, made' = made, At(p, "select"),
         Visible(p, Op(p).cell).found,
         Touch(p, Op(p).cell, [session[p] EXCEPT !.copy = Visible(p, Op(p).cell)])
  PROVE  RequestInv'
<1> DEFINE s == session[p]
           P == Program(s.req)
           x == Op(p).cell
           row == Visible(p, x)
           v == [s EXCEPT !.copy = row]
           u == GoneSeen(v, x)
<1>1. Busy(p) /\ Op(p).op = "select"
  BY DEF At
<1>2. session' = [session EXCEPT ![p] = u] /\ db' = db /\ contended \subseteq contended'
  BY DEF Touch, GoneSeen
<1>3. PICK k : Ready(p, k)
  BY <1>1, <1>2, GetReady
<1>4. /\ Knows(s, P, k, db, contended') /\ k \in 1..Len(P) /\ P[k] = Op(p) /\ SessionType(s)
           /\ s # Idle
      /\ x \in Cells /\ P \in Seq(Accesses) /\ Ordered(P)
  BY <1>1, <1>3, ZenonT(60) DEF Ready, Ordered, OrderedAt
<1>5. /\ row \in Copies /\ x \in db.rows \cup s.created
      /\ row.balance = BalanceIn(s, x, db) /\ row.reserved = ReservedIn(s, x, db)
  BY <1>4, VisibleFacts
<1> HIDE DEF row
<1>6. v.seen = s.seen
  BY <1>4 DEF SessionType, Fields
<1>7. Touch(p, x, v)
  BY DEF row
<1>8. /\ u.bal = s.bal /\ u.res = s.res /\ u.posts = s.posts /\ u.inserted = s.inserted
      /\ u.created = s.created /\ u.number = s.number /\ u.copy = row
      /\ u.seen = s.seen \cup {x} /\ Goes(s, u)
  BY <1>4 DEF Goes, GoneSeen, SessionType, Fields
<1>9. /\ contended' \subseteq Racing
      /\ \A q \in Sessions \ {p} : session[q] # Idle =>
           u.seen \cap session[q].seen \subseteq contended'
  BY <1>4, <1>6, <1>7, <1>8, TouchSeen
<1> HIDE DEF s, P, u, x, v
<1>10. P[k].op = "select" /\ P[k].cell = x
  BY <1>1, <1>4 DEF x
<1>11. u.copy.balance = BalanceIn(u, x, db) /\ u.copy.reserved = ReservedIn(u, x, db)
  BY <1>5, <1>8 DEF BalanceIn, ReservedIn
<1>12. KnowsCopy(u, P, k + 1, db, contended')
  BY <1>4, <1>10, <1>11, CopyRead
<1>13. Looking(s, u, P, k, db)
  BY <1>5, <1>8, <1>10 DEF Looking
<1> QED
  BY <1>2, <1>3, <1>9, <1>10, <1>12, <1>13, LooksStep, ZenonT(60) DEF s, P

\* A look at what is available keeps it.
LEMMA EnoughStep ==
  ASSUME RequestInv, NEW p \in Sessions, made' = made, At(p, "enough"),
         Visible(p, Op(p).cell).found, Touch(p, Op(p).cell, session[p])
  PROVE  RequestInv'
<1> DEFINE s == session[p]
           P == Program(s.req)
           x == Op(p).cell
           u == GoneSeen(s, x)
<1>1. Busy(p) /\ Op(p).op = "enough"
  BY DEF At
<1>2. session' = [session EXCEPT ![p] = u] /\ db' = db /\ contended \subseteq contended'
  BY DEF Touch, GoneSeen
<1>3. PICK k : Ready(p, k)
  BY <1>1, <1>2, GetReady
<1>4. /\ Knows(s, P, k, db, contended') /\ k \in 1..Len(P) /\ P[k] = Op(p) /\ SessionType(s)
           /\ s # Idle
      /\ x \in Cells
  BY <1>1, <1>3, SMTT(60) DEF Ready, Ordered, OrderedAt
<1>5. x \in db.rows \cup s.created
  BY <1>4, VisibleFacts
<1>6. /\ u.bal = s.bal /\ u.res = s.res /\ u.posts = s.posts /\ u.inserted = s.inserted
      /\ u.created = s.created /\ u.number = s.number /\ u.copy = s.copy
      /\ u.seen = s.seen \cup {x} /\ Goes(s, u) /\ u.copy \in Copies
  BY <1>4, GoesOn DEF GoneSeen, SessionType, Fields
<1>7. /\ contended' \subseteq Racing
      /\ \A q \in Sessions \ {p} : session[q] # Idle =>
           u.seen \cap session[q].seen \subseteq contended'
  BY <1>4, <1>6, TouchSeen
<1> HIDE DEF s, P, u, x
<1>8. P[k].op = "enough" /\ P[k].cell = x
  BY <1>1, <1>4 DEF x
<1>9. Looking(s, u, P, k, db)
  BY <1>5, <1>6, <1>8 DEF Looking
<1> QED
  BY <1>2, <1>3, <1>7, <1>8, <1>9, LooksStep, ZenonT(60) DEF s, P

\* ensure_balance_record goes on to create a row it has not found, and past
\* that when it has found one.
LEMMA FindStep ==
  ASSUME RequestInv, NEW p \in Sessions, made' = made, At(p, "find"), NEW w,
         w = [session[p] EXCEPT !.copy = Visible(p, Op(p).cell)],
         Touch(p, Op(p).cell,
           IF Visible(p, Op(p).cell).found THEN [w EXCEPT !.todo = Tail(@)] ELSE w)
  PROVE  RequestInv'
<1> DEFINE s == session[p]
           P == Program(s.req)
           x == Op(p).cell
           row == Visible(p, x)
           v == GoneSeen(w, x)
           u == Gone(v)
<1>1. Busy(p) /\ Op(p).op = "find"
  BY DEF At
<1>2. db' = db /\ contended \subseteq contended'
  BY DEF Touch
<1>3. PICK k : Ready(p, k)
  BY <1>1, <1>2, GetReady
<1>4. /\ Knows(s, P, k, db, contended') /\ k \in 1..Len(P) /\ k \in Nat /\ P[k] = Op(p)
      /\ SessionType(s) /\ s # Idle
      /\ x \in Cells /\ P \in Seq(Accesses) /\ Ordered(P) /\ db.last \in [Days -> Nat]
  BY <1>1, <1>3, ZenonT(60) DEF Ready, Ordered, OrderedAt
<1>5. /\ row \in Copies /\ (row.found <=> x \in db.rows \cup s.created)
      /\ row.balance = BalanceIn(s, x, db) /\ row.reserved = ReservedIn(s, x, db)
  BY <1>4, VisibleFacts
<1> HIDE DEF row
<1>6. w = [s EXCEPT !.copy = row]
  BY DEF row
<1>7. /\ DOMAIN w = Fields /\ w.bal = s.bal /\ w.res = s.res /\ w.posts = s.posts
      /\ w.inserted = s.inserted /\ w.created = s.created /\ w.number = s.number /\ w.copy = row
      /\ w.seen = s.seen /\ w.todo = s.todo /\ w.req = s.req
  BY <1>4, <1>6 DEF SessionType, Fields
<1>8. /\ DOMAIN v = Fields /\ v.bal = s.bal /\ v.res = s.res /\ v.posts = s.posts
      /\ v.inserted = s.inserted /\ v.created = s.created /\ v.number = s.number /\ v.copy = row
      /\ v.seen = s.seen \cup {x} /\ v.todo = Tail(s.todo) /\ v.req = s.req /\ Goes(s, v)
  BY <1>4, <1>7 DEF Goes, GoneSeen, SessionType, Fields
<1>9. /\ DOMAIN u = Fields /\ u.bal = v.bal /\ u.res = v.res /\ u.posts = v.posts
      /\ u.inserted = v.inserted /\ u.created = v.created /\ u.number = v.number /\ u.copy = row
      /\ u.seen = v.seen /\ u.req = s.req /\ Goes(v, u)
  BY <1>4, <1>8 DEF Goes, Gone, SessionType, Fields
<1>10. \E o : o.seen = s.seen /\ Touch(p, x, o)
  <2>1. [w EXCEPT !.todo = Tail(@)].seen = s.seen
    BY <1>7 DEF Fields
  <2>2. CASE row.found
    <3>1. Touch(p, x, [w EXCEPT !.todo = Tail(@)])
      BY <2>2 DEF row
    <3> QED
      BY <2>1, <3>1
  <2>3. CASE ~ row.found
    <3>1. Touch(p, x, w)
      BY <2>3 DEF row
    <3> QED
      BY <1>7, <3>1
  <2> QED
    BY <2>2, <2>3
<1>11. /\ contended' \subseteq Racing
       /\ \A q \in Sessions \ {p} : session[q] # Idle =>
            v.seen \cap session[q].seen \subseteq contended'
  BY <1>4, <1>8, <1>10, TouchSeen
<1>12. row.found => session' = [session EXCEPT ![p] = u]
  BY <1>7 DEF Touch, Gone, GoneSeen, row, Fields
<1>13. ~ row.found => session' = [session EXCEPT ![p] = v]
  BY DEF Touch, GoneSeen, row
<1> HIDE DEF s, P, u, v, x
<1>14. P[k].op = "find" /\ P[k].cell = x
  BY <1>1, <1>4 DEF x
<1>15. Looking(s, v, P, k, db)
  BY <1>5, <1>8, <1>14 DEF Looking
<1>16. CASE ~ row.found
  BY <1>2, <1>3, <1>11, <1>13, <1>14, <1>15, <1>16, LooksStep DEF s, P
<1>17. CASE row.found
  <2>1. Knows(v, P, k + 1, db, contended')
    BY <1>4, <1>14, <1>15, LookingKnows
  <2>2. /\ k + 1 \in 1..Len(P) /\ k + 1 \in Nat
        /\ P[k + 1].op = "create" /\ P[k + 1].cell = x
    BY <1>4, <1>14 DEF Ordered, OrderedAt
  <2>3. u.copy.balance = BalanceIn(u, x, db) /\ u.copy.reserved = ReservedIn(u, x, db)
    BY <1>5, <1>8, <1>9 DEF BalanceIn, ReservedIn
  <2>4. KnowsCopy(u, P, (k + 1) + 1, db, contended')
    BY <1>4, <2>2, <2>3, CopyRead
  <2>5. Looking(v, u, P, k + 1, db)
    BY <1>5, <1>8, <1>9, <1>17, <2>2 DEF Looking
  <2>6. Knows(u, P, (k + 1) + 1, db, contended')
    BY <1>4, <2>1, <2>2, <2>4, <2>5, LookingKnows
  <2>7. Held(u) = Held(s) /\ u.inserted = s.inserted /\ u.number = s.number
    BY <1>8, <1>9 DEF Held
  <2>8. (k + 1) + 1 \in Nat
    BY <2>2
  <2> QED
    BY <1>2, <1>4, <1>9, <1>11, <1>12, <1>17, <2>6, <2>7, <2>8, AdvanceStep, SMTT(60) DEF s, P
<1> QED
  BY <1>16, <1>17

\* get_branch_balance, whatever it is for, keeps it.
LEMMA ReadBalanceStep ==
  ASSUME RequestInv, NEW p \in Sessions, ReadBalance(p), made' = made
  PROVE  RequestInv'
<1>1. ASSUME At(p, "find"),
             Touch(p, Op(p).cell,
                   IF Visible(p, Op(p).cell).found
                   THEN [[session[p] EXCEPT !.copy = Visible(p, Op(p).cell)] EXCEPT !.todo
                     = Tail(@)]
                   ELSE [session[p] EXCEPT !.copy = Visible(p, Op(p).cell)])
      PROVE  RequestInv'
  BY <1>1, FindStep
<1>2. CASE Busy(p) /\ Rollback(p)
  BY <1>2, RollbackStep
<1>3. ASSUME At(p, "select"), Visible(p, Op(p).cell).found,
             Touch(p, Op(p).cell, [session[p] EXCEPT !.copy = Visible(p, Op(p).cell)])
      PROVE  RequestInv'
  BY <1>3, SelectStep
<1>4. ASSUME At(p, "enough"), Visible(p, Op(p).cell).found, Touch(p, Op(p).cell, session[p])
      PROVE  RequestInv'
  BY <1>4, EnoughStep
<1> QED
  BY <1>1, <1>2, <1>3, <1>4 DEF ReadBalance, At

\* The row a handler creates before it updates it has not been written.
LEMMA CreatedClean ==
  ASSUME NEW s, NEW P, NEW k, NEW d, NEW raced, Knows(s, P, k, d, raced),
         P[k].op = "create", P[k + 1].op = "update"
  PROVE  P[k].cell \notin DOMAIN s.bal /\ P[k].cell \notin DOMAIN s.res
<1>1. /\ k \in 1..Len(P) /\ k > 1 /\ Len(P) \in Nat
  BY DEF Knows, OnCourse, Plan, Ordered, OrderedAt
<1>2. k + 1 \in 1..Len(P)
  <2>1. k # Len(P)
    BY <1>1 DEF Knows, Plan, Ordered, OrderedAt
  <2> QED
    BY <1>1, <2>1
<1>3. P[k + 1].cell = P[k].cell
  BY <1>1 DEF Knows, Plan, Ordered, OrderedAt
<1>4. /\ \A x \in DOMAIN s.bal : \E j \in 1..k - 1 : P[j].op \in {"update", "count"}
           /\ P[j].cell = x
      /\ \A x \in DOMAIN s.res : \E j \in 1..k - 1 : P[j].op \in {"reserve", "release"}
           /\ P[j].cell = x
  BY DEF Knows, KnowsRows
<1>5. Simple(P)
  BY <1>1, SimplePlan
<1>6. \A j \in 1..k - 1 : j \in 1..Len(P) /\ j # k + 1 /\ ~ (k + 1 < j)
  BY <1>1
<1>7. \A j \in 1..k - 1 : P[j].op \notin {"reserve", "release"}
  BY <1>2, <1>5, <1>6 DEF Simple
<1>8. \A j \in 1..k - 1 : P[j].op \in {"update", "count"} => P[j].cell # P[k].cell
  BY <1>2, <1>3, <1>5, <1>6 DEF Simple
<1> QED
  BY <1>4, <1>7, <1>8

\* The creation of a missing row keeps it.
LEMMA CreateRowStep ==
  ASSUME RequestInv, NEW p \in Sessions, CreateRow(p), made' = made
  PROVE  RequestInv'
<1>1. Busy(p) /\ Op(p).op = "create"
  BY DEF CreateRow, At
<1>2. CASE Rollback(p)
  BY <1>1, <1>2, RollbackStep
<1> DEFINE s == session[p]
           P == Program(s.req)
           x == Op(p).cell
           row == [NoRow EXCEPT !.found = TRUE]
           w == [s EXCEPT !.created = @ \cup {x}, !.copy = row]
           u == Gone(w)
<1>3. ASSUME x \notin db.rows, Continue(p, w)
      PROVE  RequestInv'
  <2>1. session' = [session EXCEPT ![p] = u] /\ db' = db /\ contended' = contended
    BY <1>3 DEF Continue, Gone
  <2>2. PICK k : Ready(p, k)
    BY <1>1, <2>1, GetReady
  <2>3. /\ Knows(s, P, k, db, contended') /\ k \in 1..Len(P) /\ P[k] = Op(p) /\ SessionType(s)
             /\ s # Idle
        /\ x \in Cells /\ P \in Seq(Accesses) /\ Ordered(P)
    BY <1>1, <2>2, SMTT(60) DEF Ready, Ordered, OrderedAt
  <2>4. row \in Copies /\ row.balance = 0 /\ row.reserved = 0
    BY DEF Copies, NoRow
  <2> HIDE DEF row
  <2>5. /\ u.bal = s.bal /\ u.res = s.res /\ u.posts = s.posts /\ u.inserted = s.inserted
        /\ u.created = s.created \cup {x} /\ u.number = s.number /\ u.copy = row /\ u.seen = s.seen
        /\ Goes(s, u)
    BY <2>3 DEF Goes, Gone, SessionType, Fields
  <2>6. db.balance[x] = 0 /\ db.reserved[x] = 0
    <3>1. /\ db.balance[x] = 0 /\ db.reserved[x] <= db.balance[x]
      BY <1>3, <2>3 DEF RequestInv, Tables
    <3>2. db.reserved[x] \in Nat
      BY <2>3 DEF RequestInv, Tables, Ledger!TypeOK, Ledger!Cells, Cells
    <3> QED
      BY <3>1, <3>2
  <2> HIDE DEF s, P, u, w, x
  <2>7. P[k].op = "create" /\ P[k].cell = x
    BY <1>1, <2>3 DEF x
  <2>8. KnowsCopy(u, P, k + 1, db, contended')
    <3>1. P[k + 1].op = "number" \/ P[k + 1].op = "update"
      BY <2>3, <2>7 DEF Ordered, OrderedAt
    <3>2. CASE P[k + 1].op = "number"
      BY <3>2 DEF KnowsCopy
    <3>3. CASE P[k + 1].op = "update"
      <4>1. x \notin DOMAIN s.bal /\ x \notin DOMAIN s.res
        BY <2>3, <2>7, <3>3, CreatedClean
      <4>2. BalanceIn(u, x, db) = 0 /\ ReservedIn(u, x, db) = 0
        BY <2>5, <2>6, <4>1 DEF BalanceIn, ReservedIn
      <4> QED
        BY <2>3, <2>4, <2>5, <2>7, <4>2, CopyRead
    <3> QED
      BY <3>1, <3>2, <3>3
  <2>9. \A q \in Sessions \ {p} : session[q] # Idle =>
          u.seen \cap session[q].seen \subseteq contended'
    BY <2>1, <2>3, <2>5, SeenApart DEF s
  <2>10. contended \subseteq contended' /\ contended' \subseteq Racing
    BY <2>1, <2>3, SeenApart DEF s
  <2>11. Looking(s, u, P, k, db)
    BY <2>4, <2>5, <2>7 DEF Looking
  <2> QED
    BY <2>1, <2>2, <2>7, <2>8, <2>9, <2>10, <2>11, LooksStep DEF s, P
<1> QED
  BY <1>2, <1>3 DEF CreateRow, Proceed

-----------------------------------------------------------------------------
(* Steps that write.                                                       *)

\* Nobody else has inserted a transaction of the day when its number is still free.
LEMMA InsertTransactionStep ==
  ASSUME RequestInv, NEW p \in Sessions, InsertTransaction(p), made' = made
  PROVE  RequestInv'
<1>1. Busy(p) /\ Op(p).op = "insert" /\ Waits(p) = {}
  BY DEF InsertTransaction, At
<1>2. CASE Rollback(p)
  BY <1>1, <1>2, RollbackStep
<1> DEFINE s == session[p]
           P == Program(s.req)
           u == [s EXCEPT !.inserted = <<RowOf(s.req)>>, !.todo = Tail(@)]
<1>3. ASSUME s.number[2] > db.last[s.number[1]], session' = [session EXCEPT ![p] = u],
             contended' = IF \E q \in Sessions \ {p} : session[q].inserted # <<>>
                          THEN contended \cup {Midnight} ELSE contended,
             UNCHANGED db
      PROVE  RequestInv'
  <2>1. /\ session' = [session EXCEPT ![p] = u] /\ db' = db
        /\ contended \subseteq contended' /\ contended' \subseteq Racing
        /\ \A q \in Sessions \ {p} : session[q].inserted # <<>> => Midnight \in contended'
    BY <1>3 DEF RequestInv, Racing
  <2>2. PICK k : Ready(p, k)
    BY <1>1, <2>1, GetReady
  <2>3. /\ Knows(s, P, k, db, contended') /\ k \in 1..Len(P) /\ k \in Nat /\ P[k] = Op(p)
        /\ SessionType(s) /\ s # Idle /\ db.last \in [Days -> Nat]
    BY <2>2 DEF Ready
  <2>4. /\ u.bal = s.bal /\ u.res = s.res /\ u.posts = s.posts /\ u.inserted = <<RowOf(s.req)>>
        /\ u.created = s.created /\ u.number = s.number /\ u.copy = s.copy /\ u.seen = s.seen
        /\ Goes(s, u)
    BY <2>3 DEF Goes, SessionType, Fields
  <2>5. s.number[2] > db.last[s.number[1]]
    BY <1>3
  <2> HIDE DEF s, P, u
  <2>6. P[k].op = "insert"
    BY <1>1, <2>3
  <2>7. /\ Knows(u, P, k + 1, db, contended')
        /\ NumberOf(u, db) /\ u.number[2] = db.last[u.number[1]] + 1
    BY <2>3, <2>4, <2>5, <2>6, Inserts, ZenonT(60)
  <2>8. ASSUME NEW q \in Sessions \ {p}, session[q] # Idle
        PROVE  ApartByDay(u, session[q], contended')
    <3> SUFFICES ASSUME session[q].inserted # <<>> PROVE ApartByDay(u, session[q], contended')
      BY DEF ApartByDay
    <3>1. PICK j \in Nat : Knows(session[q], Program(session[q].req), j, db, contended)
      BY <2>8, AtWorkFacts
    <3>2. /\ NumberOf(session[q], db)
          /\ session[q].number[2] = db.last[session[q].number[1]] + 1
      BY <3>1 DEF Knows, KnowsNumber
    <3>3. Busy(q)
      BY <2>8, AtWorkFacts
    <3>4. q \notin Waits(p)
      BY <1>1
    <3>5. session[q].number # s.number
      BY <1>1, <3>3, <3>4 DEF Waits, s
    <3>6. session[q].number[1] # s.number[1]
      BY <2>4, <2>7, <3>2, <3>5 DEF NumberOf
    <3> QED
      BY <2>1, <2>4, <3>6 DEF ApartByDay
  <2>9. \A q \in Sessions \ {p} : session[q] # Idle =>
          u.seen \cap session[q].seen \subseteq contended'
    BY <2>1, <2>3, <2>4, SeenApart DEF s
  <2>10. Held(u) = Held(s) /\ u.req = s.req /\ k + 1 \in Nat
    BY <2>3, <2>4 DEF Held, Goes
  <2> QED
    BY <2>1, <2>3, <2>7, <2>8, <2>9, <2>10, AdvanceStep DEF s, P
<1> QED
  BY <1>2, <1>3 DEF InsertTransaction

\* A row that p does not wait for is in nobody else's hands.
LEMMA RowFree ==
  ASSUME RequestInv, NEW p \in Sessions, Op(p).op \in {"update", "reserve", "release", "count"},
         Waits(p) = {}, NEW q \in Sessions \ {p}, session[q] # Idle
  PROVE  Op(p).cell \notin Held(session[q])
<1>1. Busy(q)
  BY AtWorkFacts
<1> QED
  BY <1>1 DEF Waits, Held

\* What an access does to a session that writes its row.
Writing(s, u, P, k, d, raced) ==
  /\ u.req = s.req /\ u.inserted = s.inserted /\ u.number = s.number /\ u.seen = s.seen
  /\ Held(u) = Held(s) \cup {P[k].cell}
  /\ P[k].op \in {"update", "reserve", "release", "count"}
  /\ Knows(u, P, k + 1, d, raced)

\* It is still apart from the others.
LEMMA WritesStep ==
  ASSUME RequestInv, NEW p \in Sessions, NEW k, Ready(p, k), NEW u, Waits(p) = {},
         session' = [session EXCEPT ![p] = u], db' = db, made' = made, contended' = contended,
         Writing(session[p], u, Program(session[p].req), k, db, contended')
  PROVE  RequestInv'
<1>1. k \in Nat /\ k + 1 \in Nat /\ session[p] # Idle /\ Program(session[p].req)[k] = Op(p)
  BY DEF Ready
<1>2. /\ Knows(u, Program(session[p].req), k + 1, db, contended')
      /\ u.req = session[p].req /\ u.inserted = session[p].inserted
      /\ u.number = session[p].number /\ u.seen = session[p].seen
      /\ Held(u) = Held(session[p]) \cup {Op(p).cell}
      /\ Op(p).op \in {"update", "reserve", "release", "count"}
  BY <1>1 DEF Writing
<1>3. ASSUME NEW q \in Sessions \ {p}, session[q] # Idle PROVE Held(u) \cap Held(session[q]) = {}
  <2>1. Op(p).cell \notin Held(session[q])
    BY <1>2, <1>3, RowFree
  <2>2. Held(session[p]) \cap Held(session[q]) = {}
    BY <1>1, <1>3 DEF RequestInv, Apart
  <2> QED
    BY <1>2, <2>1, <2>2
<1>4. contended \subseteq contended' /\ contended' \subseteq Racing
  BY <1>1, SeenApart
<1>5. \A q \in Sessions \ {p} : session[q] # Idle =>
        u.seen \cap session[q].seen \subseteq contended'
  BY <1>1, <1>2, SeenApart
<1> QED
  BY <1>1, <1>2, <1>3, <1>4, <1>5, AdvanceStep

\* The access that a busy session is about to make is one of its plan.
LEMMA AtHandFacts ==
  ASSUME RequestInv, NEW p \in Sessions, Busy(p)
  PROVE  /\ Op(p) \in Accesses /\ Op(p).amount \in Int
         /\ SessionType(session[p]) /\ session[p].copy.balance \in Nat
<1> DEFINE P == Program(session[p].req)
<1>1. PICK k \in Nat : Knows(session[p], P, k, db, contended) /\ k \in 1..Len(P) /\ Op(p) = P[k]
  BY AtWorkFacts
<1>2. P \in Seq(Accesses) /\ SessionType(session[p])
  BY <1>1 DEF Knows, Plan
<1> HIDE DEF P
<1>3. Op(p) \in Accesses
  BY <1>1, <1>2
<1>4. Op(p).amount \in Int
  BY <1>3 DEF Accesses
<1>5. session[p].copy.balance \in Nat
  BY <1>2 DEF SessionType, Copies
<1> QED
  BY <1>2, <1>3, <1>4, <1>5

\* update_balance keeps it: the new value is computed from the row as it still is,
\* unless the cell is contended.
LEMMA PostStep ==
  ASSUME RequestInv, NEW p \in Sessions, Busy(p), Op(p).op \in {"update", "count"},
         NEW amount \in Int,
         Op(p).op = "update" => amount = Op(p).amount,
         Op(p).op = "count" => amount = Op(p).amount - session[p].copy.balance /\ amount # 0,
         Post(p, amount), made' = made
  PROVE  RequestInv'
<1>1. CASE Rollback(p)
  BY <1>1, RollbackStep
<1> DEFINE s == session[p]
           P == Program(s.req)
           x == Op(p).cell
           new == s.copy.balance + amount
           e == [change |-> Op(p).change, amount |-> amount,
                 before |-> s.copy.balance, after |-> new]
           w == [s EXCEPT !.bal = Over(@, x, new),
                          !.posts = Over(@, x, Append(PostsOn(s, x), e))]
           u == Gone(w)
<1>2. ASSUME new >= 0, Visible(p, x).reserved <= new, Waits(p) = {}, Continue(p, w)
      PROVE  RequestInv'
  <2>1. session' = [session EXCEPT ![p] = u] /\ db' = db /\ contended' = contended
    BY <1>2 DEF Continue, Gone
  <2>2. PICK k : Ready(p, k)
    BY <2>1, GetReady
  <2>3. /\ Knows(s, P, k, db, contended') /\ k \in 1..Len(P) /\ k \in Nat /\ P[k] = Op(p)
        /\ SessionType(s) /\ s # Idle /\ x \in Cells
    BY <2>2 DEF Ready, Ordered, OrderedAt
  <2>4. ReservedIn(s, x, db) <= new
    BY <1>2, <2>3, VisibleFacts
  <2> DEFINE f == [change |-> P[k].change, amount |-> amount,
                   before |-> s.copy.balance, after |-> new]
             bals == Over(s.bal, x, new)
             posts == Over(s.posts, x, Append(PostsOn(s, x), f))
  <2>5. w = [s EXCEPT !.bal = bals, !.posts = posts]
    BY <2>3
  <2> HIDE DEF w, bals, posts
  <2>7. /\ u.bal = bals /\ u.res = s.res /\ u.posts = posts /\ u.inserted = s.inserted
        /\ u.created = s.created /\ u.number = s.number /\ u.copy = s.copy /\ u.seen = s.seen
        /\ Goes(s, u)
    BY <2>3, <2>5 DEF Goes, Gone, SessionType, Fields
  <2>8. new >= 0
    BY <1>2
  <2> HIDE DEF s, P, u, x
  <2>9. x = P[k].cell /\ P[k].op \in {"update", "count"}
    BY <2>3 DEF x
  <2>10. /\ P[k].op = "update" => amount = P[k].amount
         /\ P[k].op = "count" => amount = P[k].amount - s.copy.balance /\ amount # 0
    BY <2>3 DEF s
  <2>11. Knows(u, P, k + 1, db, contended')
    BY <2>3, <2>4, <2>7, <2>8, <2>9, <2>10, Posts DEF bals, posts
  <2>12. Held(u) = Held(s) \cup {x}
    <3>1. DOMAIN bals = DOMAIN s.bal \cup {x}
      BY DEF bals, Over
    <3> QED
      BY <2>7, <3>1 DEF Held
  <2>13. Writing(s, u, P, k, db, contended')
    BY <2>7, <2>9, <2>11, <2>12 DEF Writing, Goes
  <2>14. Waits(p) = {}
    BY <1>2
  <2> QED
    BY <2>1, <2>2, <2>13, <2>14, WritesStep DEF s, P
<1> QED
  BY <1>1, <1>2 DEF Post, Write, Proceed

\* UpdateBalance keeps the invariant.
LEMMA UpdateBalanceStep ==
  ASSUME RequestInv, NEW p \in Sessions, UpdateBalance(p), made' = made
  PROVE  RequestInv'
<1>1. Busy(p) /\ Op(p).op = "update" /\ Post(p, Op(p).amount)
  BY DEF UpdateBalance, At
<1>2. Op(p).amount \in Int
  BY <1>1, AtHandFacts
<1> QED
  BY <1>1, <1>2, PostStep

\* A count equal to the balance changes nothing.
LEMMA ReconcileStep ==
  ASSUME RequestInv, NEW p \in Sessions, Reconcile(p), made' = made
  PROVE  RequestInv'
<1> DEFINE s == session[p]
           P == Program(s.req)
           difference == Op(p).amount - s.copy.balance
           u == Gone(s)
<1>1. Busy(p) /\ Op(p).op = "count"
  BY DEF Reconcile, At
<1>2. Op(p).amount \in Int /\ s.copy.balance \in Nat
  BY <1>1, AtHandFacts
<1>4. difference \in Int
  BY <1>2
<1>5. CASE difference # 0
  <2>1. Post(p, difference)
    BY <1>5 DEF Reconcile
  <2> QED
    BY <1>1, <1>4, <1>5, <2>1, PostStep
<1>6. CASE Continue(p, s)
  <2>1. session' = [session EXCEPT ![p] = u] /\ db' = db /\ contended' = contended
    BY <1>6 DEF Continue, Gone
  <2>2. PICK k : Ready(p, k)
    BY <1>1, <2>1, GetReady
  <2>3. /\ Knows(s, P, k, db, contended') /\ k \in 1..Len(P) /\ P[k] = Op(p) /\ SessionType(s)
             /\ s # Idle
    BY <2>2 DEF Ready
  <2>4. /\ u.bal = s.bal /\ u.res = s.res /\ u.posts = s.posts /\ u.inserted = s.inserted
        /\ u.created = s.created /\ u.number = s.number /\ u.copy = s.copy /\ u.seen = s.seen
        /\ Goes(s, u) /\ u.copy \in Copies
    BY <2>3, GoesOn DEF Gone, SessionType, Fields
  <2> HIDE DEF s, P, u
  <2>5. \A q \in Sessions \ {p} : session[q] # Idle =>
          u.seen \cap session[q].seen \subseteq contended'
    BY <2>1, <2>3, <2>4, SeenApart DEF s
  <2>6. contended \subseteq contended' /\ contended' \subseteq Racing
    BY <2>1, <2>3, SeenApart DEF s
  <2>7. P[k].op = "count"
    BY <1>1, <2>3
  <2>8. Looking(s, u, P, k, db)
    BY <2>4, <2>7 DEF Looking
  <2> QED
    BY <2>1, <2>2, <2>5, <2>6, <2>7, <2>8, LooksStep DEF s, P
<1> QED
  BY <1>5, <1>6 DEF Reconcile

\* The two operations on the reserved balance keep it, for the same reason.
LEMMA WriteReservedStep ==
  ASSUME RequestInv, NEW p \in Sessions, NEW op \in {"reserve", "release"}, NEW checked, NEW new,
         WriteReserved(p, op, checked, new), made' = made,
         op = "reserve" => new = session[p].copy.reserved + Op(p).amount,
         op = "release" => new = session[p].copy.reserved - Op(p).amount
  PROVE  RequestInv'
<1>1. Busy(p) /\ Op(p).op = op
  BY DEF WriteReserved, At
<1>2. CASE Rollback(p)
  BY <1>1, <1>2, RollbackStep
<1> DEFINE s == session[p]
           P == Program(s.req)
           x == Op(p).cell
           w == [s EXCEPT !.res = Over(@, x, new)]
           u == Gone(w)
<1>3. ASSUME new \in 0..Visible(p, x).balance, Waits(p) = {}, Continue(p, w)
      PROVE  RequestInv'
  <2>1. session' = [session EXCEPT ![p] = u] /\ db' = db /\ contended' = contended
    BY <1>3 DEF Continue, Gone
  <2>2. PICK k : Ready(p, k)
    BY <1>1, <2>1, GetReady
  <2>3. /\ Knows(s, P, k, db, contended') /\ k \in 1..Len(P) /\ k \in Nat /\ P[k] = Op(p)
        /\ SessionType(s) /\ s # Idle /\ x \in Cells
    BY <1>1, <2>2 DEF Ready, Ordered, OrderedAt
  <2>4. new \in Nat /\ new <= BalanceIn(s, x, db)
    BY <1>3, <2>3, VisibleFacts DEF Copies
  <2> DEFINE held == Over(s.res, x, new)
  <2>5. w = [s EXCEPT !.res = held]
    OBVIOUS
  <2> HIDE DEF w, held
  <2>6. /\ u.bal = s.bal /\ u.res = held /\ u.posts = s.posts /\ u.inserted = s.inserted
        /\ u.created = s.created /\ u.number = s.number /\ u.copy = s.copy /\ u.seen = s.seen
        /\ Goes(s, u)
    BY <2>3, <2>5 DEF Goes, Gone, SessionType, Fields
  <2> HIDE DEF s, P, u, x
  <2>7. x = P[k].cell /\ P[k].op = op
    BY <1>1, <2>3 DEF x
  <2>8. \/ P[k].op = "reserve" /\ new = s.copy.reserved + P[k].amount
        \/ P[k].op = "release" /\ new = s.copy.reserved - P[k].amount
    BY <1>1, <2>3 DEF s
  <2>9. Knows(u, P, k + 1, db, contended')
    BY <2>3, <2>4, <2>6, <2>7, <2>8, Reserves DEF held
  <2>10. Held(u) = Held(s) \cup {x}
    <3>1. DOMAIN held = DOMAIN s.res \cup {x}
      BY DEF held, Over
    <3> QED
      BY <2>6, <3>1 DEF Held
  <2>11. Writing(s, u, P, k, db, contended')
    BY <2>6, <2>7, <2>9, <2>10 DEF Writing, Goes
  <2>12. Waits(p) = {}
    BY <1>3
  <2> QED
    BY <2>1, <2>2, <2>11, <2>12, WritesStep DEF s, P
<1> QED
  BY <1>2, <1>3 DEF WriteReserved, Write, Proceed

\* ReserveBalance keeps the invariant.
LEMMA ReserveBalanceStep ==
  ASSUME RequestInv, NEW p \in Sessions, ReserveBalance(p), made' = made
  PROVE  RequestInv'
  BY WriteReservedStep DEF ReserveBalance

\* ReleaseReservedBalance keeps the invariant.
LEMMA ReleaseReservedBalanceStep ==
  ASSUME RequestInv, NEW p \in Sessions, ReleaseReservedBalance(p), made' = made
  PROVE  RequestInv'
  BY WriteReservedStep DEF ReleaseReservedBalance

-----------------------------------------------------------------------------
(* A request begins.                                                       *)

\* What a session has when it begins: nothing.
LEMMA BegunFields ==
  ASSUME NEW r, NEW P
  PROVE  LET u == Begun(r, P)
         IN /\ DOMAIN u = Fields /\ u.req = r /\ u.todo = P /\ u.copy = NoRow /\ u.number = <<>>
            /\ u.seen = {} /\ u.inserted = <<>> /\ u.created = {}
            /\ u.bal = <<>> /\ u.res = <<>> /\ u.posts = <<>>
  BY DEF Begun, Fields

\* It is at the first access of its plan, and knows nothing yet.
LEMMA BegunKnows ==
  ASSUME NEW r \in Served, NEW P, NEW d, NEW raced, Plan(P, r, Subject(r, d.txns)),
         r.kind \in Settling => r.txn \in 1..Len(d.txns),
         \A x \in Cells : d.reserved[x] <= d.balance[x]
  PROVE  Knows(Begun(r, P), P, 1, d, raced)
<1> DEFINE u == Begun(r, P)
<1>1. /\ DOMAIN u = Fields /\ u.req = r /\ u.todo = P /\ u.copy = NoRow /\ u.number = <<>>
      /\ u.seen = {} /\ u.inserted = <<>> /\ u.created = {}
      /\ u.bal = <<>> /\ u.res = <<>> /\ u.posts = <<>>
  BY BegunFields
<1>2. DOMAIN u.bal = {} /\ DOMAIN u.res = {} /\ DOMAIN u.posts = {}
  BY <1>1
<1>3. P \in Seq(Accesses) /\ Len(P) > 0 /\ Ordered(P) /\ 1 \in 1..Len(P)
  BY DEF Plan
<1> HIDE DEF u
<1>4. SessionType(u)
  <2>1. NoRow \in Copies
    BY DEF NoRow, Copies
  <2> QED
    BY <1>1, <1>2, <2>1 DEF SessionType
<1>5. OnCourse(u, P, 1, d)
  <2>1. SubSeq(P, 1, Len(P)) = P
    BY <1>3, SubSeqFull
  <2> QED
    BY <1>1, <1>3, <2>1 DEF OnCourse
<1>6. \A j \in 1..1 - 1 : FALSE
  OBVIOUS
<1>7. KnowsNumber(u, P, 1, d)
  BY <1>1, <1>6 DEF KnowsNumber
<1>8. KnowsRows(u, P, 1, d)
  BY <1>1, <1>2, <1>6 DEF KnowsRows
<1>9. KnowsPosts(u, P, 1, d, raced)
  BY <1>2 DEF KnowsPosts
<1>10. KnowsCopy(u, P, 1, d, raced)
  <2>1. P[1].op \notin {"update", "count", "reserve", "release"}
    BY <1>3 DEF Ordered, OrderedAt
  <2> QED
    BY <2>1 DEF KnowsCopy
<1>11. KnowsReserved(u, P, 1, d, raced)
  BY <1>2, <1>6 DEF KnowsReserved, ReservedIn, BalanceIn
<1>12. KnowsSubject(u, P, 1, d, raced)
  BY <1>6 DEF KnowsSubject
<1> QED
  BY <1>1, <1>4, <1>5, <1>7, <1>8, <1>9, <1>10, <1>11, <1>12 DEF Knows, u

\* A request is one of those served.
LEMMA RequestFacts ==
  ASSUME NEW r \in Requests, Len(db.txns) \in Nat
  PROVE  r \in Served /\ (r.kind \in Settling => r.txn \in 1..Len(db.txns))
<1>1. 1..Len(db.txns) \subseteq Nat \ {0}
  OBVIOUS
<1>2. r.kind \in Settling => r.txn \in 1..Len(db.txns)
  BY DEF Requests, Settling
<1>3. r \in Served
  BY <1>1 DEF Requests, Served, Settling
<1> QED
  BY <1>2, <1>3

\* A request that arrives keeps the invariant.
LEMMA BeginStep ==
  ASSUME RequestInv, NEW p \in Sessions, NEW r \in Requests, Begin(p, r)
  PROVE  RequestInv'
<1> DEFINE P == Program(r)
           u == Begun(r, P)
           underWay == {session[q].req.kind : q \in {o \in Sessions : Busy(o)}}
<1>1. /\ ~ Busy(p) /\ made < MaxRequests /\ made' = made + 1
      /\ session' = [session EXCEPT ![p] = u] /\ db' = db /\ contended' = contended
      /\ underWay # {} => underWay \cup {r.kind} \subseteq Overlapping
  BY DEF Begin
<1>2. /\ Len(db.txns) \in Nat /\ contended \subseteq Racing /\ DOMAIN session = Sessions
      /\ \A x \in Cells : Len(db.history[x]) \in Nat
      /\ \A x \in Cells : db.reserved[x] <= db.balance[x]
      /\ \A i \in 1..Len(db.txns) : Sound(db.txns[i])
  BY DEF RequestInv, Tables, Ledger!TypeOK, Ledger!Cells, Cells
<1>3. r \in Served /\ (r.kind \in Settling => r.txn \in 1..Len(db.txns))
  BY <1>2, RequestFacts
<1>4. Plan(P, r, Subject(r, db.txns))
  BY <1>2, <1>3, PlanOf
<1>5. u.req = r /\ u.inserted = <<>> /\ u.seen = {} /\ Held(u) = {}
  <2>1. u.req = r /\ u.inserted = <<>> /\ u.seen = {} /\ u.bal = <<>> /\ u.res = <<>>
    BY BegunFields
  <2> QED
    BY <2>1 DEF Held
<1> HIDE DEF P
<1>6. Knows(u, P, 1, db, contended')
  BY <1>2, <1>3, <1>4, BegunKnows
<1> HIDE DEF u, underWay
<1>7. Knows(u, Program(u.req), 1, db, contended')
  BY <1>5, <1>6 DEF P
<1>8. session[p] = Idle
  BY <1>1, AtWorkFacts
<1>9. ASSUME NEW q \in Sessions \ {p}, session[q] # Idle PROVE Apart(u, session[q], contended')
  <2>1. Busy(q)
    BY <1>9, AtWorkFacts
  <2>2. session[q].req.kind \in underWay
    BY <2>1 DEF underWay
  <2>3. {r.kind, session[q].req.kind} \subseteq Overlapping
    BY <1>1, <2>2
  <2> QED
    BY <1>5, <2>3 DEF Apart, ApartByDay, Separate
<1>10. \A q \in Sessions \ {p} : Apart(u, session[q], contended')
  BY <1>9 DEF Apart
<1>11. Counted'
  <2>1. u # Idle
    BY <1>7, KnowsBusy
  <2>2. AtWork' = AtWork \cup {p} /\ p \notin AtWork
    BY <1>1, <1>2, <1>8, <2>1 DEF AtWork
  <2>3. /\ IsFiniteSet(AtWork) /\ made \in 0..MaxRequests
        /\ Cardinality(AtWork) + Len(db.txns) <= made
        /\ \A x \in Cells : Cardinality(AtWork) + Len(db.history[x]) <= made
    BY DEF RequestInv, Counted
  <2>4. /\ IsFiniteSet(AtWork') /\ Cardinality(AtWork') = Cardinality(AtWork) + 1
        /\ Cardinality(AtWork) \in Nat
    BY <2>2, <2>3, FS_AddElement, FS_CardinalityType
  <2>5. MaxRequests \in Nat
    BY RequestAssumption
  <2>6. made' \in 0..MaxRequests
    BY <1>1, <2>3, <2>5
  <2>7. Cardinality(AtWork') + Len(db'.txns) <= made'
    BY <1>1, <1>2, <2>3, <2>4, <2>5
  <2>8. \A x \in Cells : Cardinality(AtWork') + Len(db'.history[x]) <= made'
    BY <1>1, <1>2, <2>3, <2>4, <2>5
  <2> QED
    BY <2>4, <2>6, <2>7, <2>8 DEF Counted
<1>12. /\ contended \subseteq contended' /\ contended' \subseteq Racing /\ db' = db
       /\ session' = [session EXCEPT ![p] = u]
  BY <1>1, <1>2
<1>13. u = Idle \/ \E k \in Nat : Knows(u, Program(u.req), k, db, contended')
  BY <1>7
<1> QED
  BY <1>10, <1>11, <1>12, <1>13, QuietStep

\* A session aborted in a deadlock leaves nothing behind.
LEMMA DeadlockVictimStep ==
  ASSUME RequestInv, NEW p \in Sessions, DeadlockVictim(p)
  PROVE  RequestInv'
<1>1. Busy(p) /\ Rollback(p) /\ made' = made
  BY DEF DeadlockVictim
<1> QED
  BY <1>1, RollbackStep

\* Nor does one that crashes.
LEMMA CrashStep ==
  ASSUME RequestInv, NEW p \in Sessions, Crash(p)
  PROVE  RequestInv'
<1>1. Busy(p) /\ Rollback(p) /\ made' = made
  BY DEF Crash
<1> QED
  BY <1>1, RollbackStep

-----------------------------------------------------------------------------
(* What a request has done when only its commit is left.                   *)

\* One balance it leaves, and the history row of that.
PostedIn(s, x, d, raced) ==
  LET e == s.posts[x][1]
  IN /\ s.posts[x] = <<e>> /\ e \in Postings
     /\ e.after = s.bal[x] /\ e.after = e.before + e.amount
     /\ Trusted(x, raced) => e.before = d.balance[x] /\ d.reserved[x] <= s.bal[x]

\* Its postings are those that are due.
FinishedPosts(s, d, raced) ==
  LET D == Dues(s.req, Subject(s.req, d.txns))
  IN /\ DOMAIN s.posts = DOMAIN s.bal
     /\ \A x \in DOMAIN s.bal : PostedIn(s, x, d, raced)
     /\ s.req.kind # "reconcile" =>
          /\ \A x \in DOMAIN s.bal : <<x, s.posts[x][1].amount, s.posts[x][1].change>> \in D
          /\ \A due \in D :
               /\ due[1] \in DOMAIN s.bal
               /\ s.posts[due[1]][1].amount = due[2] /\ s.posts[due[1]][1].change = due[3]
     /\ s.req.kind = "reconcile" =>
          \A x \in DOMAIN s.bal :
            /\ x = s.req.cell /\ s.bal[x] = s.req.count
            /\ s.posts[x][1].amount # 0 /\ s.posts[x][1].change = "reconciliation"
     /\ DOMAIN s.bal \subseteq d.rows \cup s.created
     /\ \A x \in s.created : \E due \in D : due[1] = x

\* It has reserved what it must, or given back.
FinishedReserved(s, d, raced) ==
  LET r == s.req
      t == Subject(r, d.txns)
  IN /\ \A x \in DOMAIN s.res : (r.kind = "transfer" \/ Releases(r, t)) /\ x = t.cell
     /\ r.kind = "transfer" =>
          /\ t.cell \in DOMAIN s.res
          /\ Trusted(t.cell, raced) => s.res[t.cell] = d.reserved[t.cell] + t.amount
     /\ Releases(r, t) =>
          /\ t.cell \in DOMAIN s.res
          /\ Trusted(t.cell, raced) => s.res[t.cell] = d.reserved[t.cell] - t.amount
     /\ \A x \in Cells : ReservedIn(s, x, d) <= BalanceIn(s, x, d)

FinishedSubject(s, d, raced) ==
  LET r == s.req
      t == Subject(r, d.txns)
  IN /\ r.kind \in Settling =>
          /\ r.txn \in 1..Len(d.txns)
          /\ r.kind = "receive" => t.type = "transfer"
          /\ r.kind = "approve" => t.type = "expense"
          /\ Trusted(t.cell, raced) => Settleable(r, t)
          /\ t.cell \in s.seen
     /\ Separate =>
          /\ r.kind \in Creating => t.cell[1] \in d.active
          /\ r.kind = "transfer" => t.toCell[1] \in d.active
          /\ r.kind = "delete" =>
               /\ r.branch \notin MainBranches
               /\ \A c \in Currencies : d.balance[<<r.branch, c>>] = 0

Finished(s, d, raced) ==
  /\ SessionType(s)
  /\ IF s.req.kind \in Creating
     THEN /\ s.inserted = <<RowOf(s.req)>>
          /\ NumberOf(s, d) /\ s.number[2] = d.last[s.number[1]] + 1
     ELSE s.inserted = <<>>
  /\ Held(s) \subseteq s.seen
  /\ FinishedPosts(s, d, raced)
  /\ FinishedReserved(s, d, raced)
  /\ FinishedSubject(s, d, raced)

\* A handler writes the row that it has just read or created.
LEMMA WritesRead ==
  ASSUME NEW s, NEW P, NEW k, NEW d, NEW raced, Knows(s, P, k, d, raced),
         NEW j \in 1..k, P[j].op \in {"update", "count", "reserve", "release"}
  PROVE  P[j].cell \in s.seen /\ P[j].cell \in d.rows \cup s.created
<1>1. k \in 1..Len(P) /\ Ordered(P) /\ KnowsRows(s, P, k, d)
  BY DEF Knows, Plan, OnCourse
<1>2. j \in 1..Len(P) /\ OrderedAt(P, j)
  BY <1>1 DEF Ordered
<1>3. CASE P[j].op = "update"
  <2>1. j > 1 /\ P[j - 1].op = "create" /\ P[j - 1].cell = P[j].cell
    BY <1>2, <1>3 DEF OrderedAt
  <2>2. j - 1 \in 1..Len(P) /\ j - 1 \in 1..k - 1
    BY <1>1, <1>2, <2>1
  <2>3. OrderedAt(P, j - 1)
    BY <1>1, <2>2 DEF Ordered
  <2> DEFINE i == j - 1
  <2>4. i \in 1..Len(P) /\ i \in 1..k - 1 /\ P[i].op = "create" /\ P[i].cell = P[j].cell
          /\ OrderedAt(P, i)
    BY <2>1, <2>2, <2>3
  <2> HIDE DEF i
  <2>5. i > 1 /\ P[i - 1].op = "find" /\ P[i - 1].cell = P[i].cell
    BY <2>4 DEF OrderedAt
  <2>6. i - 1 \in 1..k - 1
    BY <1>1, <2>4, <2>5
  <2> QED
    BY <1>1, <2>4, <2>5, <2>6 DEF KnowsRows
<1>4. CASE P[j].op \in {"count", "reserve", "release"}
  <2>1. j > 1 /\ P[j - 1].op = "select" /\ P[j - 1].cell = P[j].cell
    BY <1>2, <1>4 DEF OrderedAt
  <2>2. j - 1 \in 1..k - 1
    BY <1>1, <1>2, <2>1
  <2> QED
    BY <1>1, <2>1, <2>2 DEF KnowsRows
<1> QED
  BY <1>3, <1>4

\* A session has read every row it holds.
LEMMA HeldSeen ==
  ASSUME NEW s, NEW P, NEW k, NEW d, NEW raced, Knows(s, P, k, d, raced)
  PROVE  Held(s) \subseteq s.seen
<1>1. k \in 1..Len(P)
  BY DEF Knows, OnCourse
<1>2. \A j \in 1..k - 1 : j \in 1..k
  BY <1>1
<1>3. \A x \in Held(s) : \E j \in 1..k - 1 :
        P[j].op \in {"update", "count", "reserve", "release"} /\ P[j].cell = x
  BY DEF Held, Knows, KnowsRows
<1> QED
  BY <1>2, <1>3, WritesRead

\* At the commit everything the plan says is done.
LEMMA AllDone ==
  ASSUME NEW s, NEW P, NEW k, NEW d, NEW raced, Knows(s, P, k, d, raced), P[k].op = "commit"
  PROVE  /\ k = Len(P) /\ k \in Nat
         /\ \A j \in 1..Len(P) : P[j].op # "commit" => j \in 1..k - 1
         /\ \A j \in 1..k - 1 : j \in 1..Len(P)
<1>1. k \in 1..Len(P) /\ Ordered(P)
  BY DEF Knows, Plan, OnCourse
<1>2. k = Len(P)
  BY <1>1 DEF Ordered, OrderedAt
<1> QED
  BY <1>1, <1>2

\* The plan is carried out: every balance due is posted.
LEMMA PostsDone ==
  ASSUME NEW s, NEW P, NEW k, NEW d, NEW raced, Knows(s, P, k, d, raced), P[k].op = "commit"
  PROVE  FinishedPosts(s, d, raced)
<1> DEFINE r == s.req
           t == Subject(r, d.txns)
           D == Dues(r, t)
<1>1. /\ k = Len(P) /\ k \in Nat
      /\ \A j \in 1..Len(P) : P[j].op # "commit" => j \in 1..k - 1
      /\ \A j \in 1..k - 1 : j \in 1..Len(P)
  BY AllDone
<1>2. /\ Plan(P, r, t) /\ KnowsRows(s, P, k, d) /\ KnowsPosts(s, P, k, d, raced)
  BY DEF Knows
<1> HIDE DEF r, t
<1>3. /\ Serves(P, r, t) /\ Suits(P, r)
  BY <1>2 DEF Plan
<1>4. DOMAIN s.posts = DOMAIN s.bal
  BY <1>2 DEF KnowsPosts
<1>5. \A x \in DOMAIN s.bal : PostedIn(s, x, d, raced)
  BY <1>2 DEF KnowsPosts, PostedIn
<1>6. ASSUME NEW x \in DOMAIN s.bal, NEW j \in 1..k - 1, P[j].cell = x
      PROVE  /\ P[j].op = "update" =>
                  s.posts[x][1].amount = P[j].amount /\ s.posts[x][1].change = P[j].change
             /\ P[j].op = "count" =>
                  /\ s.posts[x][1].after = P[j].amount /\ s.posts[x][1].amount # 0
                  /\ s.posts[x][1].change = P[j].change
  BY <1>2, <1>6 DEF KnowsPosts
<1>7. \A j \in 1..Len(P) : P[j].op = "update" => <<P[j].cell, P[j].amount, P[j].change>> \in D
  BY <1>3 DEF Serves
<1>8. ASSUME NEW x \in DOMAIN s.bal, r.kind # "reconcile"
      PROVE  <<x, s.posts[x][1].amount, s.posts[x][1].change>> \in D
  <2>1. PICK j \in 1..k - 1 : P[j].op \in {"update", "count"} /\ P[j].cell = x
    BY <1>2 DEF KnowsRows
  <2>2. P[j].op = "update"
    BY <1>1, <1>3, <1>8, <2>1 DEF Suits
  <2>3. <<P[j].cell, P[j].amount, P[j].change>> \in D
    BY <1>1, <1>7, <2>2
  <2> QED
    BY <1>6, <2>1, <2>2, <2>3
<1>9. ASSUME NEW due \in D
      PROVE  /\ due[1] \in DOMAIN s.bal
             /\ s.posts[due[1]][1].amount = due[2] /\ s.posts[due[1]][1].change = due[3]
  <2>1. PICK j \in 1..Len(P) :
          P[j].op = "update" /\ P[j].cell = due[1] /\ P[j].amount = due[2] /\ P[j].change = due[3]
    BY <1>3 DEF Serves
  <2>2. j \in 1..k - 1
    BY <1>1, <2>1
  <2>3. due[1] \in DOMAIN s.bal
    BY <1>2, <2>1, <2>2 DEF KnowsRows
  <2> QED
    BY <1>6, <2>1, <2>2, <2>3
<1>10. ASSUME NEW x \in DOMAIN s.bal, r.kind = "reconcile"
       PROVE  /\ x = r.cell /\ s.bal[x] = r.count
              /\ s.posts[x][1].amount # 0 /\ s.posts[x][1].change = "reconciliation"
  <2>1. PICK j \in 1..k - 1 : P[j].op \in {"update", "count"} /\ P[j].cell = x
    BY <1>2 DEF KnowsRows
  <2>2. D = {}
    BY <1>10 DEF Dues
  <2>3. P[j].op = "count" /\ P[j].cell = r.cell /\ P[j].amount = r.count
          /\ P[j].change = "reconciliation"
    BY <1>1, <1>3, <1>7, <2>1, <2>2 DEF Serves, Suits
  <2> QED
    BY <1>5, <1>6, <2>1, <2>3 DEF PostedIn
<1>11. DOMAIN s.bal \subseteq d.rows \cup s.created
  <2>1. \A x \in DOMAIN s.bal : \E j \in 1..k - 1 : P[j].op \in {"update", "count"} /\ P[j].cell = x
    BY <1>2 DEF KnowsRows
  <2>2. \A j \in 1..k - 1 : j \in 1..k
    BY <1>1
  <2> QED
    BY <2>1, <2>2, WritesRead
<1>12. ASSUME NEW x \in s.created PROVE \E due \in D : due[1] = x
  <2>1. PICK j \in 1..k - 1 : P[j].op = "create" /\ P[j].cell = x
    BY <1>2 DEF KnowsRows
  <2>2. PICK i \in 1..Len(P) : P[i].op = "update" /\ P[i].cell = x
    BY <1>1, <1>3, <2>1 DEF Serves
  <2>3. <<P[i].cell, P[i].amount, P[i].change>> \in D
    BY <1>7, <2>2
  <2> QED
    BY <2>2, <2>3
<1> HIDE DEF D
<1> QED
  BY <1>4, <1>5, <1>8, <1>9, <1>10, <1>11, <1>12 DEF FinishedPosts, r, t, D

\* Every reservation is made, or given back.
LEMMA ReservedDone ==
  ASSUME NEW s, NEW P, NEW k, NEW d, NEW raced, Knows(s, P, k, d, raced), P[k].op = "commit"
  PROVE  FinishedReserved(s, d, raced)
<1> DEFINE r == s.req
           t == Subject(r, d.txns)
<1>1. /\ k = Len(P) /\ k \in Nat
      /\ \A j \in 1..Len(P) : P[j].op # "commit" => j \in 1..k - 1
      /\ \A j \in 1..k - 1 : j \in 1..Len(P)
  BY AllDone
<1>2. /\ Plan(P, r, t) /\ KnowsRows(s, P, k, d) /\ KnowsReserved(s, P, k, d, raced)
  BY DEF Knows
<1> HIDE DEF r, t
<1>3. Serves(P, r, t)
  BY <1>2 DEF Plan
<1>4. ASSUME NEW j \in 1..k - 1
      PROVE  /\ P[j].op = "reserve" => r.kind = "transfer" /\ P[j].cell = t.cell
                  /\ P[j].amount = t.amount
             /\ P[j].op = "release" => Releases(r, t) /\ P[j].cell = t.cell
                  /\ P[j].amount = t.amount
             /\ P[j].op \in {"reserve", "release"} => P[j].cell \in DOMAIN s.res
             /\ Trusted(P[j].cell, raced) =>
                  /\ P[j].op = "reserve" => s.res[P[j].cell] = d.reserved[P[j].cell] + P[j].amount
                  /\ P[j].op = "release" => s.res[P[j].cell] = d.reserved[P[j].cell] - P[j].amount
  BY <1>1, <1>2, <1>3 DEF Serves, KnowsRows, KnowsReserved
<1>5. \A x \in DOMAIN s.res : (r.kind = "transfer" \/ Releases(r, t)) /\ x = t.cell
  <2>1. \A x \in DOMAIN s.res : \E j \in 1..k - 1 : P[j].op \in {"reserve", "release"}
          /\ P[j].cell = x
    BY <1>2 DEF KnowsRows
  <2> QED
    BY <1>4, <2>1
<1>6. ASSUME r.kind = "transfer"
      PROVE  /\ t.cell \in DOMAIN s.res
             /\ Trusted(t.cell, raced) => s.res[t.cell] = d.reserved[t.cell] + t.amount
  <2>1. PICK j \in 1..Len(P) : P[j].op = "reserve"
    BY <1>3, <1>6 DEF Serves
  <2>2. j \in 1..k - 1
    BY <1>1, <2>1
  <2> QED
    BY <1>4, <2>1, <2>2
<1>7. ASSUME Releases(r, t)
      PROVE  /\ t.cell \in DOMAIN s.res
             /\ Trusted(t.cell, raced) => s.res[t.cell] = d.reserved[t.cell] - t.amount
  <2>1. PICK j \in 1..Len(P) : P[j].op = "release"
    BY <1>3, <1>7 DEF Serves
  <2>2. j \in 1..k - 1
    BY <1>1, <2>1
  <2> QED
    BY <1>4, <2>1, <2>2
<1>8. \A x \in Cells : ReservedIn(s, x, d) <= BalanceIn(s, x, d)
  BY <1>2 DEF KnowsReserved
<1> QED
  BY <1>5, <1>6, <1>7, <1>8 DEF FinishedReserved, r, t

\* The transaction is settled as its status then allowed.
LEMMA SubjectDone ==
  ASSUME NEW s, NEW P, NEW k, NEW d, NEW raced, Knows(s, P, k, d, raced), P[k].op = "commit"
  PROVE  FinishedSubject(s, d, raced)
<1> DEFINE r == s.req
           t == Subject(r, d.txns)
<1>1. /\ k = Len(P) /\ k \in Nat
      /\ \A j \in 1..Len(P) : P[j].op # "commit" => j \in 1..k - 1
      /\ \A j \in 1..k - 1 : j \in 1..Len(P)
  BY AllDone
<1>2. /\ Plan(P, r, t) /\ KnowsRows(s, P, k, d) /\ KnowsSubject(s, P, k, d, raced)
           /\ OnCourse(s, P, k, d)
  BY DEF Knows
<1>3. ASSUME r.kind \in Settling
      PROVE  /\ r.txn \in 1..Len(d.txns)
             /\ r.kind = "receive" => t.type = "transfer"
             /\ r.kind = "approve" => t.type = "expense"
             /\ Trusted(t.cell, raced) => Settleable(r, t)
             /\ t.cell \in s.seen
  <2>1. r.txn \in 1..Len(d.txns)
    BY <1>2, <1>3 DEF OnCourse
  <2>2. Len(P) > 0 /\ 1 \in 1..Len(P)
    BY <1>2 DEF Plan
  <2>3. P[1].op = "load" /\ P[1].cell = t.cell
    BY <1>2, <1>3, <2>2 DEF Plan, Suits, Serves
  <2>4. 1 \in 1..k - 1 /\ k > 1
    BY <1>1, <2>2, <2>3
  <2>5. t = d.txns[r.txn]
    BY <1>3 DEF Subject
  <2> HIDE DEF t
  <2>6. t.cell \in s.seen
    BY <1>2, <2>3, <2>4 DEF KnowsRows
  <2> QED
    BY <1>2, <1>3, <2>1, <2>4, <2>5, <2>6 DEF KnowsSubject
<1> HIDE DEF r, t
<1>4. ASSUME NEW j \in 1..Len(P), Separate
      PROVE  /\ P[j].op = "active" => P[j].cell[1] \in d.active
             /\ P[j].op = "empty" =>
                  /\ P[j].cell \notin MainBranches
                  /\ \A c \in Currencies : d.balance[<<P[j].cell, c>>] = 0
  BY <1>1, <1>2, <1>4 DEF KnowsSubject
<1>5. Serves(P, r, t)
  BY <1>2 DEF Plan
<1>6. ASSUME Separate
      PROVE  /\ r.kind \in Creating => t.cell[1] \in d.active
             /\ r.kind = "transfer" => t.toCell[1] \in d.active
             /\ r.kind = "delete" =>
                  /\ r.branch \notin MainBranches
                  /\ \A c \in Currencies : d.balance[<<r.branch, c>>] = 0
  BY <1>4, <1>5, <1>6 DEF Serves
<1> QED
  BY <1>3, <1>6 DEF FinishedSubject, r, t

\* A session at its commit has finished.
LEMMA KnowsFinished ==
  ASSUME NEW s, NEW P, NEW k, NEW d, NEW raced, Knows(s, P, k, d, raced), P[k].op = "commit"
  PROVE  Finished(s, d, raced)
<1>1. /\ k = Len(P) /\ k \in Nat
      /\ \A j \in 1..Len(P) : P[j].op # "commit" => j \in 1..k - 1
      /\ \A j \in 1..k - 1 : j \in 1..Len(P)
  BY AllDone
<1>2. SessionType(s) /\ KnowsNumber(s, P, k, d) /\ Suits(P, s.req)
      /\ Serves(P, s.req, Subject(s.req, d.txns))
  BY DEF Knows, Plan
<1>3. CASE s.req.kind \in Creating
  <2>1. PICK j \in 1..Len(P) : P[j].op = "insert"
    BY <1>2, <1>3 DEF Serves
  <2>2. j \in 1..k - 1
    BY <1>1, <2>1
  <2> QED
    BY <1>2, <1>3, <2>1, <2>2, HeldSeen, PostsDone, ReservedDone, SubjectDone DEF Finished,
         KnowsNumber
<1>4. CASE s.req.kind \notin Creating
  <2>1. \A j \in 1..k - 1 : P[j].op # "insert"
    BY <1>1, <1>2, <1>4 DEF Suits
  <2> QED
    BY <1>2, <1>4, <2>1, HeldSeen, PostsDone, ReservedDone, SubjectDone DEF Finished, KnowsNumber
<1> QED
  BY <1>3, <1>4

-----------------------------------------------------------------------------
(* The tables after a commit.                                              *)

SettledRow(r, t) ==
  CASE r.kind = "receive" -> [t EXCEPT !.status = "completed"]
    [] r.kind = "approve" -> [t EXCEPT !.status = "completed", !.approved = TRUE]
    [] r.kind = "cancel"  -> [t EXCEPT !.status = "cancelled"]

\* A status changes nothing else of a transaction.
LEMMA SettledRowFacts ==
  ASSUME NEW r, r.kind \in Settling, NEW t, Sound(t)
  PROVE  LET v == SettledRow(r, t)
         IN /\ Sound(v)
            /\ v.type = t.type /\ v.cell = t.cell /\ v.toCell = t.toCell
            /\ v.amount = t.amount /\ v.cost = t.cost /\ v.toAmount = t.toAmount
            /\ v.status \in {"completed", "cancelled"}
<1>1. CASE r.kind = "receive"
  <2>1. SettledRow(r, t) = [t EXCEPT !.status = "completed"]
    BY <1>1 DEF SettledRow
  <2> QED
    BY <2>1 DEF Sound, Ledger!Transactions, Ledger!Statuses
<1>2. CASE r.kind = "approve"
  <2>1. SettledRow(r, t) = [t EXCEPT !.status = "completed", !.approved = TRUE]
    BY <1>2 DEF SettledRow
  <2> QED
    BY <2>1 DEF Sound, Ledger!Transactions, Ledger!Statuses
<1>3. CASE r.kind = "cancel"
  <2>1. SettledRow(r, t) = [t EXCEPT !.status = "cancelled"]
    BY <1>3 DEF SettledRow
  <2> QED
    BY <2>1 DEF Sound, Ledger!Transactions, Ledger!Statuses
<1> QED
  BY <1>1, <1>2, <1>3 DEF Settling

\* Settling rewrites one row of the transactions table.
LEMMA SettledTable ==
  ASSUME NEW r, r.kind \in Settling, db.txns \in Seq(Ledger!Transactions), r.txn \in 1..Len(db.txns)
  PROVE  Settled(r) = [db.txns EXCEPT ![r.txn] = SettledRow(r, db.txns[r.txn])]
<1> DEFINE t == db.txns[r.txn]
<1>1. t \in Ledger!Transactions
  OBVIOUS
<1>2. CASE r.kind = "receive"
  BY <1>1, <1>2 DEF Settled, SettledRow
<1>3. CASE r.kind = "approve"
  <2>1. SettledRow(r, t) = [t EXCEPT !.status = "completed", !.approved = TRUE]
    BY <1>3 DEF SettledRow
  <2>2. Settled(r) = [db.txns EXCEPT ![r.txn].status = "completed", ![r.txn].approved = TRUE]
    BY <1>3 DEF Settled
  <2>3. [db.txns EXCEPT ![r.txn].status = "completed", ![r.txn].approved = TRUE]
          = [db.txns EXCEPT ![r.txn] = [t EXCEPT !.status = "completed", !.approved = TRUE]]
    BY <1>1
  <2> QED
    BY <2>1, <2>2, <2>3
<1>4. CASE r.kind = "cancel"
  BY <1>1, <1>4 DEF Settled, SettledRow
<1> QED
  BY <1>2, <1>3, <1>4 DEF Settling

\* What a commit does to the transactions table.
TxnsAfter(s, old, new) ==
  /\ new \in Seq(Ledger!Transactions)
  /\ Len(old) \in Nat
  /\ \A j \in 1..Len(new) : Sound(new[j])
  /\ \A j \in 1..Len(old) :
       /\ new[j].type = old[j].type /\ new[j].cell = old[j].cell /\ new[j].toCell = old[j].toCell
       /\ new[j].amount = old[j].amount /\ new[j].cost = old[j].cost
       /\ new[j].toAmount = old[j].toAmount
       /\ s.req.kind \notin Settling \/ j # s.req.txn => new[j] = old[j]
  /\ s.req.kind \in Creating =>
       /\ new = Append(old, RowOf(s.req)) /\ Len(new) = Len(old) + 1
       /\ new[Len(new)] = RowOf(s.req)
  /\ s.req.kind \notin Creating => Len(new) = Len(old)
  /\ s.req.kind \in Settling =>
       new = [old EXCEPT ![s.req.txn] = SettledRow(s.req, old[s.req.txn])]
  /\ s.req.kind \notin Creating \cup Settling => new = old

\* A commit adds one transaction, settles one, or leaves the table alone.
LEMMA CommitTxns ==
  ASSUME RequestInv, NEW s, Finished(s, db, contended), db'.txns = Settled(s.req) \o s.inserted
  PROVE  TxnsAfter(s, db.txns, db'.txns)
<1> DEFINE r == s.req
           old == db.txns
           new == db'.txns
           N == Len(old)
<1>1. /\ old \in Seq(Ledger!Transactions) /\ N \in Nat
      /\ \A j \in 1..N : Sound(old[j])
  BY DEF RequestInv, Tables, Ledger!TypeOK
<1>2. r \in Served /\ (r.kind \in Settling => r.txn \in 1..N)
      /\ s.inserted = IF r.kind \in Creating THEN <<RowOf(r)>> ELSE <<>>
  BY DEF Finished, SessionType, FinishedSubject
<1>3. new = Settled(r) \o s.inserted
  OBVIOUS
<1> HIDE DEF r, old, new, N
<1>4. CASE r.kind \in Creating
  <2>1. Settled(r) = old
    BY <1>4 DEF Settled, Creating, old
  <2>2. Sound(RowOf(r)) /\ RowOf(r) \in Ledger!Transactions
    BY <1>2, <1>4, RowOfFacts DEF Sound
  <2>3. new = old \o <<RowOf(r)>>
    BY <1>2, <1>3, <1>4, <2>1
  <2>4. /\ new = Append(old, RowOf(r)) /\ new \in Seq(Ledger!Transactions)
        /\ Len(new) = N + 1 /\ new[N + 1] = RowOf(r)
        /\ \A j \in 1..N : new[j] = old[j]
    BY <1>1, <2>2, <2>3, AppendIsConcat DEF N
  <2>5. \A j \in 1..N + 1 : j \in 1..N \/ j = N + 1
    BY <1>1
  <2>6. \A j \in 1..Len(new) : Sound(new[j])
    BY <1>1, <2>2, <2>4, <2>5
  <2>7. r.kind \notin Settling
    BY <1>4 DEF Creating, Settling
  <2> QED
    BY <1>1, <1>4, <2>4, <2>6, <2>7 DEF TxnsAfter, r, old, new, N
<1>5. CASE r.kind \in Settling
  <2> DEFINE i == r.txn
             v == SettledRow(r, old[i])
  <2>1. s.inserted = <<>> /\ r.kind \notin Creating
    BY <1>2, <1>5 DEF Creating, Settling
  <2>2. Settled(r) = [old EXCEPT ![i] = v]
    BY <1>1, <1>2, <1>5, SettledTable DEF old, N
  <2>3. /\ i \in 1..N /\ Sound(v) /\ v \in Ledger!Transactions
        /\ v.type = old[i].type /\ v.cell = old[i].cell /\ v.toCell = old[i].toCell
        /\ v.amount = old[i].amount /\ v.cost = old[i].cost /\ v.toAmount = old[i].toAmount
    <3>1. i \in 1..N /\ Sound(old[i])
      BY <1>1, <1>2, <1>5
    <3>2. /\ Sound(v)
          /\ v.type = old[i].type /\ v.cell = old[i].cell /\ v.toCell = old[i].toCell
          /\ v.amount = old[i].amount /\ v.cost = old[i].cost /\ v.toAmount = old[i].toAmount
      BY <1>5, <3>1, SettledRowFacts
    <3> HIDE DEF v
    <3> QED
      BY <3>1, <3>2 DEF Sound
  <2> HIDE DEF v, i
  <2>4. /\ [old EXCEPT ![i] = v] \in Seq(Ledger!Transactions)
        /\ Len([old EXCEPT ![i] = v]) = N
        /\ [old EXCEPT ![i] = v][i] = v
        /\ \A j \in 1..N : j # i => [old EXCEPT ![i] = v][j] = old[j]
    BY <1>1, <2>3 DEF N
  <2>5. new = [old EXCEPT ![i] = v]
    BY <1>3, <2>1, <2>2, <2>4, ConcatEmptySeq
  <2>6. \A j \in 1..Len(new) : Sound(new[j])
    BY <1>1, <2>3, <2>4, <2>5
  <2>7. \A j \in 1..N :
       /\ new[j].type = old[j].type /\ new[j].cell = old[j].cell /\ new[j].toCell = old[j].toCell
       /\ new[j].amount = old[j].amount /\ new[j].cost = old[j].cost
       /\ new[j].toAmount = old[j].toAmount
       /\ j # i => new[j] = old[j]
    BY <2>3, <2>4, <2>5
  <2>8. Len(new) = N /\ new \in Seq(Ledger!Transactions)
    BY <2>4, <2>5
  <2> QED
    BY <1>1, <1>5, <2>1, <2>5, <2>6, <2>7, <2>8 DEF TxnsAfter, r, old, new, N, v, i
<1>6. CASE r.kind \notin Creating \cup Settling
  <2>1. Settled(r) = old
    BY <1>6 DEF Settled, Settling, old
  <2>2. new = old
    BY <1>1, <1>2, <1>3, <1>6, <2>1, ConcatEmptySeq
  <2> QED
    BY <1>1, <1>6, <2>2 DEF TxnsAfter, r, old, new, N
<1> QED
  BY <1>4, <1>5, <1>6

\* What it does to the other tables.
RowsAfter(s, old, new) ==
  /\ new.rows = old.rows \cup s.created
  /\ new.balance \in [Cells -> Nat] /\ \A x \in Cells : new.balance[x] = BalanceIn(s, x, old)
  /\ new.reserved \in [Cells -> Nat] /\ \A x \in Cells : new.reserved[x] = ReservedIn(s, x, old)
  /\ new.history \in [Cells -> Seq(Ledger!Entries)]
  /\ \A x \in Cells :
       new.history[x] = IF x \in DOMAIN s.bal THEN Append(old.history[x], Row(s, x, old))
                        ELSE old.history[x]

\* It takes its number.
LastAfter(s, old, new) ==
  /\ old.last \in [Days -> Nat]
  /\ new.last = IF s.inserted = <<>> THEN old.last
                ELSE [old.last EXCEPT ![s.number[1]] = s.number[2]]

ActiveAfter(r, old) ==
  CASE r.kind \in {"delete", "close"} -> old \ {r.branch}
    [] r.kind = "open" -> old \cup {r.branch}
    [] OTHER -> old

\* A commit of p, seen from outside.
Committed(p) ==
  LET s == session[p]
  IN /\ s # Idle /\ Finished(s, db, contended)
     /\ DOMAIN db' = {"active", "rows", "balance", "reserved", "txns", "history", "last"}
     /\ db'.active = ActiveAfter(s.req, db.active)
     /\ TxnsAfter(s, db.txns, db'.txns)
     /\ RowsAfter(s, db, db') /\ LastAfter(s, db, db')
     /\ session' = [session EXCEPT ![p] = Idle] /\ contended' = contended

\* A posting becomes a row of the history that refers to the transaction.
LEMMA RowFacts ==
  ASSUME NEW s, NEW x, NEW d, SessionType(s), Len(d.txns) \in Nat, s.posts[x][1] \in Postings
  PROVE  LET e == s.posts[x][1]
             g == Row(s, x, d)
         IN /\ g \in Ledger!Entries
            /\ g.txn = Ref(s, d) /\ g.change = e.change /\ g.amount = e.amount
            /\ g.before = e.before /\ g.after = e.after
<1>1. Ref(s, d) \in Nat
  BY DEF Ref, SessionType, Served, Settling
<1> QED
  BY <1>1 DEF Row, Referring, Postings, Ledger!Entries

\* A commit does what Committed says.
LEMMA CommitFacts ==
  ASSUME RequestInv, NEW p \in Sessions, Commit(p)
  PROVE  Committed(p)
<1> DEFINE s == session[p]
<1>1. Busy(p) /\ Op(p).op = "commit"
  BY DEF Commit, At
<1>2. /\ s # Idle
      /\ \E k \in Nat : Knows(s, Program(s.req), k, db, contended) /\ Op(p) = Program(s.req)[k]
  BY <1>1, AtWorkFacts
<1>3. Finished(s, db, contended)
  BY <1>1, <1>2, KnowsFinished
<1>4. /\ db' = [active   |-> CASE s.req.kind \in {"delete", "close"} -> db.active \ {s.req.branch}
                              [] s.req.kind = "open" -> db.active \cup {s.req.branch}
                              [] OTHER -> db.active,
               rows     |-> db.rows \cup s.created,
               balance  |-> [x \in Cells |-> Visible(p, x).balance],
               reserved |-> [x \in Cells |-> Visible(p, x).reserved],
               txns     |-> Settled(s.req) \o s.inserted,
               history  |-> [x \in Cells |-> db.history[x] \o Booked(s, x)],
               last     |-> IF s.inserted = <<>> THEN db.last
                            ELSE [db.last EXCEPT ![s.number[1]] = s.number[2]]]
      /\ session' = [session EXCEPT ![p] = Idle] /\ contended' = contended
  BY DEF Commit
<1>5. /\ db'.rows = db.rows \cup s.created
      /\ db'.balance = [x \in Cells |-> Visible(p, x).balance]
      /\ db'.reserved = [x \in Cells |-> Visible(p, x).reserved]
      /\ db'.txns = Settled(s.req) \o s.inserted
      /\ db'.history = [x \in Cells |-> db.history[x] \o Booked(s, x)]
      /\ db'.last = IF s.inserted = <<>> THEN db.last
                    ELSE [db.last EXCEPT ![s.number[1]] = s.number[2]]
      /\ DOMAIN db' = {"active", "rows", "balance", "reserved", "txns", "history", "last"}
  BY <1>4
<1>6. db'.active = ActiveAfter(s.req, db.active)
  BY <1>4 DEF ActiveAfter
<1>7. TxnsAfter(s, db.txns, db'.txns)
  BY <1>3, <1>5, CommitTxns
<1>8. SessionType(s) /\ FinishedPosts(s, db, contended)
  BY <1>3 DEF Finished
<1>9. \A x \in Cells : /\ Visible(p, x).balance = BalanceIn(s, x, db)
                       /\ Visible(p, x).balance \in Nat
                       /\ Visible(p, x).reserved = ReservedIn(s, x, db)
                            /\ Visible(p, x).reserved \in Nat
  BY <1>8, VisibleFacts DEF Copies
<1>10. /\ \A x \in Cells : db.history[x] \in Seq(Ledger!Entries)
       /\ Len(db.txns) \in Nat /\ db.last \in [Days -> Nat]
  BY DEF RequestInv, Tables, Ledger!TypeOK, Ledger!Cells, Cells
<1> HIDE DEF s
<1>11. ASSUME NEW x \in Cells
       PROVE  /\ db.history[x] \o Booked(s, x) =
                   IF x \in DOMAIN s.bal THEN Append(db.history[x], Row(s, x, db))
                   ELSE db.history[x]
              /\ db.history[x] \o Booked(s, x) \in Seq(Ledger!Entries)
  <2>1. CASE x \in DOMAIN s.bal
    <3> DEFINE e == s.posts[x][1]
               g == Row(s, x, db)
    <3>1. s.posts[x] = <<e>> /\ e \in Postings /\ PostsOn(s, x) = s.posts[x]
      BY <1>8, <2>1 DEF FinishedPosts, PostedIn, PostsOn
    <3>2. g \in Ledger!Entries
      BY <1>8, <1>10, <3>1, RowFacts
    <3>3. g = Referring(e, Reference(s))
      BY DEF Row, Ref, Reference
    <3> HIDE DEF e, g
    <3>4. Booked(s, x) = <<g>>
      <4>1. DOMAIN <<e>> = 1..1 /\ <<e>>[1] = e
        OBVIOUS
      <4>2. Booked(s, x) = [k \in 1..1 |-> g]
        BY <3>1, <3>3, <4>1 DEF Booked
      <4> QED
        BY <4>2
    <3>5. Append(db.history[x], g) = db.history[x] \o <<g>>
            /\ Append(db.history[x], g) \in Seq(Ledger!Entries)
      BY <1>10, <3>2, AppendIsConcat, SMTT(60)
    <3> QED
      BY <2>1, <3>4, <3>5 DEF g
  <2>2. CASE x \notin DOMAIN s.bal
    <3>1. PostsOn(s, x) = <<>>
      BY <1>8, <2>2 DEF FinishedPosts, PostsOn
    <3>2. Booked(s, x) = <<>>
      BY <3>1 DEF Booked
    <3> QED
      BY <1>10, <2>2, <3>2, ConcatEmptySeq
  <2> QED
    BY <2>1, <2>2
<1>12. RowsAfter(s, db, db')
  BY <1>5, <1>9, <1>11 DEF RowsAfter
<1>13. LastAfter(s, db, db')
  BY <1>5, <1>10 DEF LastAfter
<1> QED
  BY <1>2, <1>3, <1>4, <1>5, <1>6, <1>7, <1>12, <1>13 DEF Committed, s

\* The tables are still what they are declared to be.
LEMMA CommittedTables ==
  ASSUME RequestInv, NEW p \in Sessions, Committed(p)
  PROVE  Tables'
<1> DEFINE s == session[p]
<1>1. /\ SessionType(s) /\ FinishedPosts(s, db, contended) /\ FinishedReserved(s, db, contended)
      /\ TxnsAfter(s, db.txns, db'.txns) /\ RowsAfter(s, db, db')
      /\ db'.active = ActiveAfter(s.req, db.active)
  BY DEF Committed, Finished
<1>2. db.active \subseteq Branches /\ db.rows \subseteq Cells
        /\ \A x \in Cells : x \notin db.rows => db.balance[x] = 0
  BY DEF RequestInv, Tables, Ledger!TypeOK, Ledger!Cells, Cells
<1>3. db'.active \subseteq Branches
  BY <1>1, <1>2, ServedFacts DEF ActiveAfter, SessionType
<1>4. db'.rows \subseteq Cells
  BY <1>1, <1>2 DEF RowsAfter, SessionType
<1>5. Ledger!TypeOK'
  BY <1>1, <1>3, <1>4 DEF Ledger!TypeOK, TxnsAfter, RowsAfter, Ledger!Cells, Cells
<1>6. ASSUME NEW x \in Cells, x \notin db'.rows PROVE db'.balance[x] = 0
  <2>1. x \notin DOMAIN s.bal /\ x \notin db.rows
    BY <1>1, <1>6 DEF FinishedPosts, RowsAfter
  <2> QED
    BY <1>1, <1>2, <2>1 DEF RowsAfter, BalanceIn
<1>7. \A x \in Cells : db'.reserved[x] <= db'.balance[x]
  BY <1>1 DEF FinishedReserved, RowsAfter
<1>8. \A i \in 1..Len(db'.txns) : Sound(db'.txns[i])
  BY <1>1 DEF TxnsAfter
<1>9. DOMAIN db' = {"active", "rows", "balance", "reserved", "txns", "history", "last"}
  BY DEF Committed
<1>10. db'.last \in [Days -> Nat]
  <2>1. LastAfter(s, db, db') /\ Finished(s, db, contended)
    BY DEF Committed
  <2>2. s.inserted # <<>> => NumberOf(s, db)
    BY <2>1 DEF Finished
  <2> HIDE DEF s
  <2>3. CASE s.inserted = <<>>
    BY <2>1, <2>3 DEF LastAfter
  <2>4. CASE s.inserted # <<>>
    <3>1. s.number[1] \in Days /\ s.number[2] \in Nat
      BY <2>2, <2>4 DEF NumberOf
    <3>2. /\ db.last \in [Days -> Nat]
          /\ db'.last = [db.last EXCEPT ![s.number[1]] = s.number[2]]
      BY <2>1, <2>4 DEF LastAfter
    <3> QED
      BY <3>1, <3>2
  <2> QED
    BY <2>3, <2>4
<1> QED
  BY <1>5, <1>6, <1>7, <1>8, <1>9, <1>10 DEF Tables

\* The commit ends a request, and each table grew by at most one row.
LEMMA CommittedCounted ==
  ASSUME RequestInv, NEW p \in Sessions, Committed(p), made' = made
  PROVE  Counted'
<1> DEFINE s == session[p]
<1>1. /\ TxnsAfter(s, db.txns, db'.txns) /\ RowsAfter(s, db, db') /\ s # Idle /\ SessionType(s)
      /\ session' = [session EXCEPT ![p] = Idle] /\ FinishedPosts(s, db, contended)
  BY DEF Committed, Finished
<1>2. DOMAIN session = Sessions
  BY DEF RequestInv
<1>3. AtWork' = AtWork \ {p} /\ p \in AtWork
  BY <1>1, <1>2 DEF AtWork
<1>4. /\ IsFiniteSet(AtWork) /\ made \in 0..MaxRequests /\ MaxRequests \in Nat
      /\ Cardinality(AtWork) + Len(db.txns) <= made
      /\ \A x \in Cells : Cardinality(AtWork) + Len(db.history[x]) <= made
  BY RequestAssumption DEF RequestInv, Counted
<1>5. /\ IsFiniteSet(AtWork') /\ Cardinality(AtWork') = Cardinality(AtWork) - 1
      /\ Cardinality(AtWork) \in Nat
  BY <1>3, <1>4, FS_RemoveElement, FS_CardinalityType
<1>6. Len(db.txns) \in Nat /\ (Len(db'.txns) = Len(db.txns) \/ Len(db'.txns) = Len(db.txns) + 1)
  BY <1>1 DEF TxnsAfter
<1>7. ASSUME NEW x \in Cells
      PROVE  /\ Len(db.history[x]) \in Nat
             /\ Len(db'.history[x]) = Len(db.history[x])
                  \/ Len(db'.history[x]) = Len(db.history[x]) + 1
  <2>1. db.history[x] \in Seq(Ledger!Entries)
    BY DEF RequestInv, Tables, Ledger!TypeOK, Ledger!Cells, Cells
  <2>2. CASE x \in DOMAIN s.bal
    <3>1. Row(s, x, db) \in Ledger!Entries
      BY <1>1, <1>6, <2>2, RowFacts DEF FinishedPosts, PostedIn
    <3>2. db'.history[x] = Append(db.history[x], Row(s, x, db))
      BY <1>1, <2>2 DEF RowsAfter
    <3> QED
      BY <2>1, <3>1, <3>2
  <2>3. CASE x \notin DOMAIN s.bal
    BY <1>1, <2>1, <2>3 DEF RowsAfter
  <2> QED
    BY <2>2, <2>3
<1>8. Cardinality(AtWork') + Len(db'.txns) <= made
  BY <1>4, <1>5, <1>6
<1>9. \A x \in Cells : Cardinality(AtWork') + Len(db'.history[x]) <= made
  BY <1>4, <1>5, <1>7, SMTT(60)
<1> QED
  BY <1>4, <1>5, <1>8, <1>9 DEF Counted

-----------------------------------------------------------------------------
(* What a commit leaves the other sessions.                                *)

\* A plan depends on no status.
LEMMA PlanAgrees ==
  ASSUME NEW P, NEW r, NEW t, NEW v, Plan(P, r, t),
         v.type = t.type, v.cell = t.cell, v.toCell = t.toCell,
         v.amount = t.amount, v.cost = t.cost, v.toAmount = t.toAmount
  PROVE  Plan(P, r, v)
<1>1. Dues(r, v) = Dues(r, t)
  BY DEF Dues, Ledger!Reversal
<1>2. Releases(r, v) <=> Releases(r, t)
  BY DEF Releases
<1>3. Serves(P, r, v)
  BY <1>1, <1>2 DEF Plan, Serves
<1> QED
  BY <1>3 DEF Plan

\* Two sessions apart: s commits and u goes on.
Others(s, u, old, new, raced) ==
  /\ Finished(s, old, raced) /\ TxnsAfter(s, old.txns, new.txns) /\ RowsAfter(s, old, new)
  /\ LastAfter(s, old, new) /\ new.active = ActiveAfter(s.req, old.active)
  /\ Apart(s, u, raced) /\ s # Idle /\ u # Idle

\* A row that u is to write or has written is not one that s has written.
LEMMA NotHeld ==
  ASSUME NEW s, NEW u, NEW P, NEW k, NEW old, NEW new, NEW raced,
         Others(s, u, old, new, raced), Knows(u, P, k, old, raced)
  PROVE  /\ \A x \in Held(u) : x \notin Held(s)
         /\ P[k].op \in {"update", "count", "reserve", "release"} /\ Trusted(P[k].cell, raced) =>
              P[k].cell \notin Held(s)
<1>1. /\ ApartByDay(s, u, raced)
      /\ Held(s) \cap Held(u) = {} /\ s.seen \cap u.seen \subseteq raced
      /\ Separate => {s.req.kind, u.req.kind} \subseteq Creating
  BY DEF Others, Apart
<1>2. ASSUME P[k].op \in {"update", "count", "reserve", "release"}, Trusted(P[k].cell, raced),
             P[k].cell \in Held(s)
      PROVE  FALSE
  <2>1. k \in 1..Len(P) /\ k \in 1..k /\ Len(P) \in Nat
    BY DEF Knows, OnCourse, Plan
  <2>2. P[k].cell \in u.seen
    BY <1>2, <2>1, WritesRead
  <2>3. P[k].cell \in s.seen
    BY <1>2 DEF Others, Finished
  <2>4. P[k].cell \in raced
    BY <1>1, <2>2, <2>3
  <2>5. Separate /\ Midnight \notin raced
    BY <1>2, <2>4 DEF Trusted
  <2>6. s.req.kind \in Creating /\ u.req.kind \in Creating
    BY <1>1, <2>5
  <2>7. s.inserted # <<>>
    <3>1. s.inserted = <<RowOf(s.req)>>
      BY <2>6 DEF Others, Finished
    <3> QED
      BY <3>1
  <2>8. /\ Plan(P, u.req, Subject(u.req, old.txns)) /\ KnowsNumber(u, P, k, old)
    BY DEF Knows
  <2>9. PICK j \in 1..Len(P) : P[j].op = "insert"
    BY <2>6, <2>8 DEF Plan, Serves
  <2>10. P[k].op # "count"
    BY <2>1, <2>6, <2>8 DEF Plan, Suits, Creating
  <2>11. k > 1
    BY <1>2, <2>1, <2>8 DEF Plan, Ordered, OrderedAt
  <2>12. Simple(P)
    BY <2>11, SimplePlan
  <2>13. j < k
    BY <1>2, <2>1, <2>9, <2>10, <2>12 DEF Simple
  <2>14. j \in 1..k - 1
    BY <2>1, <2>13
  <2>15. u.inserted # <<>>
    BY <2>8, <2>9, <2>14 DEF KnowsNumber
  <2> QED
    BY <1>1, <2>5, <2>7, <2>15 DEF ApartByDay
<1> QED
  BY <1>1, <1>2

\* A row that s does not hold is as it was.
LEMMA RowsLeft ==
  ASSUME NEW s, NEW old, NEW new, RowsAfter(s, old, new), NEW x \in Cells, x \notin Held(s)
  PROVE  new.balance[x] = old.balance[x] /\ new.reserved[x] = old.reserved[x]
  BY DEF RowsAfter, Held, BalanceIn, ReservedIn

\* The transaction that u settles is as it was, unless the two race on its cell.
LEMMA SubjectLeft ==
  ASSUME NEW s, NEW u, NEW old, NEW new, NEW raced, Others(s, u, old, new, raced),
         u.req.kind \in Settling, u.req.txn \in 1..Len(old.txns)
  PROVE  LET t == old.txns[u.req.txn]
             v == new.txns[u.req.txn]
         IN /\ v.type = t.type /\ v.cell = t.cell /\ v.toCell = t.toCell
            /\ v.amount = t.amount /\ v.cost = t.cost /\ v.toAmount = t.toAmount
            /\ Trusted(t.cell, raced) /\ t.cell \in u.seen => v = t
<1> DEFINE t == old.txns[u.req.txn]
           v == new.txns[u.req.txn]
<1>1. /\ s.seen \cap u.seen \subseteq raced
      /\ Separate => {s.req.kind, u.req.kind} \subseteq Creating
      /\ TxnsAfter(s, old.txns, new.txns) /\ FinishedSubject(s, old, raced)
  BY DEF Others, Apart, Finished
<1>2. /\ v.type = t.type /\ v.cell = t.cell /\ v.toCell = t.toCell
      /\ v.amount = t.amount /\ v.cost = t.cost /\ v.toAmount = t.toAmount
      /\ s.req.kind \notin Settling \/ u.req.txn # s.req.txn => v = t
  BY <1>1 DEF TxnsAfter
<1>3. ASSUME Trusted(t.cell, raced), t.cell \in u.seen PROVE v = t
  <2>1. ~ Separate
    BY <1>1 DEF Creating, Settling
  <2>2. t.cell \notin raced
    BY <1>3, <2>1 DEF Trusted
  <2>3. t.cell \notin s.seen
    BY <1>1, <1>3, <2>2
  <2>4. s.req.kind \in Settling => Subject(s.req, old.txns) = old.txns[s.req.txn]
    BY DEF Subject
  <2>5. s.req.kind \in Settling => old.txns[s.req.txn].cell \in s.seen
    BY <1>1, <2>4 DEF FinishedSubject
  <2>6. s.req.kind \notin Settling \/ u.req.txn # s.req.txn
    BY <2>3, <2>5
  <2> QED
    BY <1>2, <2>6
<1> QED
  BY <1>2, <1>3

\* What u knows holds of the new tables too.
LEMMA OthersKnow ==
  ASSUME NEW s, NEW u, NEW P, NEW k, NEW old, NEW new, NEW raced,
         Others(s, u, old, new, raced), Knows(u, P, k, old, raced),
         \A x \in Cells : new.reserved[x] <= new.balance[x]
  PROVE  Knows(u, P, k, new, raced)
<1>1. /\ ApartByDay(s, u, raced) /\ LastAfter(s, old, new)
      /\ Separate => {s.req.kind, u.req.kind} \subseteq Creating
      /\ TxnsAfter(s, old.txns, new.txns) /\ RowsAfter(s, old, new) /\ Finished(s, old, raced)
      /\ new.active = ActiveAfter(s.req, old.active)
  BY DEF Others, Apart
<1>2. /\ SessionType(u) /\ OnCourse(u, P, k, old) /\ Plan(P, u.req, Subject(u.req, old.txns))
      /\ k \in 1..Len(P) /\ k \in Nat
  BY DEF Knows, OnCourse
<1>3. Len(old.txns) \in Nat /\ (Len(new.txns) = Len(old.txns) \/ Len(new.txns) = Len(old.txns) + 1)
  BY <1>1 DEF TxnsAfter
<1>4. u.req.kind \in Settling => u.req.txn \in 1..Len(old.txns) /\ u.req.txn \in 1..Len(new.txns)
  BY <1>2, <1>3 DEF OnCourse
<1>5. \A x \in Held(u) : x \in Cells /\ new.balance[x] = old.balance[x]
        /\ new.reserved[x] = old.reserved[x]
  <2>1. Held(u) \subseteq Cells
    BY <1>2 DEF SessionType, Held
  <2> QED
    BY <1>1, <2>1, NotHeld, RowsLeft
<1>6. Plan(P, u.req, Subject(u.req, new.txns))
  <2>1. CASE u.req.kind \in Settling
    BY <1>2, <1>4, <2>1, SubjectLeft, PlanAgrees DEF Subject
  <2>2. CASE u.req.kind \notin Settling
    BY <1>2, <2>2 DEF Subject
  <2> QED
    BY <2>1, <2>2
<1>7. OnCourse(u, P, k, new)
  BY <1>2, <1>4 DEF OnCourse
<1>8. KnowsNumber(u, P, k, new)
  <2>1. KnowsNumber(u, P, k, old)
    BY DEF Knows
  <2>2. s.inserted # <<>> =>
          /\ s.number \in Days \X Nat
          /\ s.number[2] = old.last[s.number[1]] + 1
          /\ new.last = [old.last EXCEPT ![s.number[1]] = s.number[2]]
    BY <1>1 DEF Finished, NumberOf, LastAfter
  <2>3. old.last \in [Days -> Nat] /\ (s.inserted = <<>> => new.last = old.last)
    BY <1>1 DEF LastAfter
  <2>4. \A day \in Days :
          /\ old.last[day] \in Nat /\ new.last[day] \in Nat
          /\ old.last[day] <= new.last[day]
          /\ s.inserted = <<>> \/ day # s.number[1] => new.last[day] = old.last[day]
    <3>1. CASE s.inserted = <<>>
      BY <2>3, <3>1
    <3>2. CASE s.inserted # <<>>
      <4>1. PICK day \in Days, n \in Nat : s.number = <<day, n>>
        BY <2>2, <3>2
      <4>2. s.number[1] = day /\ s.number[2] = n
        BY <4>1
      <4>3. n = old.last[day] + 1 /\ new.last = [old.last EXCEPT ![day] = n]
        BY <2>2, <3>2, <4>2
      <4> QED
        BY <2>3, <3>2, <4>2, <4>3
    <3> QED
      BY <3>1, <3>2
  <2>5. NumberOf(u, old) => NumberOf(u, new)
    BY <2>4 DEF NumberOf
  <2>6. u.inserted # <<>> /\ NumberOf(u, old) => new.last[u.number[1]] = old.last[u.number[1]]
    BY <1>1, <2>4 DEF NumberOf, ApartByDay
  <2> QED
    BY <2>1, <2>5, <2>6 DEF KnowsNumber
<1>9. KnowsRows(u, P, k, new)
  <2>1. old.rows \subseteq new.rows
    BY <1>1 DEF RowsAfter
  <2> QED
    BY <2>1 DEF Knows, KnowsRows
<1>10. KnowsPosts(u, P, k, new, raced)
  <2>1. \A x \in DOMAIN u.bal : new.balance[x] = old.balance[x] /\ new.reserved[x] = old.reserved[x]
    BY <1>5 DEF Held
  <2> QED
    BY <2>1 DEF Knows, KnowsPosts
<1>11. KnowsCopy(u, P, k, new, raced)
  <2> DEFINE x == P[k].cell
  <2>1. SUFFICES ASSUME P[k].op \in {"update", "count", "reserve", "release"}, Trusted(x, raced)
        PROVE  u.copy.balance = BalanceIn(u, x, new) /\ u.copy.reserved = ReservedIn(u, x, new)
    BY DEF KnowsCopy
  <2>2. u.copy.balance = BalanceIn(u, x, old) /\ u.copy.reserved = ReservedIn(u, x, old)
    BY <2>1 DEF Knows, KnowsCopy
  <2>3. x \in Cells
    BY <1>2, <2>1 DEF Plan, Ordered, OrderedAt
  <2>4. x \notin Held(s)
    BY <2>1, NotHeld
  <2>5. new.balance[x] = old.balance[x] /\ new.reserved[x] = old.reserved[x]
    BY <1>1, <2>3, <2>4, RowsLeft
  <2> HIDE DEF x
  <2> QED
    BY <2>2, <2>5 DEF BalanceIn, ReservedIn
<1>12. KnowsReserved(u, P, k, new, raced)
  <2>1. ASSUME NEW x \in Cells PROVE ReservedIn(u, x, new) <= BalanceIn(u, x, new)
    <3>1. CASE x \in Held(u)
      <4>1. ReservedIn(u, x, old) <= BalanceIn(u, x, old)
        BY DEF Knows, KnowsReserved
      <4>2. ReservedIn(u, x, new) = ReservedIn(u, x, old)
              /\ BalanceIn(u, x, new) = BalanceIn(u, x, old)
        BY <1>5, <3>1 DEF ReservedIn, BalanceIn
      <4> QED
        BY <4>1, <4>2
    <3>2. CASE x \notin Held(u)
      BY <3>2 DEF Held, ReservedIn, BalanceIn
    <3> QED
      BY <3>1, <3>2
  <2>2. \A j \in 1..k - 1 : P[j].op \in {"reserve", "release"} =>
          new.reserved[P[j].cell] = old.reserved[P[j].cell]
    BY <1>5 DEF Held, Knows, KnowsRows
  <2> QED
    BY <2>1, <2>2 DEF Knows, KnowsReserved
<1>13. KnowsSubject(u, P, k, new, raced)
  <2>1. KnowsSubject(u, P, k, old, raced)
    BY DEF Knows
  <2>2. ASSUME u.req.kind \in Settling, k > 1
        PROVE  LET v == new.txns[u.req.txn] IN
               /\ u.req.kind = "receive" => v.type = "transfer"
               /\ u.req.kind = "approve" => v.type = "expense"
               /\ Trusted(v.cell, raced) => Settleable(u.req, v)
    <3> DEFINE t == old.txns[u.req.txn]
               v == new.txns[u.req.txn]
    <3>1. 1 \in 1..Len(P) /\ 1 \in 1..k - 1
      BY <1>2, <2>2
    <3>2. P[1].op = "load" /\ P[1].cell = t.cell
      <4>1. Subject(u.req, old.txns) = t
        BY <2>2 DEF Subject
      <4> QED
        BY <1>2, <2>2, <3>1, <4>1 DEF Plan, Suits, Serves
    <3>3. t.cell \in u.seen
      BY <3>1, <3>2 DEF Knows, KnowsRows
    <3>4. v.type = t.type /\ v.cell = t.cell /\ (Trusted(t.cell, raced) => v = t)
      BY <1>4, <2>2, <3>3, SubjectLeft, SMTT(60)
    <3>5. /\ u.req.kind = "receive" => t.type = "transfer"
          /\ u.req.kind = "approve" => t.type = "expense"
          /\ Trusted(t.cell, raced) => Settleable(u.req, t)
      BY <2>1, <2>2 DEF KnowsSubject
    <3> HIDE DEF t, v
    <3>6. /\ u.req.kind = "receive" => v.type = "transfer"
          /\ u.req.kind = "approve" => v.type = "expense"
          /\ Trusted(v.cell, raced) => Settleable(u.req, v)
      BY <3>4, <3>5
    <3> QED
      BY <3>6 DEF v
  <2>3. ASSUME NEW j \in 1..k - 1, Separate
        PROVE  /\ P[j].op = "active" => P[j].cell[1] \in new.active
               /\ P[j].op = "empty" =>
                    /\ P[j].cell \notin MainBranches
                    /\ \A c \in Currencies : new.balance[<<P[j].cell, c>>] = 0
    <3>1. s.req.kind \in Creating /\ u.req.kind \in Creating
      BY <1>1, <2>3
    <3>2. new.active = old.active
      BY <1>1, <3>1 DEF ActiveAfter, Creating
    <3>3. P[j].op # "empty"
      <4>1. j \in 1..Len(P)
        BY <1>2
      <4> QED
        BY <1>2, <3>1, <4>1 DEF Plan, Serves, Creating
    <3>4. P[j].op = "active" => P[j].cell[1] \in old.active
      BY <2>1, <2>3 DEF KnowsSubject
    <3> QED
      BY <3>2, <3>3, <3>4
  <2> QED
    BY <2>2, <2>3 DEF KnowsSubject
<1> QED
  BY <1>2, <1>6, <1>7, <1>8, <1>9, <1>10, <1>11, <1>12, <1>13 DEF Knows

-----------------------------------------------------------------------------
(* Sums over the table's transactions and over the history's rows.         *)

\* The ledger adds up as Totals does.
LEMMA SameTotal ==
  ASSUME NEW s
  PROVE  Ledger!TotalOf(s) = TotalOf(s)
<1>1. Ledger!Padded(s) = Padded(s)
  BY DEF Ledger!Padded, Padded
<1>2. ASSUME NEW w, NEW n PROVE Ledger!Total(w, n) = Total(w, n)
  BY DEF Ledger!Total, Total
<1> QED
  BY <1>1, <1>2 DEF Ledger!TotalOf, TotalOf

\* The claims of a table are one natural number per row.
LEMMA ClaimsType ==
  ASSUME NEW table \in Seq(Ledger!Transactions), NEW x
  PROVE  /\ Ledger!Claims(table, x) \in Seq(Nat) /\ Ledger!Claims(table, x) \in Seq(Int)
         /\ Len(Ledger!Claims(table, x)) = Len(table)
         /\ Ledger!TotalOf(Ledger!Claims(table, x)) \in Int
<1> DEFINE claims == Ledger!Claims(table, x)
<1>1. ASSUME NEW k \in 1..Len(table) PROVE Ledger!ClaimOf(table[k], x) \in Nat
  <2>1. table[k] \in Ledger!Transactions
    OBVIOUS
  <2> QED
    BY <2>1 DEF Ledger!Transactions, Ledger!ClaimOf
<1>2. Len(table) \in Nat
  OBVIOUS
<1>3. claims \in [1..Len(table) -> Nat]
  BY <1>1 DEF Ledger!Claims
<1>4. claims \in Seq(Nat) /\ Len(claims) = Len(table)
  <2>1. claims \in Seq(Nat)
    BY <1>2, <1>3, SeqDef
  <2>2. Len(claims) = Len(table)
    BY <1>2 DEF Ledger!Claims
  <2> QED
    BY <2>1, <2>2
<1> HIDE DEF claims
<1>5. claims \in Seq(Int)
  BY <1>4
<1>6. Ledger!TotalOf(claims) \in Int
  BY <1>5, TotalOfType, SameTotal
<1> QED
  BY <1>4, <1>5, <1>6 DEF claims

\* An inserted transaction claims what it claims.
LEMMA ClaimsAppend ==
  ASSUME NEW table \in Seq(Ledger!Transactions), NEW t \in Ledger!Transactions, NEW x
  PROVE  Ledger!TotalOf(Ledger!Claims(Append(table, t), x))
           = Ledger!TotalOf(Ledger!Claims(table, x)) + Ledger!ClaimOf(t, x)
<1> DEFINE old == Ledger!Claims(table, x)
           new == Ledger!Claims(Append(table, t), x)
           c   == Ledger!ClaimOf(t, x)
           N   == Len(table)
<1>1. old \in Seq(Int) /\ Len(old) = N /\ N \in Nat
  BY ClaimsType
<1>2. c \in Int
  BY DEF Ledger!Transactions, Ledger!ClaimOf
<1>3. /\ Append(table, t) \in Seq(Ledger!Transactions) /\ Len(Append(table, t)) = N + 1
      /\ Append(table, t)[N + 1] = t /\ \A k \in 1..N : Append(table, t)[k] = table[k]
  BY AppendProperties
<1>4. new \in Seq(Int) /\ Len(new) = N + 1
  <2>1. new \in Seq(Int) /\ Len(new) = Len(Append(table, t))
    BY <1>3, ClaimsType
  <2> HIDE DEF new
  <2> QED
    BY <1>3, <2>1
<1>5. new[N + 1] = c /\ \A k \in 1..N : new[k] = old[k]
  <2>1. N + 1 \in 1..Len(Append(table, t)) /\ \A k \in 1..N : k \in 1..Len(Append(table, t))
    BY <1>1, <1>3
  <2> QED
    BY <1>3, <2>1 DEF Ledger!Claims
<1> HIDE DEF old, new, c
<1>6. new = Append(old, c)
  <2>1. \A k \in 1..N + 1 : k \in 1..N \/ k = N + 1
    BY <1>1
  <2> QED
    BY <1>1, <1>2, <1>4, <1>5, <2>1, AppendProperties, SeqEqual
<1>7. TotalOf(new) = TotalOf(old) + c
  BY <1>1, <1>2, <1>6, TotalOfAppend
<1> QED
  BY <1>7, SameTotal DEF old, new, c

\* Rewriting a row changes the sum of the claims by that row's difference.
LEMMA ClaimsExcept ==
  ASSUME NEW table \in Seq(Ledger!Transactions), NEW i \in 1..Len(table),
         NEW t \in Ledger!Transactions, NEW x
  PROVE  Ledger!TotalOf(Ledger!Claims([table EXCEPT ![i] = t], x))
           = Ledger!TotalOf(Ledger!Claims(table, x)) + Ledger!ClaimOf(t, x)
               - Ledger!ClaimOf(table[i], x)
<1> DEFINE old == Ledger!Claims(table, x)
           new == Ledger!Claims([table EXCEPT ![i] = t], x)
           c   == Ledger!ClaimOf(t, x)
           N   == Len(table)
<1>1. old \in Seq(Int) /\ Len(old) = N /\ N \in Nat
  BY ClaimsType
<1>2. c \in Int
  BY DEF Ledger!Transactions, Ledger!ClaimOf
<1>3. /\ [table EXCEPT ![i] = t] \in Seq(Ledger!Transactions)
      /\ Len([table EXCEPT ![i] = t]) = N
      /\ \A k \in 1..N : [table EXCEPT ![i] = t][k] = IF k = i THEN t ELSE table[k]
  OBVIOUS
<1>4. new \in Seq(Int) /\ Len(new) = N
  <2>1. new \in Seq(Int) /\ Len(new) = Len([table EXCEPT ![i] = t])
    BY <1>3, ClaimsType
  <2> HIDE DEF new
  <2> QED
    BY <1>3, <2>1
<1>5. \A k \in 1..N : new[k] = IF k = i THEN c ELSE old[k]
  BY <1>3 DEF Ledger!Claims
<1>6. old[i] = Ledger!ClaimOf(table[i], x)
  BY DEF Ledger!Claims
<1> HIDE DEF old, new, c
<1>7. new = [old EXCEPT ![i] = c]
  BY <1>1, <1>2, <1>4, <1>5, ExceptSeq, SeqEqual, SMTT(60)
<1>8. TotalOf(new) = TotalOf(old) + c - old[i]
  BY <1>1, <1>2, <1>7, TotalOfExcept
<1> QED
  BY <1>6, <1>8, SameTotal DEF old, new, c

\* The sum of the rows about transaction i grows by what an added row says of it.
LEMMA NetAppend ==
  ASSUME NEW h \in Seq(Ledger!Entries), NEW e \in Ledger!Entries, NEW i \in Nat
  PROVE  /\ Ledger!Net(h, i) \in Int
         /\ Ledger!Net(Append(h, e), i) = Ledger!Net(h, i) + Ledger!PostOf(e, i)
<1> DEFINE Posted(r) == [k \in 1..Len(r) |-> Ledger!PostOf(r[k], i)]
           old == Posted(h)
           new == Posted(Append(h, e))
           N   == Len(h)
<1>1. ASSUME NEW f \in Ledger!Entries PROVE Ledger!PostOf(f, i) \in Int
  BY DEF Ledger!Entries, Ledger!PostOf
<1>2. ASSUME NEW r \in Seq(Ledger!Entries) PROVE Posted(r) \in Seq(Int) /\ Len(Posted(r)) = Len(r)
  <2>1. Len(r) \in Nat /\ \A k \in 1..Len(r) : r[k] \in Ledger!Entries
    OBVIOUS
  <2>2. Posted(r) \in [1..Len(r) -> Int]
    BY <1>1, <2>1
  <2> QED
    BY <2>1, <2>2, SeqDef
<1>3. /\ Append(h, e) \in Seq(Ledger!Entries) /\ Len(Append(h, e)) = N + 1 /\ N \in Nat
      /\ Append(h, e)[N + 1] = e /\ \A k \in 1..N : Append(h, e)[k] = h[k]
  BY AppendProperties
<1>4. old \in Seq(Int) /\ Len(old) = N /\ new \in Seq(Int) /\ Len(new) = N + 1
  BY <1>2, <1>3
<1>5. new[N + 1] = Ledger!PostOf(e, i) /\ \A k \in 1..N : new[k] = old[k]
  <2>1. N + 1 \in 1..Len(Append(h, e)) /\ \A k \in 1..N : k \in 1..Len(Append(h, e))
    BY <1>3
  <2> QED
    BY <1>3, <2>1
<1>6. Ledger!TotalOf(old) = Ledger!Net(h, i) /\ Ledger!TotalOf(new) = Ledger!Net(Append(h, e), i)
  BY DEF Ledger!Net
<1> HIDE DEF old, new, Posted
<1>7. new = Append(old, Ledger!PostOf(e, i))
  <2>1. Ledger!PostOf(e, i) \in Int
    BY <1>1
  <2>2. \A k \in 1..N + 1 : k \in 1..N \/ k = N + 1
    BY <1>3
  <2> QED
    BY <1>3, <1>4, <1>5, <2>1, <2>2, AppendProperties, SeqEqual
<1> QED
  BY <1>1, <1>4, <1>6, <1>7, TotalOfAppend, TotalOfType, SameTotal

\* No row about it, nothing moved.
LEMMA NetUntouched ==
  ASSUME NEW h \in Seq(Ledger!Entries), NEW i \in Nat,
         \A k \in 1..Len(h) : i \notin {0, h[k].txn}
  PROVE  Ledger!Net(h, i) = 0
<1> DEFINE posted == [k \in 1..Len(h) |-> Ledger!PostOf(h[k], i)]
<1>1. Len(h) \in Nat
  OBVIOUS
<1>2. \A k \in 1..Len(h) : Ledger!PostOf(h[k], i) = 0
  BY DEF Ledger!PostOf
<1>3. posted \in [1..Len(h) -> Int] /\ Len(posted) = Len(h) /\ \A k \in 1..Len(h) : posted[k] = 0
  BY <1>1, <1>2
<1>4. Ledger!TotalOf(posted) = 0
  BY <1>1, <1>3, SeqDef, TotalOfZeros, SameTotal
<1> QED
  BY <1>4 DEF Ledger!Net

\* The history h explains balance b of cell x.
Explains(h, b, x) ==
  /\ \A k \in 1..Len(h) : /\ h[k].before = IF k = 1 THEN Opening[x] ELSE h[k - 1].after
                          /\ h[k].after = h[k].before + h[k].amount
  /\ b = IF h = <<>> THEN Opening[x] ELSE h[Len(h)].after
  /\ b = Opening[x] + Ledger!Net(h, 0)

\* A row that starts at the old balance and ends at the new one explains that.
LEMMA ExplainsMore ==
  ASSUME NEW x \in Cells, NEW h \in Seq(Ledger!Entries), NEW b \in Nat, Explains(h, b, x),
         NEW e \in Ledger!Entries, e.before = b, e.after = e.before + e.amount
  PROVE  Explains(Append(h, e), e.after, x)
<1> DEFINE g == Append(h, e)
           N == Len(h)
<1>1. Opening[x] \in Nat /\ e.amount \in Int
  BY RequestAssumption, SMTT(60) DEF Ledger!Entries
<1>2. Ledger!Net(h, 0) \in Int /\ Ledger!Net(g, 0) = Ledger!Net(h, 0) + e.amount
  <2>1. Ledger!PostOf(e, 0) = e.amount
    BY DEF Ledger!PostOf
  <2> QED
    BY <2>1, NetAppend
<1>3. /\ g \in Seq(Ledger!Entries) /\ Len(g) = N + 1 /\ g[N + 1] = e /\ N \in Nat
      /\ \A k \in 1..N : g[k] = h[k]
  BY AppendProperties
<1>4. h = <<>> <=> N = 0
  BY EmptySeq
<1>5. /\ \A k \in 1..N : /\ h[k].before = IF k = 1 THEN Opening[x] ELSE h[k - 1].after
                         /\ h[k].after = h[k].before + h[k].amount
      /\ b = IF h = <<>> THEN Opening[x] ELSE h[N].after
      /\ b = Opening[x] + Ledger!Net(h, 0)
  BY DEF Explains
<1> HIDE DEF g, N
<1>6. ASSUME NEW k \in 1..N + 1
      PROVE  /\ g[k].before = IF k = 1 THEN Opening[x] ELSE g[k - 1].after
             /\ g[k].after = g[k].before + g[k].amount
  <2>1. k # 1 => k - 1 \in 1..N
    BY <1>3
  <2>2. CASE k = N + 1
    <3>1. k = 1 => N = 0
      BY <1>3, <2>2
    <3>2. k # 1 => N # 0 /\ k - 1 = N
      BY <1>3, <2>2
    <3> QED
      BY <1>3, <1>4, <1>5, <2>1, <2>2, <3>1, <3>2
  <2>3. CASE k \in 1..N
    BY <1>3, <1>5, <2>1, <2>3
  <2> QED
    BY <1>3, <2>2, <2>3
<1>7. g # <<>>
  BY <1>3
<1>8. e.after = Opening[x] + Ledger!Net(g, 0)
  BY <1>1, <1>2, <1>5
<1> QED
  BY <1>3, <1>6, <1>7, <1>8 DEF Explains, g

-----------------------------------------------------------------------------
(* A commit keeps the books of the cells nobody raced for.                 *)

\* What a committed request changes of the claims on x.
ClaimsLost(r, old, x) ==
  IF Releases(r, Subject(r, old)) /\ x = Subject(r, old).cell THEN Subject(r, old).amount ELSE 0

ClaimsMade(r, old, x) ==
  IF r.kind = "transfer" /\ x = Subject(r, old).cell THEN Subject(r, old).amount ELSE 0

\* The claims on a cell change by what the request makes and settles.
LEMMA ClaimsAfter ==
  ASSUME NEW s, NEW old, NEW new, TxnsAfter(s, old.txns, new.txns), NEW raced,
         Finished(s, old, raced), old.txns \in Seq(Ledger!Transactions), NEW x \in Cells,
         Trusted(x, raced)
  PROVE  LET before == Ledger!TotalOf(Ledger!Claims(old.txns, x))
         IN /\ before \in Int
            /\ Ledger!TotalOf(Ledger!Claims(new.txns, x))
                 = before + ClaimsMade(s.req, old.txns, x) - ClaimsLost(s.req, old.txns, x)
<1> DEFINE r == s.req
           t == Subject(r, old.txns)
           before == Ledger!TotalOf(Ledger!Claims(old.txns, x))
           after  == Ledger!TotalOf(Ledger!Claims(new.txns, x))
<1>1. r \in Served /\ before \in Int /\ FinishedSubject(s, old, raced)
  BY ClaimsType DEF Finished, SessionType
<1>2. CASE r.kind \in Creating
  <2>1. t = RowOf(r) /\ ~ Releases(r, t) /\ r.kind \notin Settling
    BY <1>2 DEF Subject, Creating, Settling, Releases
  <2>2. /\ Sound(t) /\ t.type = r.kind /\ (r.kind = "transfer" => t.status = "pending")
    BY <1>1, <1>2, <2>1, RowOfFacts
  <2>3. new.txns = Append(old.txns, t)
    BY <1>2, <2>1 DEF TxnsAfter
  <2> HIDE DEF t
  <2>4. t \in Ledger!Transactions /\ t.amount \in Nat
    BY <2>2 DEF Sound, Ledger!Transactions
  <2>5. after = before + Ledger!ClaimOf(t, x)
    BY <2>3, <2>4, ClaimsAppend
  <2>6. Ledger!ClaimOf(t, x) = IF r.kind = "transfer" /\ x = t.cell THEN t.amount ELSE 0
    BY <2>2 DEF Ledger!ClaimOf
  <2>7. /\ ClaimsMade(r, old.txns, x) = Ledger!ClaimOf(t, x) /\ ClaimsLost(r, old.txns, x) = 0
        /\ Ledger!ClaimOf(t, x) \in Int
    BY <2>1, <2>4, <2>6 DEF ClaimsMade, ClaimsLost, t
  <2> QED
    BY <1>1, <2>5, <2>7
<1>3. CASE r.kind \in Settling
  <2> DEFINE v == SettledRow(r, t)
  <2>1. t = old.txns[r.txn] /\ r.txn \in 1..Len(old.txns) /\ r.kind # "transfer"
    BY <1>1, <1>3 DEF Subject, FinishedSubject, Settling
  <2>2. new.txns = [old.txns EXCEPT ![r.txn] = v]
    BY <1>3, <2>1 DEF TxnsAfter
  <2>3. t \in Ledger!Transactions /\ Sound(v) /\ v.status # "pending"
    <3>1. Len(new.txns) = Len(old.txns)
      BY <1>3 DEF TxnsAfter, Creating, Settling
    <3>2. Sound(new.txns[r.txn]) /\ new.txns[r.txn] = v
      BY <2>1, <2>2, <3>1, SMTT(60) DEF TxnsAfter
    <3>3. t \in Ledger!Transactions
      BY <2>1
    <3>4. v.status # "pending"
      BY <1>3, <3>3 DEF SettledRow, Settling, Ledger!Transactions
    <3> QED
      BY <3>2, <3>3, <3>4
  <2>4. t \in Ledger!Transactions /\ v \in Ledger!Transactions /\ t.amount \in Nat
    BY <2>3 DEF Sound, Ledger!Transactions
  <2>5. x = t.cell => Settleable(r, t)
    BY <1>1, <1>3 DEF FinishedSubject
  <2> HIDE DEF t, v
  <2>6. after = before + Ledger!ClaimOf(v, x) - Ledger!ClaimOf(t, x)
    BY <2>1, <2>2, <2>4, ClaimsExcept
  <2>7. Ledger!ClaimOf(v, x) = 0
    BY <2>3 DEF Ledger!ClaimOf
  <2>8. Ledger!ClaimOf(t, x) = IF Releases(r, t) /\ x = t.cell THEN t.amount ELSE 0
    <3>1. x = t.cell => (t.status = "pending" /\ (t.type = "transfer" <=> Releases(r, t)))
      BY <1>3, <2>5 DEF Settleable, Releases, Settling
    <3> QED
      BY <3>1 DEF Ledger!ClaimOf
  <2>9. ClaimsMade(r, old.txns, x) = 0 /\ ClaimsLost(r, old.txns, x) = Ledger!ClaimOf(t, x)
        /\ Ledger!ClaimOf(t, x) \in Int
    BY <2>1, <2>4, <2>8 DEF ClaimsMade, ClaimsLost, t
  <2> QED
    BY <1>1, <2>6, <2>7, <2>9
<1>4. CASE r.kind \notin Creating \cup Settling
  <2>1. new.txns = old.txns
    BY <1>4 DEF TxnsAfter
  <2>2. ClaimsMade(r, old.txns, x) = 0 /\ ClaimsLost(r, old.txns, x) = 0
    BY <1>4 DEF ClaimsMade, ClaimsLost, Releases, Creating, Settling
  <2> QED
    BY <1>1, <2>1, <2>2
<1> QED
  BY <1>2, <1>3, <1>4

\* The books of a cell that nobody raced for are right after a commit.
LEMMA CommittedBooks ==
  ASSUME RequestInv, NEW p \in Sessions, Committed(p)
  PROVE  UncontendedBooks'
<1> DEFINE s == session[p]
<1>1. /\ Finished(s, db, contended) /\ TxnsAfter(s, db.txns, db'.txns) /\ RowsAfter(s, db, db')
      /\ contended' = contended /\ FinishedPosts(s, db, contended)
           /\ FinishedReserved(s, db, contended)
  BY DEF Committed, Finished
<1>2. Tables'
  BY CommittedTables
<1>3. SUFFICES ASSUME NEW x \in Cells, x \notin contended
      PROVE  /\ Ledger!Explained(x)'
             /\ db'.reserved[x] = Ledger!TotalOf(Ledger!Claims(db'.txns, x))
  <2>1. \A x \in Cells : db'.reserved[x] <= db'.balance[x]
    BY <1>2 DEF Tables
  <2>2. ASSUME NEW x \in Cells, x \notin contended PROVE Ledger!Explained(x)'
    BY <1>3, <2>2
  <2>3. ASSUME NEW x \in Cells, x \notin contended
        PROVE  db'.reserved[x] = Ledger!TotalOf(Ledger!Claims(db'.txns, x))
    BY <1>3, <2>3
  <2> QED
    BY <1>1, <2>1, <2>2, <2>3 DEF UncontendedBooks
<1>4. Trusted(x, contended)
  BY <1>3 DEF Trusted
<1>5. /\ db.history[x] \in Seq(Ledger!Entries) /\ db.balance[x] \in Nat /\ db.reserved[x] \in Nat
      /\ db.txns \in Seq(Ledger!Transactions)
  BY DEF RequestInv, Tables, Ledger!TypeOK, Ledger!Cells, Cells
<1>6. /\ Explains(db.history[x], db.balance[x], x)
      /\ db.reserved[x] = Ledger!TotalOf(Ledger!Claims(db.txns, x))
  BY <1>3 DEF RequestInv, UncontendedBooks, Ledger!Explained, Explains
<1> HIDE DEF s
<1>7. Explains(db'.history[x], db'.balance[x], x)
  <2>1. CASE x \in DOMAIN s.bal
    <3> DEFINE e == s.posts[x][1]
               g == Row(s, x, db)
    <3>1. /\ e \in Postings /\ e.before = db.balance[x] /\ e.after = e.before + e.amount
          /\ e.after = s.bal[x]
      BY <1>1, <1>4, <2>1 DEF FinishedPosts, PostedIn
    <3>2. db'.history[x] = Append(db.history[x], g) /\ db'.balance[x] = e.after
      BY <1>1, <2>1, <3>1 DEF RowsAfter, BalanceIn
    <3>3. /\ g \in Ledger!Entries /\ g.amount = e.amount /\ g.before = e.before
          /\ g.after = e.after
      <4>1. SessionType(s) /\ Len(db.txns) \in Nat
        BY <1>1, <1>5 DEF Finished
      <4> QED
        BY <3>1, <4>1, RowFacts
    <3> HIDE DEF e, g
    <3> QED
      BY <1>5, <1>6, <3>1, <3>2, <3>3, ExplainsMore
  <2>2. CASE x \notin DOMAIN s.bal
    BY <1>1, <1>6, <2>2 DEF RowsAfter, BalanceIn
  <2> QED
    BY <2>1, <2>2
<1>8. Ledger!Explained(x)'
  BY <1>7 DEF Ledger!Explained, Explains
<1>9. db'.reserved[x] = Ledger!TotalOf(Ledger!Claims(db'.txns, x))
  <2> DEFINE r == s.req
             t == Subject(r, db.txns)
  <2>1. /\ Ledger!TotalOf(Ledger!Claims(db'.txns, x))
             = db.reserved[x] + ClaimsMade(r, db.txns, x) - ClaimsLost(r, db.txns, x)
    BY <1>1, <1>4, <1>5, <1>6, ClaimsAfter
  <2>2. /\ \A y \in DOMAIN s.res : (r.kind = "transfer" \/ Releases(r, t)) /\ y = t.cell
        /\ r.kind = "transfer" =>
             /\ t.cell \in DOMAIN s.res
             /\ Trusted(t.cell, contended) => s.res[t.cell] = db.reserved[t.cell] + t.amount
        /\ Releases(r, t) =>
             /\ t.cell \in DOMAIN s.res
             /\ Trusted(t.cell, contended) => s.res[t.cell] = db.reserved[t.cell] - t.amount
    BY <1>1 DEF FinishedReserved
  <2>3. r.kind = "transfer" => ~ Releases(r, t)
    BY DEF Releases
  <2>4. x = t.cell /\ (r.kind = "transfer" \/ Releases(r, t)) => t.amount \in Nat
    <3>1. CASE r.kind = "transfer"
      <4>1. Sound(RowOf(r)) /\ t = RowOf(r)
        BY <1>1, <3>1, RowOfFacts DEF Finished, SessionType, Subject, Settling, Creating
      <4> QED
        BY <4>1 DEF Sound, Ledger!Transactions
    <3>2. CASE Releases(r, t)
      <4>1. r.kind \in Settling
        BY <3>2 DEF Releases, Settling
      <4>2. t = db.txns[r.txn] /\ r.txn \in 1..Len(db.txns)
        BY <1>1, <4>1 DEF Subject, Finished, FinishedSubject
      <4>3. t \in Ledger!Transactions
        BY <1>5, <4>2
      <4> QED
        BY <4>3 DEF Ledger!Transactions
    <3> QED
      BY <3>1, <3>2
  <2>5. db'.reserved[x] = ReservedIn(s, x, db)
    BY <1>1 DEF RowsAfter
  <2>6. /\ ClaimsMade(r, db.txns, x) = IF r.kind = "transfer" /\ x = t.cell THEN t.amount ELSE 0
        /\ ClaimsLost(r, db.txns, x) = IF Releases(r, t) /\ x = t.cell THEN t.amount ELSE 0
    BY DEF ClaimsMade, ClaimsLost
  <2> HIDE DEF t, r
  <2>7. ReservedIn(s, x, db) = IF x \in DOMAIN s.res THEN s.res[x] ELSE db.reserved[x]
    BY DEF ReservedIn
  <2>8. CASE x \in DOMAIN s.res
    BY <1>4, <1>5, <2>1, <2>2, <2>3, <2>4, <2>5, <2>6, <2>7, <2>8
  <2>9. CASE x \notin DOMAIN s.res
    BY <1>4, <1>5, <2>1, <2>2, <2>3, <2>4, <2>5, <2>6, <2>7, <2>9
  <2> QED
    BY <2>8, <2>9
<1> QED
  BY <1>8, <1>9

-----------------------------------------------------------------------------
(* A commit leaves nothing half done.                                      *)

\* What the commit adds to the account of transaction i on cell x.
Added(s, x, i, d) == IF x \in DOMAIN s.bal THEN Ledger!PostOf(Row(s, x, d), i) ELSE 0

\* A transaction's account grows by what the commit posts of it.
LEMMA NetAfter ==
  ASSUME NEW s, NEW old, NEW new, RowsAfter(s, old, new), NEW x \in Cells, NEW i \in Nat,
         old.history[x] \in Seq(Ledger!Entries), x \in DOMAIN s.bal =>
           Row(s, x, old) \in Ledger!Entries
  PROVE  /\ Ledger!Net(old.history[x], i) \in Int /\ Added(s, x, i, old) \in Int
         /\ Ledger!Net(new.history[x], i) = Ledger!Net(old.history[x], i) + Added(s, x, i, old)
<1> DEFINE h == old.history[x]
<1>1. Ledger!Net(h, i) \in Int
  <2>1. [txn |-> 0, change |-> "transaction", amount |-> 0, before |-> 0, after |-> 0]
          \in Ledger!Entries
    BY DEF Ledger!Entries, Ledger!ChangeTypes
  <2> QED
    BY <2>1, NetAppend
<1>2. CASE x \in DOMAIN s.bal
  <2> DEFINE e == Row(s, x, old)
  <2>1. new.history[x] = Append(h, e) /\ e \in Ledger!Entries
          /\ Added(s, x, i, old) = Ledger!PostOf(e, i)
    BY <1>2 DEF RowsAfter, Added
  <2> HIDE DEF e
  <2>2. Ledger!PostOf(e, i) \in Int
    BY <2>1 DEF Ledger!PostOf, Ledger!Entries
  <2> QED
    BY <1>1, <2>1, <2>2, NetAppend
<1>3. CASE x \notin DOMAIN s.bal
  BY <1>1, <1>3 DEF RowsAfter, Added
<1> QED
  BY <1>2, <1>3

\* The row that s leaves on x is its posting, with the transaction it is about.
Refers(s, x, d) ==
  LET e == s.posts[x][1]
      g == Row(s, x, d)
  IN /\ g \in Ledger!Entries /\ g.txn = Ref(s, d)
     /\ g.change = e.change /\ g.amount = e.amount

\* A session's rows refer to the transaction it makes or settles, or to none.
LEMMA RefAfter ==
  ASSUME NEW s, NEW old, NEW new, NEW raced, Finished(s, old, raced),
           TxnsAfter(s, old.txns, new.txns)
  PROVE  /\ DOMAIN s.bal # {} => Ref(s, old) \in 0..Len(new.txns)
         /\ \A x \in DOMAIN s.bal : Refers(s, x, old)
         /\ s.req.kind \in Settling => Ref(s, old) = s.req.txn /\ s.req.txn \in 1..Len(old.txns)
         /\ s.req.kind \in Creating => Ref(s, old) = Len(old.txns) + 1
         /\ s.req.kind = "reconcile" => Ref(s, old) = 0
         /\ s.req.kind \in Creating => Len(new.txns) = Len(old.txns) + 1
         /\ s.req.kind \notin Creating => Len(new.txns) = Len(old.txns)
         /\ Len(old.txns) \in Nat
<1> DEFINE r == s.req
<1>1. /\ r \in Served /\ FinishedPosts(s, old, raced) /\ Len(old.txns) \in Nat
      /\ r.kind \in Settling => r.txn \in 1..Len(old.txns)
      /\ SessionType(s)
  BY DEF Finished, SessionType, FinishedSubject, TxnsAfter
<1>2. /\ r.kind \in Settling => Ref(s, old) = r.txn
      /\ r.kind = "reconcile" => Ref(s, old) = 0
      /\ r.kind \in Creating => Ref(s, old) = Len(old.txns) + 1
  BY DEF Ref, Settling, Creating
<1>3. ASSUME NEW x \in DOMAIN s.bal PROVE Refers(s, x, old)
  <2>1. s.posts[x][1] \in Postings
    BY <1>1 DEF FinishedPosts, PostedIn
  <2> QED
    BY <1>1, <2>1, RowFacts DEF Refers
<1>4. /\ r.kind \in Creating => Len(new.txns) = Len(old.txns) + 1
      /\ r.kind \notin Creating => Len(new.txns) = Len(old.txns)
  BY DEF TxnsAfter
<1>5. r.kind \in {"delete", "open", "close"} => DOMAIN s.bal = {}
  <2>1. r.kind \in {"delete", "open", "close"} => Dues(r, Subject(r, old.txns)) = {}
    BY DEF Dues
  <2> QED
    BY <1>1, <2>1 DEF FinishedPosts
<1>6. r.kind \in Creating \cup Settling \cup {"reconcile", "delete", "open", "close"}
  BY <1>1, ServedFacts
<1> QED
  BY <1>1, <1>2, <1>3, <1>4, <1>5, <1>6

\* Two changes due on two cells, as they were posted.
LEMMA DuePosted ==
  ASSUME NEW s, NEW d, NEW raced, FinishedPosts(s, d, raced), s.req.kind # "reconcile",
         NEW due \in Dues(s.req, Subject(s.req, d.txns))
  PROVE  /\ due[1] \in DOMAIN s.bal
         /\ s.posts[due[1]][1].amount = due[2] /\ s.posts[due[1]][1].change = due[3]
  BY DEF FinishedPosts

\* What is there to say of transaction i, before a commit of s and after it.
PostedOn(h, x, i, amount) ==
  \E k \in 1..Len(h[x]) :
    h[x][k].txn = i /\ h[x][k].change = "transaction" /\ h[x][k].amount = amount

Balanced(t, i, h) ==
  CASE t.type = "transfer" -> Ledger!Net(h[t.cell], i) = - Ledger!Net(h[t.toCell], i)
    [] t.type = "income"   -> PostedOn(h, t.cell, i, t.amount)
    [] t.type = "expense"  -> PostedOn(h, t.cell, i, -t.amount)
    [] t.type = "exchange" -> PostedOn(h, t.cell, i, -t.cost)
      /\ PostedOn(h, t.toCell, i, t.toAmount)

Grown(s, old, new) ==
  \A x \in Cells :
    /\ old.history[x] \in Seq(Ledger!Entries) /\ new.history[x] \in Seq(Ledger!Entries)
    /\ \A k \in 1..Len(old.history[x]) : k \in 1..Len(new.history[x])
         /\ new.history[x][k] = old.history[x][k]
    /\ x \in DOMAIN s.bal =>
         /\ Len(new.history[x]) \in 1..Len(new.history[x])
         /\ new.history[x][Len(new.history[x])] = Row(s, x, old)
    /\ \A k \in 1..Len(new.history[x]) :
         \/ k \in 1..Len(old.history[x]) /\ new.history[x][k] = old.history[x][k]
         \/ x \in DOMAIN s.bal /\ new.history[x][k] = Row(s, x, old)

\* A commit only adds history rows, one to each cell it posts to.
LEMMA HistoryGrown ==
  ASSUME NEW s, NEW old, NEW new, RowsAfter(s, old, new),
         \A x \in Cells : old.history[x] \in Seq(Ledger!Entries),
         \A x \in DOMAIN s.bal : Row(s, x, old) \in Ledger!Entries
  PROVE  Grown(s, old, new)
<1> SUFFICES ASSUME NEW x \in Cells
    PROVE
    /\ old.history[x] \in Seq(Ledger!Entries) /\ new.history[x] \in Seq(Ledger!Entries)
    /\ \A k \in 1..Len(old.history[x]) : k \in 1..Len(new.history[x])
         /\ new.history[x][k] = old.history[x][k]
    /\ x \in DOMAIN s.bal =>
         /\ Len(new.history[x]) \in 1..Len(new.history[x])
         /\ new.history[x][Len(new.history[x])] = Row(s, x, old)
    /\ \A k \in 1..Len(new.history[x]) :
         \/ k \in 1..Len(old.history[x]) /\ new.history[x][k] = old.history[x][k]
         \/ x \in DOMAIN s.bal /\ new.history[x][k] = Row(s, x, old)
  BY DEF Grown
<1> DEFINE h == old.history[x]
           g == new.history[x]
           e == Row(s, x, old)
<1>1. h \in Seq(Ledger!Entries) /\ Len(h) \in Nat
  OBVIOUS
<1>2. CASE x \in DOMAIN s.bal
  <2>1. g = Append(h, e) /\ e \in Ledger!Entries
    BY <1>2 DEF RowsAfter
  <2> HIDE DEF h, g, e
  <2>2. /\ g \in Seq(Ledger!Entries) /\ Len(g) = Len(h) + 1 /\ g[Len(h) + 1] = e
        /\ \A k \in 1..Len(h) : g[k] = h[k]
    BY <1>1, <2>1, AppendProperties
  <2>3. \A k \in 1..Len(g) : k \in 1..Len(h) \/ k = Len(h) + 1
    BY <1>1, <2>2
  <2>4. \A k \in 1..Len(h) : k \in 1..Len(g)
    BY <1>1, <2>2
  <2> QED
    BY <1>1, <1>2, <2>2, <2>3, <2>4 DEF h, g, e
<1>3. CASE x \notin DOMAIN s.bal
  <2>1. g = h
    BY <1>3 DEF RowsAfter
  <2> QED
    BY <1>1, <1>3, <2>1
<1> QED
  BY <1>2, <1>3

\* What the history says of an older transaction stays balanced: a receipt takes
\* out of one cell what it brings into the other, and nothing else posts to a transfer.
LEMMA OldStaysBalanced ==
  ASSUME NEW s, NEW old, NEW new, NEW raced, Finished(s, old, raced),
         TxnsAfter(s, old.txns, new.txns), RowsAfter(s, old, new), Grown(s, old, new),
         NEW i \in 1..Len(old.txns), Sound(old.txns[i]), Balanced(old.txns[i], i, old.history)
  PROVE  Balanced(new.txns[i], i, new.history)
<1> DEFINE t == old.txns[i]
           v == new.txns[i]
<1>1. /\ v.type = t.type /\ v.cell = t.cell /\ v.toCell = t.toCell
      /\ v.amount = t.amount /\ v.cost = t.cost /\ v.toAmount = t.toAmount
      /\ Len(old.txns) \in Nat
  BY DEF TxnsAfter
<1>2. t.cell \in Cells /\ t.toCell \in Cells /\ t.amount \in Nat
      /\ t.type \in {"income", "expense", "exchange", "transfer"}
      /\ (t.type \in {"exchange", "transfer"} => t.cell # t.toCell)
  BY DEF Sound, Ledger!Transactions, Ledger!Cells, Cells, Ledger!Types
<1>3. /\ \A x \in DOMAIN s.bal :
           /\ Row(s, x, old) \in Ledger!Entries /\ Row(s, x, old).txn = Ref(s, old)
           /\ Row(s, x, old).amount = s.posts[x][1].amount
      /\ s.req.kind \in Settling => Ref(s, old) = s.req.txn
      /\ s.req.kind \in Creating => Ref(s, old) = Len(old.txns) + 1
      /\ s.req.kind = "reconcile" => Ref(s, old) = 0
  BY RefAfter DEF Refers
<1>4. /\ FinishedPosts(s, old, raced) /\ FinishedSubject(s, old, raced)
      /\ s.req.kind \in Creating \cup Settling \cup {"reconcile", "delete", "open", "close"}
  BY ServedFacts DEF Finished, SessionType
<1> HIDE DEF t, v
<1>5. CASE t.type = "transfer"
  <2> DEFINE x == t.cell
             y == t.toCell
  <2>1. Added(s, x, i, old) + Added(s, y, i, old) = 0
    <3>1. CASE Ref(s, old) # i
      <4>1. \A z \in DOMAIN s.bal : Ledger!PostOf(Row(s, z, old), i) = 0
        BY <1>1, <1>3, <3>1 DEF Ledger!PostOf
      <4>2. Added(s, x, i, old) = 0 /\ Added(s, y, i, old) = 0
        BY <4>1 DEF Added
      <4> QED
        BY <4>2
    <3>2. CASE Ref(s, old) = i /\ s.req.kind \in Settling
      <4>1. Subject(s.req, old.txns) = t
        BY <1>3, <3>2 DEF Subject, t
      <4>2. CASE s.req.kind = "receive"
        <5>1. Dues(s.req, t) = {<<x, -t.amount, "transfer_out">>, <<y, t.amount, "transfer_in">>}
          BY <4>2 DEF Dues
        <5>2. /\ x \in DOMAIN s.bal /\ s.posts[x][1].amount = - t.amount
              /\ y \in DOMAIN s.bal /\ s.posts[y][1].amount = t.amount
          <6> DEFINE out == <<x, -t.amount, "transfer_out">>
                     in  == <<y, t.amount, "transfer_in">>
          <6>1. out \in Dues(s.req, t) /\ in \in Dues(s.req, t)
            BY <5>1
          <6>2. out[1] = x /\ out[2] = - t.amount /\ in[1] = y /\ in[2] = t.amount
            OBVIOUS
          <6> HIDE DEF out, in
          <6> QED
            BY <1>4, <4>1, <4>2, <6>1, <6>2, DuePosted
        <5>3. Added(s, x, i, old) = - t.amount /\ Added(s, y, i, old) = t.amount
          BY <1>3, <3>2, <5>2 DEF Added, Ledger!PostOf
        <5> QED
          BY <1>2, <5>3
      <4>3. CASE s.req.kind # "receive"
        <5>1. Dues(s.req, t) = {}
          BY <1>5, <3>2, <4>3 DEF Dues, Settling
        <5>2. DOMAIN s.bal = {}
          BY <1>4, <3>2, <4>1, <5>1 DEF FinishedPosts, Settling
        <5>3. Added(s, x, i, old) = 0 /\ Added(s, y, i, old) = 0
          BY <5>2 DEF Added
        <5> QED
          BY <5>3
      <4> QED
        BY <4>2, <4>3
    <3>3. CASE s.req.kind \in Creating \cup {"reconcile"}
      <4>1. Ref(s, old) # i
        BY <1>1, <1>3, <3>3
      <4> QED
        BY <3>1, <4>1
    <3>4. CASE s.req.kind \in {"delete", "open", "close"}
      <4>1. Dues(s.req, Subject(s.req, old.txns)) = {}
        BY <3>4 DEF Dues
      <4>2. DOMAIN s.bal = {}
        BY <1>4, <3>4, <4>1 DEF FinishedPosts
      <4>3. Added(s, x, i, old) = 0 /\ Added(s, y, i, old) = 0
        BY <4>2 DEF Added
      <4> QED
        BY <4>3
    <3> QED
      BY <1>4, <3>1, <3>2, <3>3, <3>4
  <2>2. Ledger!Net(old.history[x], i) = - Ledger!Net(old.history[y], i)
    BY <1>5 DEF Balanced, t
  <2>3. \A z \in {x, y} :
          /\ Ledger!Net(old.history[z], i) \in Int /\ Added(s, z, i, old) \in Int
          /\ Ledger!Net(new.history[z], i) = Ledger!Net(old.history[z], i) + Added(s, z, i, old)
    <3> SUFFICES ASSUME NEW z \in {x, y}
        PROVE  /\ Ledger!Net(old.history[z], i) \in Int /\ Added(s, z, i, old) \in Int
               /\ Ledger!Net(new.history[z], i)
                    = Ledger!Net(old.history[z], i) + Added(s, z, i, old)
      OBVIOUS
    <3>1. z \in Cells /\ i \in Nat
      BY <1>1, <1>2
    <3>2. old.history[z] \in Seq(Ledger!Entries)
            /\ (z \in DOMAIN s.bal => Row(s, z, old) \in Ledger!Entries)
      BY <1>3, <3>1 DEF Grown
    <3> QED
      BY <3>1, <3>2, NetAfter
  <2> HIDE DEF x, y
  <2>4. Ledger!Net(new.history[x], i) = - Ledger!Net(new.history[y], i)
    BY <2>1, <2>2, <2>3
  <2> QED
    BY <1>1, <1>5, <2>4 DEF Balanced, v, x, y
<1>6. ASSUME NEW x \in Cells, NEW a, PostedOn(old.history, x, i, a)
      PROVE  PostedOn(new.history, x, i, a)
  <2>1. PICK k \in 1..Len(old.history[x]) :
          /\ old.history[x][k].txn = i /\ old.history[x][k].change = "transaction"
          /\ old.history[x][k].amount = a
    BY <1>6 DEF PostedOn
  <2>2. k \in 1..Len(new.history[x]) /\ new.history[x][k] = old.history[x][k]
    BY DEF Grown
  <2> QED
    BY <2>1, <2>2 DEF PostedOn
<1>7. CASE t.type = "income"
  BY <1>1, <1>2, <1>6, <1>7 DEF Balanced, t, v
<1>8. CASE t.type = "expense"
  BY <1>1, <1>2, <1>6, <1>8 DEF Balanced, t, v
<1>9. CASE t.type = "exchange"
  BY <1>1, <1>2, <1>6, <1>9 DEF Balanced, t, v
<1> QED
  BY <1>2, <1>5, <1>7, <1>8, <1>9

\* A new transaction has its postings; a new transfer has none.
LEMMA NewIsBalanced ==
  ASSUME NEW s, NEW old, NEW new, NEW raced, Finished(s, old, raced), s.req.kind \in Creating,
         TxnsAfter(s, old.txns, new.txns), RowsAfter(s, old, new), Grown(s, old, new),
         \A x \in Cells : \A k \in 1..Len(old.history[x]) :
           old.history[x][k].txn \in 0..Len(old.txns)
  PROVE  Balanced(RowOf(s.req), Len(old.txns) + 1, new.history)
<1> DEFINE r == s.req
           t == RowOf(r)
           i == Len(old.txns) + 1
<1>1. /\ Sound(t) /\ t.type = r.kind /\ t.cell = r.cell /\ t.amount = r.amount
      /\ r.kind = "income" => t.toCell = r.cell
      /\ Subject(r, old.txns) = t /\ FinishedPosts(s, old, raced) /\ Len(old.txns) \in Nat
      /\ i \in Nat /\ i \notin 0..Len(old.txns)
  BY RowOfFacts DEF Finished, SessionType, Subject, Settling, Creating, TxnsAfter
<1>2. /\ Ref(s, old) = i
      /\ \A x \in DOMAIN s.bal :
           /\ Row(s, x, old).txn = i /\ Row(s, x, old).amount = s.posts[x][1].amount
           /\ Row(s, x, old).change = s.posts[x][1].change
  <2>1. /\ Ref(s, old) = i
        /\ \A x \in DOMAIN s.bal : Refers(s, x, old)
    BY RefAfter
  <2> QED
    BY <2>1 DEF Refers
<1>3. t.cell \in Cells /\ t.toCell \in Cells
  BY <1>1 DEF Sound, Ledger!Transactions, Ledger!Cells, Cells
<1> HIDE DEF t, i
<1>4. ASSUME NEW x \in Cells, NEW a, <<x, a, "transaction">> \in Dues(r, t)
      PROVE  PostedOn(new.history, x, i, a)
  <2> DEFINE due == <<x, a, "transaction">>
  <2>1. due[1] = x /\ due[2] = a /\ due[3] = "transaction" /\ due \in Dues(r, t)
    BY <1>4
  <2> HIDE DEF due
  <2>2. x \in DOMAIN s.bal /\ s.posts[x][1].amount = a /\ s.posts[x][1].change = "transaction"
    BY <1>1, <2>1, DuePosted DEF Creating
  <2> QED
    BY <1>2, <2>2, SMTT(60) DEF Grown, PostedOn
<1>5. CASE r.kind = "transfer"
  <2>1. Dues(r, t) = {}
    BY <1>5 DEF Dues
  <2>2. DOMAIN s.bal = {}
    BY <1>1, <1>5, <2>1 DEF FinishedPosts
  <2>3. \A x \in Cells : Ledger!Net(new.history[x], i) = 0
    <3> SUFFICES ASSUME NEW x \in Cells PROVE Ledger!Net(new.history[x], i) = 0
      OBVIOUS
    <3>1. new.history[x] = old.history[x] /\ old.history[x] \in Seq(Ledger!Entries)
      BY <2>2 DEF RowsAfter, Grown
    <3>2. \A k \in 1..Len(old.history[x]) : i \notin {0, old.history[x][k].txn}
      BY <1>1 DEF i
    <3> QED
      BY <1>1, <3>1, <3>2, NetUntouched
  <2> QED
    BY <1>1, <1>3, <1>5, <2>3 DEF Balanced, t, i
<1>6. CASE r.kind = "income"
  <2>1. <<t.cell, t.amount, "transaction">> \in Dues(r, t)
    BY <1>6 DEF Dues
  <2> QED
    BY <1>1, <1>3, <1>4, <1>6, <2>1 DEF Balanced, t, i
<1>7. CASE r.kind = "expense"
  <2>1. <<t.cell, -t.amount, "transaction">> \in Dues(r, t)
    BY <1>7 DEF Dues
  <2> QED
    BY <1>1, <1>3, <1>4, <1>7, <2>1 DEF Balanced, t, i
<1>8. CASE r.kind = "exchange"
  <2>1. <<t.cell, -t.cost, "transaction">> \in Dues(r, t)
          /\ <<t.toCell, t.toAmount, "transaction">> \in Dues(r, t)
    BY <1>8 DEF Dues
  <2> QED
    BY <1>1, <1>3, <1>4, <1>8, <2>1 DEF Balanced, t, i
<1> QED
  BY <1>5, <1>6, <1>7, <1>8 DEF Creating

\* Nothing is half done after a commit.
LEMMA CommittedWhole ==
  ASSUME RequestInv, NEW p \in Sessions, Committed(p)
  PROVE  NothingHalfDone'
<1> DEFINE s == session[p]
<1>1. /\ Finished(s, db, contended) /\ TxnsAfter(s, db.txns, db'.txns) /\ RowsAfter(s, db, db')
  BY DEF Committed
<1>2. /\ \A x \in Cells : db.history[x] \in Seq(Ledger!Entries)
      /\ \A i \in 1..Len(db.txns) : Sound(db.txns[i])
      /\ \A x \in Cells : \A k \in 1..Len(db.history[x]) : db.history[x][k].txn \in 0..Len(db.txns)
      /\ \A i \in 1..Len(db.txns) : Balanced(db.txns[i], i, db.history)
  <2>1. /\ \A x \in Cells : db.history[x] \in Seq(Ledger!Entries)
        /\ \A i \in 1..Len(db.txns) : Sound(db.txns[i])
    BY DEF RequestInv, Tables, Ledger!TypeOK, Ledger!Cells, Cells
  <2>2. NothingHalfDone
    BY DEF RequestInv
  <2>3. \A x \in Cells : \A k \in 1..Len(db.history[x]) : db.history[x][k].txn \in 0..Len(db.txns)
    BY <2>2 DEF NothingHalfDone, Entries
  <2>4. ASSUME NEW i \in 1..Len(db.txns) PROVE Balanced(db.txns[i], i, db.history)
    <3> DEFINE t == db.txns[i]
    <3>1. t.type \in {"income", "expense", "exchange", "transfer"}
      BY <2>1 DEF Sound, Ledger!Transactions, Ledger!Types
    <3>2. ASSUME NEW x, NEW a, \E e \in Entries(x) : e.txn = i /\ e.change = "transaction"
                   /\ e.amount = a
          PROVE  PostedOn(db.history, x, i, a)
      BY <3>2 DEF PostedOn, Entries
    <3>3. /\ t.type = "transfer" =>
               Ledger!Net(db.history[t.cell], i) = - Ledger!Net(db.history[t.toCell], i)
          /\ t.type = "income" => \E e \in Entries(t.cell) :
                 e.txn = i /\ e.change = "transaction" /\ e.amount = t.amount
          /\ t.type = "expense" => \E e \in Entries(t.cell) :
                 e.txn = i /\ e.change = "transaction" /\ e.amount = -t.amount
          /\ t.type = "exchange" =>
                /\ \E e \in Entries(t.cell) : e.txn = i /\ e.change = "transaction"
                     /\ e.amount = -t.cost
                /\ \E e \in Entries(t.toCell) : e.txn = i /\ e.change = "transaction"
                     /\ e.amount = t.toAmount
      BY <2>2 DEF NothingHalfDone
    <3> HIDE DEF t
    <3>4. Balanced(t, i, db.history)
      BY <3>1, <3>2, <3>3 DEF Balanced
    <3> QED
      BY <3>4 DEF t
  <2> QED
    BY <2>1, <2>3, <2>4
<1>3. /\ DOMAIN s.bal # {} => Ref(s, db) \in 0..Len(db'.txns)
      /\ \A x \in DOMAIN s.bal :
           Row(s, x, db) \in Ledger!Entries /\ Row(s, x, db).txn = Ref(s, db)
      /\ s.req.kind \in Creating => Len(db'.txns) = Len(db.txns) + 1
      /\ s.req.kind \notin Creating => Len(db'.txns) = Len(db.txns)
      /\ Len(db.txns) \in Nat
  <2>1. \A x \in DOMAIN s.bal : Refers(s, x, db)
    BY <1>1, RefAfter
  <2>2. \A x \in DOMAIN s.bal :
          Row(s, x, db) \in Ledger!Entries /\ Row(s, x, db).txn = Ref(s, db)
    BY <2>1 DEF Refers
  <2> QED
    BY <1>1, <2>2, RefAfter
<1>4. Grown(s, db, db')
  BY <1>1, <1>2, <1>3, HistoryGrown
<1> HIDE DEF s
<1>5. ASSUME NEW x \in Cells, NEW k \in 1..Len(db'.history[x])
      PROVE  db'.history[x][k].txn \in 0..Len(db'.txns)
  <2>1. 0..Len(db.txns) \subseteq 0..Len(db'.txns)
    BY <1>3
  <2>2. CASE k \in 1..Len(db.history[x]) /\ db'.history[x][k] = db.history[x][k]
    BY <1>2, <2>1, <2>2
  <2>3. CASE x \in DOMAIN s.bal /\ db'.history[x][k] = Row(s, x, db)
    BY <1>3, <2>3
  <2> QED
    BY <1>4, <2>2, <2>3 DEF Grown
<1>6. ASSUME NEW i \in 1..Len(db'.txns) PROVE Balanced(db'.txns[i], i, db'.history)
  <2>1. CASE i \in 1..Len(db.txns)
    BY <1>1, <1>2, <1>4, <2>1, OldStaysBalanced
  <2>2. CASE i \notin 1..Len(db.txns)
    <3>1. s.req.kind \in Creating /\ i = Len(db.txns) + 1 /\ i = Len(db'.txns)
      BY <1>3, <2>2
    <3>2. db'.txns[i] = RowOf(s.req)
      BY <1>1, <3>1 DEF TxnsAfter
    <3> QED
      BY <1>1, <1>2, <1>4, <3>1, <3>2, NewIsBalanced
  <2> QED
    BY <2>1, <2>2
<1>7. \A x \in Cells : \A e \in Entries(x)' : e.txn \in 0..Len(db'.txns)
  BY <1>5 DEF Entries
<1>8. \A i \in 1..Len(db'.txns) : db'.txns[i].type \in {"income", "expense", "exchange", "transfer"}
  BY <1>1 DEF TxnsAfter, Sound, Ledger!Transactions, Ledger!Types
<1>9. ASSUME NEW x, NEW i, NEW a, PostedOn(db'.history, x, i, a)
      PROVE  \E e \in {db'.history[x][k] : k \in 1..Len(db'.history[x])} :
               e.txn = i /\ e.change = "transaction" /\ e.amount = a
  BY <1>9 DEF PostedOn
<1>10. ASSUME NEW i \in 1..Len(db'.txns)
       PROVE  CASE db'.txns[i].type = "transfer" ->
                     Ledger!Net(db'.history[db'.txns[i].cell], i)
                       = - Ledger!Net(db'.history[db'.txns[i].toCell], i)
                [] db'.txns[i].type = "income" ->
                     \E e \in Entries(db.txns[i].cell)' : e.txn = i /\ e.change = "transaction"
                                                          /\ e.amount = db'.txns[i].amount
                [] db'.txns[i].type = "expense" ->
                     \E e \in Entries(db.txns[i].cell)' : e.txn = i /\ e.change = "transaction"
                                                          /\ e.amount = -db'.txns[i].amount
                [] db'.txns[i].type = "exchange" ->
                     /\ \E e \in Entries(db.txns[i].cell)' : e.txn = i /\ e.change = "transaction"
                                                             /\ e.amount = -db'.txns[i].cost
                     /\ \E e \in Entries(db.txns[i].toCell)' : e.txn = i /\ e.change = "transaction"
                                                               /\ e.amount = db'.txns[i].toAmount
  <2> DEFINE t == db'.txns[i]
  <2>1. /\ t.type = "transfer" =>
             Ledger!Net(db'.history[t.cell], i) = - Ledger!Net(db'.history[t.toCell], i)
        /\ t.type = "income" => PostedOn(db'.history, t.cell, i, t.amount)
        /\ t.type = "expense" => PostedOn(db'.history, t.cell, i, -t.amount)
        /\ t.type = "exchange" => /\ PostedOn(db'.history, t.cell, i, -t.cost)
                                  /\ PostedOn(db'.history, t.toCell, i, t.toAmount)
    BY <1>6 DEF Balanced
  <2>2. t.type \in {"income", "expense", "exchange", "transfer"}
    BY <1>8
  <2> HIDE DEF t
  <2>3. CASE t.type = "transfer"
    BY <2>1, <2>3 DEF t
  <2>4. CASE t.type = "income"
    BY <1>9, <2>1, <2>4 DEF t, Entries
  <2>5. CASE t.type = "expense"
    BY <1>9, <2>1, <2>5 DEF t, Entries
  <2>6. CASE t.type = "exchange"
    BY <1>9, <2>1, <2>6, SMTT(60) DEF t, Entries
  <2> QED
    BY <2>2, <2>3, <2>4, <2>5, <2>6
<1> QED
  BY <1>7, <1>10 DEF NothingHalfDone

-----------------------------------------------------------------------------
(* The invariant holds.                                                    *)

\* A commit keeps the invariant: what it does itself, and what it leaves the others.
LEMMA CommitStep ==
  ASSUME RequestInv, NEW p \in Sessions, Commit(p), made' = made
  PROVE  RequestInv'
<1> DEFINE s == session[p]
<1>1. Committed(p)
  BY CommitFacts
<1>2. /\ s # Idle /\ Finished(s, db, contended) /\ TxnsAfter(s, db.txns, db'.txns)
      /\ RowsAfter(s, db, db') /\ LastAfter(s, db, db')
      /\ db'.active = ActiveAfter(s.req, db.active)
      /\ session' = [session EXCEPT ![p] = Idle] /\ contended' = contended
  BY <1>1 DEF Committed
<1>3. /\ DOMAIN session = Sessions /\ contended \subseteq Racing
      /\ \A i \in 1..Len(db.txns) : Sound(db.txns[i])
  BY DEF RequestInv, Tables
<1>4. /\ DOMAIN session' = Sessions /\ session'[p] = Idle
      /\ \A q \in Sessions \ {p} : session'[q] = session[q]
  BY <1>2, <1>3
<1>5. Tables' /\ Counted' /\ UncontendedBooks' /\ NothingHalfDone'
  BY <1>1, CommittedTables, CommittedCounted, CommittedBooks, CommittedWhole
<1>6. \A x \in Cells : db'.reserved[x] <= db'.balance[x]
  BY <1>5 DEF Tables
<1>7. ASSUME NEW r \in Served, r.kind \in Settling => r.txn \in 1..Len(db.txns)
      PROVE  Program(r)' = Program(r)
  <2>1. r.kind \in Settling =>
          \A f \in {"type", "cell", "toCell", "amount"} : db'.txns[r.txn][f] = db.txns[r.txn][f]
    BY <1>2, <1>7 DEF TxnsAfter
  <2> QED
    BY <1>3, <1>7, <2>1, PlanKept
<1>8. ASSUME NEW q \in Sessions PROVE Informed(session[q], db, contended)'
  <2> DEFINE u == session[q]
  <2>1. CASE session'[q] = Idle
    BY <2>1 DEF Informed, Idle, Begun, NoRequest, NoRow
  <2>2. CASE session'[q] # Idle
    <3>1. q # p /\ session'[q] = u /\ u # Idle
      BY <1>4, <2>2
    <3>2. PICK k \in Nat : Knows(u, Program(u.req), k, db, contended)
      BY <3>1 DEF RequestInv, Informed
    <3>3. Apart(s, u, contended)
      BY <3>1 DEF RequestInv
    <3>4. Others(s, u, db, db', contended)
      BY <1>2, <3>1, <3>3 DEF Others
    <3>5. Knows(u, Program(u.req), k, db', contended)
      BY <1>6, <3>2, <3>4, OthersKnow
    <3>6. u.req \in Served /\ (u.req.kind \in Settling => u.req.txn \in 1..Len(db.txns))
      BY <3>2 DEF Knows, SessionType, OnCourse
    <3>7. \A r \in Served : (r.kind \in Settling => r.txn \in 1..Len(db.txns)) =>
            Program(r)' = Program(r)
      BY <1>7
    <3> QED
      BY <1>2, <3>1, <3>5, <3>6, <3>7 DEF Informed
  <2> QED
    BY <2>1, <2>2
<1>9. ASSUME NEW q \in Sessions, NEW o \in Sessions, q # o
      PROVE  Apart(session[q], session[o], contended)'
  <2>1. CASE q = p \/ o = p
    BY <1>4, <2>1 DEF Apart
  <2>2. CASE q # p /\ o # p
    <3>1. Apart(session[q], session[o], contended)
      BY <1>9 DEF RequestInv
    <3> QED
      BY <1>2, <1>4, <2>2, <3>1
  <2> QED
    BY <2>1, <2>2
<1> QED
  BY <1>2, <1>3, <1>4, <1>5, <1>8, <1>9 DEF RequestInv

\* It holds before the first request.
LEMMA InitInvariant == Init => RequestInv
<1> SUFFICES ASSUME Init PROVE RequestInv
  OBVIOUS
<1>1. /\ DOMAIN db = {"active", "rows", "balance", "reserved", "txns", "history", "last"}
      /\ db.active = Branches /\ db.rows = {x \in Cells : Opening[x] > 0} /\ db.balance = Opening
      /\ db.reserved = [x \in Cells |-> 0] /\ db.txns = <<>> /\ db.history = [x \in Cells |-> <<>>]
      /\ db.last = [day \in Days |-> 0]
      /\ session = [p \in Sessions |-> Idle] /\ contended = {} /\ made = 0
  BY DEF Init
<1>2. Opening \in [Cells -> Nat] /\ MaxRequests \in Nat
  BY RequestAssumption
<1>3. Tables
  <2>1. Ledger!TypeOK
    <3>1. <<>> \in Seq(Ledger!Transactions) /\ <<>> \in Seq(Ledger!Entries)
      OBVIOUS
    <3> QED
      BY <1>1, <1>2, <3>1 DEF Ledger!TypeOK, Ledger!Cells, Cells
  <2>2. \A x \in Cells : x \notin db.rows => db.balance[x] = 0
    BY <1>1, <1>2
  <2>3. \A x \in Cells : db.reserved[x] <= db.balance[x]
    BY <1>1, <1>2
  <2>4. \A i \in 1..Len(db.txns) : Sound(db.txns[i])
    BY <1>1
  <2> QED
    BY <1>1, <2>1, <2>2, <2>3, <2>4 DEF Tables
<1>4. Counted
  <2>1. AtWork = {}
    BY <1>1 DEF AtWork
  <2>2. Cardinality(AtWork) = 0 /\ IsFiniteSet(AtWork)
    BY <2>1, FS_EmptySet
  <2> QED
    BY <1>1, <1>2, <2>2 DEF Counted
<1>5. UncontendedBooks
  <2> SUFFICES ASSUME NEW x \in Cells
      PROVE  /\ Ledger!Explained(x)
             /\ db.reserved[x] = Ledger!TotalOf(Ledger!Claims(db.txns, x))
             /\ db.reserved[x] <= db.balance[x]
    BY DEF UncontendedBooks
  <2>1. <<>> \in Seq(Ledger!Entries) /\ <<>> \in Seq(Ledger!Transactions) /\ <<>> \in Seq(Int)
    OBVIOUS
  <2>2. Ledger!TotalOf(<<>>) = 0
    BY <2>1, TotalOfType, SameTotal
  <2>3. Ledger!Net(<<>>, 0) = 0
    <3>1. [k \in 1..Len(<<>>) |-> Ledger!PostOf(<<>>[k], 0)] = <<>>
      OBVIOUS
    <3> QED
      BY <2>2, <3>1 DEF Ledger!Net
  <2>4. Ledger!Claims(<<>>, x) = <<>>
    BY DEF Ledger!Claims
  <2>5. Ledger!Explained(x)
    BY <1>1, <1>2, <2>3 DEF Ledger!Explained
  <2> QED
    BY <1>1, <1>2, <2>2, <2>4, <2>5
<1>6. NothingHalfDone
  BY <1>1 DEF NothingHalfDone, Entries
<1>7. /\ \A p \in Sessions : Informed(session[p], db, contended)
      /\ \A p, q \in Sessions : p # q => Apart(session[p], session[q], contended)
      /\ DOMAIN session = Sessions
  BY <1>1 DEF Informed, Apart
<1> QED
  BY <1>1, <1>3, <1>4, <1>5, <1>6, <1>7 DEF RequestInv

\* A step that changes nothing keeps it.
LEMMA IdleStep == RequestInv /\ UNCHANGED vars => RequestInv'
<1> SUFFICES ASSUME RequestInv, db' = db, session' = session, contended' = contended, made' = made
    PROVE  RequestInv'
  BY DEF vars
<1>1. Tables'
  BY DEF RequestInv, Tables, Ledger!TypeOK
<1>2. Counted'
  BY DEF RequestInv, Counted, AtWork
<1>3. \A r : Program(r)' = Program(r)
  <2>1. \A r : Creation(r)' = Creation(r)
    BY DEF Creation, Checks, Payments, RowOf, Ledger!Income, Ledger!Expense, Ledger!Exchange,
       Ledger!Transfer
  <2>2. \A r : Settlement(r)' = Settlement(r)
    BY DEF Settlement, Undo, Ledger!Reversal
  <2> QED
    BY <2>1, <2>2 DEF Program
<1>4. ASSUME NEW q \in Sessions PROVE Informed(session[q], db, contended)'
  BY <1>3 DEF RequestInv, Informed
<1>5. UncontendedBooks'
  BY DEF RequestInv, UncontendedBooks, Ledger!Explained, Ledger!Net, Ledger!PostOf, Ledger!Claims,
     Ledger!ClaimOf, Ledger!TotalOf
<1>6. NothingHalfDone'
  <2>1. \A x : Entries(x)' = Entries(x)
    BY DEF Entries
  <2>2. \A h, i : Ledger!Net(h, i)' = Ledger!Net(h, i)
    BY DEF Ledger!Net, Ledger!PostOf, Ledger!TotalOf
  <2>3. \A x \in Cells : \A e \in Entries(x)' : e.txn \in 0..Len(db'.txns)
    BY <2>1 DEF RequestInv, NothingHalfDone
  <2> QED
    BY <2>1, <2>2, <2>3, ZenonT(60) DEF RequestInv, NothingHalfDone
<1> QED
  BY <1>1, <1>2, <1>4, <1>5, <1>6 DEF RequestInv

\* Every access of every handler keeps it.
LEMMA StepInvariant ==
  ASSUME RequestInv, NEW p \in Sessions, Step(p)
  PROVE  RequestInv'
<1>1. made' = made
  BY DEF Step
<1>2. CASE CheckBranch(p)
  BY <1>1, <1>2, CheckBranchStep
<1>3. CASE LoadTransaction(p)
  BY <1>1, <1>3, LoadTransactionStep
<1>4. CASE ReadBalance(p)
  BY <1>1, <1>4, ReadBalanceStep
<1>5. CASE CreateRow(p)
  BY <1>1, <1>5, CreateRowStep
<1>6. CASE GenerateNumber(p)
  BY <1>1, <1>6, GenerateNumberStep
<1>7. CASE InsertTransaction(p)
  BY <1>1, <1>7, InsertTransactionStep
<1>8. CASE UpdateBalance(p)
  BY <1>1, <1>8, UpdateBalanceStep
<1>9. CASE Reconcile(p)
  BY <1>1, <1>9, ReconcileStep
<1>10. CASE ReserveBalance(p)
  BY <1>1, <1>10, ReserveBalanceStep
<1>11. CASE ReleaseReservedBalance(p)
  BY <1>1, <1>11, ReleaseReservedBalanceStep
<1>12. CASE Commit(p)
  BY <1>1, <1>12, CommitStep
<1> QED
  BY <1>2, <1>3, <1>4, <1>5, <1>6, <1>7, <1>8, <1>9, <1>10, <1>11, <1>12 DEF Step

\* Each session knows, at each access, what the accesses before it established,
\* whatever the other sessions do meanwhile.
THEOREM RequestInvariant == Spec => []RequestInv
<1>1. RequestInv /\ Next => RequestInv'
  <2> SUFFICES ASSUME RequestInv, Next PROVE RequestInv'
    OBVIOUS
  <2>1. PICK p \in Sessions : \/ Step(p) \/ DeadlockVictim(p) \/ Crash(p)
                              \/ \E r \in Requests : Begin(p, r)
    BY DEF Next
  <2>2. CASE Step(p)
    BY <2>2, StepInvariant
  <2>3. CASE DeadlockVictim(p)
    BY <2>3, DeadlockVictimStep
  <2>4. CASE Crash(p)
    BY <2>4, CrashStep
  <2>5. ASSUME NEW r \in Requests, Begin(p, r) PROVE RequestInv'
    BY <2>5, BeginStep
  <2> QED
    BY <2>1, <2>2, <2>3, <2>4, <2>5
<1>2. RequestInv /\ [Next]_vars => RequestInv'
  BY <1>1, IdleStep
<1> QED
  BY <1>2, InitInvariant, PTL DEF Spec

\* Every session carries a request that may be made and rows that may be read,
\* and the tables hold what they are declared to hold.
THEOREM TypeCorrect == Spec => []TypeOK
<1>1. RequestInv => TypeOK
  <2> SUFFICES ASSUME RequestInv PROVE TypeOK
    OBVIOUS
  <2>1. Ledger!TypeOK /\ contended \subseteq Racing /\ made \in 0..MaxRequests
    BY DEF RequestInv, Tables, Counted
  <2>2. ASSUME NEW p \in Sessions
        PROVE  /\ session[p].req.kind \in Kinds \cup {"none"}
               /\ session[p].seen \subseteq Cells
               /\ session[p].copy \in [found : BOOLEAN, balance : Nat, reserved : Nat]
    <3>1. CASE session[p] = Idle
      <4>1. NoRow \in [found : BOOLEAN, balance : Nat, reserved : Nat]
        BY DEF NoRow
      <4> QED
        BY <3>1, <4>1, IdleFacts
    <3>2. CASE session[p] # Idle
      <4>1. SessionType(session[p])
        BY <3>2 DEF RequestInv, Informed, Knows
      <4> QED
        BY <4>1, ServedFacts DEF SessionType, Copies
    <3> QED
      BY <3>1, <3>2
  <2> QED
    BY <2>1, <2>2 DEF TypeOK, Racing
<1> QED
  BY <1>1, RequestInvariant, PTL

\* The books of a cell are right as long as no two requests use it at one time:
\* its history explains its balance and the waiting transfers its reserved
\* balance, however many requests overlap, crash or are aborted elsewhere.
THEOREM BooksOfUncontended == Spec => []UncontendedBooks
<1>1. RequestInv => UncontendedBooks
  BY DEF RequestInv
<1> QED
  BY <1>1, RequestInvariant, PTL

\* Whatever races, no history row refers to a transaction that was rolled back,
\* every creation is there with all its postings, and every transfer has taken
\* out exactly what it has brought in.
THEOREM NothingIsHalfDone == Spec => []NothingHalfDone
<1>1. RequestInv => NothingHalfDone
  BY DEF RequestInv
<1> QED
  BY <1>1, RequestInvariant, PTL

-----------------------------------------------------------------------------
(* Where only creations overlap, the requests are steps of BranchLedger.   *)

\* What is committed at a request's commit, where nothing races.
Alone(p) ==
  RequestInv /\ Separate /\ Midnight \notin contended /\ Committed(p) /\ made' = made

\* The changes of balances are the postings, each allowed.
Posting(s, x, a, ch) ==
  /\ x \in Cells /\ a \in Int
  /\ Row(s, x, db) = [txn |-> Ref(s, db), change |-> ch, amount |-> a,
                      before |-> db.balance[x], after |-> db.balance[x] + a]
  /\ db.balance[x] + a \in Nat /\ db.reserved[x] <= db.balance[x] + a
  /\ s.bal[x] = db.balance[x] + a

\* Where nothing races, a posting starts at the committed balance.
LEMMA PostingOf ==
  ASSUME NEW p \in Sessions, Alone(p), NEW x \in DOMAIN session[p].bal
  PROVE  LET e == session[p].posts[x][1] IN Posting(session[p], x, e.amount, e.change)
<1> DEFINE s == session[p]
           e == s.posts[x][1]
           g == Row(s, x, db)
<1>1. /\ FinishedPosts(s, db, contended) /\ SessionType(s)
      /\ Separate /\ Midnight \notin contended
  BY DEF Alone, Committed, Finished
<1>2. Trusted(x, contended) /\ Len(db.txns) \in Nat
  BY <1>1 DEF Trusted, Alone, RequestInv, Tables, Ledger!TypeOK
<1>3. /\ e \in Postings /\ e.after = s.bal[x] /\ e.after = e.before + e.amount
      /\ e.before = db.balance[x] /\ db.reserved[x] <= s.bal[x] /\ x \in Cells /\ s.bal[x] \in Nat
  BY <1>1, <1>2 DEF FinishedPosts, PostedIn, SessionType
<1>4. /\ g \in Ledger!Entries
      /\ g.txn = Ref(s, db) /\ g.change = e.change /\ g.amount = e.amount
      /\ g.before = e.before /\ g.after = e.after
  BY <1>1, <1>2, <1>3, RowFacts
<1> HIDE DEF e, s, g
<1>5. g = [txn |-> g.txn, change |-> g.change, amount |-> g.amount, before |-> g.before,
        after |-> g.after]
      /\ g.amount \in Int
  BY <1>4 DEF Ledger!Entries
<1> QED
  BY <1>3, <1>4, <1>5 DEF Posting, e, s, g

\* A single posting is one update_balance of the ledger.
LEMMA OnePosting ==
  ASSUME NEW p \in Sessions, Alone(p), NEW x, NEW a, NEW ch, DOMAIN session[p].bal = {x},
         Posting(session[p], x, a, ch), session[p].created \subseteq {x}
  PROVE  Ledger!UpdateBalance(x, a, ch, Ref(session[p], db))
<1> DEFINE s == session[p]
<1>1. /\ FinishedPosts(s, db, contended) /\ RowsAfter(s, db, db')
  BY DEF Alone, Committed, Finished
<1>2. /\ db.balance \in [Cells -> Nat] /\ db.history \in [Cells -> Seq(Ledger!Entries)]
  BY DEF Alone, RequestInv, Tables, Ledger!TypeOK, Ledger!Cells, Cells
<1> HIDE DEF s
<1>3. Ledger!MayUpdate(x, a)
  BY DEF Posting, Ledger!MayUpdate
<1>4. db'.rows = db.rows \cup {x}
  BY <1>1 DEF RowsAfter, FinishedPosts, s
<1>5. db'.balance = [db.balance EXCEPT ![x] = @ + a]
  BY <1>1, <1>2 DEF RowsAfter, BalanceIn, Posting, s
<1>6. db'.history = [db.history EXCEPT ![x] = Append(@, Ledger!Entry(x, a, ch, Ref(s, db)))]
  <2>1. Ledger!Entry(x, a, ch, Ref(s, db)) = Row(s, x, db)
    BY DEF Posting, Ledger!Entry, s
  <2> QED
    BY <1>1, <1>2, <2>1 DEF RowsAfter, Posting, s
<1> QED
  BY <1>3, <1>4, <1>5, <1>6 DEF Ledger!UpdateBalance, s

\* Two postings are two update_balance calls of the ledger, in one step.
LEMMA TwoPostings ==
  ASSUME NEW p \in Sessions, Alone(p), NEW x, NEW a, NEW cx, NEW y, NEW b, NEW cy, x # y,
         DOMAIN session[p].bal = {x, y}, session[p].created \subseteq {x, y},
         Posting(session[p], x, a, cx), Posting(session[p], y, b, cy)
  PROVE  Ledger!UpdateBalances(x, a, cx, y, b, cy, Ref(session[p], db))
<1> DEFINE s == session[p]
<1>1. /\ FinishedPosts(s, db, contended) /\ RowsAfter(s, db, db')
  BY DEF Alone, Committed, Finished
<1>2. /\ db.balance \in [Cells -> Nat] /\ db.history \in [Cells -> Seq(Ledger!Entries)]
  BY DEF Alone, RequestInv, Tables, Ledger!TypeOK, Ledger!Cells, Cells
<1> HIDE DEF s
<1>3. Ledger!MayUpdate(x, a) /\ Ledger!MayUpdate(y, b)
  BY DEF Posting, Ledger!MayUpdate
<1>4. db'.rows = db.rows \cup {x, y}
  BY <1>1 DEF RowsAfter, FinishedPosts, s
<1>5. db'.balance = [db.balance EXCEPT ![x] = @ + a, ![y] = @ + b]
  BY <1>1, <1>2, ZenonT(60) DEF RowsAfter, BalanceIn, Posting, s
<1>6. db'.history = [db.history EXCEPT ![x] = Append(@, Ledger!Entry(x, a, cx, Ref(s, db))),
                                       ![y] = Append(@, Ledger!Entry(y, b, cy, Ref(s, db)))]
  <2>1. /\ Ledger!Entry(x, a, cx, Ref(s, db)) = Row(s, x, db)
        /\ Ledger!Entry(y, b, cy, Ref(s, db)) = Row(s, y, db)
    BY DEF Posting, Ledger!Entry, s
  <2> QED
    BY <1>1, <1>2, <2>1 DEF RowsAfter, Posting, s
<1> QED
  BY <1>3, <1>4, <1>5, <1>6 DEF Ledger!UpdateBalances, s

\* Without a posting no balance changes.
LEMMA NoPosting ==
  ASSUME NEW p \in Sessions, Alone(p), DOMAIN session[p].bal = {}, session[p].created = {}
  PROVE  db'.rows = db.rows /\ db'.balance = db.balance /\ db'.history = db.history
<1> DEFINE s == session[p]
<1>1. RowsAfter(s, db, db')
  BY DEF Alone, Committed
<1>2. /\ db.balance \in [Cells -> Nat] /\ db.history \in [Cells -> Seq(Ledger!Entries)]
  BY DEF Alone, RequestInv, Tables, Ledger!TypeOK, Ledger!Cells, Cells
<1>3. db'.balance = db.balance
  BY <1>1, <1>2 DEF RowsAfter, BalanceIn
<1>4. db'.history = db.history
  BY <1>1, <1>2 DEF RowsAfter
<1> QED
  BY <1>1, <1>3, <1>4 DEF RowsAfter

\* The reserved balances change as the request says.
LEMMA ReservedAfter ==
  ASSUME NEW p \in Sessions, Alone(p)
  PROVE  LET r == session[p].req
             t == Subject(r, db.txns)
         IN /\ r.kind # "transfer" /\ ~ Releases(r, t) => db'.reserved = db.reserved
            /\ r.kind = "transfer" => db'.reserved = [db.reserved EXCEPT ![t.cell] = @ + t.amount]
            /\ Releases(r, t) => db'.reserved = [db.reserved EXCEPT ![t.cell] = @ - t.amount]
<1> DEFINE s == session[p]
           r == s.req
           t == Subject(r, db.txns)
<1>1. /\ FinishedReserved(s, db, contended) /\ RowsAfter(s, db, db') /\ SessionType(s)
      /\ Separate /\ Midnight \notin contended
  BY DEF Alone, Committed, Finished
<1>2. /\ db.reserved \in [Cells -> Nat]
  BY DEF Alone, RequestInv, Tables, Ledger!TypeOK, Ledger!Cells, Cells
<1>3. /\ db'.reserved \in [Cells -> Nat]
      /\ \A x \in Cells : db'.reserved[x] = IF x \in DOMAIN s.res THEN s.res[x] ELSE db.reserved[x]
  BY <1>1 DEF RowsAfter, ReservedIn
<1>4. /\ \A x \in DOMAIN s.res : (r.kind = "transfer" \/ Releases(r, t)) /\ x = t.cell
      /\ r.kind = "transfer" => t.cell \in DOMAIN s.res
           /\ s.res[t.cell] = db.reserved[t.cell] + t.amount
      /\ Releases(r, t) => t.cell \in DOMAIN s.res /\ s.res[t.cell] = db.reserved[t.cell] - t.amount
  BY <1>1 DEF FinishedReserved, Trusted
<1> HIDE DEF s, r, t
<1>5. r.kind # "transfer" /\ ~ Releases(r, t) => db'.reserved = db.reserved
  BY <1>2, <1>3, <1>4
<1>6. r.kind = "transfer" => db'.reserved = [db.reserved EXCEPT ![t.cell] = @ + t.amount]
  BY <1>2, <1>3, <1>4
<1>7. Releases(r, t) => db'.reserved = [db.reserved EXCEPT ![t.cell] = @ - t.amount]
  BY <1>2, <1>3, <1>4
<1> QED
  BY <1>5, <1>6, <1>7 DEF s, r, t

\* What its commit finds, and leaves, whatever the request.
AtCommit(p) ==
  LET s == session[p]
      r == s.req
      t == Subject(r, db.txns)
  IN /\ r \in Served /\ Len(db.txns) \in Nat /\ db.txns \in Seq(Ledger!Transactions)
     /\ r.kind \in Creating \cup Settling => Sound(t)
     /\ r.kind \in Creating =>
          /\ t = RowOf(r) /\ t.cell[1] \in db.active
          /\ Len(db.txns) < MaxTransactions /\ db'.txns = Append(db.txns, t)
          /\ Ref(s, db) = Ledger!NextNumber
     /\ r.kind = "transfer" => t.toCell[1] \in db.active
     /\ r.kind \in Settling =>
          /\ r.txn \in 1..Len(db.txns) /\ t = db.txns[r.txn] /\ Ref(s, db) = r.txn /\ Settleable(r, t)
          /\ db'.txns = [db.txns EXCEPT ![r.txn] = SettledRow(r, t)]
     /\ r.kind \notin Creating \cup Settling => db'.txns = db.txns
     /\ r.kind = "reconcile" => Ref(s, db) = 0
     /\ db'.active = ActiveAfter(r, db.active)
     /\ r.kind = "delete" => r.branch \notin MainBranches
          /\ \A c \in Currencies : db.balance[<<r.branch, c>>] = 0
     /\ \A x \in Cells : /\ db.balance[x] \in Nat /\ db.reserved[x] \in Nat
                         /\ db.reserved[x] <= db.balance[x]
                         /\ x \notin db.rows => db.balance[x] = 0
                         /\ Len(db.history[x]) < MaxEntries

\* What the invariant says of a commit where nothing races.
LEMMA AtCommitFacts ==
  ASSUME NEW p \in Sessions, Alone(p)
  PROVE  AtCommit(p)
<1> DEFINE s == session[p]
           r == s.req
           t == Subject(r, db.txns)
<1>1. /\ Finished(s, db, contended) /\ TxnsAfter(s, db.txns, db'.txns) /\ RowsAfter(s, db, db')
      /\ db'.active = ActiveAfter(r, db.active) /\ s # Idle
      /\ Separate /\ Midnight \notin contended
  BY DEF Alone, Committed
<1>2. /\ r \in Served /\ FinishedSubject(s, db, contended)
  BY <1>1 DEF Finished, SessionType
<1>3. /\ Len(db.txns) \in Nat /\ db.txns \in Seq(Ledger!Transactions)
      /\ \A i \in 1..Len(db.txns) : Sound(db.txns[i])
      /\ \A x \in Cells : /\ db.balance[x] \in Nat /\ db.reserved[x] \in Nat
                          /\ db.reserved[x] <= db.balance[x]
                          /\ x \notin db.rows => db.balance[x] = 0
                          /\ Len(db.history[x]) \in Nat
  BY DEF Alone, RequestInv, Tables, Ledger!TypeOK, Ledger!Cells, Cells
<1>4. /\ Len(db.txns) < MaxTransactions
      /\ \A x \in Cells : Len(db.history[x]) < MaxEntries
  <2>1. /\ IsFiniteSet(AtWork) /\ made \in 0..MaxRequests
        /\ Cardinality(AtWork) + Len(db.txns) <= made
        /\ \A x \in Cells : Cardinality(AtWork) + Len(db.history[x]) <= made
    BY DEF Alone, RequestInv, Counted
  <2>2. p \in AtWork
    BY <1>1 DEF AtWork
  <2>3. Cardinality(AtWork) \in Nat /\ Cardinality(AtWork) # 0
    BY <2>1, <2>2, FS_EmptySet, FS_CardinalityType
  <2>4. MaxRequests \in Nat /\ MaxTransactions \in Nat /\ MaxEntries \in Nat
        /\ MaxRequests <= MaxTransactions /\ MaxRequests <= MaxEntries
    BY RequestAssumption
  <2> QED
    BY <1>3, <2>1, <2>3, <2>4
<1>5. /\ r.kind \in Settling => Ref(s, db) = r.txn /\ r.txn \in 1..Len(db.txns)
      /\ r.kind \in Creating => Ref(s, db) = Len(db.txns) + 1
      /\ r.kind = "reconcile" => Ref(s, db) = 0
  BY <1>1, RefAfter
<1>6. r.kind \in Settling => t = db.txns[r.txn] /\ Sound(t) /\ Settleable(r, t)
  BY <1>1, <1>2, <1>3, <1>5 DEF Subject, FinishedSubject, Trusted
<1>7. r.kind \in Creating => t = RowOf(r) /\ Sound(t) /\ t.cell[1] \in db.active
  <2>1. r.kind \in Creating => t = RowOf(r)
    BY DEF Subject, Creating, Settling
  <2> QED
    BY <1>1, <1>2, <2>1, RowOfFacts DEF FinishedSubject
<1>8. /\ r.kind = "transfer" => t.toCell[1] \in db.active
      /\ r.kind = "delete" => r.branch \notin MainBranches
           /\ \A c \in Currencies : db.balance[<<r.branch, c>>] = 0
  BY <1>1, <1>2 DEF FinishedSubject
<1>9. /\ r.kind \in Creating => db'.txns = Append(db.txns, RowOf(r))
      /\ r.kind \in Settling => db'.txns = [db.txns EXCEPT ![r.txn] = SettledRow(r, db.txns[r.txn])]
      /\ r.kind \notin Creating \cup Settling => db'.txns = db.txns
  BY <1>1 DEF TxnsAfter
<1> QED
  BY <1>1, <1>2, <1>3, <1>4, <1>5, <1>6, <1>7, <1>8, <1>9 DEF AtCommit, Ledger!NextNumber

\* Which cells a request other than a reconciliation has posted to.
LEMMA PostedWhere ==
  ASSUME NEW p \in Sessions, Alone(p), session[p].req.kind # "reconcile"
  PROVE  LET s == session[p]
             D == Dues(s.req, Subject(s.req, db.txns))
         IN /\ DOMAIN s.bal = {due[1] : due \in D} /\ s.created \subseteq {due[1] : due \in D}
            /\ \A due \in D : Posting(s, due[1], due[2], due[3])
<1> DEFINE s == session[p]
           D == Dues(s.req, Subject(s.req, db.txns))
<1>1. FinishedPosts(s, db, contended)
  BY DEF Alone, Committed, Finished
<1>2. /\ \A x \in DOMAIN s.bal : \E due \in D : due[1] = x
      /\ \A due \in D : /\ due[1] \in DOMAIN s.bal
                        /\ s.posts[due[1]][1].amount = due[2] /\ s.posts[due[1]][1].change = due[3]
      /\ \A x \in s.created : \E due \in D : due[1] = x
  <2>1. ASSUME NEW x \in DOMAIN s.bal PROVE \E due \in D : due[1] = x
    <3> DEFINE due == <<x, s.posts[x][1].amount, s.posts[x][1].change>>
    <3>1. due \in D /\ due[1] = x
      BY <1>1 DEF FinishedPosts
    <3> QED
      BY <3>1
  <2> QED
    BY <1>1, <2>1 DEF FinishedPosts
<1>3. \A x \in DOMAIN s.bal : LET e == s.posts[x][1] IN Posting(s, x, e.amount, e.change)
  BY PostingOf
<1> HIDE DEF s, D
<1>4. DOMAIN s.bal = {due[1] : due \in D} /\ s.created \subseteq {due[1] : due \in D}
  BY <1>2
<1>5. ASSUME NEW due \in D PROVE Posting(s, due[1], due[2], due[3])
  BY <1>2, <1>3
<1> QED
  BY <1>4, <1>5 DEF s, D

\* A request with one change of a balance, or with two.
LEMMA OneDue ==
  ASSUME NEW p \in Sessions, Alone(p), session[p].req.kind # "reconcile", NEW x, NEW a, NEW ch,
         Dues(session[p].req, Subject(session[p].req, db.txns)) = {<<x, a, ch>>}
  PROVE  /\ Ledger!UpdateBalance(x, a, ch, Ref(session[p], db))
         /\ x \in Cells /\ db.reserved[x] <= db.balance[x] + a
<1> DEFINE due == <<x, a, ch>>
<1>1. due[1] = x /\ due[2] = a /\ due[3] = ch /\ {d[1] : d \in {due}} = {x}
  OBVIOUS
<1> HIDE DEF due
<1>2. /\ DOMAIN session[p].bal = {x} /\ session[p].created \subseteq {x}
      /\ Posting(session[p], x, a, ch)
  BY <1>1, PostedWhere DEF due
<1> QED
  BY <1>2, OnePosting DEF Posting

\* A commit that ran alone and owed two balance changes is one UpdateBalances step of the ledger.
LEMMA TwoDues ==
  ASSUME NEW p \in Sessions, Alone(p), session[p].req.kind # "reconcile",
         NEW x, NEW a, NEW cx, NEW y, NEW b, NEW cy, x # y,
         Dues(session[p].req, Subject(session[p].req, db.txns)) = {<<x, a, cx>>, <<y, b, cy>>}
  PROVE  /\ Ledger!UpdateBalances(x, a, cx, y, b, cy, Ref(session[p], db))
         /\ x \in Cells /\ db.reserved[x] <= db.balance[x] + a
<1> DEFINE due == <<x, a, cx>>
           too == <<y, b, cy>>
<1>1. /\ due[1] = x /\ due[2] = a /\ due[3] = cx /\ too[1] = y /\ too[2] = b /\ too[3] = cy
      /\ {d[1] : d \in {due, too}} = {x, y}
  OBVIOUS
<1> HIDE DEF due, too
<1>2. /\ DOMAIN session[p].bal = {x, y} /\ session[p].created \subseteq {x, y}
      /\ Posting(session[p], x, a, cx) /\ Posting(session[p], y, b, cy)
  BY <1>1, PostedWhere DEF due, too
<1> QED
  BY <1>2, TwoPostings DEF Posting

\* A commit that ran alone and owed no balance change leaves balances and history as they were.
LEMMA NoDues ==
  ASSUME NEW p \in Sessions, Alone(p), session[p].req.kind # "reconcile",
         Dues(session[p].req, Subject(session[p].req, db.txns)) = {}
  PROVE  db'.rows = db.rows /\ db'.balance = db.balance /\ db'.history = db.history
<1>1. DOMAIN session[p].bal = {} /\ session[p].created = {}
  BY PostedWhere
<1> QED
  BY <1>1, NoPosting

\* A cell that holds at least something has a row.
LEMMA HasRow ==
  ASSUME NEW p \in Sessions, AtCommit(p), NEW x \in Cells, NEW a \in Nat \ {0}, a <= db.balance[x]
  PROVE  x \in db.rows
  BY DEF AtCommit

\* The commit of create_income is the step CreateIncome.
LEMMA CreatesIncome ==
  ASSUME NEW p \in Sessions, Alone(p), session[p].req.kind = "income"
  PROVE  \E b \in Branches, c \in Currencies, a \in Amounts : Ledger!CreateIncome(b, c, a)
<1> DEFINE r == session[p].req
           t == Subject(r, db.txns)
           x == r.cell
<1>1. AtCommit(p)
  BY AtCommitFacts
<1>2. /\ r \in Served /\ t = RowOf(r) /\ t.cell[1] \in db.active /\ Len(db.txns) < MaxTransactions
      /\ db'.txns = Append(db.txns, t) /\ Ref(session[p], db) = Ledger!NextNumber
           /\ db'.active = db.active
  BY <1>1 DEF AtCommit, Creating, ActiveAfter
<1>3. x \in Cells /\ r.amount \in Amounts /\ r.kind = "income"
  BY <1>2, ServedFacts DEF Creating
<1>4. t = Ledger!Income(x, r.amount) /\ t.cell = x /\ t.amount = r.amount
  BY <1>2, <1>3 DEF RowOf, Ledger!Income
<1>5. PICK b \in Branches, c \in Currencies : x = <<b, c>>
  BY <1>3 DEF Cells
<1>6. Ledger!UpdateBalance(x, r.amount, "transaction", Ledger!NextNumber)
  <2>1. Dues(r, t) = {<<x, r.amount, "transaction">>}
    BY <1>3, <1>4 DEF Dues
  <2> QED
    BY <1>2, <1>3, <2>1, OneDue
<1>7. db'.reserved = db.reserved
  BY <1>3, ReservedAfter DEF Releases
<1> HIDE DEF r, t, x
<1>8. Ledger!CreateIncome(b, c, r.amount)
  BY <1>2, <1>4, <1>5, <1>6, <1>7 DEF Ledger!CreateIncome, Ledger!Insert
<1> QED
  BY <1>3, <1>8

\* The commit of create_expense is CreateExpense: the money it looked for is still there.
LEMMA CreatesExpense ==
  ASSUME NEW p \in Sessions, Alone(p), session[p].req.kind = "expense"
  PROVE  \E b \in Branches, c \in Currencies, a \in Amounts, approval \in BOOLEAN :
           Ledger!CreateExpense(b, c, a, approval)
<1> DEFINE r == session[p].req
           t == Subject(r, db.txns)
           x == r.cell
<1>1. AtCommit(p)
  BY AtCommitFacts
<1>2. /\ r \in Served /\ t = RowOf(r) /\ t.cell[1] \in db.active /\ Len(db.txns) < MaxTransactions
      /\ db'.txns = Append(db.txns, t) /\ Ref(session[p], db) = Ledger!NextNumber
           /\ db'.active = db.active
  BY <1>1 DEF AtCommit, Creating, ActiveAfter
<1>3. /\ x \in Cells /\ r.amount \in Amounts /\ r.kind = "expense" /\ r.approval \in BOOLEAN
      /\ r.amount <= ExpenseLimit /\ r.amount \in Nat \ {0}
  BY <1>2, ServedFacts DEF Creating
<1>4. t = Ledger!Expense(x, r.amount, r.approval) /\ t.cell = x /\ t.amount = r.amount
  BY <1>2, <1>3 DEF RowOf, Ledger!Expense
<1>5. PICK b \in Branches, c \in Currencies : x = <<b, c>>
  BY <1>3 DEF Cells
<1>6. /\ Ledger!UpdateBalance(x, -r.amount, "transaction", Ledger!NextNumber)
      /\ db.reserved[x] <= db.balance[x] + (-r.amount)
  <2>1. Dues(r, t) = {<<x, -r.amount, "transaction">>}
    BY <1>3, <1>4 DEF Dues
  <2> QED
    BY <1>2, <1>3, <2>1, OneDue
<1>7. db'.reserved = db.reserved
  BY <1>3, ReservedAfter DEF Releases
<1>8. db.balance[x] \in Nat /\ db.reserved[x] \in Nat
  BY <1>1, <1>3 DEF AtCommit
<1> HIDE DEF r, t, x
<1>9. r.amount <= db.balance[x] - db.reserved[x] /\ r.amount <= db.balance[x]
  BY <1>3, <1>6, <1>8
<1>10. x \in db.rows
  BY <1>1, <1>3, <1>9, HasRow
<1>11. Ledger!CreateExpense(b, c, r.amount, r.approval)
  BY <1>2, <1>3, <1>4, <1>5, <1>6, <1>7, <1>9, <1>10
     DEF Ledger!CreateExpense, Ledger!Insert, Ledger!Available
<1> QED
  BY <1>3, <1>11

\* The commit of create_exchange is CreateExchange.
LEMMA CreatesExchange ==
  ASSUME NEW p \in Sessions, Alone(p), session[p].req.kind = "exchange"
  PROVE  \E b \in Branches, c, d \in Currencies, a \in Amounts, rate \in Rates,
           pct \in Commissions :
           Ledger!CreateExchange(b, c, d, a, rate, pct)
<1> DEFINE r == session[p].req
           t == Subject(r, db.txns)
           x == r.cell
           y == r.toCell
           cost == Ledger!TotalCost(r.amount, r.pct)
           got  == Ledger!ToAmount(r.amount, r.rate)
<1>1. AtCommit(p)
  BY AtCommitFacts
<1>2. /\ r \in Served /\ t = RowOf(r) /\ t.cell[1] \in db.active /\ Len(db.txns) < MaxTransactions
      /\ db'.txns = Append(db.txns, t) /\ Ref(session[p], db) = Ledger!NextNumber
           /\ db'.active = db.active
  BY <1>1 DEF AtCommit, Creating, ActiveAfter
<1>3. /\ x \in Cells /\ y \in Cells /\ r.amount \in Amounts /\ r.kind = "exchange"
           /\ r.amount \in Nat \ {0}
      /\ r.rate \in Rates /\ r.pct \in Commissions /\ x[1] = y[1] /\ x[2] # y[2]
  BY <1>2, ServedFacts DEF Creating
<1>4. t = Ledger!Exchange(x, y, r.amount, r.rate, r.pct) /\ t.cell = x /\ t.toCell = y
      /\ t.cost = cost /\ t.toAmount = got
  BY <1>2, <1>3 DEF RowOf, Ledger!Exchange
<1>5. PICK b \in Branches, c \in Currencies, d \in Currencies : x = <<b, c>> /\ y = <<b, d>>
        /\ c # d
  BY <1>3 DEF Cells
<1>6. /\ Ledger!UpdateBalances(x, -cost, "transaction", y, got, "transaction", Ledger!NextNumber)
      /\ db.reserved[x] <= db.balance[x] + (-cost)
  <2>1. Dues(r, t) = {<<x, -cost, "transaction">>, <<y, got, "transaction">>}
    BY <1>3, <1>4 DEF Dues
  <2>2. x # y
    BY <1>3
  <2> DEFINE lost == -cost
  <2> HIDE DEF cost, got, lost
  <2>3. /\ Ledger!UpdateBalances(x, lost, "transaction", y, got, "transaction", Ref(session[p], db))
        /\ db.reserved[x] <= db.balance[x] + lost
    BY <2>1, <2>2, TwoDues DEF lost
  <2>4. Ref(session[p], db) = Ledger!NextNumber
    BY <1>2
  <2> QED
    BY <2>3, <2>4 DEF lost
<1>7. db'.reserved = db.reserved
  BY <1>3, ReservedAfter DEF Releases
<1>8. db.balance[x] \in Nat /\ db.reserved[x] \in Nat
  BY <1>1, <1>3 DEF AtCommit
<1>9. cost \in Nat \ {0}
  BY <1>3, RoundedToCents
<1> HIDE DEF r, t, x, y, cost, got
<1>10. cost <= db.balance[x] - db.reserved[x] /\ cost <= db.balance[x]
  BY <1>6, <1>8, <1>9
<1>11. x \in db.rows
  BY <1>1, <1>3, <1>9, <1>10, HasRow
<1>12. Ledger!CreateExchange(b, c, d, r.amount, r.rate, r.pct)
  BY <1>2, <1>3, <1>4, <1>5, <1>6, <1>7, <1>10, <1>11
     DEF Ledger!CreateExchange, Ledger!Insert, Ledger!Available, cost, got
<1> QED
  BY <1>3, <1>12

\* The commit of create_transfer is CreateTransfer: what it reserves is available.
LEMMA CreatesTransfer ==
  ASSUME NEW p \in Sessions, Alone(p), session[p].req.kind = "transfer"
  PROVE  \E b, to \in Branches, c \in Currencies, a \in Amounts : Ledger!CreateTransfer(b, to, c, a)
<1> DEFINE s == session[p]
           r == s.req
           t == Subject(r, db.txns)
           x == r.cell
           y == r.toCell
<1>1. AtCommit(p)
  BY AtCommitFacts
<1>2. /\ r \in Served /\ t = RowOf(r) /\ t.cell[1] \in db.active /\ t.toCell[1] \in db.active
      /\ Len(db.txns) < MaxTransactions /\ db'.txns = Append(db.txns, t) /\ db'.active = db.active
  BY <1>1 DEF AtCommit, Creating, ActiveAfter
<1>3. /\ x \in Cells /\ y \in Cells /\ r.amount \in Amounts /\ r.kind = "transfer"
           /\ r.amount \in Nat \ {0}
      /\ x[1] # y[1] /\ x[2] = y[2]
  BY <1>2, ServedFacts DEF Creating
<1>4. t = Ledger!Transfer(x, y, r.amount) /\ t.cell = x /\ t.toCell = y /\ t.amount = r.amount
  BY <1>2, <1>3 DEF RowOf, Ledger!Transfer
<1>5. PICK b \in Branches, to \in Branches, c \in Currencies : x = <<b, c>> /\ y = <<to, c>>
        /\ b # to
  BY <1>3 DEF Cells
<1>6. db'.rows = db.rows /\ db'.balance = db.balance /\ db'.history = db.history
  <2>1. Dues(r, t) = {}
    BY <1>3 DEF Dues
  <2> QED
    BY <1>3, <2>1, NoDues
<1>7. db'.reserved = [db.reserved EXCEPT ![x] = @ + r.amount]
  BY <1>3, <1>4, ReservedAfter
<1>8. /\ db.balance[x] \in Nat /\ db.reserved[x] \in Nat
      /\ db.reserved[x] + r.amount <= db.balance[x]
  <2>1. db.balance[x] \in Nat /\ db.reserved[x] \in Nat /\ db.reserved \in [Cells -> Nat]
    BY <1>1, <1>3 DEF AtCommit, Alone, RequestInv, Tables, Ledger!TypeOK, Ledger!Cells, Cells
  <2>2. db'.reserved[x] <= db'.balance[x]
    BY <1>3, CommittedTables DEF Alone, Tables
  <2> QED
    BY <1>3, <1>6, <1>7, <2>1, <2>2
<1> HIDE DEF s, r, t, x, y
<1>9. r.amount <= db.balance[x] - db.reserved[x] /\ r.amount <= db.balance[x]
  BY <1>3, <1>8
<1>10. x \in db.rows
  BY <1>1, <1>3, <1>9, HasRow
<1>11. Ledger!CreateTransfer(b, to, c, r.amount)
  BY <1>2, <1>4, <1>5, <1>6, <1>7, <1>9, <1>10
     DEF Ledger!CreateTransfer, Ledger!Insert, Ledger!ReserveBalance, Ledger!Available
<1> QED
  BY <1>3, <1>11

\* A reservation that is given back was there.
LEMMA Released ==
  ASSUME NEW p \in Sessions, Alone(p), NEW t, t = Subject(session[p].req, db.txns),
           Releases(session[p].req, t)
  PROVE  Ledger!ReleaseReservedBalance(t.cell, t.amount)
<1> DEFINE r == session[p].req
<1>1. AtCommit(p)
  BY AtCommitFacts
<1>2. Sound(t)
  BY <1>1 DEF AtCommit, Releases, Settling
<1>3. t.cell \in Cells /\ t.amount \in Nat \ {0}
  BY <1>2 DEF Sound, Ledger!Transactions, Ledger!Cells, Cells
<1>4. db'.reserved = [db.reserved EXCEPT ![t.cell] = @ - t.amount]
  BY ReservedAfter
<1>5. db.reserved \in [Cells -> Nat] /\ db'.reserved \in [Cells -> Nat]
  BY CommittedTables DEF Alone, RequestInv, Tables, Ledger!TypeOK, Ledger!Cells, Cells
<1>6. db'.reserved[t.cell] = db.reserved[t.cell] - t.amount /\ db'.reserved[t.cell] \in Nat
      /\ db.reserved[t.cell] \in Nat
  BY <1>3, <1>4, <1>5
<1>7. t.amount <= db.reserved[t.cell]
  BY <1>3, <1>6
<1>8. t.amount <= db.balance[t.cell]
  <2>1. db.balance[t.cell] \in Nat /\ db.reserved[t.cell] <= db.balance[t.cell]
    BY <1>1, <1>3 DEF AtCommit
  <2> QED
    BY <1>3, <1>6, <1>7, <2>1
<1>9. t.cell \in db.rows
  BY <1>1, <1>3, <1>8, HasRow
<1> QED
  BY <1>4, <1>7, <1>9 DEF Ledger!ReleaseReservedBalance

\* The commit of complete_transfer is CompleteTransfer: the transfer is still pending.
LEMMA CompletesTransfer ==
  ASSUME NEW p \in Sessions, Alone(p), session[p].req.kind = "receive"
  PROVE  \E i \in 1..Len(db.txns) : Ledger!CompleteTransfer(i)
<1> DEFINE r == session[p].req
           t == Subject(r, db.txns)
           i == r.txn
<1>1. AtCommit(p)
  BY AtCommitFacts
<1>2. /\ i \in 1..Len(db.txns) /\ t = db.txns[i] /\ Ref(session[p], db) = i /\ Settleable(r, t)
           /\ Sound(t)
      /\ db'.txns = [db.txns EXCEPT ![i] = SettledRow(r, t)] /\ db'.active = db.active
  BY <1>1 DEF AtCommit, Settling, ActiveAfter
<1>3. r.kind = "receive" /\ t.type = "transfer" /\ t.status = "pending" /\ t.cell # t.toCell
  BY <1>2 DEF Settleable, Sound
<1>4. Ledger!UpdateBalances(t.cell, -t.amount, "transfer_out", t.toCell, t.amount, "transfer_in", i)
  <2>1. Dues(r, t) = {<<t.cell, -t.amount, "transfer_out">>, <<t.toCell, t.amount, "transfer_in">>}
    BY <1>3 DEF Dues
  <2> DEFINE x == t.cell
             y == t.toCell
             a == t.amount
             b == -t.amount
  <2>2. x # y
    BY <1>3
  <2>3. Dues(session[p].req, Subject(session[p].req, db.txns))
          = {<<x, b, "transfer_out">>, <<y, a, "transfer_in">>}
    BY <2>1
  <2> HIDE DEF x, y, a, b
  <2>4. Ledger!UpdateBalances(x, b, "transfer_out", y, a, "transfer_in", Ref(session[p], db))
    BY <2>2, <2>3, TwoDues
  <2>5. Ref(session[p], db) = i
    BY <1>2
  <2> QED
    BY <2>4, <2>5 DEF x, y, a, b
<1>5. Ledger!ReleaseReservedBalance(t.cell, t.amount)
  BY <1>3, Released DEF Releases
<1>6. db'.txns = [db.txns EXCEPT ![i].status = "completed"]
  BY <1>2, <1>3 DEF SettledRow
<1> HIDE DEF r, t, i
<1>7. Ledger!CompleteTransfer(i)
  BY <1>2, <1>3, <1>4, <1>5, <1>6 DEF Ledger!CompleteTransfer, Ledger!SetStatus
<1> QED
  BY <1>2, <1>7

\* The commit of approve_expense is ApproveExpense.
LEMMA ApprovesExpense ==
  ASSUME NEW p \in Sessions, Alone(p), session[p].req.kind = "approve"
  PROVE  \E i \in 1..Len(db.txns) : Ledger!ApproveExpense(i)
<1> DEFINE r == session[p].req
           t == Subject(r, db.txns)
           i == r.txn
<1>1. AtCommit(p)
  BY AtCommitFacts
<1>2. /\ i \in 1..Len(db.txns) /\ t = db.txns[i] /\ Settleable(r, t) /\ t \in Ledger!Transactions
      /\ db'.txns = [db.txns EXCEPT ![i] = SettledRow(r, t)] /\ db'.active = db.active
      /\ db.txns \in Seq(Ledger!Transactions)
  BY <1>1 DEF AtCommit, Settling, ActiveAfter, Sound
<1>3. r.kind = "approve"
  OBVIOUS
<1>4. db'.rows = db.rows /\ db'.balance = db.balance /\ db'.history = db.history
  <2>1. Dues(r, t) = {}
    BY <1>3 DEF Dues
  <2> QED
    BY <1>3, <2>1, NoDues
<1>5. db'.reserved = db.reserved
  BY <1>3, ReservedAfter DEF Releases
<1>6. db'.txns = [db.txns EXCEPT ![i].status = "completed", ![i].approved = TRUE]
  <2>1. SettledRow(r, t) = [t EXCEPT !.status = "completed", !.approved = TRUE]
    BY <1>3 DEF SettledRow
  <2>2. [db.txns EXCEPT ![i].status = "completed", ![i].approved = TRUE]
          = [db.txns EXCEPT ![i] = [t EXCEPT !.status = "completed", !.approved = TRUE]]
    BY <1>2
  <2> QED
    BY <1>2, <2>1, <2>2
<1> HIDE DEF r, t, i
<1>7. Ledger!ApproveExpense(i)
  BY <1>2, <1>3, <1>4, <1>5, <1>6 DEF Ledger!ApproveExpense, Settleable
<1> QED
  BY <1>2, <1>7

\* The commit of cancel_transaction is CancelTransaction, in both its branches.
LEMMA CancelsTransaction ==
  ASSUME NEW p \in Sessions, Alone(p), session[p].req.kind = "cancel"
  PROVE  \E i \in 1..Len(db.txns) : Ledger!CancelTransaction(i)
<1> DEFINE r == session[p].req
           t == Subject(r, db.txns)
           i == r.txn
<1>1. AtCommit(p)
  BY AtCommitFacts
<1>2. /\ i \in 1..Len(db.txns) /\ t = db.txns[i] /\ Ref(session[p], db) = i /\ Settleable(r, t)
           /\ Sound(t)
      /\ db'.txns = [db.txns EXCEPT ![i] = SettledRow(r, t)] /\ db'.active = db.active
  BY <1>1 DEF AtCommit, Settling, ActiveAfter
<1>3. r.kind = "cancel" /\ t.status = "pending" /\ t.type \in {"income", "expense", "transfer"}
  BY <1>2 DEF Settleable, Sound, Ledger!Transactions, Ledger!Types
<1>4. db'.txns = [db.txns EXCEPT ![i].status = "cancelled"]
  BY <1>2, <1>3 DEF SettledRow
<1>5. CASE t.type = "transfer"
  <2>1. Ledger!ReleaseReservedBalance(t.cell, t.amount)
    BY <1>3, <1>5, Released DEF Releases
  <2>2. db'.rows = db.rows /\ db'.balance = db.balance /\ db'.history = db.history
    <3>1. Dues(r, t) = {}
      BY <1>3, <1>5 DEF Dues
    <3> QED
      BY <1>3, <3>1, NoDues
  <2> HIDE DEF r, t, i
  <2>3. Ledger!CancelTransaction(i)
    BY <1>2, <1>3, <1>4, <1>5, <2>1, <2>2 DEF Ledger!CancelTransaction, Ledger!SetStatus
  <2> QED
    BY <1>2, <2>3
<1>6. CASE t.type \in {"income", "expense"}
  <2>1. Ledger!UpdateBalance(t.cell, Ledger!Reversal(t), "adjustment", i)
    <3> DEFINE a == Ledger!Reversal(t)
               x == t.cell
    <3>1. Dues(r, t) = {<<x, a, "adjustment">>}
      BY <1>3, <1>6 DEF Dues
    <3>2. Dues(session[p].req, Subject(session[p].req, db.txns)) = {<<x, a, "adjustment">>}
      BY <3>1
    <3> HIDE DEF a, x
    <3>3. Ledger!UpdateBalance(x, a, "adjustment", Ref(session[p], db))
      BY <3>2, OneDue
    <3>4. Ref(session[p], db) = i
      BY <1>2
    <3> QED
      BY <3>3, <3>4 DEF a, x
  <2>2. db'.reserved = db.reserved
    BY <1>3, <1>6, ReservedAfter DEF Releases
  <2> HIDE DEF r, t, i
  <2>3. Ledger!CancelTransaction(i)
    BY <1>2, <1>3, <1>4, <1>6, <2>1, <2>2 DEF Ledger!CancelTransaction, Ledger!SetStatus
  <2> QED
    BY <1>2, <2>3
<1> QED
  BY <1>3, <1>5, <1>6

\* A count equal to the balance leaves nothing to commit.
LEMMA Reconciles ==
  ASSUME NEW p \in Sessions, Alone(p), session[p].req.kind = "reconcile"
  PROVE  \/ \E x \in Cells, n \in Counts : Ledger!ReconcileBranchBalance(x, n)
         \/ UNCHANGED Ledger!vars
<1> DEFINE s == session[p]
           r == s.req
           x == r.cell
           e == s.posts[x][1]
<1>1. AtCommit(p)
  BY AtCommitFacts
<1>2. /\ r \in Served /\ db'.txns = db.txns /\ db'.active = db.active /\ Ref(s, db) = 0
  BY <1>1 DEF AtCommit, Creating, Settling, ActiveAfter
<1>3. x \in Cells /\ r.count \in Counts /\ r.count \in Nat /\ r.kind = "reconcile"
  BY <1>2, ServedFacts
<1>4. db'.reserved = db.reserved
  BY <1>3, ReservedAfter DEF Releases
<1>5. /\ \A y \in DOMAIN s.bal :
           /\ y = x /\ s.bal[y] = r.count
           /\ s.posts[y][1].amount # 0 /\ s.posts[y][1].change = "reconciliation"
      /\ DOMAIN s.bal \subseteq db.rows \cup s.created
      /\ s.created = {}
  <2>1. FinishedPosts(s, db, contended)
    BY DEF Alone, Committed, Finished
  <2>2. Dues(r, Subject(r, db.txns)) = {}
    BY <1>3 DEF Dues
  <2> QED
    BY <1>3, <2>1, <2>2 DEF FinishedPosts
<1>6. CASE DOMAIN s.bal = {}
  <2>1. db'.rows = db.rows /\ db'.balance = db.balance /\ db'.history = db.history
    BY <1>5, <1>6, NoPosting
  <2> QED
    BY <1>2, <1>4, <2>1 DEF Ledger!vars
<1>7. CASE DOMAIN s.bal # {}
  <2>1. DOMAIN s.bal = {x} /\ x \in db.rows /\ e.amount # 0 /\ e.change = "reconciliation"
          /\ s.bal[x] = r.count
    BY <1>5, <1>7
  <2>2. Posting(s, x, e.amount, e.change)
    BY <2>1, PostingOf
  <2>3. db.balance[x] \in Nat /\ Len(db.history[x]) < MaxEntries
    BY <1>1, <1>3 DEF AtCommit
  <2>4. e.amount = r.count - db.balance[x] /\ r.count # db.balance[x]
    <3>1. r.count = db.balance[x] + e.amount /\ e.amount \in Int
      BY <2>1, <2>2 DEF Posting
    <3> HIDE DEF e, x, r
    <3> QED
      BY <1>3, <2>1, <2>3, <3>1
  <2>5. Ledger!UpdateBalance(x, e.amount, e.change, Ref(s, db))
    BY <1>5, <2>1, <2>2, OnePosting
  <2> HIDE DEF e, x, r, s
  <2>6. Ledger!ReconcileBranchBalance(x, r.count)
    BY <1>2, <1>4, <2>1, <2>3, <2>4, <2>5 DEF Ledger!ReconcileBranchBalance
  <2> QED
    BY <1>3, <2>6
<1> QED
  BY <1>6, <1>7

\* A branch is deleted, opened or closed in one step.
LEMMA ChangesBranch ==
  ASSUME NEW p \in Sessions, Alone(p), session[p].req.kind \in {"delete", "open", "close"}
  PROVE  \E b \in Branches : \/ Ledger!DeleteBranch(b)
                             \/ \E isActive \in BOOLEAN : Ledger!UpdateBranch(b, isActive)
<1> DEFINE r == session[p].req
           b == r.branch
<1>1. AtCommit(p)
  BY AtCommitFacts
<1>2. /\ r \in Served /\ db'.txns = db.txns /\ db'.active = ActiveAfter(r, db.active)
      /\ r.kind = "delete" => b \notin MainBranches
           /\ \A c \in Currencies : db.balance[<<b, c>>] = 0
  BY <1>1 DEF AtCommit, Creating, Settling
<1>3. b \in Branches /\ r.kind \in {"delete", "open", "close"}
  BY <1>2, ServedFacts
<1>4. db'.rows = db.rows /\ db'.balance = db.balance /\ db'.history = db.history
  <2>1. Dues(r, Subject(r, db.txns)) = {}
    BY <1>3 DEF Dues
  <2> QED
    BY <1>3, <2>1, NoDues
<1>5. db'.reserved = db.reserved
  BY <1>3, ReservedAfter DEF Releases
<1> HIDE DEF r, b
<1>6. CASE r.kind = "delete"
  <2>1. Ledger!DeleteBranch(b)
    BY <1>2, <1>4, <1>5, <1>6 DEF Ledger!DeleteBranch, ActiveAfter, b
  <2> QED
    BY <1>3, <2>1
<1>7. CASE r.kind = "close"
  <2>1. Ledger!UpdateBranch(b, FALSE)
    BY <1>2, <1>4, <1>5, <1>7 DEF Ledger!UpdateBranch, ActiveAfter, b
  <2> QED
    BY <1>3, <2>1
<1>8. CASE r.kind = "open"
  <2>1. Ledger!UpdateBranch(b, TRUE)
    BY <1>2, <1>4, <1>5, <1>8 DEF Ledger!UpdateBranch, ActiveAfter, b
  <2> QED
    BY <1>3, <2>1
<1> QED
  BY <1>3, <1>6, <1>7, <1>8

\* The tables of the first day are those of the ledger.
LEMMA LedgerStarts == Init => Ledger!Init
  BY DEF Init, Ledger!Init, Ledger!Cells, Cells

\* What a commit does is one step of the ledger, or none.
LEMMA LedgerCommits ==
  ASSUME NEW p \in Sessions, Alone(p)
  PROVE  [Ledger!Next]_(Ledger!vars)
<1>1. session[p].req.kind \in Creating \cup Settling \cup {"reconcile", "delete", "open", "close"}
  BY AtCommitFacts, ServedFacts DEF AtCommit
<1>2. CASE session[p].req.kind = "income"
  <2>1. PICK b \in Branches, c \in Currencies, a \in Amounts : Ledger!CreateIncome(b, c, a)
    BY <1>2, CreatesIncome
  <2> QED
    BY <2>1 DEF Ledger!Next
<1>3. CASE session[p].req.kind = "expense"
  <2>1. PICK b \in Branches, c \in Currencies, a \in Amounts, approval \in BOOLEAN :
          Ledger!CreateExpense(b, c, a, approval)
    BY <1>3, CreatesExpense
  <2> QED
    BY <2>1 DEF Ledger!Next
<1>4. CASE session[p].req.kind = "exchange"
  <2>1. PICK b \in Branches, c \in Currencies, d \in Currencies, a \in Amounts, rate \in Rates,
             pct \in Commissions : Ledger!CreateExchange(b, c, d, a, rate, pct)
    BY <1>4, CreatesExchange
  <2> QED
    BY <2>1 DEF Ledger!Next
<1>5. CASE session[p].req.kind = "transfer"
  <2>1. PICK b \in Branches, to \in Branches, c \in Currencies, a \in Amounts :
          Ledger!CreateTransfer(b, to, c, a)
    BY <1>5, CreatesTransfer
  <2> QED
    BY <2>1 DEF Ledger!Next
<1>6. CASE session[p].req.kind \in Settling
  <2>1. PICK i \in 1..Len(db.txns) :
          Ledger!CompleteTransfer(i) \/ Ledger!ApproveExpense(i) \/ Ledger!CancelTransaction(i)
    BY <1>6, CompletesTransfer, ApprovesExpense, CancelsTransaction DEF Settling
  <2> QED
    BY <2>1 DEF Ledger!Next
<1>7. CASE session[p].req.kind = "reconcile"
  <2>1. \/ \E x \in Cells, n \in Counts : Ledger!ReconcileBranchBalance(x, n)
        \/ UNCHANGED Ledger!vars
    BY <1>7, Reconciles
  <2> QED
    BY <2>1 DEF Ledger!Next, Ledger!Cells, Cells
<1>8. CASE session[p].req.kind \in {"delete", "open", "close"}
  <2>1. PICK b \in Branches : \/ Ledger!DeleteBranch(b)
                              \/ \E isActive \in BOOLEAN : Ledger!UpdateBranch(b, isActive)
    BY <1>8, ChangesBranch
  <2> QED
    BY <2>1 DEF Ledger!Next
<1> QED
  BY <1>1, <1>2, <1>3, <1>4, <1>5, <1>6, <1>7, <1>8 DEF Creating

\* Only a commit changes the tables, so every other step is a stutter of the ledger.
LEMMA LedgerSteps ==
  ASSUME Separate
  PROVE  RequestInv /\ [Next]_vars =>
           [Midnight \notin contended' => Ledger!Next \/ UNCHANGED Ledger!vars]_vars
<1> SUFFICES ASSUME RequestInv, [Next]_vars, Midnight \notin contended'
    PROVE  [Ledger!Next]_(Ledger!vars)
  OBVIOUS
<1>1. CASE db' = db
  BY <1>1 DEF Ledger!vars
<1>2. CASE db' # db
  <2>1. ASSUME NEW p \in Sessions, Commit(p), made' = made PROVE [Ledger!Next]_(Ledger!vars)
    <3>1. Committed(p) /\ contended' = contended
      BY <2>1, CommitFacts DEF Committed
    <3> QED
      BY <2>1, <3>1, LedgerCommits DEF Alone
  <2>2. Next
    BY <1>2 DEF vars
  <2>3. \A p \in Sessions : (DeadlockVictim(p) \/ Crash(p) \/ \E r \in Requests : Begin(p, r)) =>
          db' = db
    BY DEF DeadlockVictim, Crash, Begin, Rollback
  <2>4. ASSUME NEW p \in Sessions, Step(p) PROVE Commit(p) /\ made' = made
    <3>1. made' = made
      BY <2>4 DEF Step
    <3>2. \/ CheckBranch(p) \/ LoadTransaction(p) \/ ReadBalance(p) \/ CreateRow(p)
          \/ GenerateNumber(p) \/ InsertTransaction(p)
          \/ UpdateBalance(p) \/ Reconcile(p)
          \/ ReserveBalance(p) \/ ReleaseReservedBalance(p) \/ Commit(p)
      BY <2>4 DEF Step
    <3>3. CheckBranch(p) \/ LoadTransaction(p) \/ ReadBalance(p) \/ CreateRow(p) => db' = db
      BY DEF CheckBranch, LoadTransaction, ReadBalance, CreateRow, Proceed, Continue, Rollback,
           Touch
    <3>4. GenerateNumber(p) \/ InsertTransaction(p) => db' = db
      BY DEF GenerateNumber, InsertTransaction, Proceed, Continue, Rollback
    <3>5. \A amount : Post(p, amount) => db' = db
      BY DEF Post, Write, Proceed, Continue, Rollback
    <3>6. UpdateBalance(p) \/ Reconcile(p) => db' = db
      BY <3>5 DEF UpdateBalance, Reconcile, Continue
    <3>7. ReserveBalance(p) \/ ReleaseReservedBalance(p) => db' = db
      BY DEF ReserveBalance, ReleaseReservedBalance, WriteReserved, Write, Proceed, Continue,
           Rollback
    <3> QED
      BY <1>2, <3>1, <3>2, <3>3, <3>4, <3>6, <3>7
  <2> QED
    BY <1>2, <2>1, <2>2, <2>3, <2>4 DEF Next
<1> QED
  BY <1>1, <1>2

\* Run one after the other, or all of them creations, the requests are steps of
\* BranchLedger: each takes effect at its commit, all at once, or not at all.  It
\* is so until two requests have inserted transactions numbered on different days:
\* the UNIQUE number then no longer keeps the one from the balance of the other.
THEOREM RequestsImplementLedger == ASSUME Separate PROVE Spec => ImplementsLedger
<1>1. RequestInv /\ [Next]_vars =>
        [Midnight \notin contended' => Ledger!Next \/ UNCHANGED Ledger!vars]_vars
  BY LedgerSteps
<1> QED
  BY <1>1, LedgerStarts, RequestInvariant, PTL DEF Spec, ImplementsLedger
=============================================================================
