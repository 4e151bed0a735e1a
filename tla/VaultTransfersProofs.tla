------------------------ MODULE VaultTransfersProofs ------------------------
(***************************************************************************)
(* What VaultTransfers promises holds for any number of vaults, branches,  *)
(* transfers and sessions, although every step of a request is a commit of *)
(* its own.  The invariant says, for each point a request can have reached *)
(* between its commits, what its transfer has moved by then.               *)
(***************************************************************************)
EXTENDS VaultTransfers, TotalsProofs, SequenceTheorems

Creating == {"vault", "toBranch", "fromBranch"}

None == [kind |-> "none"]

\* The requests a session may be serving, whatever transfers there are by now.
Served ==
  [kind : {"vault"}, from : Vaults, to : Vaults, amount : Amounts]
    \cup [kind : {"toBranch"}, from : Vaults, to : Branches, amount : Amounts]
    \cup [kind : {"fromBranch"}, branch : Branches, to : Vaults, amount : Amounts]
    \cup [kind : Reviewing, txn : Nat]
    \cup [kind : {"adjust"}, vault : Vaults, count : Counts]
    \cup [kind : {"close"}, vault : Vaults]
    \cup {None}

BalanceRow == [found : BOOLEAN, balance : Nat]

\* What is left of a transfer's moves, forth and back.
Approval(t)   == Take(t.from, t.amount) \o Deliver(t)
Payment(t)    == <<Do("move", t.from, -t.amount, "out")>> \o Deliver(t)
Delivery(t)   == Deliver(t)
Arrival(t)    == <<Do("move", t.to, t.amount, "in")>>
Reversal(t)   == Return(t.from, t.amount) \o Withdraw(t) \o Op("cancelled")
Refund(t)     == <<Do("move", t.from, t.amount, "out")>> \o Withdraw(t) \o Op("cancelled")
Withdrawal(t) == Withdraw(t) \o Op("cancelled")
Removal(t)    == <<Do("move", t.to, -t.amount, "in")>> \o Op("cancelled")

\* What is left of a creation once it has its number.
Insertion(r) ==
  Op("insert") \o IF r.kind = "vault" /\ r.amount < Threshold
                  THEN <<Do("move", r.from, -r.amount, "out")>> \o Deliver(Row(r))
                  ELSE <<>>

\* Where a request that handles transfer i has got to, and what the transfer has
\* moved by then, unless another request handles it too or was cut off.
OnTransfer(s, i) ==
  LET t == transfers[i]
      kind == s.req.kind
      Is(status, out, in) == t.to \in Vaults /\ i \notin disturbed =>
                               t.status = status /\ moved[i] = [out |-> out, in |-> in]
      begun == s.wrote = {i} /\ t.status # "pending"
  IN \/ /\ kind = "approve"
        /\ s.todo \in {Approval(t), Payment(t)}
        /\ Is("pending", 0, 0)
     \/ /\ kind = "vault"
        /\ s.todo = Payment(t)
        /\ begun /\ Is("in_transit", 0, 0)
     \/ /\ kind \in {"vault", "approve"}
        /\ s.todo = Delivery(t) \/ (s.todo = Arrival(t) /\ t.to \in Vaults)
        /\ begun /\ Is("in_transit", t.amount, 0)
     \/ /\ kind = "complete"
        /\ s.todo = Op("completed")
        /\ t.status # "pending" /\ Is("in_transit", t.amount, t.amount)
     \/ /\ kind = "reject"
        /\ s.todo = Op("cancelled")
        /\ Is("pending", 0, 0)
     \/ /\ kind = "cancel"
        /\ s.todo \in {Reversal(t), Refund(t)}
        /\ t.status # "pending" /\ Is("in_transit", t.amount, t.amount)
     \/ /\ kind = "cancel"
        /\ s.todo = Withdrawal(t) \/ (s.todo = Removal(t) /\ t.to \in Vaults)
        /\ begun /\ Is("in_transit", 0, t.amount)
     \/ /\ kind = "cancel"
        /\ s.todo = Op("cancelled")
        /\ Is("pending", 0, 0) \/ (begun /\ Is("in_transit", 0, 0))

\* A request is idle, at its begin, or on the way its kind goes.
OnCourse(p) ==
  LET s == session[p]
      r == s.req
  IN /\ DOMAIN s = DOMAIN Idle
     /\ r \in Served
     /\ s.copy \in BalanceRow /\ s.number \in Nat /\ s.seen \subseteq Vaults
     /\ s.wrote \subseteq s.txn /\ s.txn \subseteq DOMAIN transfers
     /\ r.kind \in Reviewing => r.txn \in DOMAIN transfers
     /\ \/ s = Idle
        \/ s.todo = Op("begin") /\ s.txn = {} /\ s.seen = {} /\ r # None
        \/ r.kind \in Creating /\ s.txn = {} /\ s.todo = Creation(r)
        \/ /\ r.kind \in Creating /\ s.txn = {} /\ s.todo = Insertion(r)
           /\ s.number <= Len(transfers) + 1
        \/ r.kind = "adjust" /\ s.txn = {} /\ s.todo = Op("set")
        \/ \E i \in DOMAIN transfers : s.txn = {i} /\ OnTransfer(s, i)

\* The vault whose row a session is about to write from its copy.
Holds(s, v) ==
  /\ s.todo # <<>>
  /\ \/ Head(s.todo).op = "move" /\ v = Head(s.todo).vault
     \/ /\ Head(s.todo).op \in {"number", "insert"}
        /\ s.req.kind = "vault" /\ v = s.req.from
     \/ Head(s.todo).op = "set" /\ v = s.req.vault

\* Its copy is the row there is, unless another session uses the vault.
KnowsBalance(p) ==
  \A v \in Vaults :
    Holds(session[p], v) =>
      v \in session[p].seen /\ (v \notin contended => session[p].copy = Visible(v))

\* Two sessions that handle one transfer, or use one vault, have been noticed.
SharedIsKnown ==
  \A p, q \in Sessions : p # q =>
    /\ session[p].txn \cap session[q].txn \subseteq disturbed
    /\ session[p].seen \cap session[q].seen \subseteq contended

VaultInv ==
  /\ TypeOK
  /\ adjusted \in [Vaults -> Int]
  /\ DOMAIN session = Sessions
  /\ \A p \in Sessions : OnCourse(p) /\ KnowsBalance(p)
  /\ SharedIsKnown
  /\ PendingMovedNothing
  /\ UndisturbedTransferIsWhole
  /\ UncontendedVaultAddsUp

-----------------------------------------------------------------------------
(* The operators the model is built from.                                   *)

\* A session between two requests holds nothing.
LEMMA IdleFacts ==
  /\ DOMAIN Idle = {"req", "todo", "copy", "number", "txn", "seen", "wrote"}
  /\ Idle.req = None /\ Idle.todo = <<>> /\ Idle.copy \in BalanceRow /\ Idle.number = 0
  /\ Idle.txn = {} /\ Idle.seen = {} /\ Idle.wrote = {}
BY DEF Idle, Begun, None, NoRow, BalanceRow

\* What is known of the request a session serves: its kind, and the type of each field that kind has.
LEMMA ServedFacts ==
  ASSUME NEW r \in Served
  PROVE  /\ r.kind \in Creating \cup Reviewing \cup {"adjust", "close", "none"}
         /\ r.kind = "none" <=> r = None
         /\ r.kind \in {"vault", "toBranch"} => r.from \in Vaults
         /\ r.kind \in {"vault", "fromBranch"} => r.to \in Vaults
         /\ r.kind = "toBranch" => r.to \in Branches
         /\ r.kind = "fromBranch" => r.branch \in Branches
         /\ r.kind \in Creating => r.amount \in Nat \ {0}
         /\ r.kind \in {"adjust", "close"} => r.vault \in Vaults
         /\ r.kind = "adjust" => r.count \in Nat
<1> USE VaultAssumption DEF Creating, Reviewing, None
<1>1. CASE r \in [kind : {"vault"}, from : Vaults, to : Vaults, amount : Amounts]
  BY <1>1
<1>2. CASE r \in [kind : {"toBranch"}, from : Vaults, to : Branches, amount : Amounts]
  BY <1>2
<1>3. CASE r \in [kind : {"fromBranch"}, branch : Branches, to : Vaults, amount : Amounts]
  BY <1>3
<1>4. CASE r \in [kind : Reviewing, txn : Nat]
  BY <1>4
<1>5. CASE r \in [kind : {"adjust"}, vault : Vaults, count : Counts]
  BY <1>5
<1>6. CASE r \in [kind : {"close"}, vault : Vaults]
  BY <1>6
<1>7. CASE r = None
  BY <1>7
<1> QED
  BY <1>1, <1>2, <1>3, <1>4, <1>5, <1>6, <1>7 DEF Served

\* Every request that may be made is one a session can serve.
LEMMA RequestsAreServed ==
  ASSUME Len(transfers) \in Nat, NEW r \in Requests
  PROVE  r \in Served /\ r # None /\ (r.kind \in Reviewing => r.txn \in 1..Len(transfers))
<1> USE DEF Reviewing, None
<1>1. CASE r \in [kind : {"vault"}, from : Vaults, to : Vaults, amount : Amounts]
  BY <1>1 DEF Served
<1>2. CASE r \in [kind : {"toBranch"}, from : Vaults, to : Branches, amount : Amounts]
  BY <1>2 DEF Served
<1>3. CASE r \in [kind : {"fromBranch"}, branch : Branches, to : Vaults, amount : Amounts]
  BY <1>3 DEF Served
<1>4. CASE r \in [kind : Reviewing, txn : 1..Len(transfers)]
  <2>1. r \in [kind : Reviewing, txn : Nat] /\ r.kind \in Reviewing /\ r.txn \in 1..Len(transfers)
    BY <1>4
  <2> QED
    BY <2>1 DEF Served
<1>5. CASE r \in [kind : {"adjust"}, vault : Vaults, count : Counts]
  BY <1>5 DEF Served
<1>6. CASE r \in [kind : {"close"}, vault : Vaults]
  BY <1>6 DEF Served
<1> QED
  BY <1>1, <1>2, <1>3, <1>4, <1>5, <1>6 DEF Requests

\* What a creating request puts into the table; only a small transfer between
\* vaults is under way at once.
LEMMA RowFacts ==
  ASSUME NEW r \in Served, r.kind \in Creating
  PROVE  /\ Row(r) \in Transfers
         /\ Row(r).amount = r.amount
         /\ Row(r).status \in {"pending", "in_transit"}
         /\ r.kind # "fromBranch" => Row(r).from = r.from /\ Row(r).to = r.to
         /\ r.kind = "vault" => (Row(r).status = "in_transit" <=> r.amount < Threshold)
         /\ r.kind = "toBranch" => Row(r).to \notin Vaults
         /\ r.kind = "fromBranch" => Row(r).status = "pending"
<1>1. Threshold \in Nat /\ r.amount \in Nat \ {0}
  BY VaultAssumption, ServedFacts
<1>2. CASE r.kind = "fromBranch"
  <2>1. BranchVault[r.branch] \in Vaults /\ r.to \in Vaults
    BY <1>2, ServedFacts, VaultAssumption
  <2> QED
    BY <1>1, <1>2, <2>1 DEF Row, Transfers, Statuses
<1>3. CASE r.kind \in {"vault", "toBranch"}
  <2>1. r.from \in Vaults /\ r.to \in Vaults \cup Branches
    BY <1>3, ServedFacts
  <2>2. r.kind = "toBranch" => r.to \notin Vaults
    BY ServedFacts, VaultAssumption
  <2>3. Row(r) = [from |-> r.from, to |-> r.to, amount |-> r.amount,
                  status |-> IF r.amount < Threshold THEN "in_transit" ELSE "pending"]
    BY <1>3 DEF Row
  <2> QED
    BY <1>1, <1>3, <2>1, <2>2, <2>3 DEF Transfers, Statuses
<1> QED
  BY <1>2, <1>3 DEF Creating

\* The sequence q begins with a and goes on as s.
Leads(q, a, s) == q # <<>> /\ Head(q) = a /\ Tail(q) = s

\* Sequences that are put together step by step: a, then s.
Then(a, s) == <<a>> \o s

\* A sequence with an element before it, its head and its tail.
LEMMA ThenFacts ==
  ASSUME NEW S, NEW a \in S, NEW s \in Seq(S)
  PROVE  Then(a, s) \in Seq(S) /\ Leads(Then(a, s), a, s)
<1>1. <<a>> \in Seq(S)
  OBVIOUS
<1>2. /\ <<a>> \o s \in Seq(S)
      /\ <<a>> \o s # <<>> /\ Head(<<a>> \o s) = a /\ Tail(<<a>> \o s) = s
  BY <1>1, ConcatProperties, HeadTailProperties, SeqEqual
<1> QED
  BY <1>2 DEF Then, Leads

\* First a, then both s and u.
ThenBoth(a, s, u) == Then(a, s) \o u

\* Putting an element before a sequence and joining another one commute.
LEMMA ThenJoined ==
  ASSUME NEW S, NEW a \in S, NEW s \in Seq(S), NEW u \in Seq(S)
  PROVE  ThenBoth(a, s, u) = Then(a, s \o u)
<1> DEFINE one == <<a>>
<1>1. one \in Seq(S)
  OBVIOUS
<1> HIDE DEF one
<1>2. (one \o s) \o u = one \o (s \o u)
  BY <1>1, ConcatAssociative
<1> QED
  BY <1>2 DEF ThenBoth, Then, one

\* A sequence of one element.
LEMMA Single ==
  ASSUME NEW S, NEW a \in S
  PROVE  <<a>> \in Seq(S) /\ <<>> \in Seq(S) /\ Leads(<<a>>, a, <<>>)
BY DEF Leads

\* A sequence of two elements, as one put before the other.
LEMMA Pair ==
  ASSUME NEW a, NEW b
  PROVE  <<a, b>> = Then(a, <<b>>)
<1> DEFINE S == {a, b}
           joined == <<a>> \o <<b>>
           pair == <<a, b>>
<1>1. joined \in Seq(S) /\ pair \in Seq(S) /\ Len(joined) = 2 /\ Len(pair) = 2
  <2>1. <<a>> \in Seq(S) /\ <<b>> \in Seq(S)
    OBVIOUS
  <2> QED
    BY <2>1
<1>2. \A i \in 1..2 : joined[i] = pair[i]
  OBVIOUS
<1>3. joined = pair
  <2> HIDE DEF S, joined, pair
  <2> QED
    BY <1>1, <1>2, SeqEqual
<1> QED
  BY <1>3 DEF Then

PairAnd(a, b, s) == <<a, b>> \o s

\* Two elements before a sequence, put one after the other.
LEMMA PairThen ==
  ASSUME NEW S, NEW a \in S, NEW b \in S, NEW s \in Seq(S)
  PROVE  PairAnd(a, b, s) = Then(a, Then(b, s))
<1> DEFINE last == <<b>>
<1>1. last \in Seq(S) /\ last \o s = Then(b, s)
  BY DEF Then
<1>2. <<a, b>> = Then(a, last)
  BY Pair
<1> HIDE DEF last
<1>3. ThenBoth(a, last, s) = Then(a, last \o s)
  BY <1>1, ThenJoined
<1> QED
  BY <1>1, <1>2, <1>3 DEF ThenBoth, PairAnd

\* A step without a vault.
Plain(op) == Do(op, <<>>, 0, "")

\* A plan of a single operation.
LEMMA OpFacts ==
  ASSUME NEW op
  PROVE  Op(op) = <<Plain(op)>> /\ Plain(op).op = op /\ Leads(Op(op), Plain(op), <<>>)
<1>1. Op(op) = <<Plain(op)>> /\ Plain(op).op = op
  BY DEF Op, Plain, Do
<1> QED
  BY <1>1, Single

\* A SELECT of update_vault_balance, and the rest of it.
Read(v) == Do("read", v, 0, "")
Move(v, a, side) == Do("move", v, a, side)

\* The fields of a read and of a move.
LEMMA ReadMoveFacts ==
  ASSUME NEW v, NEW a, NEW side
  PROVE  /\ Read(v).op = "read" /\ Read(v).vault = v
         /\ Move(v, a, side).op = "move" /\ Move(v, a, side).vault = v
         /\ Move(v, a, side).amount = a /\ Move(v, a, side).side = side
BY DEF Read, Move, Do

\* The next step of each stretch of a transfer, and what comes after it.
LEMMA ForthFacts ==
  ASSUME NEW t
  PROVE  /\ Leads(Approval(t), Read(t.from), Payment(t))
         /\ Leads(Payment(t), Move(t.from, -t.amount, "out"), Delivery(t))
         /\ t.to \in Vaults => Leads(Delivery(t), Read(t.to), Arrival(t))
         /\ t.to \notin Vaults => Leads(Delivery(t), Plain("raise"), <<>>)
         /\ Leads(Arrival(t), Move(t.to, t.amount, "in"), <<>>)
<1> DEFINE rf == Read(t.from)
           mf == Move(t.from, -t.amount, "out")
           rt == Read(t.to)
           mt == Move(t.to, t.amount, "in")
           x  == Plain("raise")
           S  == {rf, mf, rt, mt, x}
<1>1. /\ Approval(t) = PairAnd(rf, mf, Delivery(t))
      /\ Payment(t) = Then(mf, Delivery(t))
      /\ Arrival(t) = <<mt>>
      /\ t.to \in Vaults => Delivery(t) = <<rt, mt>>
      /\ t.to \notin Vaults => Delivery(t) = <<x>>
  BY OpFacts DEF Approval, Payment, Delivery, Arrival, Take, Give, Deliver, MissingMethod, Then,
                 PairAnd, Read, Move
<1>2. rf \in S /\ mf \in S /\ rt \in S /\ mt \in S /\ x \in S
  OBVIOUS
<1> HIDE DEF rf, mf, rt, mt, x, S
<1>3. Arrival(t) \in Seq(S) /\ Leads(Arrival(t), mt, <<>>)
  BY <1>1, <1>2, Single
<1>4. t.to \notin Vaults => Delivery(t) \in Seq(S) /\ Leads(Delivery(t), x, <<>>)
  BY <1>1, <1>2, Single
<1>5. t.to \in Vaults => Delivery(t) = Then(rt, Arrival(t))
  BY <1>1, Pair
<1>6. t.to \in Vaults => Delivery(t) \in Seq(S) /\ Leads(Delivery(t), rt, Arrival(t))
  BY <1>2, <1>3, <1>5, ThenFacts
<1>7. Delivery(t) \in Seq(S)
  BY <1>4, <1>6
<1>8. Payment(t) \in Seq(S) /\ Leads(Payment(t), mf, Delivery(t))
  BY <1>1, <1>2, <1>7, ThenFacts
<1>9. Approval(t) = Then(rf, Payment(t))
  BY <1>1, <1>2, <1>7, PairThen
<1>10. Leads(Approval(t), rf, Payment(t))
  BY <1>2, <1>8, <1>9, ThenFacts
<1> QED
  BY <1>3, <1>4, <1>6, <1>8, <1>10 DEF rf, mf, rt, mt, x

\* The stretches of a cancellation: each operation and the stretch that follows it.
LEMMA BackFacts ==
  ASSUME NEW t
  PROVE  /\ Leads(Reversal(t), Read(t.from), Refund(t))
         /\ Leads(Refund(t), Move(t.from, t.amount, "out"), Withdrawal(t))
         /\ t.to \in Vaults => Leads(Withdrawal(t), Read(t.to), Removal(t))
         /\ t.to \notin Vaults => Leads(Withdrawal(t), Plain("raise"), Op("cancelled"))
         /\ Leads(Removal(t), Move(t.to, -t.amount, "in"), Op("cancelled"))
<1> DEFINE rf == Read(t.from)
           mf == Move(t.from, t.amount, "out")
           rt == Read(t.to)
           mt == Move(t.to, -t.amount, "in")
           x  == Plain("raise")
           c  == Plain("cancelled")
           end == Op("cancelled")
           S  == {rf, mf, rt, mt, x, c}
           W  == Withdraw(t)
<1>1. /\ Reversal(t) = PairAnd(rf, mf, W) \o end
      /\ Refund(t) = ThenBoth(mf, W, end)
      /\ Withdrawal(t) = W \o end
      /\ Removal(t) = Then(mt, end)
      /\ end = <<c>>
      /\ t.to \in Vaults => W = <<rt, mt>>
      /\ t.to \notin Vaults => W = <<x>>
  BY OpFacts DEF Reversal, Refund, Withdrawal, Removal, Return, Reclaim, Withdraw,
                 MissingMethod, Then, ThenBoth, PairAnd, Read, Move
<1>2. rf \in S /\ mf \in S /\ rt \in S /\ mt \in S /\ x \in S /\ c \in S
  OBVIOUS
<1> HIDE DEF rf, mf, rt, mt, x, c, S, W, end
<1>3. end \in Seq(S)
  BY <1>1, <1>2, Single
<1>4. W \in Seq(S)
  <2>1. <<rt, mt>> \in Seq(S) /\ <<x>> \in Seq(S)
    BY <1>2
  <2> QED
    BY <1>1, <2>1
<1>5. Withdrawal(t) \in Seq(S) /\ Refund(t) = Then(mf, Withdrawal(t))
  <2>1. Withdrawal(t) \in Seq(S)
    BY <1>1, <1>3, <1>4, ConcatProperties
  <2> QED
    BY <1>1, <1>2, <1>3, <1>4, <2>1, ThenJoined
<1>6. Refund(t) \in Seq(S) /\ Leads(Refund(t), mf, Withdrawal(t))
  BY <1>2, <1>5, ThenFacts
<1>7. Leads(Reversal(t), rf, Refund(t))
  <2>1. Then(mf, W) \in Seq(S)
    BY <1>2, <1>4, ThenFacts
  <2>2. PairAnd(rf, mf, W) = Then(rf, Then(mf, W))
    BY <1>2, <1>4, PairThen
  <2>3. Reversal(t) = ThenBoth(rf, Then(mf, W), end)
    BY <1>1, <2>2 DEF ThenBoth
  <2>4. Reversal(t) = Then(rf, Refund(t))
    <3>1. Reversal(t) = Then(rf, Then(mf, W) \o end)
      BY <1>2, <1>3, <2>1, <2>3, ThenJoined
    <3> QED
      BY <1>1, <3>1 DEF ThenBoth
  <2> QED
    BY <1>2, <1>6, <2>4, ThenFacts
<1>8. Removal(t) \in Seq(S) /\ Leads(Removal(t), mt, end)
  BY <1>1, <1>2, <1>3, ThenFacts
<1>9. t.to \in Vaults => Withdrawal(t) = Then(rt, Removal(t))
  <2>1. t.to \in Vaults => Withdrawal(t) = PairAnd(rt, mt, end)
    BY <1>1 DEF PairAnd
  <2>2. PairAnd(rt, mt, end) = Then(rt, Then(mt, end))
    BY <1>2, <1>3, PairThen
  <2> QED
    BY <1>1, <2>1, <2>2
<1>10. t.to \in Vaults => Leads(Withdrawal(t), rt, Removal(t))
  BY <1>2, <1>8, <1>9, ThenFacts
<1>11. t.to \notin Vaults => Withdrawal(t) = Then(x, end)
  BY <1>1 DEF Then
<1>12. t.to \notin Vaults => Leads(Withdrawal(t), x, end)
  BY <1>2, <1>3, <1>11, ThenFacts
<1> QED
  BY <1>6, <1>7, <1>8, <1>10, <1>12 DEF rf, mf, rt, mt, x, end

\* A creation generates its number, inserts its row and, if small, pays.
LEMMA CreationFacts ==
  ASSUME NEW r \in Served, r.kind \in Creating
  PROVE  /\ Leads(Creation(r), Plain("number"), Insertion(r))
         /\ Leads(Insertion(r), Plain("insert"),
                  IF r.kind = "vault" /\ r.amount < Threshold THEN Payment(Row(r)) ELSE <<>>)
<1> DEFINE n == Plain("number")
           i == Plain("insert")
           t == Row(r)
           m == Move(t.from, -t.amount, "out")
           rt == Read(t.to)
           mt == Move(t.to, t.amount, "in")
           x  == Plain("raise")
           S == {n, i, m, rt, mt, x}
           pays == r.kind = "vault" /\ r.amount < Threshold
           rest == IF pays THEN Payment(t) ELSE <<>>
<1>1. Creation(r) = (Op("number") \o Op("insert")) \o rest /\ Insertion(r) = Then(i, rest)
  BY RowFacts, OpFacts DEF Creation, Insertion, Payment, Then
<1>2. n \in S /\ i \in S /\ m \in S /\ rt \in S /\ mt \in S /\ x \in S
  OBVIOUS
<1>3. Payment(t) = Then(m, Deliver(t)) /\ (Deliver(t) = <<rt, mt>> \/ Deliver(t) = <<x>>)
  BY OpFacts DEF Payment, Deliver, Give, MissingMethod, Then, Read, Move
<1>4. Op("number") \o Op("insert") = <<n, i>>
  <2>1. Op("number") \o Op("insert") = Then(n, <<i>>)
    BY OpFacts DEF Then
  <2> QED
    BY <2>1, Pair
<1> HIDE DEF n, i, m, rt, mt, x, t, S
<1>5. Deliver(t) \in Seq(S) /\ <<>> \in Seq(S)
  <2>1. <<rt, mt>> \in Seq(S) /\ <<x>> \in Seq(S) /\ <<>> \in Seq(S)
    BY <1>2
  <2> QED
    BY <1>3, <2>1
<1>6. Payment(t) \in Seq(S)
  BY <1>2, <1>3, <1>5, ThenFacts
<1>7. rest \in Seq(S)
  BY <1>5, <1>6
<1> HIDE DEF rest, pays
<1>8. Insertion(r) \in Seq(S) /\ Leads(Insertion(r), i, rest)
  BY <1>1, <1>2, <1>7, ThenFacts
<1>9. Creation(r) = Then(n, Insertion(r))
  <2>1. Creation(r) = PairAnd(n, i, rest)
    BY <1>1, <1>4 DEF PairAnd
  <2>2. PairAnd(n, i, rest) = Then(n, Then(i, rest))
    BY <1>2, <1>7, PairThen
  <2> QED
    BY <1>1, <2>1, <2>2
<1>10. Leads(Creation(r), n, Insertion(r))
  BY <1>2, <1>8, <1>9, ThenFacts
<1> QED
  BY <1>8, <1>10 DEF rest, pays, t, n, i

-----------------------------------------------------------------------------
(* Where a request is, told by its next step.                               *)

\* The first operation of every stretch of a transfer.
LEMMA StretchOps ==
  ASSUME NEW t
  PROVE  /\ Approval(t) # <<>> /\ Head(Approval(t)).op = "read"
         /\ Payment(t) # <<>> /\ Head(Payment(t)).op = "move"
         /\ Delivery(t) # <<>>
         /\ Head(Delivery(t)).op = IF t.to \in Vaults THEN "read" ELSE "raise"
         /\ Arrival(t) # <<>> /\ Head(Arrival(t)).op = "move"
         /\ Reversal(t) # <<>> /\ Head(Reversal(t)).op = "read"
         /\ Refund(t) # <<>> /\ Head(Refund(t)).op = "move"
         /\ Withdrawal(t) # <<>>
         /\ Head(Withdrawal(t)).op = IF t.to \in Vaults THEN "read" ELSE "raise"
         /\ Removal(t) # <<>> /\ Head(Removal(t)).op = "move"
<1>1. ASSUME NEW q, NEW v, NEW rest, Leads(q, Read(v), rest)
      PROVE  q # <<>> /\ Head(q).op = "read"
  BY <1>1, ReadMoveFacts DEF Leads
<1>2. ASSUME NEW q, NEW v, NEW a, NEW side, NEW rest, Leads(q, Move(v, a, side), rest)
      PROVE  q # <<>> /\ Head(q).op = "move"
  <2>1. q # <<>> /\ Head(q) = Move(v, a, side)
    BY <1>2 DEF Leads
  <2> QED
    BY <2>1, ReadMoveFacts
<1>3. ASSUME NEW q, NEW rest, Leads(q, Plain("raise"), rest)
      PROVE  q # <<>> /\ Head(q).op = "raise"
  <2>1. q # <<>> /\ Head(q) = Plain("raise")
    BY <1>3 DEF Leads
  <2> QED
    BY <2>1, OpFacts
<1>4. /\ Approval(t) # <<>> /\ Head(Approval(t)).op = "read"
      /\ Reversal(t) # <<>> /\ Head(Reversal(t)).op = "read"
  BY <1>1, ForthFacts, BackFacts
<1>5. /\ Payment(t) # <<>> /\ Head(Payment(t)).op = "move"
      /\ Arrival(t) # <<>> /\ Head(Arrival(t)).op = "move"
  BY <1>2, ForthFacts
<1>6. /\ Refund(t) # <<>> /\ Head(Refund(t)).op = "move"
      /\ Removal(t) # <<>> /\ Head(Removal(t)).op = "move"
  BY <1>2, BackFacts
<1>7. CASE t.to \in Vaults
  <2>1. /\ Delivery(t) # <<>> /\ Head(Delivery(t)).op = "read"
        /\ Withdrawal(t) # <<>> /\ Head(Withdrawal(t)).op = "read"
    BY <1>1, <1>7, ForthFacts, BackFacts
  <2> QED
    BY <1>4, <1>5, <1>6, <1>7, <2>1
<1>8. CASE t.to \notin Vaults
  <2>1. /\ Delivery(t) # <<>> /\ Head(Delivery(t)).op = "raise"
        /\ Withdrawal(t) # <<>> /\ Head(Withdrawal(t)).op = "raise"
    BY <1>3, <1>8, ForthFacts, BackFacts
  <2> QED
    BY <1>4, <1>5, <1>6, <1>8, <2>1
<1> QED
  BY <1>7, <1>8

\* The first operation of the plans that move no money.
LEMMA PlainOps ==
  /\ \A op : Op(op) # <<>> /\ Head(Op(op)).op = op /\ Tail(Op(op)) = <<>>
  /\ \A r \in Served : r.kind \in Creating =>
       /\ Creation(r) # <<>> /\ Head(Creation(r)).op = "number"
       /\ Tail(Creation(r)) = Insertion(r)
       /\ Insertion(r) # <<>> /\ Head(Insertion(r)).op = "insert"
<1>1. ASSUME NEW op
      PROVE  Op(op) # <<>> /\ Head(Op(op)).op = op /\ Tail(Op(op)) = <<>>
  BY OpFacts DEF Leads
<1>2. ASSUME NEW r \in Served, r.kind \in Creating
      PROVE  /\ Creation(r) # <<>> /\ Head(Creation(r)).op = "number"
             /\ Tail(Creation(r)) = Insertion(r)
             /\ Insertion(r) # <<>> /\ Head(Insertion(r)).op = "insert"
  <2>1. Plain("number").op = "number" /\ Plain("insert").op = "insert"
    BY OpFacts
  <2>2. /\ Leads(Creation(r), Plain("number"), Insertion(r))
        /\ Insertion(r) # <<>> /\ Head(Insertion(r)) = Plain("insert")
    BY <1>2, CreationFacts DEF Leads
  <2> QED
    BY <2>1, <2>2 DEF Leads
<1> QED
  BY <1>1, <1>2

\* Handling a transfer, a request is at one of its reads, moves or last commit.
LEMMA OnTransferFacts ==
  ASSUME NEW s, NEW i, OnTransfer(s, i)
  PROVE  /\ s.todo # <<>>
         /\ Head(s.todo).op \in {"read", "move", "raise", "completed", "cancelled"}
         /\ s.req.kind \in {"vault", "approve", "reject", "complete", "cancel"}
<1> DEFINE t == transfers[i]
<1>1. /\ s.req.kind \in {"vault", "approve", "reject", "complete", "cancel"}
      /\ s.todo \in {Approval(t), Payment(t), Delivery(t), Arrival(t), Reversal(t), Refund(t),
                     Withdrawal(t), Removal(t), Op("completed"), Op("cancelled")}
  BY DEF OnTransfer
<1> HIDE DEF t
<1>2. /\ s.todo \in {Approval(t), Payment(t), Delivery(t), Arrival(t)} =>
           s.todo # <<>> /\ Head(s.todo).op \in {"read", "move", "raise"}
      /\ s.todo \in {Reversal(t), Refund(t), Withdrawal(t), Removal(t)} =>
           s.todo # <<>> /\ Head(s.todo).op \in {"read", "move", "raise"}
  BY StretchOps
<1>3. s.todo \in {Op("completed"), Op("cancelled")} =>
           s.todo # <<>> /\ Head(s.todo).op \in {"completed", "cancelled"}
  BY PlainOps
<1> QED
  BY <1>1, <1>2, <1>3

\* A session on course with nothing to do is idle.
LEMMA NotBusy ==
  ASSUME NEW p, OnCourse(p), ~ Busy(p)
  PROVE  session[p] = Idle
BY OnTransferFacts, PlainOps DEF OnCourse, Busy

\* What is known of a session that has just begun.
LEMMA AtBegin ==
  ASSUME NEW p, OnCourse(p), At(p, "begin")
  PROVE  /\ session[p].todo = Op("begin") /\ session[p].txn = {} /\ session[p].seen = {}
         /\ session[p].req # None
BY OnTransferFacts, PlainOps, IdleFacts DEF OnCourse, At, Busy

\* What is known of a session about to draw a number.
LEMMA AtNumber ==
  ASSUME NEW p, OnCourse(p), At(p, "number")
  PROVE  /\ session[p].req.kind \in Creating /\ session[p].txn = {}
         /\ session[p].todo = Creation(session[p].req)
BY OnTransferFacts, PlainOps, IdleFacts DEF OnCourse, At, Busy

\* What is known of a session about to insert a transfer.
LEMMA AtInsert ==
  ASSUME NEW p, OnCourse(p), At(p, "insert")
  PROVE  /\ session[p].req.kind \in Creating /\ session[p].txn = {}
         /\ session[p].todo = Insertion(session[p].req)
         /\ session[p].number <= Len(transfers) + 1
BY OnTransferFacts, PlainOps, IdleFacts DEF OnCourse, At, Busy

\* What is known of a session about to set a counted balance.
LEMMA AtSet ==
  ASSUME NEW p, OnCourse(p), At(p, "set")
  PROVE  /\ session[p].req.kind = "adjust" /\ session[p].txn = {}
         /\ session[p].todo = Op("set")
BY OnTransferFacts, PlainOps, IdleFacts DEF OnCourse, At, Busy

\* A session at one of a transfer's operations is on a stretch of that transfer.
LEMMA AtTransfer ==
  ASSUME NEW p, OnCourse(p), NEW op \in {"read", "move", "raise", "completed", "cancelled"},
         At(p, op)
  PROVE  \E i \in DOMAIN transfers : session[p].txn = {i} /\ OnTransfer(session[p], i)
BY PlainOps, IdleFacts DEF OnCourse, At, Busy

-----------------------------------------------------------------------------
(* What a step of one request leaves to the others.                         *)

\* The stretches only depend on what never changes in a transfer.
LEMMA SameStretches ==
  ASSUME NEW t, NEW u, t.from = u.from, t.to = u.to, t.amount = u.amount
  PROVE  /\ Approval(t) = Approval(u) /\ Payment(t) = Payment(u)
         /\ Delivery(t) = Delivery(u) /\ Arrival(t) = Arrival(u)
         /\ Reversal(t) = Reversal(u) /\ Refund(t) = Refund(u)
         /\ Withdrawal(t) = Withdrawal(u) /\ Removal(t) = Removal(u)
<1>1. Deliver(t) = Deliver(u) /\ Withdraw(t) = Withdraw(u)
  BY DEF Deliver, Withdraw
<1> QED
  BY <1>1 DEF Approval, Payment, Delivery, Arrival, Reversal, Refund, Withdrawal, Removal

Whole(i) ==
  LET t == transfers[i]
      n == IF t.status \in {"in_transit", "completed"} THEN t.amount ELSE 0
  IN t.to \in Vaults => moved[i] = [out |-> n, in |-> n]

Waits(i) == transfers[i].status = "pending" => moved[i] = [out |-> 0, in |-> 0]

\* The other sessions, the transfers p does not handle and the rows nobody else
\* has looked at stay what they are; no transfer waits again.
Keeps(p) ==
  /\ DOMAIN session' = Sessions
  /\ \A q \in Sessions \ {p} : session'[q] = session[q]
  /\ DOMAIN transfers \subseteq DOMAIN transfers' /\ Len(transfers) <= Len(transfers')
  /\ disturbed \subseteq disturbed' /\ contended \subseteq contended'
  /\ \A i \in DOMAIN transfers :
       /\ transfers'[i].from = transfers[i].from /\ transfers'[i].to = transfers[i].to
       /\ transfers'[i].amount = transfers[i].amount
       /\ transfers[i].status # "pending" => transfers'[i].status # "pending"
       /\ i \notin session[p].txn => transfers'[i] = transfers[i] /\ moved'[i] = moved[i]
  /\ \A v \in Vaults :
       \/ Visible(v)' = Visible(v)
       \/ v \in contended'
       \/ \A q \in Sessions \ {p} : v \notin session[q].seen

\* p sees that it shares a transfer or a vault with another request.
Notices(p) ==
  \A q \in Sessions \ {p} :
    /\ session'[p].txn \cap session[q].txn \subseteq disturbed'
    /\ session'[p].seen \cap session[q].seen \subseteq contended'

\* The transfers p handled or made, and those it lets go.
Settles(p) ==
  \A i \in DOMAIN transfers' :
    i \notin DOMAIN transfers \/ i \in session[p].txn =>
      /\ Waits(i)'
      /\ i \notin session'[p].txn /\ i \notin disturbed' => Whole(i)'

\* A step that keeps what the others rely on leaves them on course, and what they know true.
LEMMA OthersKept ==
  ASSUME VaultInv, NEW p \in Sessions, Keeps(p), NEW q \in Sessions \ {p}
  PROVE  OnCourse(q)' /\ KnowsBalance(q)'
<1>1. /\ session'[q] = session[q] /\ OnCourse(q) /\ KnowsBalance(q)
      /\ session[p].txn \cap session[q].txn \subseteq disturbed
      /\ disturbed \subseteq disturbed' /\ contended \subseteq contended'
      /\ DOMAIN transfers \subseteq DOMAIN transfers' /\ Len(transfers) <= Len(transfers')
      /\ Len(transfers) \in Nat /\ Len(transfers') \in Nat
  BY DEF VaultInv, Keeps, SharedIsKnown, TypeOK
<1>2. ASSUME NEW i \in DOMAIN transfers, session[q].txn = {i}, OnTransfer(session[q], i)
      PROVE  OnTransfer(session[q], i)'
  <2> DEFINE t == transfers[i]
             u == transfers'[i]
  <2>1. t.from = u.from /\ t.to = u.to /\ t.amount = u.amount
        /\ (t.status # "pending" => u.status # "pending")
    BY DEF Keeps
  <2>2. /\ Approval(t) = Approval(u) /\ Payment(t) = Payment(u)
        /\ Delivery(t) = Delivery(u) /\ Arrival(t) = Arrival(u)
        /\ Reversal(t) = Reversal(u) /\ Refund(t) = Refund(u)
        /\ Withdrawal(t) = Withdrawal(u) /\ Removal(t) = Removal(u)
    <3> HIDE DEF t, u
    <3> QED
      BY <2>1, SameStretches
  <2>3. i \in disturbed' \/ (i \notin disturbed /\ u = t /\ moved'[i] = moved[i])
    BY <1>1, <1>2 DEF Keeps
  <2> QED
    BY <1>1, <1>2, <2>1, <2>2, <2>3 DEF OnTransfer
<1>3. OnCourse(q)'
  BY <1>1, <1>2 DEF OnCourse
<1>4. KnowsBalance(q)'
  <2> SUFFICES ASSUME NEW v \in Vaults, Holds(session'[q], v)
               PROVE  v \in session'[q].seen /\ (v \notin contended' => session'[q].copy = Visible(v)')
    BY DEF KnowsBalance
  <2>1. Holds(session[q], v)
    BY <1>1
  <2>2. v \in session[q].seen /\ (v \notin contended => session[q].copy = Visible(v))
    BY <1>1, <2>1 DEF KnowsBalance
  <2> QED
    BY <1>1, <2>2 DEF Keeps
<1> QED
  BY <1>3, <1>4

\* A step that notices those it races with keeps SharedIsKnown.
LEMMA SharedKept ==
  ASSUME VaultInv, NEW p \in Sessions, Keeps(p), Notices(p)
  PROVE  SharedIsKnown'
<1> SUFFICES ASSUME NEW a \in Sessions, NEW b \in Sessions, a # b
             PROVE  /\ session'[a].txn \cap session'[b].txn \subseteq disturbed'
                    /\ session'[a].seen \cap session'[b].seen \subseteq contended'
  BY DEF SharedIsKnown
<1>1. CASE a = p
  BY <1>1 DEF Keeps, Notices
<1>2. CASE b = p
  BY <1>2 DEF Keeps, Notices
<1>3. CASE a # p /\ b # p
  BY <1>3 DEF Keeps, VaultInv, SharedIsKnown
<1> QED
  BY <1>1, <1>2, <1>3

\* A step that settles what it moves keeps the two invariants on transfers.
LEMMA TransfersKept ==
  ASSUME VaultInv, NEW p \in Sessions, Keeps(p), Settles(p)
  PROVE  PendingMovedNothing' /\ UndisturbedTransferIsWhole'
<1>1. ASSUME NEW i \in DOMAIN transfers'
      PROVE  Waits(i)'
  <2>1. CASE i \notin DOMAIN transfers \/ i \in session[p].txn
    BY <1>1, <2>1 DEF Settles
  <2>2. CASE i \in DOMAIN transfers /\ i \notin session[p].txn
    <3>1. transfers'[i] = transfers[i] /\ moved'[i] = moved[i]
      BY <2>2 DEF Keeps
    <3>2. Waits(i)
      BY <2>2 DEF VaultInv, PendingMovedNothing, Waits
    <3> QED
      BY <3>1, <3>2 DEF Waits
  <2> QED
    BY <2>1, <2>2
<1>2. ASSUME NEW i \in DOMAIN transfers', i \notin disturbed',
             \A q \in Sessions : i \notin session'[q].txn
      PROVE  Whole(i)'
  <2>1. CASE i \notin DOMAIN transfers \/ i \in session[p].txn
    BY <1>2, <2>1 DEF Settles
  <2>2. CASE i \in DOMAIN transfers /\ i \notin session[p].txn
    <3>1. transfers'[i] = transfers[i] /\ moved'[i] = moved[i] /\ i \notin disturbed
      BY <1>2, <2>2 DEF Keeps
    <3>2. \A q \in Sessions : i \notin session[q].txn
      BY <1>2, <2>2 DEF Keeps
    <3>3. Whole(i)
      BY <2>2, <3>1, <3>2 DEF VaultInv, UndisturbedTransferIsWhole, Whole
    <3> QED
      BY <3>1, <3>3 DEF Whole
  <2> QED
    BY <2>1, <2>2
<1> QED
  BY <1>1, <1>2 DEF PendingMovedNothing, UndisturbedTransferIsWhole, Waits, Whole

\* A step keeps the invariant when it keeps the others and does right by its own.
LEMMA StepIsEnough ==
  ASSUME VaultInv, NEW p \in Sessions, Keeps(p), Notices(p), Settles(p),
         TypeOK', adjusted' \in [Vaults -> Int], OnCourse(p)', KnowsBalance(p)',
         UncontendedVaultAddsUp'
  PROVE  VaultInv'
<1>1. \A q \in Sessions : OnCourse(q)' /\ KnowsBalance(q)'
  BY OthersKept
<1>2. DOMAIN session' = Sessions
  BY DEF Keeps
<1> QED
  BY <1>1, <1>2, SharedKept, TransfersKept DEF VaultInv

-----------------------------------------------------------------------------
(* How a session goes on, and what the flow of money adds up to.            *)

\* Goto changes the session that takes the step and no other.
LEMMA GotoFacts ==
  ASSUME DOMAIN session = Sessions, NEW p \in Sessions, NEW s, DOMAIN s = DOMAIN Idle,
         NEW rest, Goto(p, s, rest)
  PROVE  /\ DOMAIN session' = Sessions
         /\ \A q \in Sessions \ {p} : session'[q] = session[q]
         /\ rest = <<>> => session'[p] = Idle
         /\ rest # <<>> =>
              /\ DOMAIN session'[p] = DOMAIN Idle
              /\ session'[p].todo = rest /\ session'[p].req = s.req
              /\ session'[p].copy = s.copy /\ session'[p].number = s.number
              /\ session'[p].txn = s.txn /\ session'[p].seen = s.seen
              /\ session'[p].wrote = s.wrote
<1> DEFINE next == [s EXCEPT !.todo = rest]
<1>1. session' = [session EXCEPT ![p] = IF rest = <<>> THEN Idle ELSE next]
  BY DEF Goto
<1>2. /\ DOMAIN next = DOMAIN Idle
      /\ next.todo = rest /\ next.req = s.req /\ next.copy = s.copy /\ next.number = s.number
      /\ next.txn = s.txn /\ next.seen = s.seen /\ next.wrote = s.wrote
  BY IdleFacts
<1> HIDE DEF next
<1>3. session'[p] = IF rest = <<>> THEN Idle ELSE next
  BY <1>1
<1> QED
  BY <1>1, <1>2, <1>3

\* A session that becomes idle is on course and knows nothing false.
LEMMA IdleIsOnCourse ==
  ASSUME NEW p, session'[p] = Idle
  PROVE  OnCourse(p)' /\ KnowsBalance(p)'
<1>1. None \in Served /\ None.kind = "none" /\ {} \subseteq DOMAIN transfers'
  BY DEF Served, None
<1>2. OnCourse(p)'
  BY <1>1, IdleFacts DEF OnCourse, Reviewing
<1>3. KnowsBalance(p)'
  BY IdleFacts DEF KnowsBalance, Holds
<1> QED
  BY <1>2, <1>3

\* What v sent and received, row by row, for a table and what it has moved.
Rows == Seq(Transfers)
Moves == Seq([out : Int, in : Int])

Part(t, m, v) == (IF t.to = v THEN m.in ELSE 0) - (IF t.from = v THEN m.out ELSE 0)

Parts(rows, moves, v) == [k \in DOMAIN rows |-> Part(rows[k], moves[k], v)]

\* The flow of a vault is a total, before and after a step.
LEMMA FlowFacts ==
  ASSUME NEW v
  PROVE  /\ Flow(v) = TotalOf(Parts(transfers, moved, v))
         /\ Flow(v)' = TotalOf(Parts(transfers', moved', v))
BY DEF Flow, Parts, Part

\* The parts a flow is the total of, one per transfer.
LEMMA PartsFacts ==
  ASSUME NEW rows \in Rows, NEW moves \in Moves, DOMAIN moves = DOMAIN rows, NEW v
  PROVE  /\ Parts(rows, moves, v) \in Seq(Int)
         /\ Len(Parts(rows, moves, v)) = Len(rows)
         /\ \A k \in 1..Len(rows) : Parts(rows, moves, v)[k] = Part(rows[k], moves[k], v)
<1>1. Len(rows) \in Nat /\ DOMAIN rows = 1..Len(rows) /\ DOMAIN moves = 1..Len(moves)
  BY DEF Rows, Moves
<1>2. ASSUME NEW k \in DOMAIN rows
      PROVE  Part(rows[k], moves[k], v) \in Int
  <2>1. k \in 1..Len(moves)
    BY <1>1, <1>2
  <2>2. moves[k] \in [out : Int, in : Int]
    BY <2>1, ElementOfSeq DEF Moves
  <2> QED
    BY <2>2 DEF Part
<1>3. Parts(rows, moves, v) \in [1..Len(rows) -> Int]
  BY <1>1, <1>2 DEF Parts
<1>4. Parts(rows, moves, v) \in Seq(Int) /\ Len(Parts(rows, moves, v)) = Len(rows)
  BY <1>1, <1>3
<1> QED
  BY <1>1, <1>4 DEF Parts

\* The flow of a vault stays when no transfer changes its ends or what it moved.
LEMMA FlowKept ==
  ASSUME NEW v, DOMAIN transfers' = DOMAIN transfers, moved' = moved,
         \A k \in DOMAIN transfers : /\ transfers'[k].from = transfers[k].from
                                     /\ transfers'[k].to = transfers[k].to
  PROVE  Flow(v)' = Flow(v)
BY DEF Flow

\* A new transfer has moved nothing.
LEMMA FlowExtended ==
  ASSUME NEW rows \in Rows, NEW moves \in Moves, DOMAIN moves = DOMAIN rows, NEW v,
         NEW t \in Transfers
  PROVE  TotalOf(Parts(Append(rows, t), Append(moves, [out |-> 0, in |-> 0]), v))
           = TotalOf(Parts(rows, moves, v))
<1> DEFINE new == Append(rows, t)
           zero == [out |-> 0, in |-> 0]
           newMoves == Append(moves, zero)
           old == Parts(rows, moves, v)
           parts == Parts(new, newMoves, v)
<1>1. /\ Len(rows) \in Nat /\ DOMAIN rows = 1..Len(rows) /\ DOMAIN moves = 1..Len(moves)
      /\ Len(moves) \in Nat
  BY DEF Rows, Moves
<1>2. Len(moves) = Len(rows)
  BY <1>1
<1>3. /\ new \in Rows /\ newMoves \in Moves /\ DOMAIN newMoves = DOMAIN new
      /\ Len(new) = Len(rows) + 1
      /\ new[Len(rows) + 1] = t /\ newMoves[Len(rows) + 1] = zero
      /\ \A k \in 1..Len(rows) : new[k] = rows[k] /\ newMoves[k] = moves[k]
  BY <1>1, <1>2 DEF Rows, Moves
<1>4. Part(t, zero, v) = 0
  BY DEF Part
<1> HIDE DEF new, zero, newMoves
<1>5. /\ old \in Seq(Int) /\ Len(old) = Len(rows)
      /\ \A k \in 1..Len(rows) : old[k] = Part(rows[k], moves[k], v)
      /\ parts \in Seq(Int) /\ Len(parts) = Len(new)
      /\ \A k \in 1..Len(new) : parts[k] = Part(new[k], newMoves[k], v)
  BY <1>3, PartsFacts
<1> HIDE DEF old, parts
<1>6. parts = Append(old, 0)
  <2> DEFINE longer == Append(old, 0)
  <2>1. /\ longer \in Seq(Int) /\ Len(longer) = Len(rows) + 1 /\ longer[Len(rows) + 1] = 0
        /\ \A k \in 1..Len(rows) : longer[k] = old[k]
    BY <1>1, <1>5
  <2> HIDE DEF longer
  <2>2. ASSUME NEW k \in 1..(Len(rows) + 1)
        PROVE  parts[k] = longer[k]
    <3>1. parts[k] = Part(new[k], newMoves[k], v)
      BY <1>3, <1>5
    <3>2. CASE k = Len(rows) + 1
      BY <1>3, <1>4, <2>1, <3>1, <3>2
    <3>3. CASE k \in 1..Len(rows)
      <4>1. longer[k] = old[k] /\ old[k] = Part(rows[k], moves[k], v)
        BY <1>5, <2>1, <3>3
      <4>2. new[k] = rows[k] /\ newMoves[k] = moves[k]
        BY <1>3, <3>3
      <4> QED
        BY <3>1, <4>1, <4>2
    <3> QED
      BY <1>1, <3>2, <3>3
  <2>3. parts = longer
    BY <1>3, <1>5, <2>1, <2>2, SeqEqual
  <2> QED
    BY <2>3 DEF longer
<1>7. TotalOf(parts) = TotalOf(old) + 0 /\ TotalOf(old) \in Int
  BY <1>5, <1>6, TotalOfAppend, TotalOfType
<1>8. TotalOf(parts) = TotalOf(old)
  BY <1>7
<1> QED
  BY <1>8 DEF old, parts, new, newMoves, zero

\* One transfer moves more: the vaults it is from or to see the difference.
LEMMA FlowMoved ==
  ASSUME NEW rows \in Rows, NEW moves \in Moves, DOMAIN moves = DOMAIN rows, NEW v,
         NEW after \in Rows, NEW i \in DOMAIN rows, NEW m \in [out : Int, in : Int],
         DOMAIN after = DOMAIN rows,
         \A k \in DOMAIN rows : after[k].from = rows[k].from /\ after[k].to = rows[k].to
  PROVE  TotalOf(Parts(after, [moves EXCEPT ![i] = m], v))
           = TotalOf(Parts(rows, moves, v))
               + Part(rows[i], m, v) - Part(rows[i], moves[i], v)
<1> DEFINE newMoves == [moves EXCEPT ![i] = m]
           old == Parts(rows, moves, v)
           parts == Parts(after, newMoves, v)
           next == Part(rows[i], m, v)
<1>1. /\ Len(rows) \in Nat /\ DOMAIN rows = 1..Len(rows) /\ DOMAIN after = 1..Len(after)
      /\ Len(after) \in Nat
  BY DEF Rows
<1>2. Len(after) = Len(rows)
  BY <1>1
<1>3. /\ newMoves \in Moves /\ DOMAIN newMoves = DOMAIN rows /\ newMoves[i] = m
      /\ \A k \in 1..Len(rows) : k # i => newMoves[k] = moves[k]
  BY <1>1 DEF Moves
<1>4. next \in Int
  BY DEF Part
<1> HIDE DEF newMoves
<1>5. /\ old \in Seq(Int) /\ Len(old) = Len(rows)
      /\ \A k \in 1..Len(rows) : old[k] = Part(rows[k], moves[k], v)
  BY PartsFacts
<1>6. /\ parts \in Seq(Int) /\ Len(parts) = Len(after)
      /\ \A k \in 1..Len(after) : parts[k] = Part(after[k], newMoves[k], v)
  BY <1>3, PartsFacts
<1> HIDE DEF old, parts
<1>7. parts = [old EXCEPT ![i] = next]
  <2> DEFINE changed == [old EXCEPT ![i] = next]
  <2>1. /\ changed \in Seq(Int) /\ Len(changed) = Len(rows) /\ changed[i] = next
        /\ \A k \in 1..Len(rows) : k # i => changed[k] = old[k]
    BY <1>1, <1>4, <1>5
  <2> HIDE DEF changed
  <2>2. ASSUME NEW k \in 1..Len(rows)
        PROVE  parts[k] = changed[k]
    <3>1. parts[k] = Part(rows[k], newMoves[k], v)
      BY <1>1, <1>2, <1>6 DEF Part
    <3> QED
      BY <1>3, <1>5, <2>1, <3>1
  <2>3. parts = changed
    BY <1>2, <1>6, <2>1, <2>2, SeqEqual
  <2> QED
    BY <2>3 DEF changed
<1>8. TotalOf(parts) = TotalOf(old) + next - old[i]
  BY <1>1, <1>4, <1>5, <1>7, TotalOfExcept
<1>9. old[i] = Part(rows[i], moves[i], v)
  BY <1>1, <1>5
<1> QED
  BY <1>8, <1>9 DEF old, parts, newMoves

-----------------------------------------------------------------------------
(* Steps that move nothing.                                                 *)

\* What the invariant says of one session and of the rows.
LEMMA InvFacts ==
  ASSUME VaultInv, NEW p \in Sessions
  PROVE  /\ OnCourse(p) /\ KnowsBalance(p)
         /\ DOMAIN session = Sessions /\ DOMAIN session[p] = DOMAIN Idle
         /\ session[p].req \in Served /\ session[p].copy \in BalanceRow
         /\ session[p].number \in Nat /\ session[p].seen \subseteq Vaults
         /\ session[p].wrote \subseteq session[p].txn
         /\ session[p].txn \subseteq DOMAIN transfers
         /\ session[p].req.kind \in Reviewing => session[p].req.txn \in DOMAIN transfers
         /\ Len(transfers) \in Nat /\ DOMAIN transfers = 1..Len(transfers)
         /\ \A i \in DOMAIN transfers : transfers[i] \in Transfers
BY DEF VaultInv, OnCourse, TypeOK

\* A step that leaves balances and transfers alone keeps the invariant if its session's view is true.
LEMMA CalmStep ==
  ASSUME VaultInv, NEW p \in Sessions,
         UNCHANGED <<balance, transfers, moved, adjusted>>,
         active' \subseteq Vaults, made' \in 0..MaxRequests,
         DOMAIN session' = Sessions, \A q \in Sessions \ {p} : session'[q] = session[q],
         disturbed \subseteq disturbed', disturbed' \subseteq DOMAIN transfers,
         contended \subseteq contended', contended' \subseteq Vaults,
         OnCourse(p)', KnowsBalance(p)', Notices(p),
         \A i \in session[p].txn : i \notin session'[p].txn /\ i \notin disturbed' => Whole(i)
  PROVE  VaultInv'
<1>1. Keeps(p)
  BY DEF Keeps, Visible
<1>2. Settles(p)
  <2>1. ASSUME NEW i \in DOMAIN transfers
        PROVE  Waits(i)
    BY DEF VaultInv, PendingMovedNothing, Waits
  <2> QED
    BY <2>1, InvFacts DEF Settles, Waits, Whole
<1>3. TypeOK' /\ adjusted' \in [Vaults -> Int]
  BY DEF VaultInv, TypeOK
<1>4. UncontendedVaultAddsUp'
  <2>1. \A v : Flow(v)' = Flow(v)
    BY FlowKept
  <2>2. ASSUME NEW v \in Vaults \ contended'
        PROVE  Cell(balance', v) = Cell(Opening, v) + adjusted'[v] + Flow(v)'
    <3>1. v \in Vaults \ contended
      BY <2>2
    <3>2. Cell(balance, v) = Cell(Opening, v) + adjusted[v] + Flow(v)
      BY <3>1 DEF VaultInv, UncontendedVaultAddsUp
    <3> QED
      BY <2>1, <3>2
  <2> QED
    BY <2>2 DEF UncontendedVaultAddsUp, Cell
<1> QED
  BY <1>1, <1>2, <1>3, <1>4, StepIsEnough

\* A request cut off before its first commit leaves its transfer whole.
LEMMA CutIsWhole ==
  ASSUME VaultInv, NEW p \in Sessions, NEW i \in session[p].txn,
         i \notin session[p].wrote, i \notin disturbed
  PROVE  Whole(i)
<1>1. session[p].txn # {}
  OBVIOUS
<1>2. PICK j \in DOMAIN transfers : session[p].txn = {j} /\ OnTransfer(session[p], j)
  BY <1>1, InvFacts, IdleFacts DEF OnCourse
<1>3. j = i /\ session[p].wrote # {i}
  BY <1>2
<1>4. transfers[i] \in Transfers
  BY <1>2, <1>3, InvFacts
<1> QED
  BY <1>2, <1>3, <1>4 DEF OnTransfer, Whole, Transfers, Statuses

\* Fail keeps the invariant.
LEMMA FailSafe ==
  ASSUME VaultInv, NEW p \in Sessions, Fail(p), UNCHANGED made
  PROVE  VaultInv'
<1>1. /\ session' = [session EXCEPT ![p] = Idle] /\ disturbed' = disturbed \cup session[p].wrote
      /\ UNCHANGED <<active, balance, transfers, moved, adjusted, contended, made>>
  BY DEF Fail, tables
<1>2. /\ session'[p] = Idle /\ DOMAIN session' = Sessions
      /\ \A q \in Sessions \ {p} : session'[q] = session[q]
  BY <1>1, InvFacts
<1>3. OnCourse(p)' /\ KnowsBalance(p)'
  BY <1>2, IdleIsOnCourse
<1>4. Notices(p)
  BY <1>2, IdleFacts DEF Notices
<1>5. \A i \in session[p].txn : i \notin session'[p].txn /\ i \notin disturbed' => Whole(i)
  BY <1>1, CutIsWhole
<1>6. /\ active \subseteq Vaults /\ made \in 0..MaxRequests /\ contended \subseteq Vaults
      /\ disturbed \subseteq DOMAIN transfers /\ session[p].wrote \subseteq DOMAIN transfers
  BY InvFacts DEF VaultInv, TypeOK
<1> QED
  BY <1>1, <1>2, <1>3, <1>4, <1>5, <1>6, CalmStep

\* Begin keeps the invariant.
LEMMA BeginSafe ==
  ASSUME VaultInv, NEW p \in Sessions, NEW r \in Requests, Begin(p, r)
  PROVE  VaultInv'
<1>1. /\ ~ Busy(p) /\ made < MaxRequests /\ made' = made + 1
      /\ session' = [session EXCEPT ![p] = Begun(r)]
      /\ UNCHANGED <<active, balance, transfers, moved, adjusted, contended, disturbed>>
  BY DEF Begin, tables
<1>2. session[p] = Idle
  BY <1>1, InvFacts, NotBusy
<1> DEFINE s == Begun(r)
<1>3. /\ DOMAIN s = DOMAIN Idle /\ s.req = r /\ s.todo = Op("begin") /\ s.copy \in BalanceRow
      /\ s.number = 0 /\ s.txn = {} /\ s.seen = {} /\ s.wrote = {}
  BY IdleFacts DEF Begun, NoRow, BalanceRow
<1> HIDE DEF s
<1>4. /\ session'[p] = s /\ DOMAIN session' = Sessions
      /\ \A q \in Sessions \ {p} : session'[q] = session[q]
  BY <1>1, InvFacts DEF s
<1>5. r \in Served /\ r # None /\ (r.kind \in Reviewing => r.txn \in DOMAIN transfers)
  BY InvFacts, RequestsAreServed
<1>6. OnCourse(p)'
  BY <1>1, <1>3, <1>4, <1>5 DEF OnCourse
<1>7. KnowsBalance(p)'
  <2>1. Head(s.todo).op = "begin"
    BY <1>3, PlainOps
  <2> QED
    BY <1>4, <2>1 DEF KnowsBalance, Holds
<1>8. Notices(p)
  BY <1>3, <1>4 DEF Notices
<1>9. session[p].txn = {}
  BY <1>2, IdleFacts
<1>10. /\ active \subseteq Vaults /\ made' \in 0..MaxRequests /\ contended \subseteq Vaults
       /\ disturbed \subseteq DOMAIN transfers
  BY <1>1, VaultAssumption DEF VaultInv, TypeOK
<1> QED
  BY <1>1, <1>4, <1>6, <1>7, <1>8, <1>9, <1>10, CalmStep

\* Touching a vault marks it as contended for every other session that has seen it.
LEMMA TouchFacts ==
  ASSUME VaultInv, NEW p \in Sessions, NEW v \in Vaults, Touch(p, v)
  PROVE  /\ contended \subseteq contended' /\ contended' \subseteq Vaults
         /\ \A q \in Sessions \ {p} : v \in session[q].seen => v \in contended'
<1>1. contended \subseteq Vaults
  BY DEF VaultInv, TypeOK
<1>2. ASSUME NEW q \in Sessions \ {p}, v \in session[q].seen
      PROVE  q \in Others(p)
  <2>1. Busy(q)
    BY <1>2, InvFacts, NotBusy, IdleFacts
  <2> QED
    BY <2>1 DEF Others
<1> QED
  BY <1>1, <1>2 DEF Touch

\* The visible balance of a vault is its row, or an absent one.
LEMMA VisibleFacts ==
  ASSUME TypeOK, NEW v
  PROVE  /\ Visible(v) \in BalanceRow
         /\ Visible(v).balance = Cell(balance, v) /\ (Visible(v).found <=> v \in DOMAIN balance)
<1>1. v \in DOMAIN balance => balance[v] \in Nat
  BY DEF TypeOK
<1> QED
  BY <1>1 DEF Visible, NoRow, BalanceRow, Cell

\* A step that only takes its session on, from the point described by s.
LEMMA GoesOn ==
  ASSUME VaultInv, NEW p \in Sessions, UNCHANGED <<tables, made>>,
         disturbed \subseteq disturbed', disturbed' \subseteq DOMAIN transfers,
         contended \subseteq contended', contended' \subseteq Vaults,
         NEW s, DOMAIN s = DOMAIN Idle, NEW rest, rest # <<>>, Goto(p, s, rest),
         session[p].txn \subseteq s.txn,
         OnCourse(p)', KnowsBalance(p)',
         \A q \in Sessions \ {p} : /\ s.txn \cap session[q].txn \subseteq disturbed'
                                   /\ s.seen \cap session[q].seen \subseteq contended'
  PROVE  VaultInv'
<1>1. /\ DOMAIN session' = Sessions /\ session'[p].txn = s.txn /\ session'[p].seen = s.seen
      /\ \A q \in Sessions \ {p} : session'[q] = session[q]
  BY InvFacts, GotoFacts
<1>2. UNCHANGED <<active, balance, transfers, moved, adjusted, made>>
  BY DEF tables
<1>3. Notices(p)
  BY <1>1 DEF Notices
<1>4. active' \subseteq Vaults /\ made' \in 0..MaxRequests
  BY <1>2 DEF VaultInv, TypeOK
<1>5. \A i \in session[p].txn : i \notin session'[p].txn /\ i \notin disturbed' => Whole(i)
  BY <1>1
<1> QED
  BY <1>1, <1>2, <1>3, <1>4, <1>5, CalmStep

\* Check keeps the invariant.
LEMMA CheckSafe ==
  ASSUME VaultInv, NEW p \in Sessions, Check(p), UNCHANGED made
  PROVE  VaultInv'
<1> DEFINE r == session[p].req
           s == [session[p] EXCEPT !.copy = Visible(r.from), !.seen = {r.from}]
<1>1. At(p, "begin") /\ OnCourse(p)
  BY InvFacts DEF Check
<1>2. /\ session[p].txn = {} /\ session[p].seen = {} /\ r \in Served
      /\ session[p].wrote = {} /\ DOMAIN session[p] = DOMAIN Idle
      /\ session[p].copy \in BalanceRow /\ session[p].number \in Nat
  BY <1>1, AtBegin, InvFacts
<1>3. disturbed \subseteq DOMAIN transfers /\ contended \subseteq Vaults
  BY DEF VaultInv, TypeOK
<1>4. CASE /\ r.kind \in {"vault", "toBranch"}
           /\ Goto(p, s, Creation(r)) /\ Touch(p, r.from) /\ UNCHANGED <<tables, disturbed>>
  <2>1. /\ DOMAIN s = DOMAIN Idle /\ s.copy = Visible(r.from) /\ s.seen = {r.from}
        /\ s.txn = {} /\ s.wrote = {} /\ s.req = r /\ s.number \in Nat
    BY <1>2, IdleFacts
  <2> HIDE DEF s
  <2>2. r.from \in Vaults /\ r.kind \in Creating /\ r.kind \notin Reviewing
    BY <1>2, <1>4, ServedFacts DEF Creating, Reviewing
  <2>3. /\ Creation(r) # <<>> /\ Head(Creation(r)).op = "number"
    BY <1>2, <2>2, PlainOps
  <2>4. /\ session'[p].todo = Creation(r) /\ session'[p].req = r /\ session'[p].seen = {r.from}
        /\ session'[p].copy = Visible(r.from) /\ session'[p].txn = {} /\ session'[p].wrote = {}
        /\ session'[p].number \in Nat /\ DOMAIN session'[p] = DOMAIN Idle
    BY <1>4, <2>1, <2>3, InvFacts, GotoFacts
  <2>5. Visible(r.from) \in BalanceRow
    BY VisibleFacts DEF VaultInv
  <2>6. OnCourse(p)'
    BY <1>2, <2>2, <2>4, <2>5 DEF OnCourse
  <2>7. KnowsBalance(p)'
    <3>1. UNCHANGED balance
      BY <1>4 DEF tables
    <3> QED
      BY <2>3, <2>4, <3>1 DEF KnowsBalance, Holds, Visible
  <2>8. /\ contended \subseteq contended' /\ contended' \subseteq Vaults
        /\ \A q \in Sessions \ {p} : r.from \in session[q].seen => r.from \in contended'
    BY <1>4, <2>2, TouchFacts
  <2>9. /\ session[p].txn \subseteq s.txn /\ disturbed' = disturbed
        /\ \A q \in Sessions \ {p} : /\ s.txn \cap session[q].txn \subseteq disturbed'
                                     /\ s.seen \cap session[q].seen \subseteq contended'
    BY <1>2, <1>4, <2>1, <2>8
  <2>10. Goto(p, s, Creation(r)) /\ UNCHANGED <<tables, made>>
    BY <1>4
  <2> QED
    BY <1>3, <2>1, <2>3, <2>6, <2>7, <2>8, <2>9, <2>10, GoesOn
<1>5. CASE /\ r.kind = "fromBranch" /\ Goto(p, session[p], Creation(r))
           /\ UNCHANGED <<tables, contended, disturbed>>
  <2>1. r.kind \in Creating /\ r.kind \notin Reviewing
    BY <1>5 DEF Creating, Reviewing
  <2>2. Creation(r) # <<>> /\ Head(Creation(r)).op = "number"
    BY <1>2, <2>1, PlainOps
  <2>3. /\ session'[p].todo = Creation(r) /\ session'[p].req = r /\ session'[p].seen = {}
        /\ session'[p].copy = session[p].copy /\ session'[p].txn = {} /\ session'[p].wrote = {}
        /\ session'[p].number \in Nat /\ DOMAIN session'[p] = DOMAIN Idle
    BY <1>2, <1>5, <2>2, InvFacts, GotoFacts
  <2>4. OnCourse(p)'
    BY <1>2, <2>1, <2>3 DEF OnCourse
  <2>5. KnowsBalance(p)'
    BY <1>5, <2>2, <2>3 DEF KnowsBalance, Holds
  <2> QED
    BY <1>2, <1>3, <1>5, <2>2, <2>4, <2>5, GoesOn
<1>6. CASE Fail(p)
  BY <1>6, FailSafe
<1> QED
  BY <1>4, <1>5, <1>6 DEF Check

\* GenerateNumber keeps the invariant.
LEMMA GenerateNumberSafe ==
  ASSUME VaultInv, NEW p \in Sessions, GenerateNumber(p), UNCHANGED made
  PROVE  VaultInv'
<1> DEFINE r == session[p].req
           s == [session[p] EXCEPT !.number = Len(transfers) + 1]
<1>1. /\ At(p, "number") /\ Goto(p, s, Rest(p)) /\ UNCHANGED <<tables, contended, disturbed>>
  BY DEF GenerateNumber
<1>2. /\ r.kind \in Creating /\ session[p].txn = {} /\ session[p].todo = Creation(r)
      /\ r \in Served /\ session[p].wrote = {} /\ DOMAIN session[p] = DOMAIN Idle
      /\ session[p].copy \in BalanceRow /\ session[p].seen \subseteq Vaults
      /\ Len(transfers) \in Nat
  BY <1>1, AtNumber, InvFacts
<1>3. /\ DOMAIN s = DOMAIN Idle /\ s.copy = session[p].copy /\ s.seen = session[p].seen
      /\ s.txn = {} /\ s.wrote = {} /\ s.req = r /\ s.number = Len(transfers) + 1
  BY <1>2, IdleFacts
<1> HIDE DEF s
<1>4. /\ Rest(p) = Insertion(r) /\ Insertion(r) # <<>> /\ Head(Insertion(r)).op = "insert"
      /\ Head(session[p].todo).op = "number" /\ session[p].todo # <<>>
  BY <1>2, PlainOps DEF Rest
<1>5. /\ session'[p].todo = Insertion(r) /\ session'[p].req = r
      /\ session'[p].seen = session[p].seen /\ session'[p].copy = session[p].copy
      /\ session'[p].txn = {} /\ session'[p].wrote = {}
      /\ session'[p].number = Len(transfers) + 1 /\ DOMAIN session'[p] = DOMAIN Idle
  BY <1>1, <1>3, <1>4, InvFacts, GotoFacts
<1>6. UNCHANGED <<transfers, balance, contended>>
  BY <1>1 DEF tables
<1>7. OnCourse(p)'
  BY <1>2, <1>5, <1>6 DEF OnCourse, Creating, Reviewing
<1>8. KnowsBalance(p)'
  <2> SUFFICES ASSUME NEW v \in Vaults, Holds(session'[p], v)
               PROVE  v \in session'[p].seen /\ (v \notin contended' => session'[p].copy = Visible(v)')
    BY DEF KnowsBalance
  <2>1. r.kind = "vault" /\ v = r.from
    BY <1>4, <1>5 DEF Holds
  <2>2. Holds(session[p], v) /\ KnowsBalance(p)
    BY <1>4, <2>1, InvFacts DEF Holds
  <2> QED
    BY <1>5, <1>6, <2>2 DEF KnowsBalance, Visible
<1>9. /\ disturbed \subseteq DOMAIN transfers /\ contended \subseteq Vaults
      /\ \A q \in Sessions \ {p} : session[p].seen \cap session[q].seen \subseteq contended
  BY DEF VaultInv, TypeOK, SharedIsKnown
<1> QED
  BY <1>1, <1>2, <1>3, <1>4, <1>7, <1>8, <1>9, GoesOn

\* Two requests at one transfer: the second one notices.
LEMMA ReviewFacts ==
  ASSUME NEW t
  PROVE  /\ Review("approve", t) = Approval(t)
         /\ Review("complete", t) = Op("completed")
         /\ Review("reject", t) = Op("cancelled")
         /\ t.status = "in_transit" => Review("cancel", t) = Reversal(t)
         /\ t.status # "in_transit" => Review("cancel", t) = Op("cancelled")
<1>1. /\ Review("approve", t) = Approval(t)
      /\ Review("complete", t) = Op("completed")
      /\ Review("reject", t) = Op("cancelled")
      /\ t.status = "in_transit" => Review("cancel", t) = Reversal(t)
      /\ t.status # "in_transit" => Review("cancel", t) = <<>> \o Op("cancelled")
  BY DEF Review, Approval, Reversal
<1>2. <<>> \o Op("cancelled") = Op("cancelled")
  <2>1. Op("cancelled") \in Seq({Plain("cancelled")})
    BY OpFacts, Single
  <2> HIDE DEF Op
  <2> QED
    BY <2>1, ConcatEmptySeq
<1> QED
  BY <1>1, <1>2

\* LoadTransfer keeps the invariant.
LEMMA LoadTransferSafe ==
  ASSUME VaultInv, NEW p \in Sessions, LoadTransfer(p), UNCHANGED made
  PROVE  VaultInv'
<1> DEFINE r == session[p].req
           i == r.txn
           t == transfers[i]
           s == [session[p] EXCEPT !.txn = {i}]
           rest == Review(r.kind, t)
<1>1. At(p, "begin") /\ OnCourse(p) /\ r.kind \in Reviewing
  BY InvFacts DEF LoadTransfer
<1>2. /\ session[p].txn = {} /\ session[p].seen = {} /\ r \in Served /\ i \in DOMAIN transfers
      /\ session[p].wrote = {} /\ DOMAIN session[p] = DOMAIN Idle
      /\ session[p].copy \in BalanceRow /\ session[p].number \in Nat
  BY <1>1, AtBegin, InvFacts
<1>3. t \in Transfers
  BY <1>2, InvFacts
<1>4. CASE Fail(p)
  BY <1>4, FailSafe
<1>5. CASE /\ Reviewable(r.kind, t) /\ Goto(p, s, rest)
           /\ disturbed' = IF \E q \in Others(p) : i \in session[q].txn
                           THEN disturbed \cup {i} ELSE disturbed
           /\ UNCHANGED <<tables, contended>>
  <2>1. /\ DOMAIN s = DOMAIN Idle /\ s.copy = session[p].copy /\ s.seen = {}
        /\ s.txn = {i} /\ s.wrote = {} /\ s.req = r /\ s.number = session[p].number
    BY <1>2, IdleFacts
  <2> HIDE DEF s
  <2>2. UNCHANGED <<transfers, balance, moved, contended>>
    BY <1>5 DEF tables
  <2>3. ASSUME NEW q \in Sessions \ {p}, i \in session[q].txn
        PROVE  i \in disturbed'
    <3>1. Busy(q)
      BY <2>3, InvFacts, NotBusy, IdleFacts
    <3> QED
      BY <1>5, <2>3, <3>1 DEF Others
  <2>4. i \notin disturbed' => Whole(i)
    <3> SUFFICES ASSUME i \notin disturbed' PROVE Whole(i)
      OBVIOUS
    <3>1. i \in DOMAIN transfers \ disturbed /\ \A q \in Sessions : i \notin session[q].txn
      BY <1>2, <1>5, <2>3
    <3> QED
      BY <3>1 DEF VaultInv, UndisturbedTransferIsWhole, Whole
  <2>5. \/ r.kind = "approve" /\ rest = Approval(t) /\ t.status = "pending"
        \/ r.kind = "reject" /\ rest = Op("cancelled") /\ t.status = "pending"
        \/ r.kind = "complete" /\ rest = Op("completed") /\ t.status = "in_transit"
        \/ r.kind = "cancel" /\ rest = Reversal(t) /\ t.status = "in_transit"
        \/ r.kind = "cancel" /\ rest = Op("cancelled") /\ t.status = "pending"
    BY <1>1, <1>5, ReviewFacts DEF Reviewable, Reviewing
  <2>6. rest # <<>> /\ Head(rest).op \in {"read", "completed", "cancelled"}
    <3>1. Approval(t) # <<>> /\ Head(Approval(t)).op = "read"
      BY StretchOps
    <3>2. Reversal(t) # <<>> /\ Head(Reversal(t)).op = "read"
      BY StretchOps
    <3>3. \A op : Op(op) # <<>> /\ Head(Op(op)).op = op
      BY PlainOps
    <3> HIDE DEF rest, t
    <3> QED
      BY <2>5, <3>1, <3>2, <3>3
  <2> HIDE DEF rest
  <2>7. /\ session'[p].todo = rest /\ session'[p].req = r /\ session'[p].seen = {}
        /\ session'[p].copy = session[p].copy /\ session'[p].txn = {i}
        /\ session'[p].wrote = {}
        /\ session'[p].number = session[p].number /\ DOMAIN session'[p] = DOMAIN Idle
    BY <1>5, <2>1, <2>6, InvFacts, GotoFacts
  <2>8. OnTransfer(session[p], i)'
    BY <2>2, <2>4, <2>5, <2>7 DEF OnTransfer, Whole
  <2>9. OnCourse(p)'
    BY <1>2, <2>2, <2>7, <2>8 DEF OnCourse
  <2>10. KnowsBalance(p)'
    BY <2>6, <2>7 DEF KnowsBalance, Holds
  <2>11. /\ disturbed \subseteq disturbed' /\ disturbed' \subseteq DOMAIN transfers
         /\ contended \subseteq contended' /\ contended' \subseteq Vaults
    BY <1>2, <1>5 DEF VaultInv, TypeOK
  <2>12. /\ session[p].txn \subseteq s.txn
         /\ \A q \in Sessions \ {p} : /\ s.txn \cap session[q].txn \subseteq disturbed'
                                      /\ s.seen \cap session[q].seen \subseteq contended'
    BY <1>2, <2>1, <2>3
  <2> QED
    BY <1>5, <2>1, <2>6, <2>9, <2>10, <2>11, <2>12, GoesOn
<1> QED
  BY <1>4, <1>5 DEF LoadTransfer

\* The stretches of a transfer, by their definitions.
Stretches(t) == {Approval(t), Payment(t), Delivery(t), Arrival(t), Reversal(t), Refund(t),
                 Withdrawal(t), Removal(t), Op("completed"), Op("cancelled")}

\* After its SELECT a request is ready to write the row it has read.
LEMMA ReadThenMove ==
  ASSUME NEW t \in Transfers, NEW q \in Stretches(t), Head(q).op = "read"
  PROVE  /\ Head(q).vault \in Vaults
         /\ Tail(q) # <<>> /\ Head(Tail(q)).op = "move" /\ Head(Tail(q)).vault = Head(q).vault
         /\ q = Delivery(t) \/ q = Withdrawal(t) => t.to \in Vaults
<1>1. t.from \in Vaults
  BY DEF Transfers
<1>2. \/ q = Approval(t)
      \/ q = Delivery(t) /\ t.to \in Vaults
      \/ q = Reversal(t)
      \/ q = Withdrawal(t) /\ t.to \in Vaults
  BY StretchOps, PlainOps DEF Stretches
<1>3. ASSUME NEW next, NEW v \in Vaults, NEW a, NEW side, NEW end,
             Leads(q, Read(v), next), Leads(next, Move(v, a, side), end)
      PROVE  /\ Head(q).vault \in Vaults
             /\ Tail(q) # <<>> /\ Head(Tail(q)).op = "move" /\ Head(Tail(q)).vault = Head(q).vault
  <2>1. Head(q) = Read(v) /\ Tail(q) = next /\ next # <<>> /\ Head(next) = Move(v, a, side)
    BY <1>3 DEF Leads
  <2>2. Read(v).vault = v
    BY ReadMoveFacts
  <2>3. Move(v, a, side).op = "move" /\ Move(v, a, side).vault = v
    BY ReadMoveFacts
  <2> QED
    BY <2>1, <2>2, <2>3
<1>4. CASE q = Approval(t)
  <2>1. Leads(q, Read(t.from), Payment(t))
    BY <1>4, ForthFacts
  <2>2. Leads(Payment(t), Move(t.from, -t.amount, "out"), Delivery(t))
    BY ForthFacts
  <2> QED
    BY <1>1, <1>2, <1>3, <2>1, <2>2, StretchOps
<1>5. CASE q = Delivery(t) /\ t.to \in Vaults
  <2>1. Leads(q, Read(t.to), Arrival(t))
    BY <1>5, ForthFacts
  <2>2. Leads(Arrival(t), Move(t.to, t.amount, "in"), <<>>)
    BY ForthFacts
  <2> QED
    BY <1>5, <1>3, <2>1, <2>2
<1>6. CASE q = Reversal(t)
  <2>1. Leads(q, Read(t.from), Refund(t))
    BY <1>6, BackFacts
  <2>2. Leads(Refund(t), Move(t.from, t.amount, "out"), Withdrawal(t))
    BY BackFacts
  <2> QED
    BY <1>1, <1>2, <1>3, <2>1, <2>2, StretchOps
<1>7. CASE q = Withdrawal(t) /\ t.to \in Vaults
  <2>1. Leads(q, Read(t.to), Removal(t))
    BY <1>7, BackFacts
  <2>2. Leads(Removal(t), Move(t.to, -t.amount, "in"), Op("cancelled"))
    BY BackFacts
  <2> QED
    BY <1>7, <1>3, <2>1, <2>2
<1> QED
  BY <1>2, <1>4, <1>5, <1>6, <1>7

\* A session working on a transfer has one of the transfer's stretches to do.
LEMMA OnStretch ==
  ASSUME NEW s, NEW i, OnTransfer(s, i)
  PROVE  s.todo \in Stretches(transfers[i])
BY DEF OnTransfer, Stretches

\* What follows the first operation of each stretch.
LEMMA StretchTails ==
  ASSUME NEW t
  PROVE  /\ Tail(Approval(t)) = Payment(t) /\ Tail(Payment(t)) = Delivery(t)
         /\ t.to \in Vaults => Tail(Delivery(t)) = Arrival(t)
         /\ Tail(Arrival(t)) = <<>>
         /\ Tail(Reversal(t)) = Refund(t) /\ Tail(Refund(t)) = Withdrawal(t)
         /\ t.to \in Vaults => Tail(Withdrawal(t)) = Removal(t)
         /\ Tail(Removal(t)) = Op("cancelled")
<1>1. ASSUME NEW q, NEW a, NEW rest, Leads(q, a, rest)
      PROVE  Tail(q) = rest
  BY <1>1 DEF Leads
<1>2. /\ Tail(Approval(t)) = Payment(t) /\ Tail(Payment(t)) = Delivery(t)
      /\ t.to \in Vaults => Tail(Delivery(t)) = Arrival(t)
      /\ Tail(Arrival(t)) = <<>>
  BY <1>1, ForthFacts
<1>3. /\ Tail(Reversal(t)) = Refund(t) /\ Tail(Refund(t)) = Withdrawal(t)
      /\ t.to \in Vaults => Tail(Withdrawal(t)) = Removal(t)
      /\ Tail(Removal(t)) = Op("cancelled")
  BY <1>1, BackFacts
<1> QED
  BY <1>2, <1>3

\* A read takes a request to the write of the same stretch.
LEMMA ReadStays ==
  ASSUME NEW s, NEW i, OnTransfer(s, i), Head(s.todo).op = "read", NEW u, u.req = s.req,
         u.wrote = s.wrote, u.todo = Tail(s.todo)
  PROVE  OnTransfer(u, i)
<1> DEFINE t == transfers[i]
<1>1. /\ Head(Payment(t)).op = "move" /\ Head(Arrival(t)).op = "move"
      /\ Head(Refund(t)).op = "move" /\ Head(Removal(t)).op = "move"
      /\ Head(Op("completed")).op = "completed" /\ Head(Op("cancelled")).op = "cancelled"
      /\ Head(Delivery(t)).op = "read" => t.to \in Vaults
      /\ Head(Withdrawal(t)).op = "read" => t.to \in Vaults
  BY StretchOps, PlainOps
<1>2. /\ Tail(Approval(t)) = Payment(t) /\ Tail(Reversal(t)) = Refund(t)
      /\ t.to \in Vaults => Tail(Delivery(t)) = Arrival(t)
      /\ t.to \in Vaults => Tail(Withdrawal(t)) = Removal(t)
  BY StretchTails
<1> QED
  BY <1>1, <1>2 DEF OnTransfer

\* ReadBalance keeps the invariant.
LEMMA ReadBalanceSafe ==
  ASSUME VaultInv, NEW p \in Sessions, ReadBalance(p), UNCHANGED made
  PROVE  VaultInv'
<1> DEFINE v == Head(session[p].todo).vault
           s == [session[p] EXCEPT !.copy = Visible(v), !.seen = @ \cup {v}]
           rest == Rest(p)
<1>1. /\ At(p, "read") /\ Goto(p, s, rest) /\ Touch(p, v) /\ UNCHANGED <<tables, disturbed>>
  BY DEF ReadBalance
<1>2. /\ session[p].req \in Served /\ DOMAIN session[p] = DOMAIN Idle
      /\ session[p].wrote \subseteq session[p].txn
      /\ session[p].number \in Nat /\ session[p].seen \subseteq Vaults
      /\ session[p].req.kind \in Reviewing => session[p].req.txn \in DOMAIN transfers
  BY InvFacts
<1>3. PICK i \in DOMAIN transfers : session[p].txn = {i} /\ OnTransfer(session[p], i)
  BY <1>1, InvFacts, AtTransfer
<1>4. v \in Vaults /\ rest # <<>> /\ Head(rest).op = "move" /\ Head(rest).vault = v
  BY <1>1, <1>3, OnStretch, ReadThenMove, InvFacts DEF At, Rest
<1>5. /\ DOMAIN s = DOMAIN Idle /\ s.copy = Visible(v) /\ s.seen = session[p].seen \cup {v}
      /\ s.txn = {i} /\ s.wrote = session[p].wrote /\ s.req = session[p].req
      /\ s.number = session[p].number
  BY <1>2, <1>3, IdleFacts
<1> HIDE DEF s, rest
<1>6. /\ session'[p].todo = rest /\ session'[p].req = session[p].req
      /\ session'[p].seen = session[p].seen \cup {v}
      /\ session'[p].copy = Visible(v) /\ session'[p].txn = {i}
      /\ session'[p].wrote = session[p].wrote
      /\ session'[p].number = session[p].number /\ DOMAIN session'[p] = DOMAIN Idle
  BY <1>1, <1>4, <1>5, InvFacts, GotoFacts
<1>7. UNCHANGED <<transfers, balance, moved, disturbed>>
  BY <1>1 DEF tables
<1>8. Visible(v) \in BalanceRow
  BY VisibleFacts DEF VaultInv
<1>9. OnTransfer(session[p], i)'
  <2>1. Head(session[p].todo).op = "read" /\ rest = Tail(session[p].todo)
    BY <1>1 DEF At, rest, Rest
  <2>2. OnTransfer(session'[p], i)
    BY <1>3, <1>6, <2>1, ReadStays
  <2> QED
    BY <1>7, <2>2 DEF OnTransfer
<1>10. OnCourse(p)'
  BY <1>2, <1>3, <1>4, <1>6, <1>7, <1>8, <1>9 DEF OnCourse
<1>11. KnowsBalance(p)'
  BY <1>4, <1>6, <1>7 DEF KnowsBalance, Holds, Visible
<1>12. /\ contended \subseteq contended' /\ contended' \subseteq Vaults
       /\ \A q \in Sessions \ {p} : v \in session[q].seen => v \in contended'
  BY <1>1, <1>4, TouchFacts
<1>13. \A q \in Sessions \ {p} : /\ session[p].seen \cap session[q].seen \subseteq contended
                                 /\ session[p].txn \cap session[q].txn \subseteq disturbed
  BY DEF VaultInv, SharedIsKnown
<1>14. disturbed' \subseteq DOMAIN transfers
  BY <1>7 DEF VaultInv, TypeOK
<1> QED
  BY <1>1, <1>3, <1>4, <1>5, <1>7, <1>10, <1>11, <1>12, <1>13, <1>14, GoesOn

\* CloseVault keeps the invariant.
LEMMA CloseVaultSafe ==
  ASSUME VaultInv, NEW p \in Sessions, CloseVault(p), UNCHANGED made
  PROVE  VaultInv'
<1> DEFINE v == session[p].req.vault
<1>1. CASE Fail(p)
  BY <1>1, FailSafe
<1>2. CASE /\ At(p, "begin") /\ active' = active \ {v} /\ Goto(p, session[p], Rest(p))
           /\ UNCHANGED <<balance, transfers, moved, adjusted, contended, disturbed>>
  <2>1. /\ session[p].todo = Op("begin") /\ session[p].txn = {}
    BY <1>2, InvFacts, AtBegin
  <2>2. Rest(p) = <<>>
    BY <2>1, PlainOps DEF Rest
  <2>3. /\ session'[p] = Idle /\ DOMAIN session' = Sessions
        /\ \A q \in Sessions \ {p} : session'[q] = session[q]
    BY <1>2, <2>2, InvFacts, GotoFacts
  <2>4. OnCourse(p)' /\ KnowsBalance(p)'
    BY <2>3, IdleIsOnCourse
  <2>5. Notices(p)
    BY <2>3, IdleFacts DEF Notices
  <2>6. /\ active' \subseteq Vaults /\ made' \in 0..MaxRequests
        /\ disturbed' \subseteq DOMAIN transfers /\ contended' \subseteq Vaults
    BY <1>2 DEF VaultInv, TypeOK
  <2> QED
    BY <1>2, <2>1, <2>3, <2>4, <2>5, <2>6, CalmStep
<1> QED
  BY <1>1, <1>2 DEF CloseVault

-----------------------------------------------------------------------------
(* Steps that write a transfer.                                             *)

\* Changing one transfer's status changes nothing else of the transfers.
LEMMA StatusChanged ==
  ASSUME TypeOK, NEW i \in DOMAIN transfers, NEW status \in Statuses,
         transfers' = [transfers EXCEPT ![i].status = status]
  PROVE  /\ transfers' \in Rows /\ DOMAIN transfers' = DOMAIN transfers
         /\ Len(transfers') = Len(transfers)
         /\ transfers'[i].from = transfers[i].from /\ transfers'[i].to = transfers[i].to
         /\ transfers'[i].amount = transfers[i].amount /\ transfers'[i].status = status
         /\ \A k \in DOMAIN transfers : k # i => transfers'[k] = transfers[k]
<1> DEFINE t == [transfers[i] EXCEPT !.status = status]
<1>1. transfers[i] \in Transfers /\ transfers \in Seq(Transfers)
  BY DEF TypeOK
<1>2. /\ t \in Transfers /\ t.from = transfers[i].from /\ t.to = transfers[i].to
      /\ t.amount = transfers[i].amount /\ t.status = status
  BY <1>1 DEF Transfers
<1>3. transfers' = [transfers EXCEPT ![i] = t]
  OBVIOUS
<1> HIDE DEF t
<1> QED
  BY <1>1, <1>2, <1>3 DEF Rows

\* SetStatus keeps the invariant.
LEMMA SetStatusSafe ==
  ASSUME VaultInv, NEW p \in Sessions, SetStatus(p), UNCHANGED made
  PROVE  VaultInv'
<1>1. PICK status \in {"completed", "cancelled"} :
        /\ At(p, status)
        /\ \E i \in session[p].txn :
             /\ transfers' = [transfers EXCEPT ![i].status = status]
             /\ Goto(p, [session[p] EXCEPT !.wrote = {i}], Rest(p))
        /\ UNCHANGED <<active, balance, moved, adjusted, contended, disturbed>>
  BY DEF SetStatus
<1>2. PICK i \in DOMAIN transfers : session[p].txn = {i} /\ OnTransfer(session[p], i)
  BY <1>1, InvFacts, AtTransfer
<1> DEFINE s == [session[p] EXCEPT !.wrote = {i}]
           t == transfers[i]
<1>3. /\ transfers' = [transfers EXCEPT ![i].status = status] /\ Goto(p, s, Rest(p))
      /\ TypeOK /\ t \in Transfers
  BY <1>1, <1>2, InvFacts DEF VaultInv
<1>4. /\ transfers' \in Rows /\ DOMAIN transfers' = DOMAIN transfers
      /\ Len(transfers') = Len(transfers)
      /\ transfers'[i].from = t.from /\ transfers'[i].to = t.to
      /\ transfers'[i].amount = t.amount /\ transfers'[i].status = status
      /\ \A k \in DOMAIN transfers : k # i => transfers'[k] = transfers[k]
  BY <1>1, <1>3, StatusChanged DEF Statuses
<1>5. Head(session[p].todo).op = status
  BY <1>1 DEF At
<1>6. session[p].todo = Op(status)
  <2> HIDE DEF t
  <2>1. session[p].todo \in Stretches(t)
    BY <1>2, OnStretch DEF t
  <2> QED
    BY <1>5, <2>1, StretchOps, PlainOps DEF Stretches
<1>7. /\ DOMAIN s = DOMAIN Idle /\ Rest(p) = <<>>
  BY <1>6, InvFacts, PlainOps DEF Rest
<1>8. /\ session'[p] = Idle /\ DOMAIN session' = Sessions
      /\ \A q \in Sessions \ {p} : session'[q] = session[q]
  BY <1>3, <1>7, InvFacts, GotoFacts
<1>9. OnCourse(p)' /\ KnowsBalance(p)'
  BY <1>8, IdleIsOnCourse
<1>10. Notices(p)
  BY <1>8, IdleFacts DEF Notices
<1>11. Keeps(p)
  BY <1>1, <1>2, <1>4, <1>8, InvFacts DEF Keeps, Visible
<1>12. i \notin disturbed => Whole(i)'
  <2>1. /\ Head(Approval(t)).op = "read" /\ Head(Payment(t)).op = "move"
        /\ Head(Delivery(t)).op \in {"read", "raise"} /\ Head(Arrival(t)).op = "move"
        /\ Head(Reversal(t)).op = "read" /\ Head(Refund(t)).op = "move"
        /\ Head(Withdrawal(t)).op \in {"read", "raise"} /\ Head(Removal(t)).op = "move"
        /\ Head(Op("completed")).op = "completed" /\ Head(Op("cancelled")).op = "cancelled"
    BY StretchOps, PlainOps
  <2>2. t.to \in Vaults /\ i \notin disturbed =>
          \/ status = "completed" /\ moved[i] = [out |-> t.amount, in |-> t.amount]
          \/ status = "cancelled" /\ moved[i] = [out |-> 0, in |-> 0]
    BY <1>1, <1>2, <1>5, <2>1 DEF OnTransfer
  <2> QED
    BY <1>1, <1>4, <2>2 DEF Whole
<1>13. Settles(p)
  BY <1>1, <1>2, <1>4, <1>12 DEF Settles, Waits
<1>14. TypeOK' /\ adjusted' \in [Vaults -> Int]
  BY <1>1, <1>4 DEF VaultInv, TypeOK, Rows
<1>15. UncontendedVaultAddsUp'
  <2>1. \A v : Flow(v)' = Flow(v)
    BY <1>1, <1>4, FlowKept
  <2> QED
    BY <1>1, <2>1 DEF VaultInv, UncontendedVaultAddsUp, Cell
<1> QED
  BY <1>9, <1>10, <1>11, <1>13, <1>14, <1>15, StepIsEnough

\* InsertTransfer keeps the invariant.
LEMMA InsertTransferSafe ==
  ASSUME VaultInv, NEW p \in Sessions, InsertTransfer(p), UNCHANGED made
  PROVE  VaultInv'
<1> DEFINE r == session[p].req
           n == session[p].number
           s == [session[p] EXCEPT !.txn = {n}, !.wrote = {n}]
           t == Row(r)
           zero == [out |-> 0, in |-> 0]
           pays == r.kind = "vault" /\ r.amount < Threshold
<1>1. At(p, "insert")
  BY DEF InsertTransfer
<1>2. /\ r.kind \in Creating /\ session[p].txn = {} /\ session[p].todo = Insertion(r)
      /\ n <= Len(transfers) + 1 /\ n \in Nat /\ Len(transfers) \in Nat
      /\ r \in Served /\ session[p].wrote = {} /\ DOMAIN session[p] = DOMAIN Idle
      /\ session[p].copy \in BalanceRow /\ session[p].seen \subseteq Vaults
      /\ DOMAIN transfers = 1..Len(transfers)
  BY <1>1, AtInsert, InvFacts
<1>3. CASE Fail(p)
  BY <1>3, FailSafe
<1>4. CASE /\ ~ n <= Len(transfers) /\ transfers' = Append(transfers, t)
           /\ moved' = Append(moved, zero) /\ Goto(p, s, Rest(p))
           /\ UNCHANGED <<active, balance, adjusted, contended, disturbed>>
  <2>1. n = Len(transfers) + 1
    BY <1>2, <1>4
  <2>2. /\ transfers \in Rows /\ moved \in Moves /\ DOMAIN moved = DOMAIN transfers
        /\ Len(moved) = Len(transfers)
    <3>1. transfers \in Rows /\ moved \in Moves /\ DOMAIN moved = DOMAIN transfers
      BY DEF VaultInv, TypeOK, Rows, Moves
    <3>2. Len(moved) \in Nat /\ DOMAIN moved = 1..Len(moved)
      BY <3>1 DEF Moves
    <3> QED
      BY <1>2, <3>1, <3>2
  <2>3. /\ t \in Transfers /\ t.amount = r.amount /\ t.status \in {"pending", "in_transit"}
        /\ r.kind # "fromBranch" => t.from = r.from /\ t.to = r.to
        /\ r.kind = "vault" => (t.status = "in_transit" <=> r.amount < Threshold)
        /\ r.kind = "toBranch" => t.to \notin Vaults
        /\ r.kind = "fromBranch" => t.status = "pending"
    BY <1>2, RowFacts
  <2>4. /\ DOMAIN s = DOMAIN Idle /\ s.copy = session[p].copy /\ s.seen = session[p].seen
        /\ s.txn = {n} /\ s.wrote = {n} /\ s.req = r /\ s.number = n
    BY <1>2, IdleFacts
  <2>5. Rest(p) = IF pays THEN Payment(t) ELSE <<>>
    BY <1>2, CreationFacts DEF Rest, Leads
  <2>6. Payment(t) # <<>> /\ Head(Payment(t)).op = "move" /\ Head(Payment(t)).vault = t.from
    <3>1. Payment(t) # <<>> /\ Head(Payment(t)) = Move(t.from, -t.amount, "out")
      BY ForthFacts DEF Leads
    <3> QED
      BY <3>1, ReadMoveFacts
  <2> HIDE DEF s, t, zero
  <2>7. /\ transfers' \in Rows /\ Len(transfers') = n /\ DOMAIN transfers' = 1..n
        /\ moved' \in Moves /\ DOMAIN moved' = 1..n
        /\ transfers'[n] = t /\ moved'[n] = zero
        /\ \A k \in DOMAIN transfers : transfers'[k] = transfers[k] /\ moved'[k] = moved[k]
    <3>1. zero \in [out : Int, in : Int]
      BY DEF zero
    <3> QED
      BY <1>2, <1>4, <2>1, <2>2, <2>3, <3>1 DEF Rows, Moves
  <2>8. /\ DOMAIN session' = Sessions
        /\ \A q \in Sessions \ {p} : session'[q] = session[q]
        /\ ~ pays => session'[p] = Idle
        /\ pays => /\ DOMAIN session'[p] = DOMAIN Idle
                   /\ session'[p].todo = Payment(t) /\ session'[p].req = r
                   /\ session'[p].copy = session[p].copy /\ session'[p].number = n
                   /\ session'[p].txn = {n} /\ session'[p].seen = session[p].seen
                   /\ session'[p].wrote = {n}
    <3>1. DOMAIN session = Sessions
      BY InvFacts
    <3> HIDE DEF pays, r, n
    <3>2. CASE pays
      <4>1. Goto(p, s, Payment(t))
        BY <1>4, <2>5, <3>2
      <4> QED
        BY <2>4, <2>6, <3>1, <3>2, <4>1, GotoFacts
    <3>3. CASE ~ pays
      <4>1. Goto(p, s, <<>>)
        BY <1>4, <2>5, <3>3
      <4> QED
        BY <2>4, <3>1, <3>3, <4>1, GotoFacts
    <3> QED
      BY <3>2, <3>3
  <2>9. Keeps(p)
    BY <1>2, <1>4, <2>1, <2>7, <2>8 DEF Keeps, Visible
  <2>10. Notices(p)
    <3>1. \A q \in Sessions \ {p} : /\ n \notin session[q].txn
                                    /\ session[p].seen \cap session[q].seen \subseteq contended
      BY <1>2, <2>1, InvFacts DEF VaultInv, SharedIsKnown
    <3> QED
      BY <1>4, <2>8, <3>1, IdleFacts DEF Notices
  <2>11. Settles(p)
    <3> SUFFICES ASSUME NEW i \in DOMAIN transfers', i \notin DOMAIN transfers \/ i \in session[p].txn
                 PROVE  Waits(i)' /\ (i \notin session'[p].txn => Whole(i)')
      BY DEF Settles
    <3>1. i = n
      BY <1>2, <2>1, <2>7
    <3>2. transfers'[i] = t /\ moved'[i] = zero
      BY <2>7, <3>1
    <3>3. Waits(i)'
      BY <3>2 DEF Waits, zero
    <3>4. i \notin session'[p].txn => ~ pays
      BY <2>8, <3>1
    <3>5. ~ pays => Whole(i)'
      BY <1>2, <2>3, <3>2 DEF Whole, Creating, zero
    <3> QED
      BY <3>3, <3>4, <3>5
  <2>12. OnCourse(p)' /\ KnowsBalance(p)'
    <3>1. CASE ~ pays
      BY <2>8, <3>1, IdleIsOnCourse
    <3>2. CASE pays
      <4>1. PICK i : i = n
        OBVIOUS
      <4>2. i \in DOMAIN transfers' /\ OnTransfer(session[p], i)'
        BY <1>2, <2>1, <2>3, <2>7, <2>8, <3>2, <4>1 DEF OnTransfer, zero
      <4>3. OnCourse(p)'
        BY <1>2, <2>8, <3>2, <4>1, <4>2 DEF OnCourse, Creating, Reviewing
      <4>4. Holds(session[p], r.from) /\ KnowsBalance(p) /\ r.from \in Vaults
        BY <1>1, <1>2, <3>2, InvFacts, ServedFacts DEF Holds, At, Busy
      <4>5. ASSUME NEW v \in Vaults, Holds(session'[p], v)
            PROVE  v = r.from
        BY <2>3, <2>6, <2>8, <3>2, <4>5 DEF Holds
      <4>6. KnowsBalance(p)'
        BY <1>4, <2>8, <3>2, <4>4, <4>5 DEF KnowsBalance, Visible
      <4> QED
        BY <4>3, <4>6
    <3> QED
      BY <3>1, <3>2
  <2>13. TypeOK' /\ adjusted' \in [Vaults -> Int]
    BY <1>2, <1>4, <2>1, <2>7 DEF VaultInv, TypeOK, Rows, Moves
  <2>14. UncontendedVaultAddsUp'
    <3>1. ASSUME NEW v
          PROVE  Flow(v)' = Flow(v)
      BY <1>4, <2>2, <2>3, FlowFacts, FlowExtended DEF zero
    <3> QED
      BY <1>4, <3>1 DEF VaultInv, UncontendedVaultAddsUp, Cell
  <2> QED
    BY <2>9, <2>10, <2>11, <2>12, <2>13, <2>14, StepIsEnough
<1> QED
  BY <1>3, <1>4 DEF InsertTransfer

-----------------------------------------------------------------------------
(* Steps that write a balance.                                              *)

\* Storing a vault's balance changes that vault's balance and no other.
LEMMA StoreFacts ==
  ASSUME TypeOK, NEW v \in Vaults, NEW n \in Nat, Store(v, n)
  PROVE  /\ DOMAIN balance' \subseteq Vaults /\ balance' \in [DOMAIN balance' -> Nat]
         /\ Visible(v)' = [found |-> TRUE, balance |-> n] /\ Cell(balance', v) = n
         /\ \A u \in Vaults \ {v} : /\ Visible(u)' = Visible(u)
                                    /\ Cell(balance', u) = Cell(balance, u)
<1>1. DOMAIN balance \subseteq Vaults /\ \A u \in DOMAIN balance : balance[u] \in Nat
  BY DEF TypeOK
<1>2. /\ DOMAIN balance' = DOMAIN balance \cup {v} /\ balance'[v] = n
      /\ \A u \in DOMAIN balance \ {v} : balance'[u] = balance[u]
      /\ balance' \in [DOMAIN balance' -> Nat]
  BY <1>1 DEF Store
<1> QED
  BY <1>1, <1>2 DEF Visible, Cell

\* LookBeforeAdjust keeps the invariant.
LEMMA LookBeforeAdjustSafe ==
  ASSUME VaultInv, NEW p \in Sessions, LookBeforeAdjust(p), UNCHANGED made
  PROVE  VaultInv'
<1> DEFINE r == session[p].req
<1>0. PICK v : v = r.vault
  OBVIOUS
<1> DEFINE copy == [found |-> TRUE, balance |-> Visible(v).balance]
           s == [session[p] EXCEPT !.copy = copy, !.seen = {v}]
<1>1. At(p, "begin") /\ r.kind = "adjust"
  BY DEF LookBeforeAdjust
<1>2. /\ session[p].txn = {} /\ session[p].seen = {} /\ r \in Served
      /\ session[p].wrote = {} /\ DOMAIN session[p] = DOMAIN Idle
      /\ session[p].number \in Nat /\ v \in Vaults
  BY <1>0, <1>1, AtBegin, InvFacts, ServedFacts
<1>3. CASE Fail(p)
  BY <1>3, FailSafe
<1>4. CASE /\ IF v \in DOMAIN balance THEN UNCHANGED balance ELSE Store(v, 0)
           /\ Goto(p, s, Op("set")) /\ Touch(p, v)
           /\ UNCHANGED <<active, transfers, moved, adjusted, disturbed>>
  <2>1. /\ Visible(v) \in BalanceRow /\ Visible(v).balance = Cell(balance, v)
        /\ (Visible(v).found <=> v \in DOMAIN balance) /\ TypeOK
    BY VisibleFacts DEF VaultInv
  <2>2. copy \in BalanceRow
    BY <2>1 DEF BalanceRow
  <2>3. /\ DOMAIN balance' \subseteq Vaults /\ balance' \in [DOMAIN balance' -> Nat]
        /\ Visible(v)' = copy
        /\ \A u \in Vaults : Cell(balance', u) = Cell(balance, u)
        /\ \A u \in Vaults \ {v} : Visible(u)' = Visible(u)
    <3>1. CASE v \in DOMAIN balance
      <4>1. UNCHANGED balance
        BY <1>4, <3>1
      <4>2. Visible(v) = copy
        BY <3>1 DEF Visible
      <4> QED
        BY <2>1, <4>1, <4>2 DEF TypeOK, Visible
    <3>2. CASE v \notin DOMAIN balance
      <4>1. Store(v, 0) /\ Cell(balance, v) = 0
        BY <1>4, <3>2 DEF Cell
      <4>2. /\ DOMAIN balance' \subseteq Vaults /\ balance' \in [DOMAIN balance' -> Nat]
            /\ Visible(v)' = [found |-> TRUE, balance |-> 0] /\ Cell(balance', v) = 0
            /\ \A u \in Vaults \ {v} : /\ Visible(u)' = Visible(u)
                                       /\ Cell(balance', u) = Cell(balance, u)
        BY <1>2, <2>1, <4>1, StoreFacts
      <4> QED
        BY <2>1, <4>1, <4>2
    <3> QED
      BY <3>1, <3>2
  <2>4. /\ DOMAIN s = DOMAIN Idle /\ s.copy = copy /\ s.seen = {v}
        /\ s.txn = {} /\ s.wrote = {} /\ s.req = r /\ s.number \in Nat
    BY <1>2, IdleFacts
  <2> HIDE DEF s, copy
  <2>5. Op("set") # <<>> /\ Head(Op("set")).op = "set"
    BY PlainOps
  <2>6. /\ DOMAIN session' = Sessions /\ \A q \in Sessions \ {p} : session'[q] = session[q]
        /\ session'[p].todo = Op("set") /\ session'[p].req = r /\ session'[p].seen = {v}
        /\ session'[p].copy = copy /\ session'[p].txn = {} /\ session'[p].wrote = {}
        /\ session'[p].number \in Nat /\ DOMAIN session'[p] = DOMAIN Idle
    BY <1>4, <2>4, <2>5, InvFacts, GotoFacts
  <2>7. /\ contended \subseteq contended' /\ contended' \subseteq Vaults
        /\ \A q \in Sessions \ {p} : v \in session[q].seen => v \in contended'
    BY <1>2, <1>4, TouchFacts
  <2>8. Keeps(p)
    <3>1. \A u \in Vaults : \/ Visible(u)' = Visible(u)
                            \/ u \in contended'
                            \/ \A q \in Sessions \ {p} : u \notin session[q].seen
      BY <2>3, <2>7
    <3> QED
      BY <1>4, <2>6, <2>7, <3>1, InvFacts DEF Keeps
  <2>9. Notices(p)
    BY <2>6, <2>7 DEF Notices
  <2>10. Settles(p)
    BY <1>2, <1>4 DEF Settles
  <2>11. OnCourse(p)'
    BY <1>1, <1>2, <2>2, <2>6 DEF OnCourse, Reviewing
  <2>12. KnowsBalance(p)'
    <3> SUFFICES ASSUME NEW u \in Vaults, Holds(session'[p], u)
                 PROVE  u \in session'[p].seen /\ (u \notin contended' => session'[p].copy = Visible(u)')
      BY DEF KnowsBalance
    <3>1. u = v
      BY <1>0, <1>1, <2>5, <2>6 DEF Holds
    <3> QED
      BY <2>3, <2>6, <3>1
  <2>13. TypeOK' /\ adjusted' \in [Vaults -> Int]
    BY <1>4, <2>1, <2>3, <2>7 DEF VaultInv, TypeOK
  <2>14. UncontendedVaultAddsUp'
    <3>1. \A u : Flow(u)' = Flow(u)
      BY <1>4, FlowKept
    <3>2. ASSUME NEW u \in Vaults \ contended'
          PROVE  Cell(balance', u) = Cell(Opening, u) + adjusted'[u] + Flow(u)'
      <4>1. Cell(balance, u) = Cell(Opening, u) + adjusted[u] + Flow(u)
        BY <2>7, <3>2 DEF VaultInv, UncontendedVaultAddsUp
      <4> QED
        BY <1>4, <2>3, <3>1, <4>1
    <3> QED
      BY <3>2 DEF UncontendedVaultAddsUp, Cell
  <2> QED
    BY <2>8, <2>9, <2>10, <2>11, <2>12, <2>13, <2>14, StepIsEnough
<1> QED
  BY <1>0, <1>3, <1>4 DEF LookBeforeAdjust

\* A request only writes a row it has read, and knows if another may have changed it.
LEMMA WriterKnows ==
  ASSUME VaultInv, NEW p \in Sessions, NEW v \in Vaults, Holds(session[p], v)
  PROVE  /\ v \notin contended => session[p].copy.balance = Cell(balance, v)
         /\ v \in contended \/ \A q \in Sessions \ {p} : v \notin session[q].seen
<1>1. v \in session[p].seen /\ (v \notin contended => session[p].copy = Visible(v))
  BY InvFacts DEF KnowsBalance
<1>2. Visible(v).balance = Cell(balance, v)
  BY VisibleFacts DEF VaultInv
<1>3. \A q \in Sessions \ {p} : session[p].seen \cap session[q].seen \subseteq contended
  BY DEF VaultInv, SharedIsKnown
<1> QED
  BY <1>1, <1>2, <1>3

\* Adjust keeps the invariant.
LEMMA AdjustSafe ==
  ASSUME VaultInv, NEW p \in Sessions, Adjust(p), UNCHANGED made
  PROVE  VaultInv'
<1> DEFINE r == session[p].req
<1>1. PICK v, n, d : v = r.vault /\ n = r.count /\ d = n - session[p].copy.balance
  OBVIOUS
<1>2. /\ At(p, "set") /\ Goto(p, session[p], Rest(p))
      /\ UNCHANGED <<active, transfers, moved, contended, disturbed>>
      /\ IF d = 0 THEN UNCHANGED <<balance, adjusted>>
         ELSE Store(v, n) /\ adjusted' = [adjusted EXCEPT ![v] = @ + d]
  BY <1>1 DEF Adjust
<1>3. /\ r.kind = "adjust" /\ session[p].txn = {} /\ session[p].todo = Op("set")
      /\ v \in Vaults /\ n \in Nat /\ session[p].copy.balance \in Nat /\ d \in Int
  BY <1>1, <1>2, AtSet, InvFacts, ServedFacts DEF BalanceRow
<1>4. Rest(p) = <<>>
  BY <1>3, PlainOps DEF Rest
<1>5. /\ session'[p] = Idle /\ DOMAIN session' = Sessions
      /\ \A q \in Sessions \ {p} : session'[q] = session[q]
  BY <1>2, <1>4, InvFacts, GotoFacts
<1>6. OnCourse(p)' /\ KnowsBalance(p)'
  BY <1>5, IdleIsOnCourse
<1>7. Notices(p)
  BY <1>5, IdleFacts DEF Notices
<1>8. CASE d = 0
  <2>1. /\ active' \subseteq Vaults /\ made' \in 0..MaxRequests
        /\ disturbed' \subseteq DOMAIN transfers /\ contended' \subseteq Vaults
    BY <1>2 DEF VaultInv, TypeOK
  <2> QED
    BY <1>2, <1>3, <1>5, <1>6, <1>7, <1>8, <2>1, CalmStep
<1>9. CASE d # 0
  <2>1. Store(v, n) /\ adjusted' = [adjusted EXCEPT ![v] = @ + d]
    BY <1>2, <1>9
  <2>2. /\ DOMAIN balance' \subseteq Vaults /\ balance' \in [DOMAIN balance' -> Nat]
        /\ Cell(balance', v) = n
        /\ \A u \in Vaults \ {v} : /\ Visible(u)' = Visible(u)
                                   /\ Cell(balance', u) = Cell(balance, u)
    BY <1>3, <2>1, StoreFacts DEF VaultInv
  <2>3. Holds(session[p], v)
    <3>1. session[p].todo # <<>> /\ Head(session[p].todo).op = "set"
      BY <1>2 DEF At, Busy
    <3> QED
      BY <1>1, <3>1 DEF Holds
  <2>4. /\ v \notin contended => session[p].copy.balance = Cell(balance, v)
        /\ v \in contended \/ \A q \in Sessions \ {p} : v \notin session[q].seen
    BY <1>3, <2>3, WriterKnows
  <2>5. Keeps(p)
    <3>1. \A u \in Vaults : \/ Visible(u)' = Visible(u)
                            \/ u \in contended'
                            \/ \A q \in Sessions \ {p} : u \notin session[q].seen
      BY <1>2, <2>2, <2>4
    <3> QED
      BY <1>2, <1>5, <3>1, InvFacts DEF Keeps
  <2>6. Settles(p)
    BY <1>2, <1>3 DEF Settles
  <2>7. adjusted \in [Vaults -> Int]
    BY DEF VaultInv
  <2>8. adjusted' \in [Vaults -> Int] /\ adjusted'[v] = adjusted[v] + d
        /\ \A u \in Vaults \ {v} : adjusted'[u] = adjusted[u]
    BY <1>3, <2>1, <2>7
  <2>9. TypeOK'
    BY <1>2, <2>2 DEF VaultInv, TypeOK
  <2>10. UncontendedVaultAddsUp'
    <3>1. ASSUME NEW u
          PROVE  Flow(u)' = Flow(u) /\ Flow(u) \in Int
      <4>1. transfers \in Rows /\ moved \in Moves /\ DOMAIN moved = DOMAIN transfers
        BY DEF VaultInv, TypeOK, Rows, Moves
      <4>2. Flow(u) \in Int
        BY <4>1, FlowFacts, PartsFacts, TotalOfType
      <4> QED
        BY <1>2, <4>2, FlowKept
    <3>2. ASSUME NEW u \in Vaults \ contended
          PROVE  Cell(balance', u) = Cell(Opening, u) + adjusted'[u] + Flow(u)'
      <4>1. Cell(balance, u) = Cell(Opening, u) + adjusted[u] + Flow(u)
        BY DEF VaultInv, UncontendedVaultAddsUp
      <4>2. CASE u # v
        BY <2>2, <2>8, <3>1, <4>1, <4>2
      <4>3. CASE u = v
        <5>1. n = session[p].copy.balance + d
          BY <1>1, <1>3
        <5>2. Cell(Opening, u) \in Int
          BY VaultAssumption DEF Cell
        <5> QED
          BY <1>3, <2>2, <2>4, <2>7, <2>8, <3>1, <4>1, <4>3, <5>1, <5>2
      <4> QED
        BY <4>2, <4>3
    <3> QED
      BY <1>2, <3>2 DEF UncontendedVaultAddsUp, Cell
  <2> QED
    BY <1>6, <1>7, <2>5, <2>6, <2>8, <2>9, <2>10, StepIsEnough
<1> QED
  BY <1>8, <1>9

\* What transfer i has come to, unless it is disturbed.
Has(i, status, out, in) ==
  transfers[i].to \in Vaults /\ i \notin disturbed =>
    transfers[i].status = status /\ moved[i] = [out |-> out, in |-> in]

\* The four writes of a balance, and the point each leads to.
LEMMA MoveStages ==
  ASSUME NEW s, NEW i, NEW t, t = transfers[i], OnTransfer(s, i), Head(s.todo).op = "move"
  PROVE  \/ /\ s.req.kind \in {"vault", "approve"}
            /\ Head(s.todo) = Move(t.from, -t.amount, "out") /\ Tail(s.todo) = Delivery(t)
            /\ s.req.kind = "vault" => t.status # "pending"
            /\ Has(i, IF s.req.kind = "vault" THEN "in_transit" ELSE "pending", 0, 0)
         \/ /\ s.req.kind \in {"vault", "approve"} /\ t.to \in Vaults
            /\ Head(s.todo) = Move(t.to, t.amount, "in") /\ Tail(s.todo) = <<>>
            /\ t.status # "pending" /\ Has(i, "in_transit", t.amount, 0)
         \/ /\ s.req.kind = "cancel"
            /\ Head(s.todo) = Move(t.from, t.amount, "out") /\ Tail(s.todo) = Withdrawal(t)
            /\ t.status # "pending" /\ Has(i, "in_transit", t.amount, t.amount)
         \/ /\ s.req.kind = "cancel" /\ t.to \in Vaults
            /\ Head(s.todo) = Move(t.to, -t.amount, "in") /\ Tail(s.todo) = Op("cancelled")
            /\ t.status # "pending" /\ Has(i, "in_transit", 0, t.amount)
<1>1. /\ Head(Approval(t)).op = "read" /\ Head(Delivery(t)).op \in {"read", "raise"}
      /\ Head(Reversal(t)).op = "read" /\ Head(Withdrawal(t)).op \in {"read", "raise"}
      /\ Head(Op("completed")).op = "completed" /\ Head(Op("cancelled")).op = "cancelled"
  BY StretchOps, PlainOps
<1>2. \/ /\ s.req.kind \in {"vault", "approve"} /\ s.todo = Payment(t)
         /\ s.req.kind = "vault" => t.status # "pending"
         /\ Has(i, IF s.req.kind = "vault" THEN "in_transit" ELSE "pending", 0, 0)
      \/ /\ s.req.kind \in {"vault", "approve"} /\ s.todo = Arrival(t) /\ t.to \in Vaults
         /\ t.status # "pending" /\ Has(i, "in_transit", t.amount, 0)
      \/ /\ s.req.kind = "cancel" /\ s.todo = Refund(t)
         /\ t.status # "pending" /\ Has(i, "in_transit", t.amount, t.amount)
      \/ /\ s.req.kind = "cancel" /\ s.todo = Removal(t) /\ t.to \in Vaults
         /\ t.status # "pending" /\ Has(i, "in_transit", 0, t.amount)
  BY <1>1 DEF OnTransfer, Has
<1>3. /\ Head(Payment(t)) = Move(t.from, -t.amount, "out") /\ Tail(Payment(t)) = Delivery(t)
      /\ Head(Arrival(t)) = Move(t.to, t.amount, "in") /\ Tail(Arrival(t)) = <<>>
  BY ForthFacts DEF Leads
<1>4. /\ Head(Refund(t)) = Move(t.from, t.amount, "out") /\ Tail(Refund(t)) = Withdrawal(t)
      /\ Head(Removal(t)) = Move(t.to, -t.amount, "in") /\ Tail(Removal(t)) = Op("cancelled")
  BY BackFacts DEF Leads
<1> QED
  BY <1>2, <1>3, <1>4

\* MoveBalance keeps the invariant.
LEMMA MoveBalanceSafe ==
  ASSUME VaultInv, NEW p \in Sessions, MoveBalance(p), UNCHANGED made
  PROVE  VaultInv'
<1>1. At(p, "move")
  BY DEF MoveBalance
<1>2. PICK i \in DOMAIN transfers : session[p].txn = {i} /\ OnTransfer(session[p], i)
  BY <1>1, InvFacts, AtTransfer
<1>3. PICK t, m, kind : t = transfers[i] /\ m = Head(session[p].todo) /\ kind = session[p].req.kind
  OBVIOUS
<1>4. PICK w, a, side, new :
        w = m.vault /\ a = m.amount /\ side = m.side /\ new = session[p].copy.balance + a
  OBVIOUS
<1>5. PICK status : status = StatusWritten(kind, side, t.status)
  OBVIOUS
<1>6. PICK next : next = IF side = "in" THEN [out |-> moved[i].out, in |-> moved[i].in + a]
                         ELSE [out |-> moved[i].out - a, in |-> moved[i].in]
  OBVIOUS
<1> DEFINE s == [session[p] EXCEPT !.wrote = {i}]
<1>7. /\ t \in Transfers /\ t.amount \in Nat \ {0} /\ t.from \in Vaults /\ t.status \in Statuses
      /\ session[p].copy.balance \in Nat /\ moved[i] \in [out : Int, in : Int]
      /\ session[p].req \in Served /\ DOMAIN session[p] = DOMAIN Idle
      /\ session[p].copy \in BalanceRow /\ session[p].number \in Nat
      /\ session[p].seen \subseteq Vaults
      /\ kind \in Reviewing => session[p].req.txn \in DOMAIN transfers
  <2>1. moved[i] \in [out : Int, in : Int]
    <3>1. moved \in Seq([out : Int, in : Int]) /\ i \in DOMAIN moved
      BY <1>2 DEF VaultInv, TypeOK
    <3>2. i \in 1..Len(moved)
      BY <3>1
    <3> QED
      BY <3>1, <3>2, ElementOfSeq
  <2>2. t \in Transfers
    BY <1>3, InvFacts
  <2> QED
    BY <1>3, <2>1, <2>2, InvFacts DEF Transfers, BalanceRow
<1>8. \/ /\ kind \in {"vault", "approve"} /\ side = "out" /\ w = t.from /\ a = -t.amount
         /\ Rest(p) = Delivery(t)
         /\ kind = "vault" => t.status # "pending"
         /\ Has(i, IF kind = "vault" THEN "in_transit" ELSE "pending", 0, 0)
      \/ /\ kind \in {"vault", "approve"} /\ t.to \in Vaults /\ side = "in" /\ w = t.to
         /\ a = t.amount /\ Rest(p) = <<>>
         /\ t.status # "pending" /\ Has(i, "in_transit", t.amount, 0)
      \/ /\ kind = "cancel" /\ side = "out" /\ w = t.from /\ a = t.amount
         /\ Rest(p) = Withdrawal(t)
         /\ t.status # "pending" /\ Has(i, "in_transit", t.amount, t.amount)
      \/ /\ kind = "cancel" /\ t.to \in Vaults /\ side = "in" /\ w = t.to /\ a = -t.amount
         /\ Rest(p) = Op("cancelled")
         /\ t.status # "pending" /\ Has(i, "in_transit", 0, t.amount)
  <2>1. m.op = "move"
    BY <1>1, <1>3 DEF At
  <2>2. \/ /\ kind \in {"vault", "approve"} /\ m = Move(t.from, -t.amount, "out")
           /\ Rest(p) = Delivery(t)
           /\ kind = "vault" => t.status # "pending"
           /\ Has(i, IF kind = "vault" THEN "in_transit" ELSE "pending", 0, 0)
        \/ /\ kind \in {"vault", "approve"} /\ t.to \in Vaults
           /\ m = Move(t.to, t.amount, "in") /\ Rest(p) = <<>>
           /\ t.status # "pending" /\ Has(i, "in_transit", t.amount, 0)
        \/ /\ kind = "cancel"
           /\ m = Move(t.from, t.amount, "out") /\ Rest(p) = Withdrawal(t)
           /\ t.status # "pending" /\ Has(i, "in_transit", t.amount, t.amount)
        \/ /\ kind = "cancel" /\ t.to \in Vaults
           /\ m = Move(t.to, -t.amount, "in") /\ Rest(p) = Op("cancelled")
           /\ t.status # "pending" /\ Has(i, "in_transit", 0, t.amount)
    BY <1>2, <1>3, <2>1, MoveStages DEF Rest
  <2>3. \A v, b, d : m = Move(v, b, d) => w = v /\ a = b /\ side = d
    BY <1>4, ReadMoveFacts
  <2> QED
    BY <2>2, <2>3
<1>9. /\ w \in Vaults /\ a \in Int /\ side \in {"in", "out"}
      /\ side = "out" => w = t.from
      /\ side = "in" => w = t.to
      /\ status \in Statuses \ {"pending"}
  BY <1>5, <1>7, <1>8 DEF StatusWritten, Statuses
<1>10. CASE Fail(p)
  BY <1>10, FailSafe
<1>11. CASE /\ new >= 0 /\ Store(w, new) /\ moved' = [moved EXCEPT ![i] = next]
            /\ transfers' = [transfers EXCEPT ![i].status = status]
            /\ Goto(p, s, Rest(p))
            /\ UNCHANGED <<active, adjusted, contended, disturbed>>
  <2>1. /\ transfers' \in Rows /\ DOMAIN transfers' = DOMAIN transfers
        /\ Len(transfers') = Len(transfers)
        /\ transfers'[i].from = t.from /\ transfers'[i].to = t.to
        /\ transfers'[i].amount = t.amount /\ transfers'[i].status = status
        /\ \A k \in DOMAIN transfers : k # i => transfers'[k] = transfers[k]
    BY <1>3, <1>9, <1>11, StatusChanged DEF VaultInv
  <2>2. /\ transfers \in Rows /\ moved \in Moves /\ DOMAIN moved = DOMAIN transfers
        /\ next \in [out : Int, in : Int]
    BY <1>6, <1>7, <1>9 DEF VaultInv, TypeOK, Rows, Moves
  <2>3. /\ moved' \in Moves /\ DOMAIN moved' = DOMAIN transfers /\ moved'[i] = next
        /\ \A k \in DOMAIN transfers : k # i => moved'[k] = moved[k]
    BY <1>11, <2>2 DEF Moves
  <2>4. new \in Nat
    BY <1>4, <1>7, <1>9, <1>11
  <2>5. /\ DOMAIN balance' \subseteq Vaults /\ balance' \in [DOMAIN balance' -> Nat]
        /\ Cell(balance', w) = new
        /\ \A u \in Vaults \ {w} : /\ Visible(u)' = Visible(u)
                                   /\ Cell(balance', u) = Cell(balance, u)
    BY <1>9, <1>11, <2>4, StoreFacts DEF VaultInv
  <2>6. /\ w \notin contended => session[p].copy.balance = Cell(balance, w)
        /\ w \in contended \/ \A q \in Sessions \ {p} : w \notin session[q].seen
    <3>1. Holds(session[p], w)
      BY <1>1, <1>3, <1>4 DEF Holds, At, Busy
    <3> QED
      BY <1>9, <3>1, WriterKnows
  <2>7. /\ DOMAIN s = DOMAIN Idle /\ s.copy = session[p].copy /\ s.seen = session[p].seen
        /\ s.txn = {i} /\ s.wrote = {i} /\ s.req = session[p].req
        /\ s.number = session[p].number
    BY <1>2, <1>7, IdleFacts
  <2> HIDE DEF s
  <2>8. /\ DOMAIN session' = Sessions
        /\ \A q \in Sessions \ {p} : session'[q] = session[q]
        /\ Rest(p) = <<>> => session'[p] = Idle
        /\ Rest(p) # <<>> =>
             /\ DOMAIN session'[p] = DOMAIN Idle
             /\ session'[p].todo = Rest(p) /\ session'[p].req = session[p].req
             /\ session'[p].copy = session[p].copy /\ session'[p].number = session[p].number
             /\ session'[p].txn = {i} /\ session'[p].seen = session[p].seen
             /\ session'[p].wrote = {i}
    BY <1>11, <2>7, InvFacts, GotoFacts
  <2>9. Keeps(p)
    <3>1. \A u \in Vaults : \/ Visible(u)' = Visible(u)
                            \/ u \in contended'
                            \/ \A q \in Sessions \ {p} : u \notin session[q].seen
      BY <1>11, <2>5, <2>6
    <3>2. \A k \in DOMAIN transfers :
            /\ transfers'[k].from = transfers[k].from /\ transfers'[k].to = transfers[k].to
            /\ transfers'[k].amount = transfers[k].amount
            /\ transfers[k].status # "pending" => transfers'[k].status # "pending"
            /\ k \notin session[p].txn => transfers'[k] = transfers[k] /\ moved'[k] = moved[k]
      BY <1>2, <1>3, <1>9, <2>1, <2>3
    <3> QED
      BY <1>11, <2>1, <2>8, <3>1, <3>2, InvFacts DEF Keeps
  <2>10. Notices(p)
    <3>1. /\ session'[p].txn \subseteq session[p].txn
          /\ session'[p].seen \subseteq session[p].seen
      BY <1>2, <2>8, IdleFacts
    <3> QED
      BY <1>11, <3>1 DEF Notices, VaultInv, SharedIsKnown
  <2>11. /\ Rest(p) # <<>> => Rest(p) \in {Delivery(t), Withdrawal(t), Op("cancelled")}
         /\ Rest(p) # <<>> => Head(Rest(p)).op \in {"read", "raise", "cancelled"}
    <3>1. /\ Head(Delivery(t)).op \in {"read", "raise"}
          /\ Head(Withdrawal(t)).op \in {"read", "raise"}
          /\ Head(Op("cancelled")).op = "cancelled"
      BY StretchOps, PlainOps
    <3>2. Rest(p) # <<>> => Rest(p) \in {Delivery(t), Withdrawal(t), Op("cancelled")}
      BY <1>8
    <3> QED
      BY <3>1, <3>2
  <2>12. \/ /\ kind \in {"vault", "approve"} /\ Rest(p) = Delivery(t)
            /\ Has(i, "in_transit", t.amount, 0)'
         \/ /\ Rest(p) = <<>> /\ Has(i, "in_transit", t.amount, t.amount)'
         \/ /\ kind = "cancel" /\ Rest(p) = Withdrawal(t)
            /\ Has(i, "in_transit", 0, t.amount)'
         \/ /\ kind = "cancel" /\ Rest(p) = Op("cancelled") /\ Has(i, "in_transit", 0, 0)'
    <3>1. /\ kind = "approve" /\ side = "out" => status = "in_transit"
          /\ ~ (kind = "approve" /\ side = "out") => status = t.status
      BY <1>5 DEF StatusWritten
    <3>2. i \notin disturbed' => i \notin disturbed
      BY <1>11
    <3>3. t.to \in Vaults <=> transfers'[i].to \in Vaults
      BY <2>1
    <3>4. /\ transfers[i] = t /\ transfers'[i].status = status /\ moved'[i] = next
      BY <1>3, <2>1, <2>3
    <3> QED
      BY <1>6, <1>7, <1>8, <3>1, <3>2, <3>3, <3>4 DEF Has
  <2>13. Settles(p)
    <3>1. \A k \in DOMAIN transfers' : k \notin DOMAIN transfers \/ k \in session[p].txn => k = i
      BY <1>2, <2>1
    <3>2. Waits(i)'
      BY <1>9, <2>1 DEF Waits
    <3>3. ASSUME i \notin session'[p].txn, i \notin disturbed'
          PROVE  Whole(i)'
      <4>1. Rest(p) = <<>>
        BY <2>8, <3>3
      <4>2. Delivery(t) # <<>> /\ Withdrawal(t) # <<>> /\ Op("cancelled") # <<>>
        BY StretchOps, PlainOps
      <4>3. Has(i, "in_transit", t.amount, t.amount)'
        BY <2>12, <4>1, <4>2
      <4> QED
        BY <2>1, <3>3, <4>3 DEF Has, Whole
    <3> QED
      BY <3>1, <3>2, <3>3 DEF Settles
  <2>14. OnCourse(p)' /\ KnowsBalance(p)'
    <3>1. CASE Rest(p) = <<>>
      BY <2>8, <3>1, IdleIsOnCourse
    <3>2. CASE Rest(p) # <<>>
      <4> DEFINE u == transfers'[i]
      <4>1. Delivery(u) = Delivery(t) /\ Withdrawal(u) = Withdrawal(t)
        <5>1. u.from = t.from /\ u.to = t.to /\ u.amount = t.amount
          BY <2>1
        <5> HIDE DEF u
        <5> QED
          BY <5>1, SameStretches
      <4>2. OnTransfer(session[p], i)'
        BY <1>3, <1>9, <2>1, <2>8, <2>12, <3>2, <4>1 DEF OnTransfer, Has
      <4>3. OnCourse(p)'
        BY <1>2, <1>3, <1>7, <2>1, <2>8, <3>2, <4>2 DEF OnCourse
      <4>4. KnowsBalance(p)'
        BY <2>8, <2>11, <3>2 DEF KnowsBalance, Holds
      <4> QED
        BY <4>3, <4>4
    <3> QED
      BY <3>1, <3>2
  <2>15. TypeOK' /\ adjusted' \in [Vaults -> Int]
    BY <1>11, <2>1, <2>3, <2>5 DEF VaultInv, TypeOK, Rows, Moves
  <2>16. UncontendedVaultAddsUp'
    <3>1. ASSUME NEW v
          PROVE  /\ Flow(v)' = Flow(v) + (IF v = w THEN a ELSE 0)
                 /\ Flow(v) \in Int
      <4>1. Flow(v)' = Flow(v) + Part(t, next, v) - Part(t, moved[i], v)
        <5>1. \A k \in DOMAIN transfers : /\ transfers'[k].from = transfers[k].from
                                          /\ transfers'[k].to = transfers[k].to
          BY <1>3, <2>1
        <5>2. TotalOf(Parts(transfers', [moved EXCEPT ![i] = next], v))
                = TotalOf(Parts(transfers, moved, v))
                    + Part(transfers[i], next, v) - Part(transfers[i], moved[i], v)
          BY <2>1, <2>2, <5>1, FlowMoved
        <5> QED
          BY <1>3, <1>11, <5>2, FlowFacts
      <4>2. Part(t, next, v) - Part(t, moved[i], v) = IF v = w THEN a ELSE 0
        <5>1. CASE side = "in"
          BY <1>6, <1>7, <1>9, <5>1 DEF Part
        <5>2. CASE side = "out"
          BY <1>6, <1>7, <1>9, <5>2 DEF Part
        <5> QED
          BY <1>9, <5>1, <5>2
      <4>3. /\ Flow(v) \in Int /\ Part(t, next, v) \in Int /\ Part(t, moved[i], v) \in Int
        BY <1>7, <2>2, FlowFacts, PartsFacts, TotalOfType DEF Part
      <4> QED
        BY <1>9, <4>1, <4>2, <4>3
    <3>2. ASSUME NEW v \in Vaults \ contended
          PROVE  Cell(balance', v) = Cell(Opening, v) + adjusted'[v] + Flow(v)'
      <4>1. Cell(balance, v) = Cell(Opening, v) + adjusted[v] + Flow(v)
        BY DEF VaultInv, UncontendedVaultAddsUp
      <4>2. Cell(Opening, v) \in Int /\ adjusted[v] \in Int /\ adjusted' = adjusted
        BY <1>11, VaultAssumption DEF VaultInv, Cell
      <4>3. CASE v # w
        BY <2>5, <3>1, <4>1, <4>2, <4>3
      <4>4. CASE v = w
        BY <1>4, <1>9, <2>5, <2>6, <3>1, <4>1, <4>2, <4>4
      <4> QED
        BY <4>3, <4>4
    <3> QED
      BY <1>11, <3>2 DEF UncontendedVaultAddsUp, Cell
  <2> QED
    BY <2>9, <2>10, <2>13, <2>14, <2>15, <2>16, StepIsEnough
<1>12. Fail(p) \/ /\ new >= 0 /\ Store(w, new) /\ moved' = [moved EXCEPT ![i] = next]
                  /\ transfers' = [transfers EXCEPT ![i].status = status]
                  /\ Goto(p, s, Rest(p))
                  /\ UNCHANGED <<active, adjusted, contended, disturbed>>
  <2>1. \/ Fail(p)
        \/ /\ new >= 0 /\ Store(w, new)
           /\ moved' = [moved EXCEPT ![i][side] = IF side = "in" THEN @ + a ELSE @ - a]
           /\ transfers' = [transfers EXCEPT ![i].status = StatusWritten(kind, side, @)]
           /\ Goto(p, s, Rest(p))
           /\ UNCHANGED <<active, adjusted, contended, disturbed>>
    BY <1>2, <1>3, <1>4 DEF MoveBalance, MayMove
  <2>2. [moved EXCEPT ![i][side] = IF side = "in" THEN @ + a ELSE @ - a]
          = [moved EXCEPT ![i] = next]
    <3>1. [moved[i] EXCEPT ![side] = IF side = "in" THEN @ + a ELSE @ - a] = next
      BY <1>6, <1>7, <1>9
    <3> QED
      BY <3>1
  <2>3. [transfers EXCEPT ![i].status = StatusWritten(kind, side, @)]
          = [transfers EXCEPT ![i].status = status]
    BY <1>3, <1>5
  <2> QED
    BY <2>1, <2>2, <2>3
<1> QED
  BY <1>10, <1>11, <1>12

-----------------------------------------------------------------------------
(* The theorems.                                                            *)

\* The invariant holds initially.
LEMMA InitSafe ==
  ASSUME Init
  PROVE  VaultInv
<1>1. /\ transfers = <<>> /\ moved = <<>> /\ DOMAIN transfers = {} /\ DOMAIN moved = {}
      /\ active = Vaults /\ balance = Opening /\ adjusted = [v \in Vaults |-> 0]
      /\ session = [p \in Sessions |-> Idle] /\ made = 0 /\ contended = {} /\ disturbed = {}
  BY DEF Init
<1>2. TypeOK
  BY <1>1, VaultAssumption DEF TypeOK
<1>3. ASSUME NEW p \in Sessions
      PROVE  OnCourse(p) /\ KnowsBalance(p) /\ session[p].txn = {} /\ session[p].seen = {}
  <2>1. session[p] = Idle
    BY <1>1
  <2>2. None \in Served /\ None.kind = "none"
    BY DEF Served, None
  <2> QED
    BY <2>1, <2>2, IdleFacts DEF OnCourse, KnowsBalance, Holds, Reviewing
<1>4. SharedIsKnown
  BY <1>3 DEF SharedIsKnown
<1>5. PendingMovedNothing /\ UndisturbedTransferIsWhole
  BY <1>1 DEF PendingMovedNothing, UndisturbedTransferIsWhole
<1>6. UncontendedVaultAddsUp
  <2>1. ASSUME NEW v
        PROVE  Flow(v) = 0
    <3>1. Parts(transfers, moved, v) = <<>>
      BY <1>1 DEF Parts
    <3>2. <<>> \in Seq(Int)
      OBVIOUS
    <3> QED
      BY <3>1, <3>2, FlowFacts, TotalOfType
  <2>2. \A v \in Vaults : Cell(Opening, v) \in Int
    BY VaultAssumption DEF Cell
  <2> QED
    BY <1>1, <2>1, <2>2 DEF UncontendedVaultAddsUp, Cell
<1> QED
  BY <1>1, <1>2, <1>3, <1>4, <1>5, <1>6 DEF VaultInv

\* Every step of a session keeps the invariant.
LEMMA StepSafe ==
  ASSUME VaultInv, NEW p \in Sessions, Step(p)
  PROVE  VaultInv'
<1> UNCHANGED made
  BY DEF Step
<1>1. CASE Check(p)
  BY <1>1, CheckSafe
<1>2. CASE GenerateNumber(p)
  BY <1>2, GenerateNumberSafe
<1>3. CASE InsertTransfer(p)
  BY <1>3, InsertTransferSafe
<1>4. CASE LoadTransfer(p)
  BY <1>4, LoadTransferSafe
<1>5. CASE ReadBalance(p)
  BY <1>5, ReadBalanceSafe
<1>6. CASE MoveBalance(p)
  BY <1>6, MoveBalanceSafe
<1>7. CASE SetStatus(p)
  BY <1>7, SetStatusSafe
<1>8. CASE CallMissingMethod(p)
  BY <1>8, FailSafe DEF CallMissingMethod
<1>9. CASE LookBeforeAdjust(p)
  BY <1>9, LookBeforeAdjustSafe
<1>10. CASE Adjust(p)
  BY <1>10, AdjustSafe
<1>11. CASE CloseVault(p)
  BY <1>11, CloseVaultSafe
<1> QED
  BY <1>1, <1>2, <1>3, <1>4, <1>5, <1>6, <1>7, <1>8, <1>9, <1>10, <1>11 DEF Step

\* A stuttering step keeps the invariant.
LEMMA StutterSafe ==
  ASSUME VaultInv, UNCHANGED vars
  PROVE  VaultInv'
<1>1. UNCHANGED <<active, balance, transfers, moved, adjusted, session, made, contended, disturbed>>
  BY DEF vars, tables
<1>2. TypeOK' /\ adjusted' \in [Vaults -> Int] /\ DOMAIN session' = Sessions
  BY <1>1 DEF VaultInv, TypeOK
<1>3. ASSUME NEW p \in Sessions
      PROVE  OnCourse(p)' /\ KnowsBalance(p)'
  <2>1. OnCourse(p)'
    BY <1>1, InvFacts DEF OnCourse, OnTransfer
  <2>2. KnowsBalance(p)'
    BY <1>1, InvFacts DEF KnowsBalance, Visible
  <2> QED
    BY <2>1, <2>2
<1>4. SharedIsKnown' /\ PendingMovedNothing' /\ UndisturbedTransferIsWhole'
  BY <1>1 DEF VaultInv, SharedIsKnown, PendingMovedNothing, UndisturbedTransferIsWhole
<1>5. UncontendedVaultAddsUp'
  BY <1>1, FlowKept DEF VaultInv, UncontendedVaultAddsUp, Cell
<1> QED
  BY <1>2, <1>3, <1>4, <1>5 DEF VaultInv

\* However the commits of the handlers interleave and wherever they are cut off,
\* the invariant holds.
THEOREM VaultInvariant == Spec => []VaultInv
<1>1. Init => VaultInv
  BY InitSafe
<1>2. VaultInv /\ [Next]_vars => VaultInv'
  <2> SUFFICES ASSUME VaultInv, [Next]_vars PROVE VaultInv'
    OBVIOUS
  <2>1. ASSUME NEW p \in Sessions, Step(p)
        PROVE  VaultInv'
    BY <2>1, StepSafe
  <2>2. ASSUME NEW p \in Sessions, Crash(p)
        PROVE  VaultInv'
    BY <2>2, FailSafe DEF Crash
  <2>3. ASSUME NEW p \in Sessions, NEW r \in Requests, Begin(p, r)
        PROVE  VaultInv'
    BY <2>3, BeginSafe
  <2>4. CASE UNCHANGED vars
    BY <2>4, StutterSafe
  <2> QED
    BY <2>1, <2>2, <2>3, <2>4 DEF Next
<1> QED
  BY <1>1, <1>2, PTL DEF Spec

\* The tables stay well-typed: in particular no vault balance goes below zero.
THEOREM VaultsTypeCorrect == Spec => []TypeOK
<1>1. VaultInv => TypeOK
  BY DEF VaultInv
<1> QED
  BY <1>1, VaultInvariant, PTL

\* approve_transfer never pays for a transfer twice: as long as it waits, nothing
\* has been moved for it, whatever ran and wherever the server died.
THEOREM PendingIsUnpaid == Spec => []PendingMovedNothing
<1>1. VaultInv => PendingMovedNothing
  BY DEF VaultInv
<1> QED
  BY <1>1, VaultInvariant, PTL

\* A transfer to a vault whose requests came one after the other, none of them
\* cut off after a commit, has moved its amount on both sides or on none, as its
\* status says: the hazard of handlers that commit several times.
THEOREM TransfersAreWhole == Spec => []UndisturbedTransferIsWhole
<1>1. VaultInv => UndisturbedTransferIsWhole
  BY DEF VaultInv
<1> QED
  BY <1>1, VaultInvariant, PTL

\* Money neither appears nor disappears on a vault that no two requests use at
\* one time, through any number of crashes: update_vault_balance is only wrong
\* when another request writes between its SELECT and its commit.
THEOREM VaultsAddUp == Spec => []UncontendedVaultAddsUp
<1>1. VaultInv => UncontendedVaultAddsUp
  BY DEF VaultInv
<1> QED
  BY <1>1, VaultInvariant, PTL
=============================================================================
