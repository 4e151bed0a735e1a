--------------------------- MODULE RequestLedger ---------------------------
(***************************************************************************)
(* The handlers of BranchLedger as they run: each request has an            *)
(* AsyncSession of its own and is a sequence of database accesses between  *)
(* which other requests run.  PostgreSQL is at READ COMMITTED: a SELECT    *)
(* sees the committed tables and the session's own writes; an UPDATE locks *)
(* its row to the end of the transaction and writes the VALUES the ORM     *)
(* computed from what the session read before; a unique key that another   *)
(* session has inserted waits for its end.  No query asks for a lock.      *)
(*                                                                         *)
(* A handler that dropped a row object reads the row again (the identity   *)
(* map is weak), so each BalanceService call works on its own SELECT.      *)
(***************************************************************************)
EXTENDS Integers, Sequences

CONSTANTS
  Branches, Currencies, MainBranches, Amounts, Counts, Rates, Commissions,
  RateScale, ExpenseLimit, Opening, MaxTransactions, MaxEntries,
  Days,          \* days on which transactions are numbered
  Sessions,      \* requests that may run at the same time
  Kinds,         \* which requests are made
  Overlapping,   \* bound: the kinds that may be under way at the same time
  MaxRequests    \* bound: requests ever made

Cells == Branches \X Currencies

\* What `contended` holds besides cells.
Midnight == <<"midnight">>

\* The bounds of the abstract ledger leave room for every request.
ASSUME RequestAssumption ==
  /\ MainBranches \subseteq Branches
  /\ Amounts \subseteq Nat \ {0}
  /\ Counts \subseteq Nat
  /\ Rates \subseteq Nat \ {0}
  /\ Commissions \subseteq 0..10000
  /\ RateScale \in Nat \ {0}
  /\ ExpenseLimit \in Nat
  /\ Opening \in [Cells -> Nat]
  /\ MaxRequests \in Nat /\ MaxTransactions \in Nat /\ MaxEntries \in Nat
  /\ MaxRequests <= MaxTransactions /\ MaxRequests <= MaxEntries

VARIABLES
  db,         \* the committed tables, a record with the fields of BranchLedger and,
              \*   per day, the last transaction number
  session,    \* per session, what its request has done so far
  contended,  \* history: cells that two requests were using at the same time, and
              \*   Midnight once two had transactions of different days inserted
  made        \* requests made

vars == <<db, session, contended, made>>

Ledger == INSTANCE BranchLedger WITH
            active <- db.active, rows <- db.rows, balance <- db.balance,
            reserved <- db.reserved, txns <- db.txns, history <- db.history

-----------------------------------------------------------------------------
(* Requests, and the accesses each handler makes, in its order.            *)

Settling == {"receive", "approve", "cancel"}

Requests ==
  {r \in [kind : {"income"}, cell : Cells, amount : Amounts]
      \cup [kind : {"expense"}, cell : Cells, amount : Amounts, approval : BOOLEAN]
      \cup [kind : {"exchange"}, cell : Cells, toCell : Cells, amount : Amounts,
            rate : Rates, pct : Commissions]
      \cup [kind : {"transfer"}, cell : Cells, toCell : Cells, amount : Amounts]
      \cup [kind : Settling, txn : 1..Len(db.txns)]
      \cup [kind : {"reconcile"}, cell : Cells, count : Counts]
      \cup [kind : {"delete", "open", "close"}, branch : Branches] :
    /\ r.kind \in Kinds
    /\ r.kind = "expense" => r.amount <= ExpenseLimit
    /\ r.kind = "exchange" => r.cell[1] = r.toCell[1] /\ r.cell[2] # r.toCell[2]
    /\ r.kind = "transfer" => r.cell[1] # r.toCell[1] /\ r.cell[2] = r.toCell[2]}

\* The transaction a creating request inserts.
RowOf(r) ==
  CASE r.kind = "income"   -> Ledger!Income(r.cell, r.amount)
    [] r.kind = "expense"  -> Ledger!Expense(r.cell, r.amount, r.approval)
    [] r.kind = "exchange" -> Ledger!Exchange(r.cell, r.toCell, r.amount, r.rate, r.pct)
    [] r.kind = "transfer" -> Ledger!Transfer(r.cell, r.toCell, r.amount)

\* One access: to row `cell`, by `amount`, recorded as a `change`.
Access(op, cell, amount, change) ==
  [op |-> op, cell |-> cell, amount |-> amount, change |-> change]

Select(x)          == Access("select", x, 0, "")
Enough(x, a)       == Access("enough", x, a, "")
Active(x)          == Access("active", x, 0, "")
EnsureRow(x)       == <<Access("find", x, 0, ""), Access("create", x, 0, "")>>
Update(x, a, ch)   == EnsureRow(x) \o <<Access("update", x, a, ch)>>
Numbered(x)        == <<Access("number", x, 0, ""), Access("insert", x, 0, "")>>
Finish(x)          == <<Access("commit", x, 0, "")>>

(* The operators named <definition>_<fault> are the faults the runs are tried
   against: each replaces the definition after it by a plausible mistake.   *)
Undo_KeepsReservation(t) ==
  IF t.type = "transfer"
  THEN <<Select(t.cell)>>
  ELSE Update(t.cell, Ledger!Reversal(t), "adjustment")

\* What cancel_transaction undoes.
Undo(t) ==
  IF t.type = "transfer"
  THEN <<Select(t.cell), Access("release", t.cell, t.amount, "")>>
  ELSE Update(t.cell, Ledger!Reversal(t), "adjustment")

\* What a creating handler looks at before it generates a number.
Checks(r) ==
  LET x == r.cell
  IN CASE r.kind = "income"   -> <<Active(x)>> \o EnsureRow(x)
       [] r.kind = "expense"  -> <<Active(x), Enough(x, r.amount)>>
       [] r.kind = "exchange" -> <<Active(x), Enough(x, RowOf(r).cost)>>
       [] r.kind = "transfer" -> <<Active(x), Active(r.toCell), Enough(x, r.amount)>>

\* An expense that needs approval is not deducted, as if approving did that.
Payments_Later(r) ==
  IF r.kind = "expense" /\ r.approval THEN <<>>
  ELSE Update(r.cell, RowOf(r).toAmount - RowOf(r).cost, "transaction")

\* What it does to the balances once the transaction is inserted.
Payments(r) ==
  LET t == RowOf(r)
  IN CASE r.kind = "income"   -> Update(t.cell, t.amount, "transaction")
       [] r.kind = "expense"  -> Update(t.cell, -t.amount, "transaction")
       [] r.kind = "exchange" -> Update(t.cell, -t.cost, "transaction")
                                   \o Update(t.toCell, t.toAmount, "transaction")
       [] r.kind = "transfer" ->
            <<Select(t.cell), Access("reserve", t.cell, t.amount, "")>>

Creation(r) == Checks(r) \o Numbered(r.cell) \o Payments(r)

Settlement_KeepsReservation(r) ==
  LET t == db.txns[r.txn]
      x == t.cell
  IN <<Access("load", x, 0, "")>>
       \o CASE r.kind = "receive" ->
                 Update(x, -t.amount, "transfer_out")
                   \o Update(t.toCell, t.amount, "transfer_in")
            [] r.kind = "approve" -> <<>>
            [] r.kind = "cancel" -> Undo(t)

Settlement(r) ==
  LET t == db.txns[r.txn]
      x == t.cell
  IN <<Access("load", x, 0, "")>>
       \o CASE r.kind = "receive" ->
                 Update(x, -t.amount, "transfer_out")
                   \o Update(t.toCell, t.amount, "transfer_in")
                   \o <<Select(x), Access("release", x, t.amount, "")>>
            [] r.kind = "approve" -> <<>>
            [] r.kind = "cancel" -> Undo(t)

Program(r) ==
  CASE r.kind \in Settling -> Settlement(r) \o Finish(<<>>)
    [] r.kind = "reconcile" ->
         <<Select(r.cell), Access("count", r.cell, r.count, "reconciliation")>>
           \o Finish(<<>>)
    [] r.kind = "delete" -> <<Access("empty", r.branch, 0, "")>> \o Finish(<<>>)
    [] r.kind \in {"open", "close"} -> Finish(<<>>)
    [] OTHER -> Creation(r) \o Finish(<<>>)

-----------------------------------------------------------------------------
(* Sessions.                                                               *)

NoRequest == [kind |-> "none"]
NoRow     == [found |-> FALSE, balance |-> 0, reserved |-> 0]

(* `todo` are the accesses still to make, `copy` is the row object in the
   handler's hands, `number` the transaction number it generated, a day and a
   place in it; `inserted`, `created`, `bal`, `res` and `posts` are what it has
   flushed and not yet committed.  `seen` only serves `contended`.          *)
Begun(r, accesses) ==
  [req |-> r, todo |-> accesses, copy |-> NoRow, number |-> <<>>, seen |-> {},
   inserted |-> <<>>, created |-> {}, bal |-> <<>>, res |-> <<>>, posts |-> <<>>]

Idle == Begun(NoRequest, <<>>)

Busy(p)   == session[p].todo # <<>>
Op(p)     == Head(session[p].todo)
At(p, op) == Busy(p) /\ Op(p).op = op

Over(f, x, v) == [y \in DOMAIN f \cup {x} |-> IF y = x THEN v ELSE f[y]]

\* The history rows s has flushed for x.
PostsOn(s, x) == IF x \in DOMAIN s.posts THEN s.posts[x] ELSE <<>>

\* What a SELECT of row x returns to p.
Visible(p, x) ==
  LET s == session[p]
  IN  [found    |-> x \in db.rows \cup s.created,
       balance  |-> IF x \in DOMAIN s.bal THEN s.bal[x] ELSE db.balance[x],
       reserved |-> IF x \in DOMAIN s.res THEN s.res[x] ELSE db.reserved[x]]

\* The other sessions p has to wait for before its next access.
Waits(p) ==
  LET x == Op(p).cell
      Others == {q \in Sessions \ {p} : Busy(q)}
  IN CASE Op(p).op \in {"update", "reserve", "release", "count"} ->
            {q \in Others : x \in DOMAIN session[q].bal \cup DOMAIN session[q].res}
       [] Op(p).op = "create" -> {q \in Others : x \in session[q].created}
       [] Op(p).op = "insert" ->
            {q \in Others : /\ session[q].inserted # <<>>
                            /\ session[q].number = session[p].number}
       [] OTHER -> {}

\* The handler raises and its session stays open.
Rollback_LeaksSession(p) ==
  /\ session' = [session EXCEPT ![p].todo = <<Access("leaked", <<>>, 0, "")>>]
  /\ UNCHANGED <<db, contended>>

Rollback(p) ==
  /\ session' = [session EXCEPT ![p] = Idle]
  /\ UNCHANGED <<db, contended>>

\* The next access; s is the session after this one.
Continue(p, s) ==
  /\ session' = [session EXCEPT ![p] = [s EXCEPT !.todo = Tail(@)]]
  /\ UNCHANGED <<db, contended>>

\* A handler that finds `valid` false raises and rolls back.
Proceed(p, valid, s) == IF valid THEN Continue(p, s) ELSE Rollback(p)

\* The same after a SELECT of row x, or of a transaction booked under x.
Touch(p, x, s) ==
  /\ session' = [session EXCEPT ![p] = [s EXCEPT !.todo = Tail(@),
                                                 !.seen = @ \cup {x}]]
  /\ UNCHANGED db
  /\ contended' = IF \E q \in Sessions \ {p} : x \in session[q].seen
                  THEN contended \cup {x} ELSE contended

-----------------------------------------------------------------------------
(* The accesses.                                                           *)

\* _validate_branch_exists, and the sum over the balances in delete_branch.
CheckBranch(p) ==
  \/ At(p, "active") /\ Proceed(p, Op(p).cell[1] \in db.active, session[p])
  \/ /\ At(p, "empty")
     /\ Proceed(p, /\ Op(p).cell \notin MainBranches
                   /\ \A c \in Currencies : db.balance[<<Op(p).cell, c>>] = 0,
                session[p])

\* What a settling handler requires of its transaction.
MaySettle(r) ==
  LET t == db.txns[r.txn]
  IN /\ t.status = "pending"
     /\ r.kind = "receive" => t.type = "transfer"
     /\ r.kind = "approve" => t.type = "expense" /\ t.approvalRequired /\ ~ t.approved

\* The handler's look at the status of the transaction it is to settle: what it
\* then does to the cell rests on it.
LoadTransaction(p) ==
  LET r == session[p].req
  IN /\ At(p, "load")
     /\ IF MaySettle(r) THEN Touch(p, Op(p).cell, session[p]) ELSE Rollback(p)

\* get_branch_balance; "find" skips the creation of a row that exists.
ReadBalance(p) ==
  LET x   == Op(p).cell
      row == Visible(p, x)
      s   == [session[p] EXCEPT !.copy = row]
  IN \/ /\ At(p, "find")
        /\ Touch(p, x, IF row.found THEN [s EXCEPT !.todo = Tail(@)] ELSE s)
     \/ /\ At(p, "select")
        /\ IF row.found THEN Touch(p, x, s) ELSE Rollback(p)
     \/ /\ At(p, "enough")
        /\ IF row.found /\ row.balance - row.reserved >= Op(p).amount
           THEN Touch(p, x, session[p]) ELSE Rollback(p)

\* create_branch_balance: a row committed since the SELECT is a duplicate.
CreateRow(p) ==
  /\ At(p, "create") /\ Waits(p) = {}
  /\ Proceed(p, Op(p).cell \notin db.rows,
             [session[p] EXCEPT !.created = @ \cup {Op(p).cell},
                                !.copy = [NoRow EXCEPT !.found = TRUE]])

\* The next number of the day.  The clock is read before the SELECT: when two
\* requests generate around midnight, either may have the later day.
GenerateNumber(p) ==
  /\ At(p, "number")
  /\ \E day \in Days :
       Continue(p, [session[p] EXCEPT !.number = <<day, db.last[day] + 1>>])

\* The INSERT of the transaction: its number is UNIQUE.  Two requests that have
\* inserted at one time have numbers of different days.
InsertTransaction(p) ==
  LET s == session[p]
  IN /\ At(p, "insert") /\ Waits(p) = {}
     /\ IF s.number[2] > db.last[s.number[1]]
        THEN /\ session' = [session EXCEPT ![p] = [s EXCEPT !.inserted = <<RowOf(s.req)>>,
                                                           !.todo = Tail(@)]]
             /\ contended' = IF \E q \in Sessions \ {p} : session[q].inserted # <<>>
                             THEN contended \cup {Midnight} ELSE contended
             /\ UNCHANGED db
        ELSE Rollback(p)

\* An UPDATE: a handler whose checks on the row object fail raises at once, one
\* whose checks pass waits for the row; then the row's CHECK decides.
Write(p, checked, allowed, s) ==
  \/ ~ checked /\ Rollback(p)
  \/ checked /\ Waits(p) = {} /\ Proceed(p, allowed, s)

(* update_balance from its checks to its two flushes: the new value and the
   history row are computed from the row object, however old.              *)
Post(p, amount) ==
  LET x     == Op(p).cell
      copy  == session[p].copy
      new   == copy.balance + amount
      entry == [change |-> Op(p).change, amount |-> amount,
                before |-> copy.balance, after |-> new]
  IN Write(p, new >= 0 /\ copy.reserved <= new, Visible(p, x).reserved <= new,
           [session[p] EXCEPT !.bal = Over(@, x, new),
                              !.posts = Over(@, x, Append(PostsOn(session[p], x), entry))])

UpdateBalance(p) == At(p, "update") /\ Post(p, Op(p).amount)

\* reconcile_branch_balance still holds its row: update_balance gets that one.
Reconcile(p) ==
  LET difference == Op(p).amount - session[p].copy.balance
  IN /\ At(p, "count")
     /\ IF difference = 0 THEN Continue(p, session[p]) ELSE Post(p, difference)

\* reserve_balance and release_reserved_balance, after their SELECT.
WriteReserved(p, op, checked, new) ==
  /\ At(p, op)
  /\ Write(p, checked, new \in 0..Visible(p, Op(p).cell).balance,
           [session[p] EXCEPT !.res = Over(@, Op(p).cell, new)])

ReserveBalance(p) ==
  LET copy == session[p].copy
  IN WriteReserved(p, "reserve", copy.balance - copy.reserved >= Op(p).amount,
                   copy.reserved + Op(p).amount)

ReleaseReservedBalance(p) ==
  LET copy == session[p].copy
  IN WriteReserved(p, "release", copy.reserved >= Op(p).amount,
                   copy.reserved - Op(p).amount)

Settled_InTransit(r) ==
  CASE r.kind = "receive" -> [db.txns EXCEPT ![r.txn].status = "in_transit"]
    [] r.kind = "approve" -> [db.txns EXCEPT ![r.txn].status = "completed",
                                             ![r.txn].approved = TRUE]
    [] r.kind = "cancel"  -> [db.txns EXCEPT ![r.txn].status = "cancelled"]
    [] OTHER -> db.txns

\* The status a handler leaves, flushed by the commit whatever it is by then.
Settled(r) ==
  CASE r.kind = "receive" -> [db.txns EXCEPT ![r.txn].status = "completed"]
    [] r.kind = "approve" -> [db.txns EXCEPT ![r.txn].status = "completed",
                                             ![r.txn].approved = TRUE]
    [] r.kind = "cancel"  -> [db.txns EXCEPT ![r.txn].status = "cancelled"]
    [] OTHER -> db.txns

\* The transaction the history rows of s refer to: a new one by the place that
\* its commit gives it.
Reference(s) ==
  CASE s.req.kind \in Settling -> s.req.txn
    [] s.req.kind = "reconcile" -> 0
    [] OTHER -> Len(db.txns) + 1

Referring(entry, txn) ==
  [txn |-> txn, change |-> entry.change, amount |-> entry.amount,
   before |-> entry.before, after |-> entry.after]

\* The history rows s leaves on x.
Booked(s, x) ==
  [k \in DOMAIN PostsOn(s, x) |-> Referring(PostsOn(s, x)[k], Reference(s))]

Commit(p) ==
  LET s == session[p]
  IN /\ At(p, "commit")
     /\ db' = [active   |-> CASE s.req.kind \in {"delete", "close"} -> db.active \ {s.req.branch}
                              [] s.req.kind = "open" -> db.active \cup {s.req.branch}
                              [] OTHER -> db.active,
               rows     |-> db.rows \cup s.created,
               balance  |-> [x \in Cells |-> Visible(p, x).balance],
               reserved |-> [x \in Cells |-> Visible(p, x).reserved],
               txns     |-> Settled(s.req) \o s.inserted,
               history  |-> [x \in Cells |-> db.history[x] \o Booked(s, x)],
               last     |-> IF s.inserted = <<>> THEN db.last
                            ELSE [db.last EXCEPT ![s.number[1]] = s.number[2]]]
     /\ session' = [session EXCEPT ![p] = Idle]
     /\ UNCHANGED contended

-----------------------------------------------------------------------------
Step(p) ==
  /\ \/ CheckBranch(p) \/ LoadTransaction(p) \/ ReadBalance(p) \/ CreateRow(p)
     \/ GenerateNumber(p) \/ InsertTransaction(p)
     \/ UpdateBalance(p) \/ Reconcile(p)
     \/ ReserveBalance(p) \/ ReleaseReservedBalance(p) \/ Commit(p)
  /\ UNCHANGED made

Begin(p, r) ==
  LET underWay == {session[q].req.kind : q \in {o \in Sessions : Busy(o)}}
  IN /\ ~ Busy(p)
     /\ underWay # {} => underWay \cup {r.kind} \subseteq Overlapping
     /\ made < MaxRequests
     /\ made' = made + 1
     /\ session' = [session EXCEPT ![p] = Begun(r, Program(r))]
     /\ UNCHANGED <<db, contended>>

\* Nobody looks for sessions that wait for each other.
DeadlockVictim_Undetected(p) == FALSE

\* PostgreSQL aborts one of the sessions that wait for each other.  The handler
\* wraps the error, so retry_on_deadlock does not see it: the request fails.
DeadlockVictim(p) ==
  /\ \E waiting \in SUBSET Sessions :
       /\ p \in waiting
       /\ \A q \in waiting : Busy(q) /\ Waits(q) \cap waiting # {}
  /\ Rollback(p)
  /\ UNCHANGED made

\* The server dies or loses its connection between two accesses.
Crash(p) ==
  /\ Busy(p)
  /\ Rollback(p)
  /\ UNCHANGED made

Init ==
  /\ db = [active   |-> Branches,
           rows     |-> {x \in Cells : Opening[x] > 0},
           balance  |-> Opening,
           reserved |-> [x \in Cells |-> 0],
           txns     |-> <<>>,
           history  |-> [x \in Cells |-> <<>>],
           last     |-> [day \in Days |-> 0]]
  /\ session = [p \in Sessions |-> Idle]
  /\ contended = {}
  /\ made = 0

Next ==
  \E p \in Sessions :
    \/ Step(p) \/ DeadlockVictim(p) \/ Crash(p)
    \/ \E r \in Requests : Begin(p, r)

\* The event loop resumes every handler that can go on, and PostgreSQL runs its
\* deadlock detector; no fairness for clients or crashes.
Spec == /\ Init /\ [][Next]_vars
        /\ \A p \in Sessions : WF_vars(Step(p)) /\ WF_vars(DeadlockVictim(p))

-----------------------------------------------------------------------------
(* What the handlers promise when they overlap.                            *)

Entries(x) == {db.history[x][k] : k \in 1..Len(db.history[x])}

TypeOK ==
  /\ Ledger!TypeOK
  /\ contended \subseteq Cells \cup {Midnight}
  /\ made \in 0..MaxRequests
  /\ \A p \in Sessions :
       /\ session[p].req.kind \in Kinds \cup {"none"}
       /\ session[p].seen \subseteq Cells
       /\ session[p].copy \in [found : BOOLEAN, balance : Nat, reserved : Nat]

(* Run one after the other, or all of them creations, the requests are steps
   of BranchLedger: each takes effect at its commit or not at all.  What
   keeps creations apart is the UNIQUE transaction number they insert before
   they read the balance they change; it no longer does once two requests
   have drawn numbers of different days and inserted both.                 *)
ImplementsLedger ==
  /\ Ledger!Init
  /\ [][Midnight \notin contended' => Ledger!Next \/ UNCHANGED Ledger!vars]_vars

(* Books only break on a cell that two requests use at the same time: on any
   other, the history explains the balance and the reserved balance is the
   sum of the waiting transfers, wherever the others crash or are aborted.  *)
UncontendedBooks ==
  \A x \in Cells \ contended :
    /\ Ledger!Explained(x)
    /\ db.reserved[x] = Ledger!TotalOf(Ledger!Claims(db.txns, x))
    /\ db.reserved[x] <= db.balance[x]

(* "All operations are atomic", "No orphaned records": even when requests
   race on the same cell, no history row refers to a transaction that was
   rolled back, a creation is there with all its postings, and a transfer
   takes out exactly what it brings in.                                    *)
NothingHalfDone ==
  /\ \A x \in Cells : \A e \in Entries(x) : e.txn \in 0..Len(db.txns)
  /\ \A i \in 1..Len(db.txns) :
       LET t == db.txns[i]
           Posted(x, amount) == \E e \in Entries(x) :
                                  e.txn = i /\ e.change = "transaction" /\ e.amount = amount
       IN CASE t.type = "transfer" -> Ledger!Net(db.history[t.cell], i)
                                        = - Ledger!Net(db.history[t.toCell], i)
            [] t.type = "income"   -> Posted(t.cell, t.amount)
            [] t.type = "expense"  -> Posted(t.cell, -t.amount)
            [] t.type = "exchange" -> Posted(t.cell, -t.cost) /\ Posted(t.toCell, t.toAmount)

(* No request waits forever: whatever it waits for ends, and sessions that
   wait for each other are broken up.                                      *)
EveryRequestEnds == \A p \in Sessions : Busy(p) ~> ~ Busy(p)

(* "Get current balance (with lock for update)": no committed change of a
   balance is overwritten by a request that had read the row before it.    *)
NoLostUpdate == \A x \in Cells : Ledger!Explained(x)

\* "COMPLETED: [],  # Immutable": no other handler changes a completed transaction.
CompletedIsImmutable ==
  [][\A i \in 1..Len(db.txns) :
       db.txns[i].status = "completed" => db'.txns[i].status = "completed"]_vars
=============================================================================
