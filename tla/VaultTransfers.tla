--------------------------- MODULE VaultTransfers ---------------------------
(***************************************************************************)
(* VaultService: money moved between vaults, and between vaults and        *)
(* branches, through a transfer that may need an approval.  Unlike the     *)
(* handlers of RequestLedger, these COMMIT SEVERAL TIMES: every            *)
(* update_vault_balance commits, so a request that stops half-way leaves   *)
(* what it has committed.  Requests interleave between a SELECT and the    *)
(* commit that writes what was computed from it (READ COMMITTED, no locks  *)
(* asked for), and may be cut off anywhere.                                *)
(*                                                                         *)
(* Nothing relates two currencies of a vault, so there is one.  A branch's *)
(* own balance is only read here, never written: it is a constant.         *)
(***************************************************************************)
EXTENDS Totals, FiniteSets

CONSTANTS
  Vaults, Branches,     \* vaults; active branches
  BranchVault,          \* the BRANCH vault of each branch
  BranchFunds,          \* balance of each branch, as BranchBalance has it
  Opening,              \* balance of the vaults that have a row at the start
  Amounts, Counts,      \* amounts of transfers; balances an admin may set
  Threshold,            \* TRANSFER_APPROVAL_THRESHOLD
  Sessions,             \* requests that may run at the same time
  Kinds,                \* which requests are made
  MaxRequests           \* bound: requests ever made

ASSUME VaultAssumption ==
  /\ Vaults \cap Branches = {}
  /\ BranchVault \in [Branches -> Vaults]
  /\ BranchFunds \in [Branches -> Nat]
  /\ DOMAIN Opening \subseteq Vaults /\ Opening \in [DOMAIN Opening -> Nat]
  /\ Amounts \subseteq Nat \ {0} /\ Counts \subseteq Nat
  /\ Threshold \in Nat /\ MaxRequests \in Nat

VARIABLES
  active,      \* vaults whose is_active flag is set
  balance,     \* the vault_balances rows: a function on the vaults that have one
  transfers,   \* the vault_transfers table, oldest first
  session,     \* per session, what its request has still to do
  made,        \* requests made
  moved,       \* history: per transfer, what it took out of its source and
               \*   brought to its destination, net
  adjusted,    \* history: per vault, the sum of the adjustments by an admin
  contended,   \* history: vaults that two requests were using at one time
  disturbed    \* history: transfers that two requests were handling at one
               \*   time, or whose request was cut off after a commit

tables == <<active, balance, transfers, moved, adjusted>>
vars   == <<tables, session, made, contended, disturbed>>

Statuses == {"pending", "in_transit", "completed", "cancelled"}

Transfers == [from : Vaults, to : Vaults \cup Branches, amount : Nat \ {0},
              status : Statuses]

-----------------------------------------------------------------------------
(* Requests, and what each handler does, in its order.                     *)

Reviewing == {"approve", "reject", "complete", "cancel"}

Requests ==
  {r \in [kind : {"vault"}, from : Vaults, to : Vaults, amount : Amounts]
      \cup [kind : {"toBranch"}, from : Vaults, to : Branches, amount : Amounts]
      \cup [kind : {"fromBranch"}, branch : Branches, to : Vaults, amount : Amounts]
      \cup [kind : Reviewing, txn : 1..Len(transfers)]
      \cup [kind : {"adjust"}, vault : Vaults, count : Counts]
      \cup [kind : {"close"}, vault : Vaults] :
    r.kind \in Kinds /\ (r.kind = "vault" => r.from # r.to)}

Do(op, v, amount, side) == [op |-> op, vault |-> v, amount |-> amount, side |-> side]

\* The operators named <definition>_<fault> are the faults the runs are tried
\* against: each replaces the definition after it by a plausible mistake.
Give_OtherRow(v, a) == <<Do("move", v, a, "in")>>

\* One update_vault_balance each: its SELECT, then its commit.
Take(v, a)    == <<Do("read", v, 0, ""), Do("move", v, -a, "out")>>
Give(v, a)    == <<Do("read", v, 0, ""), Do("move", v, a, "in")>>
Return(v, a)  == <<Do("read", v, 0, ""), Do("move", v, a, "out")>>
Reclaim(v, a) == <<Do("read", v, 0, ""), Do("move", v, -a, "in")>>

Op(op) == <<Do(op, <<>>, 0, "")>>

\* BranchService has no update_branch_balance: the call raises.
MissingMethod == Op("raise")

\* _execute_vault_transfer and _reverse_vault_transfer, the second call of each.
Deliver(t)  == IF t.to \in Vaults THEN Give(t.to, t.amount) ELSE MissingMethod
Withdraw(t) == IF t.to \in Vaults THEN Reclaim(t.to, t.amount) ELSE MissingMethod

Row(r) ==
  LET small == r.amount < Threshold
  IN CASE r.kind = "fromBranch" ->
            [from |-> BranchVault[r.branch], to |-> r.to, amount |-> r.amount,
             status |-> "pending"]
       [] OTHER ->
            [from |-> r.from, to |-> r.to, amount |-> r.amount,
             status |-> IF small THEN "in_transit" ELSE "pending"]

(* What follows the first SELECT of a handler.  transfer_vault_to_vault
   still holds the row it has checked, so it takes the amount from THAT.   *)
Creation(r) ==
  Op("number") \o Op("insert")
    \o IF r.kind = "vault" /\ r.amount < Threshold
       THEN <<Do("move", r.from, -r.amount, "out")>> \o Deliver(Row(r))
       ELSE <<>>

Review_AlwaysReverses(kind, t) ==
  CASE kind = "approve"  -> Take(t.from, t.amount) \o Deliver(t)
    [] kind = "complete" -> Op("completed")
    [] kind = "reject"   -> Op("cancelled")
    [] kind = "cancel"   -> Return(t.from, t.amount) \o Withdraw(t) \o Op("cancelled")

\* What approve, reject, complete and cancel do once they have seen t.
Review(kind, t) ==
  CASE kind = "approve"  -> Take(t.from, t.amount) \o Deliver(t)
    [] kind = "complete" -> Op("completed")
    [] kind = "reject"   -> Op("cancelled")
    [] kind = "cancel" -> (IF t.status = "in_transit"
                           THEN Return(t.from, t.amount) \o Withdraw(t)
                           ELSE <<>>) \o Op("cancelled")

Reviewable(kind, t) ==
  CASE kind \in {"approve", "reject"} -> t.status = "pending"
    [] kind = "complete" -> t.status = "in_transit"
    [] kind = "cancel"   -> t.status \in {"pending", "in_transit"}

-----------------------------------------------------------------------------
(* Sessions.                                                               *)

NoRow == [found |-> FALSE, balance |-> 0]

(* `todo` is what is left to do, `copy` the vault_balances row in the
   handler's hands, `number` the transfer number it generated, `txn` the
   transfer it handles ({} or one number); `seen` and `wrote` only serve
   `contended` and `disturbed`.                                            *)
Begun(r) ==
  [req |-> r, todo |-> Op("begin"), copy |-> NoRow, number |-> 0, txn |-> {},
   seen |-> {}, wrote |-> {}]

Idle == [Begun([kind |-> "none"]) EXCEPT !.todo = <<>>]

Busy(p)   == session[p].todo # <<>>
At(p, op) == Busy(p) /\ Head(session[p].todo).op = op
Others(p) == {q \in Sessions \ {p} : Busy(q)}

Visible(v) == IF v \in DOMAIN balance THEN [found |-> TRUE, balance |-> balance[v]]
                                      ELSE NoRow

\* A handler that raises, or that is cut off: what it has committed stays.
Fail(p) ==
  /\ session' = [session EXCEPT ![p] = Idle]
  /\ disturbed' = disturbed \cup session[p].wrote
  /\ UNCHANGED <<tables, contended>>

\* p goes on as s, with `rest` still to do.
Goto(p, s, rest) ==
  session' = [session EXCEPT ![p] = IF rest = <<>> THEN Idle
                                    ELSE [s EXCEPT !.todo = rest]]

Rest(p) == Tail(session[p].todo)

\* p works on vault v from here on.
Touch(p, v) ==
  contended' = IF \E q \in Others(p) : v \in session[q].seen
               THEN contended \cup {v} ELSE contended

Store(v, n) == balance' = [u \in DOMAIN balance \cup {v} |-> IF u = v THEN n ELSE balance[u]]

-----------------------------------------------------------------------------
(* The steps of the handlers.                                              *)

\* The first look of a creating handler at vaults and funds.
Check(p) ==
  LET r == session[p].req
  IN /\ At(p, "begin")
     /\ \/ /\ r.kind \in {"vault", "toBranch"}
           /\ IF /\ {r.from, r.to} \cap Vaults \subseteq active
                 /\ Visible(r.from).balance >= r.amount
              THEN /\ Goto(p, [session[p] EXCEPT !.copy = Visible(r.from),
                                                 !.seen = {r.from}], Creation(r))
                   /\ Touch(p, r.from)
                   /\ UNCHANGED <<tables, disturbed>>
              ELSE Fail(p)
        \/ /\ r.kind = "fromBranch"
           /\ IF /\ {r.to, BranchVault[r.branch]} \subseteq active
                 /\ BranchFunds[r.branch] >= r.amount
              THEN /\ Goto(p, session[p], Creation(r))
                   /\ UNCHANGED <<tables, contended, disturbed>>
              ELSE Fail(p)

GenerateNumber(p) ==
  /\ At(p, "number")
  /\ Goto(p, [session[p] EXCEPT !.number = Len(transfers) + 1], Rest(p))
  /\ UNCHANGED <<tables, contended, disturbed>>

\* transfer_number is UNIQUE.
InsertTransfer(p) ==
  LET n == session[p].number
  IN /\ At(p, "insert")
     /\ IF n <= Len(transfers) THEN Fail(p)
        ELSE /\ transfers' = Append(transfers, Row(session[p].req))
             /\ moved' = Append(moved, [out |-> 0, in |-> 0])
             /\ Goto(p, [session[p] EXCEPT !.txn = {n}, !.wrote = {n}], Rest(p))
             /\ UNCHANGED <<active, balance, adjusted, contended, disturbed>>

\* The look at the status of a transfer by approve, complete and cancel.
LoadTransfer(p) ==
  LET r == session[p].req
      t == transfers[r.txn]
  IN /\ At(p, "begin")
     /\ r.kind \in Reviewing
     /\ IF Reviewable(r.kind, t)
        THEN /\ Goto(p, [session[p] EXCEPT !.txn = {r.txn}], Review(r.kind, t))
             /\ disturbed' = IF \E q \in Others(p) : r.txn \in session[q].txn
                             THEN disturbed \cup {r.txn} ELSE disturbed
             /\ UNCHANGED <<tables, contended>>
        ELSE Fail(p)

\* The SELECT of update_vault_balance.
ReadBalance(p) ==
  LET v == Head(session[p].todo).vault
  IN /\ At(p, "read")
     /\ Goto(p, [session[p] EXCEPT !.copy = Visible(v), !.seen = @ \cup {v}], Rest(p))
     /\ Touch(p, v)
     /\ UNCHANGED <<tables, disturbed>>

MayMove_Overdrawn(new, copy, v) == copy.found \/ v \notin DOMAIN balance

\* update_vault_balance refuses a negative balance, the database a second row.
MayMove(new, copy, v) == new >= 0 /\ (copy.found \/ v \notin DOMAIN balance)

StatusWritten_Later(kind, side, status) ==
  IF kind = "approve" /\ side = "in" THEN "in_transit" ELSE status

\* The status that the commit of update_vault_balance writes along: the first
\* one after approve_transfer has set it on the transfer.
StatusWritten(kind, side, status) ==
  IF kind = "approve" /\ side = "out" THEN "in_transit" ELSE status

\* The rest of update_vault_balance, to its commit.
MoveBalance(p) ==
  LET s    == session[p]
      move == Head(s.todo)
      new  == s.copy.balance + move.amount
  IN /\ At(p, "move")
     /\ IF ~ MayMove(new, s.copy, move.vault) THEN Fail(p)
        ELSE \E i \in s.txn :
               /\ Store(move.vault, new)
               /\ moved' = [moved EXCEPT ![i][move.side] =
                              IF move.side = "in" THEN @ + move.amount ELSE @ - move.amount]
               /\ transfers' = [transfers EXCEPT ![i].status = StatusWritten(s.req.kind, move.side, @)]
               /\ Goto(p, [s EXCEPT !.wrote = {i}], Rest(p))
               /\ UNCHANGED <<active, adjusted, contended, disturbed>>

\* A commit that only writes the status, whatever it is by now.
SetStatus(p) ==
  \E status \in {"completed", "cancelled"} :
    /\ At(p, status)
    /\ \E i \in session[p].txn :
         /\ transfers' = [transfers EXCEPT ![i].status = status]
         /\ Goto(p, [session[p] EXCEPT !.wrote = {i}], Rest(p))
    /\ UNCHANGED <<active, balance, moved, adjusted, contended, disturbed>>

CallMissingMethod(p) == At(p, "raise") /\ Fail(p)

\* adjust_vault_balance: get_vault_balance, which commits a row when there is
\* none, then update_vault_balance on the row object it still holds.
LookBeforeAdjust(p) ==
  LET v == session[p].req.vault
  IN /\ At(p, "begin") /\ session[p].req.kind = "adjust"
     /\ IF v \notin active THEN Fail(p)
        ELSE /\ IF v \in DOMAIN balance THEN UNCHANGED balance ELSE Store(v, 0)
             /\ Goto(p, [session[p] EXCEPT !.copy = [found |-> TRUE, balance |-> Visible(v).balance],
                                           !.seen = {v}], Op("set"))
             /\ Touch(p, v)
             /\ UNCHANGED <<active, transfers, moved, adjusted, disturbed>>

\* A difference of 0 writes nothing.
Adjust(p) ==
  LET r == session[p].req
      difference == r.count - session[p].copy.balance
  IN /\ At(p, "set")
     /\ IF difference = 0 THEN UNCHANGED <<balance, adjusted>>
        ELSE /\ Store(r.vault, r.count)
             /\ adjusted' = [adjusted EXCEPT ![r.vault] = @ + difference]
     /\ Goto(p, session[p], Rest(p))
     /\ UNCHANGED <<active, transfers, moved, contended, disturbed>>

\* update_vault with is_active = False (it finds active vaults only: one that is
\* closed cannot be opened again).
CloseVault(p) ==
  LET v == session[p].req.vault
  IN /\ At(p, "begin") /\ session[p].req.kind = "close"
     /\ IF v \notin active THEN Fail(p)
        ELSE /\ active' = active \ {v}
             /\ Goto(p, session[p], Rest(p))
             /\ UNCHANGED <<balance, transfers, moved, adjusted, contended, disturbed>>

-----------------------------------------------------------------------------
Step(p) ==
  /\ \/ Check(p) \/ GenerateNumber(p) \/ InsertTransfer(p)
     \/ LoadTransfer(p) \/ ReadBalance(p) \/ MoveBalance(p) \/ SetStatus(p)
     \/ CallMissingMethod(p) \/ LookBeforeAdjust(p) \/ Adjust(p) \/ CloseVault(p)
  /\ UNCHANGED made

Begin(p, r) ==
  /\ ~ Busy(p)
  /\ made < MaxRequests
  /\ made' = made + 1
  /\ session' = [session EXCEPT ![p] = Begun(r)]
  /\ UNCHANGED <<tables, contended, disturbed>>

\* The server dies or loses its connection between two accesses.
Crash(p) == Busy(p) /\ Fail(p) /\ UNCHANGED made

Init ==
  /\ active = Vaults
  /\ balance = Opening
  /\ transfers = <<>>
  /\ moved = <<>>
  /\ adjusted = [v \in Vaults |-> 0]
  /\ session = [p \in Sessions |-> Idle]
  /\ made = 0
  /\ contended = {}
  /\ disturbed = {}

Next ==
  \E p \in Sessions : \/ Step(p) \/ Crash(p)
                      \/ \E r \in Requests : Begin(p, r)

Spec == Init /\ [][Next]_vars
-----------------------------------------------------------------------------
(* What the vaults promise.                                                *)

TypeOK ==
  /\ active \subseteq Vaults
  /\ DOMAIN balance \subseteq Vaults /\ balance \in [DOMAIN balance -> Nat]
  /\ transfers \in Seq(Transfers)
  /\ moved \in Seq([out : Int, in : Int])
  /\ DOMAIN moved = DOMAIN transfers
  /\ made \in 0..MaxRequests
  /\ contended \subseteq Vaults
  /\ disturbed \subseteq DOMAIN transfers

Cell(f, v) == IF v \in DOMAIN f THEN f[v] ELSE 0

\* What the transfers took from v and brought to v.
Flow(v) ==
  TotalOf([k \in DOMAIN transfers |->
             (IF transfers[k].to = v THEN moved[k].in ELSE 0)
               - (IF transfers[k].from = v THEN moved[k].out ELSE 0)])

(* "PENDING: Created, waiting approval": whatever else runs, and wherever the
   server dies, nothing has been taken for a transfer that still waits, so
   that approving it again after a failure does not pay twice.             *)
PendingMovedNothing ==
  \A i \in DOMAIN transfers :
    transfers[i].status = "pending" => moved[i] = [out |-> 0, in |-> 0]

(* A transfer to a vault whose requests came one after the other and were not
   cut off has taken and brought its amount if it is in transit or completed,
   and nothing at all if it waits or was cancelled.                        *)
UndisturbedTransferIsWhole ==
  \A i \in DOMAIN transfers \ disturbed :
    LET t == transfers[i]
        n == IF t.status \in {"in_transit", "completed"} THEN t.amount ELSE 0
    IN (t.to \in Vaults /\ \A p \in Sessions : i \notin session[p].txn)
         => moved[i] = [out |-> n, in |-> n]

(* However many commits a request makes and wherever it stops, no money
   appears or disappears on a vault that no two requests use at one time:
   its balance is the opening one, plus what the transfers and the
   adjustments have moved.                                                 *)
UncontendedVaultAddsUp ==
  \A v \in Vaults \ contended :
    Cell(balance, v) = Cell(Opening, v) + adjusted[v] + Flow(v)

(* "All transfer operations are atomic (commit or rollback)": when no request
   is running, each transfer has brought what it took.                     *)
TransfersAreAtomic ==
  (\A p \in Sessions : ~ Busy(p)) =>
    \A i \in DOMAIN transfers : moved[i].out = moved[i].in
=============================================================================
