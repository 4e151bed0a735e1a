---------------------------- MODULE BranchLedger ----------------------------
(***************************************************************************)
(* The promise of TransactionService and BalanceService: every request is  *)
(* one atomic step over the branch balances, the transactions table and    *)
(* the balance history.  One action is one handler, from its validations   *)
(* to its commit; a handler that raises rolls back and leaves no step.     *)
(* RequestLedger splits the same handlers into their database accesses.    *)
(*                                                                         *)
(* A cell is a row of branch_balances, <<branch, currency>>.  Amounts are  *)
(* cents.  Transactions are numbered by their position in `txns`, the      *)
(* order of their transaction numbers.                                     *)
(***************************************************************************)
EXTENDS Money, Totals, Sequences

CONSTANTS
  Branches, Currencies,   \* branches and active currencies
  MainBranches,           \* branches with is_main_branch set
  Amounts,                \* amounts a request may carry
  Counts,                 \* counted balances a reconciliation may report
  Rates, Commissions,     \* rates get_latest_rate may return; percentages
  ExpenseLimit,           \* max_single of validate_transaction_limits
  Opening,                \* balances loaded before the first request
  MaxTransactions,        \* bound: transactions ever created
  MaxEntries              \* bound: history length at which reconciling stops

Cells == Branches \X Currencies

ASSUME LedgerAssumption ==
  /\ MainBranches \subseteq Branches
  /\ Amounts \subseteq Nat \ {0}
  /\ Counts \subseteq Nat
  /\ Rates \subseteq Nat \ {0}
  /\ Commissions \subseteq 0..PercentScale
  /\ ExpenseLimit \in Nat
  /\ Opening \in [Cells -> Nat]
  /\ MaxTransactions \in Nat
  /\ MaxEntries \in Nat

VARIABLES
  active,     \* branches whose is_active flag is set
  rows,       \* cells that have a branch_balances row
  balance,    \* balance column; 0 where there is no row
  reserved,   \* reserved_balance column; 0 where there is no row
  txns,       \* the transactions table, oldest first
  history     \* per cell, the branch_balance_history rows, oldest first

vars == <<active, rows, balance, reserved, txns, history>>

Types       == {"income", "expense", "exchange", "transfer"}
Statuses    == {"pending", "completed", "cancelled"}
ChangeTypes == {"transaction", "transfer_out", "transfer_in", "adjustment",
                "reconciliation"}

(* `cell` is the branch and currency the transaction is booked under and,
   for an exchange or a transfer, the side that pays `cost`; `toCell` is the
   side credited with `toAmount` (the same cell, and 0, for an expense).   *)
Transactions ==
  [type: Types, status: Statuses, cell: Cells, amount: Nat \ {0}, cost: Nat,
   toCell: Cells, toAmount: Nat, approvalRequired: BOOLEAN, approved: BOOLEAN]

\* `txn` is reference_id, 0 for a reconciliation.
Entries ==
  [txn: Nat, change: ChangeTypes, amount: Int, before: Nat, after: Nat]

TypeOK ==
  /\ active \subseteq Branches
  /\ rows \subseteq Cells
  /\ balance \in [Cells -> Nat]
  /\ reserved \in [Cells -> Nat]
  /\ txns \in Seq(Transactions)
  /\ history \in [Cells -> Seq(Entries)]

-----------------------------------------------------------------------------
(* The operations of BalanceService, as a guard and an effect.             *)

Available(x) == balance[x] - reserved[x]

(* The operators named <operation>_<fault> are the faults the runs are tried
   against: each replaces the operation after it by a plausible mistake.    *)
MayUpdate_IgnoresReserved(x, amount) == balance[x] + amount >= 0

\* update_balance raises when the result is negative or below the reserved.
MayUpdate(x, amount) == /\ balance[x] + amount >= 0
                        /\ reserved[x] <= balance[x] + amount

Entry_WrongSign(x, amount, change, ref) ==
  [txn |-> ref, change |-> change, amount |-> amount,
   before |-> balance[x], after |-> balance[x] - amount]

Entry(x, amount, change, ref) ==
  [txn |-> ref, change |-> change, amount |-> amount,
   before |-> balance[x], after |-> balance[x] + amount]

\* One update_balance call: the row (created when missing) and its history.
UpdateBalance(x, amount, change, ref) ==
  /\ MayUpdate(x, amount)
  /\ rows' = rows \cup {x}
  /\ balance' = [balance EXCEPT ![x] = @ + amount]
  /\ history' = [history EXCEPT ![x] = Append(@, Entry(x, amount, change, ref))]

UpdateBalances_OneEntry(x, amountX, changeX, y, amountY, changeY, ref) ==
  /\ x # y
  /\ MayUpdate(x, amountX)
  /\ MayUpdate(y, amountY)
  /\ rows' = rows \cup {x, y}
  /\ balance' = [balance EXCEPT ![x] = @ + amountX, ![y] = @ + amountY]
  /\ history' = [history EXCEPT ![x] = Append(@, Entry(x, amountX, changeX, ref))]

\* Two update_balance calls of one database transaction, on different rows.
UpdateBalances(x, amountX, changeX, y, amountY, changeY, ref) ==
  /\ x # y
  /\ MayUpdate(x, amountX)
  /\ MayUpdate(y, amountY)
  /\ rows' = rows \cup {x, y}
  /\ balance' = [balance EXCEPT ![x] = @ + amountX, ![y] = @ + amountY]
  /\ history' = [history EXCEPT
                   ![x] = Append(@, Entry(x, amountX, changeX, ref)),
                   ![y] = Append(@, Entry(y, amountY, changeY, ref))]

ReserveBalance_Overwrites(x, amount) ==
  /\ x \in rows
  /\ Available(x) >= amount
  /\ reserved' = [reserved EXCEPT ![x] = amount]

ReserveBalance(x, amount) ==
  /\ x \in rows
  /\ Available(x) >= amount
  /\ reserved' = [reserved EXCEPT ![x] = @ + amount]

ReleaseReservedBalance(x, amount) ==
  /\ x \in rows
  /\ reserved[x] >= amount
  /\ reserved' = [reserved EXCEPT ![x] = @ - amount]

-----------------------------------------------------------------------------
(* The handlers of TransactionService.                                     *)

NextNumber == Len(txns) + 1

Insert(t) == /\ Len(txns) < MaxTransactions
             /\ txns' = Append(txns, t)

SetStatus(i, status) == txns' = [txns EXCEPT ![i].status = status]

Income(x, a) ==
  [type |-> "income", status |-> "completed", cell |-> x, amount |-> a,
   cost |-> 0, toCell |-> x, toAmount |-> a,
   approvalRequired |-> FALSE, approved |-> FALSE]

Expense(x, a, approval) ==
  [type |-> "expense", status |-> IF approval THEN "pending" ELSE "completed",
   cell |-> x, amount |-> a, cost |-> a, toCell |-> x, toAmount |-> 0,
   approvalRequired |-> approval, approved |-> FALSE]

Exchange(x, y, a, rate, pct) ==
  [type |-> "exchange", status |-> "completed", cell |-> x, amount |-> a,
   cost |-> TotalCost(a, pct), toCell |-> y, toAmount |-> ToAmount(a, rate),
   approvalRequired |-> FALSE, approved |-> FALSE]

Transfer(x, y, a) ==
  [type |-> "transfer", status |-> "pending", cell |-> x, amount |-> a,
   cost |-> a, toCell |-> y, toAmount |-> a,
   approvalRequired |-> FALSE, approved |-> FALSE]

CreateIncome(b, c, a) ==
  /\ b \in active
  /\ Insert(Income(<<b, c>>, a))
  /\ UpdateBalance(<<b, c>>, a, "transaction", NextNumber)
  /\ UNCHANGED <<active, reserved>>

\* The money leaves the branch at once, approval or not.
CreateExpense(b, c, a, approval) ==
  /\ b \in active
  /\ <<b, c>> \in rows
  /\ Available(<<b, c>>) >= a
  /\ a <= ExpenseLimit
  /\ Insert(Expense(<<b, c>>, a, approval))
  /\ UpdateBalance(<<b, c>>, -a, "transaction", NextNumber)
  /\ UNCHANGED <<active, reserved>>

CreateExchange(b, c, d, a, rate, pct) ==
  /\ c # d
  /\ b \in active
  /\ <<b, c>> \in rows
  /\ Available(<<b, c>>) >= TotalCost(a, pct)
  /\ Insert(Exchange(<<b, c>>, <<b, d>>, a, rate, pct))
  /\ UpdateBalances(<<b, c>>, -TotalCost(a, pct), "transaction",
                    <<b, d>>, ToAmount(a, rate), "transaction", NextNumber)
  /\ UNCHANGED <<active, reserved>>

\* Phase 1 of a transfer: the amount is reserved, not yet deducted.
CreateTransfer(b, to, c, a) ==
  /\ {b, to} \subseteq active
  /\ b # to
  /\ Insert(Transfer(<<b, c>>, <<to, c>>, a))
  /\ ReserveBalance(<<b, c>>, a)
  /\ UNCHANGED <<active, rows, balance, history>>

(* Phase 2, in the order of the code: deduct (update_balance compares the
   remainder with everything that is still reserved, this transfer
   included), credit the other branch, then release.                       *)
CompleteTransfer(i) ==
  /\ txns[i].type = "transfer"
  /\ txns[i].status = "pending"
  /\ UpdateBalances(txns[i].cell, -txns[i].amount, "transfer_out",
                    txns[i].toCell, txns[i].amount, "transfer_in", i)
  /\ ReleaseReservedBalance(txns[i].cell, txns[i].amount)
  /\ SetStatus(i, "completed")
  /\ UNCHANGED active

ApproveExpense_AnyStatus(i) ==
  /\ txns[i].type = "expense"
  /\ txns[i].approvalRequired
  /\ ~ txns[i].approved
  /\ txns' = [txns EXCEPT ![i].status = "completed", ![i].approved = TRUE]
  /\ UNCHANGED <<active, rows, balance, reserved, history>>

ApproveExpense(i) ==
  /\ txns[i].type = "expense"
  /\ txns[i].approvalRequired
  /\ ~ txns[i].approved
  /\ txns[i].status = "pending"
  /\ txns' = [txns EXCEPT ![i].status = "completed", ![i].approved = TRUE]
  /\ UNCHANGED <<active, rows, balance, reserved, history>>

Reversal_Again(t) == -t.amount

(* cancel_transaction reverses what the handler of the type had done.  The
   branch for an exchange is left out: it only changes the status, and
   PendingIsCancellable shows that no exchange is ever pending.             *)
Reversal(t) == IF t.type = "income" THEN -t.amount ELSE t.amount

CancelTransaction_KeepsReservation(i) ==
  /\ txns[i].status = "pending"
  /\ SetStatus(i, "cancelled")
  /\ \/ /\ txns[i].type \in {"income", "expense"}
        /\ UpdateBalance(txns[i].cell, Reversal(txns[i]), "adjustment", i)
        /\ UNCHANGED reserved
     \/ /\ txns[i].type = "transfer"
        /\ UNCHANGED <<rows, balance, reserved, history>>
  /\ UNCHANGED active

CancelTransaction_AnyStatus(i) ==
  /\ txns[i].status \in {"pending", "completed"}
  /\ SetStatus(i, "cancelled")
  /\ \/ /\ txns[i].type \in {"income", "expense"}
        /\ UpdateBalance(txns[i].cell, Reversal(txns[i]), "adjustment", i)
        /\ UNCHANGED reserved
     \/ /\ txns[i].type = "transfer"
        /\ ReleaseReservedBalance(txns[i].cell, txns[i].amount)
        /\ UNCHANGED <<rows, balance, history>>
  /\ UNCHANGED active

CancelTransaction(i) ==
  /\ txns[i].status = "pending"
  /\ SetStatus(i, "cancelled")
  /\ \/ /\ txns[i].type \in {"income", "expense"}
        /\ UpdateBalance(txns[i].cell, Reversal(txns[i]), "adjustment", i)
        /\ UNCHANGED reserved
     \/ /\ txns[i].type = "transfer"
        /\ ReleaseReservedBalance(txns[i].cell, txns[i].amount)
        /\ UNCHANGED <<rows, balance, history>>
  /\ UNCHANGED active

\* A count equal to the balance only stamps the row.
ReconcileBranchBalance(x, actual) ==
  /\ x \in rows
  /\ actual # balance[x]
  /\ Len(history[x]) < MaxEntries
  /\ UpdateBalance(x, actual - balance[x], "reconciliation", 0)
  /\ UNCHANGED <<active, reserved, txns>>

-----------------------------------------------------------------------------
(* The handlers of BranchService that decide which branches are active.    *)

DeleteBranch(b) ==
  /\ b \notin MainBranches
  /\ \A c \in Currencies : balance[<<b, c>>] = 0
  /\ active' = active \ {b}
  /\ UNCHANGED <<rows, balance, reserved, txns, history>>

(* PUT /branches/{id} writes is_active as given, without a look at balances.
   It may also move is_main_branch, which only decides whom delete_branch
   refuses; as this action closes any branch, the flag is a constant here.  *)
UpdateBranch(b, isActive) ==
  /\ active' = IF isActive THEN active \cup {b} ELSE active \ {b}
  /\ UNCHANGED <<rows, balance, reserved, txns, history>>

-----------------------------------------------------------------------------
Init ==
  /\ active = Branches
  /\ rows = {x \in Cells : Opening[x] > 0}
  /\ balance = Opening
  /\ reserved = [x \in Cells |-> 0]
  /\ txns = <<>>
  /\ history = [x \in Cells |-> <<>>]

Next ==
  \/ \E b \in Branches, c \in Currencies, a \in Amounts :
       \/ CreateIncome(b, c, a)
       \/ \E approval \in BOOLEAN : CreateExpense(b, c, a, approval)
       \/ \E d \in Currencies, rate \in Rates, pct \in Commissions :
            CreateExchange(b, c, d, a, rate, pct)
       \/ \E to \in Branches : CreateTransfer(b, to, c, a)
  \/ \E i \in 1..Len(txns) :
       CompleteTransfer(i) \/ ApproveExpense(i) \/ CancelTransaction(i)
  \/ \E x \in Cells, n \in Counts : ReconcileBranchBalance(x, n)
  \/ \E b \in Branches :
       \/ DeleteBranch(b)
       \/ \E isActive \in BOOLEAN : UpdateBranch(b, isActive)

Spec == Init /\ [][Next]_vars

-----------------------------------------------------------------------------
(* What the ledger promises.                                               *)

Pending(i) == txns[i].status = "pending"

\* What transaction t still holds reserved on cell x.
ClaimOf(t, x) ==
  IF t.type = "transfer" /\ t.status = "pending" /\ t.cell = x THEN t.amount ELSE 0

Claims(table, x) == [k \in 1..Len(table) |-> ClaimOf(table[k], x)]

\* The part of history row e that refers to transaction i (every row if i = 0).
PostOf(e, i) == IF i \in {0, e.txn} THEN e.amount ELSE 0

\* The sum of the history rows that refer to transaction i.
Net(entries, i) == TotalOf([k \in 1..Len(entries) |-> PostOf(entries[k], i)])

(* What transaction t must have done to cell x by its type and status: an
   expense pays when created, even if it still waits for an approval, a
   transfer pays when received, a cancelled transaction did nothing.       *)
Effect(t, x) ==
  IF t.status = "cancelled" \/ (t.type = "transfer" /\ t.status = "pending")
  THEN 0
  ELSE (IF x = t.toCell THEN t.toAmount ELSE 0) - (IF x = t.cell THEN t.cost ELSE 0)

(* reserved_not_exceeding_balance, which the handlers must respect without
   the help of the CHECK: no sequence of requests makes a branch promise
   more than it holds.                                                     *)
BooksSound == \A x \in Cells : reserved[x] <= balance[x]

(* reserve_balance keeps one number per cell, not a reservation per transfer:
   it must always be the sum of the transfers that still wait, so that every
   release finds what its own transfer reserved.                           *)
ReservationsMatchTransfers ==
  \A x \in Cells : reserved[x] = TotalOf(Claims(txns, x))

\* Each history row of x starts where the previous one ended, the last one ends
\* at the balance, and the changes add up to it.
Explained(x) ==
  /\ \A k \in 1..Len(history[x]) :
       /\ history[x][k].before =
            IF k = 1 THEN Opening[x] ELSE history[x][k - 1].after
       /\ history[x][k].after = history[x][k].before + history[x][k].amount
  /\ balance[x] = IF history[x] = <<>> THEN Opening[x]
                  ELSE history[x][Len(history[x])].after
  /\ balance[x] = Opening[x] + Net(history[x], 0)

(* The audit trail explains every balance from the opening one on, without a
   gap: update_balance and _create_history_record stay in step.            *)
HistoryExplainsBalance == \A x \in Cells : Explained(x)

(* Each transaction has done, net of its cancellation, exactly what its type
   and status say, on every cell: nothing is paid twice, refunded twice or
   left behind by create, receive, approve and cancel in any order.  What an
   expense says is that of the code: create_expense deducts it even when it
   waits for an approval, and approving only changes its status, although the
   endpoints say that a manager approves "before funds are deducted" and
   that "Approving deducts the amount from branch balance".                *)
EffectsMatchStatus ==
  \A i \in 1..Len(txns), x \in Cells : Net(history[x], i) = Effect(txns[i], x)

(* is_cancellable: whatever else the branch did meanwhile, a pending
   transaction can be cancelled.  It is an expense whose refund is accepted,
   or a transfer whose reservation is still there to be released.  Incomes
   and exchanges never wait: their branches of cancel_transaction are dead.  *)
PendingIsCancellable ==
  \A i \in 1..Len(txns) : Pending(i) =>
    \/ /\ txns[i].type = "expense"
       /\ txns[i].approvalRequired /\ ~ txns[i].approved
       /\ MayUpdate(txns[i].cell, txns[i].amount)
    \/ /\ txns[i].type = "transfer"
       /\ txns[i].cell \in rows
       /\ reserved[txns[i].cell] >= txns[i].amount

(* validate_status_transition: COMPLETED and CANCELLED are immutable, rows of
   the transactions table never disappear, and a history row is never
   rewritten, whatever the handler.                                        *)
SettledIsFinal ==
  [][/\ \A i \in 1..Len(txns) :
          /\ i \in 1..Len(txns')
          /\ ~ Pending(i) => txns'[i] = txns[i]
     /\ \A x \in Cells : \A k \in 1..Len(history[x]) :
          k \in 1..Len(history'[x]) /\ history'[x][k] = history[x][k]]_vars

(* create_transfer reserves "balance in from_branch" so that the amount is
   there when the receiver completes it: a pending transfer whose branch
   holds the money can be completed.                                       *)
PendingTransferCompletable ==
  \A i \in 1..Len(txns) :
    txns[i].type = "transfer" /\ Pending(i) =>
      /\ MayUpdate(txns[i].cell, -txns[i].amount)
      /\ MayUpdate(txns[i].toCell, txns[i].amount)
=============================================================================
