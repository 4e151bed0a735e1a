------------------------- MODULE BranchLedgerProofs -------------------------
(***************************************************************************)
(* The promises of BranchLedger, for every set of branches and currencies, *)
(* every amount, rate and opening balance, and ledgers of any length: its  *)
(* types and books first, then what it promises of the past.  Settled      *)
(* transactions and the audit trail are final, pending ones can be         *)
(* cancelled, the history explains every balance, and every transaction    *)
(* has moved what its status says.  Last, what Reports tells of all this:  *)
(* the figures of a report are sums over the table (TotalsProofs), and the *)
(* rows they add up say what their handlers did (Priced, Told, RowsHold).  *)
(***************************************************************************)
EXTENDS Reports, TotalsProofs, SequenceTheorems

-----------------------------------------------------------------------------
(* Money.                                                                  *)

\* create_exchange credits and debits whole numbers of cents, and debits the
\* amount at least.
LEMMA ExchangeAmounts ==
  ASSUME NEW a \in Nat, NEW rate \in Nat, NEW pct \in Nat
  PROVE  ToAmount(a, rate) \in Nat /\ TotalCost(a, pct) \in Nat /\ TotalCost(a, pct) >= a
<1>1. a * rate \in Nat /\ a * pct \in Nat
  OBVIOUS
<1>2. ASSUME NEW n \in Nat, NEW d \in Nat \ {0} PROVE Quantize(n, d) \in Nat
  <2>1. n \div d \in Nat
    OBVIOUS
  <2> QED
    BY <2>1 DEF Quantize
<1>3. ToAmount(a, rate) \in Nat
  BY <1>1, <1>2, RateScaleAssumption DEF ToAmount
<1>4. CommissionAmount(a, pct) \in Nat
  BY <1>1, <1>2, PercentScale \in Nat \ {0} DEF CommissionAmount, PercentScale
<1> QED
  BY <1>3, <1>4 DEF TotalCost

-----------------------------------------------------------------------------
(* Type correctness.                                                       *)

\* A history row written by update_balance is well formed.
LEMMA EntryType ==
  ASSUME TypeOK, NEW x \in Cells, NEW amount \in Int, NEW change \in ChangeTypes,
         NEW ref \in Nat, MayUpdate(x, amount)
  PROVE  Entry(x, amount, change, ref) \in Entries
BY DEF TypeOK, MayUpdate, Entry, Entries

\* update_balance keeps the types of the three tables it writes.
LEMMA UpdateBalanceType ==
  ASSUME TypeOK, NEW x \in Cells, NEW amount \in Int, NEW change \in ChangeTypes,
         NEW ref \in Nat, UpdateBalance(x, amount, change, ref)
  PROVE  /\ rows' \subseteq Cells
         /\ balance' \in [Cells -> Nat]
         /\ history' \in [Cells -> Seq(Entries)]
<1>1. rows' \subseteq Cells
  BY DEF TypeOK, UpdateBalance
<1>2. balance' \in [Cells -> Nat]
  BY DEF TypeOK, UpdateBalance, MayUpdate
<1>3. Append(history[x], Entry(x, amount, change, ref)) \in Seq(Entries)
  BY EntryType DEF TypeOK, UpdateBalance
<1>4. history' \in [Cells -> Seq(Entries)]
  BY <1>3 DEF TypeOK, UpdateBalance
<1> QED
  BY <1>1, <1>2, <1>4

\* So do two calls on different rows.
LEMMA UpdateBalancesType ==
  ASSUME TypeOK, NEW x \in Cells, NEW y \in Cells,
         NEW amountX \in Int, NEW amountY \in Int,
         NEW changeX \in ChangeTypes, NEW changeY \in ChangeTypes, NEW ref \in Nat,
         UpdateBalances(x, amountX, changeX, y, amountY, changeY, ref)
  PROVE  /\ rows' \subseteq Cells
         /\ balance' \in [Cells -> Nat]
         /\ history' \in [Cells -> Seq(Entries)]
<1>1. rows' \subseteq Cells
  BY DEF TypeOK, UpdateBalances
<1>2. balance' \in [Cells -> Nat]
  <2>1. /\ balance \in [Cells -> Nat] /\ x # y
        /\ balance' = [balance EXCEPT ![x] = @ + amountX, ![y] = @ + amountY]
    BY DEF TypeOK, UpdateBalances
  <2>2. balance[x] + amountX \in Nat /\ balance[y] + amountY \in Nat
    BY <2>1 DEF UpdateBalances, MayUpdate
  <2> QED
    BY <2>1, <2>2
<1> DEFINE postedX == Append(history[x], Entry(x, amountX, changeX, ref))
           postedY == Append(history[y], Entry(y, amountY, changeY, ref))
<1>3. postedX \in Seq(Entries) /\ postedY \in Seq(Entries)
  <2>1. /\ Entry(x, amountX, changeX, ref) \in Entries
        /\ Entry(y, amountY, changeY, ref) \in Entries
    BY EntryType DEF UpdateBalances
  <2>2. history[x] \in Seq(Entries) /\ history[y] \in Seq(Entries)
    BY DEF TypeOK
  <2> QED
    BY <2>1, <2>2, AppendProperties
<1>4. history' \in [Cells -> Seq(Entries)]
  <2>1. history \in [Cells -> Seq(Entries)] /\ x # y
    BY DEF TypeOK, UpdateBalances
  <2>2. history' = [history EXCEPT ![x] = postedX, ![y] = postedY]
    BY <2>1 DEF UpdateBalances
  <2> HIDE DEF postedX, postedY
  <2> QED
    BY <1>3, <2>1, <2>2
<1> QED
  BY <1>1, <1>2, <1>4

\* What the handlers insert is a transaction.
LEMMA InsertedTypes ==
  ASSUME NEW b \in Branches, NEW c \in Currencies, NEW a \in Amounts
  PROVE  /\ Income(<<b, c>>, a) \in Transactions
         /\ \A approval \in BOOLEAN : Expense(<<b, c>>, a, approval) \in Transactions
         /\ \A d \in Currencies, rate \in Rates, pct \in Commissions :
              Exchange(<<b, c>>, <<b, d>>, a, rate, pct) \in Transactions
         /\ \A to \in Branches : Transfer(<<b, c>>, <<to, c>>, a) \in Transactions
<1>1. a \in Nat \ {0} /\ a \in Nat
  BY LedgerAssumption
<1>2. Income(<<b, c>>, a) \in Transactions
  BY <1>1 DEF Income, Transactions, Types, Statuses, Cells
<1>3. ASSUME NEW approval \in BOOLEAN
      PROVE  Expense(<<b, c>>, a, approval) \in Transactions
  BY <1>1 DEF Expense, Transactions, Types, Statuses, Cells
<1>4. ASSUME NEW d \in Currencies, NEW rate \in Rates, NEW pct \in Commissions
      PROVE  Exchange(<<b, c>>, <<b, d>>, a, rate, pct) \in Transactions
  <2>1. rate \in Nat /\ pct \in Nat
    <3>1. rate \in Nat /\ pct \in 0..PercentScale
      BY LedgerAssumption
    <3> QED
      BY <3>1 DEF PercentScale
  <2>2. TotalCost(a, pct) \in Nat /\ ToAmount(a, rate) \in Nat
    BY <1>1, <2>1, ExchangeAmounts
  <2> QED
    BY <1>1, <2>2 DEF Exchange, Transactions, Types, Statuses, Cells
<1>5. ASSUME NEW to \in Branches PROVE Transfer(<<b, c>>, <<to, c>>, a) \in Transactions
  BY <1>1 DEF Transfer, Transactions, Types, Statuses, Cells
<1> QED
  BY <1>2, <1>3, <1>4, <1>5

\* A row whose status is rewritten stays a row.
LEMMA RowType ==
  ASSUME NEW t \in Transactions, NEW status \in Statuses
  PROVE  /\ [t EXCEPT !.status = status] \in Transactions
         /\ [t EXCEPT !.status = status].status = status
        /\ [t EXCEPT !.status = status, !.approved = TRUE] \in Transactions
        /\ [t EXCEPT !.status = status, !.approved = TRUE].status = status
BY DEF Transactions

\* Rewriting one row keeps the table: same rows, same number of rows.
LEMMA TableType ==
  ASSUME NEW table \in Seq(Transactions), NEW i \in 1..Len(table),
         NEW t \in Transactions
  PROVE  /\ [table EXCEPT ![i] = t] \in Seq(Transactions)
         /\ Len([table EXCEPT ![i] = t]) = Len(table)
OBVIOUS

\* Every handler keeps the ledger well typed: no balance, no reservation and
\* no history row turns negative, and no row is written that the schema of the
\* table does not allow.
LEMMA TypeStep == TypeOK /\ [Next]_vars => TypeOK'
<1> SUFFICES ASSUME TypeOK, [Next]_vars PROVE TypeOK'
  OBVIOUS
<1> USE DEF ChangeTypes
<1>0. NextNumber \in Nat
  BY DEF TypeOK, NextNumber
<1>1. ASSUME NEW b \in Branches, NEW c \in Currencies, NEW a \in Amounts,
             CreateIncome(b, c, a)
      PROVE  TypeOK'
  <2>1. a \in Int /\ <<b, c>> \in Cells
    BY LedgerAssumption DEF Cells
  <2>2. /\ rows' \subseteq Cells
        /\ balance' \in [Cells -> Nat]
        /\ history' \in [Cells -> Seq(Entries)]
    BY <1>0, <1>1, <2>1, UpdateBalanceType DEF CreateIncome
  <2>3. txns' \in Seq(Transactions)
    BY <1>1, InsertedTypes DEF TypeOK, CreateIncome, Insert
  <2> QED
    BY <1>1, <2>2, <2>3 DEF TypeOK, CreateIncome
<1>2. ASSUME NEW b \in Branches, NEW c \in Currencies, NEW a \in Amounts,
             NEW approval \in BOOLEAN, CreateExpense(b, c, a, approval)
      PROVE  TypeOK'
  <2>1. -a \in Int /\ <<b, c>> \in Cells
    BY LedgerAssumption DEF Cells
  <2>2. /\ rows' \subseteq Cells
        /\ balance' \in [Cells -> Nat]
        /\ history' \in [Cells -> Seq(Entries)]
    BY <1>0, <1>2, <2>1, UpdateBalanceType DEF CreateExpense
  <2>3. txns' \in Seq(Transactions)
    BY <1>2, InsertedTypes DEF TypeOK, CreateExpense, Insert
  <2> QED
    BY <1>2, <2>2, <2>3 DEF TypeOK, CreateExpense
<1>3. ASSUME NEW b \in Branches, NEW c \in Currencies, NEW a \in Amounts,
             NEW d \in Currencies, NEW rate \in Rates, NEW pct \in Commissions,
             CreateExchange(b, c, d, a, rate, pct)
      PROVE  TypeOK'
  <2>1. Exchange(<<b, c>>, <<b, d>>, a, rate, pct) \in Transactions
    BY InsertedTypes
  <2>2. -TotalCost(a, pct) \in Int /\ ToAmount(a, rate) \in Int
    BY <2>1 DEF Transactions, Exchange
  <2>3. <<b, c>> \in Cells /\ <<b, d>> \in Cells
    BY DEF Cells
  <2>4. /\ rows' \subseteq Cells
        /\ balance' \in [Cells -> Nat]
        /\ history' \in [Cells -> Seq(Entries)]
    BY <1>0, <1>3, <2>2, <2>3, UpdateBalancesType DEF CreateExchange
  <2>5. txns' \in Seq(Transactions)
    BY <1>3, <2>1 DEF TypeOK, CreateExchange, Insert
  <2> QED
    BY <1>3, <2>4, <2>5 DEF TypeOK, CreateExchange
<1>4. ASSUME NEW b \in Branches, NEW c \in Currencies, NEW a \in Amounts,
             NEW to \in Branches, CreateTransfer(b, to, c, a)
      PROVE  TypeOK'
  <2>1. a \in Nat /\ <<b, c>> \in Cells
    BY LedgerAssumption DEF Cells
  <2>2. txns' \in Seq(Transactions)
    BY <1>4, InsertedTypes DEF TypeOK, CreateTransfer, Insert
  <2>3. reserved' \in [Cells -> Nat]
    BY <1>4, <2>1 DEF TypeOK, CreateTransfer, ReserveBalance
  <2> QED
    BY <1>4, <2>2, <2>3 DEF TypeOK, CreateTransfer
<1>5. ASSUME NEW i \in 1..Len(txns), CompleteTransfer(i)
      PROVE  TypeOK'
  <2>1. txns[i] \in Transactions /\ i \in Nat
    BY DEF TypeOK
  <2>2. txns[i].cell \in Cells /\ txns[i].toCell \in Cells
        /\ txns[i].amount \in Nat /\ txns[i].amount \in Int /\ -txns[i].amount \in Int
    BY <2>1 DEF Transactions
  <2>3. /\ rows' \subseteq Cells
        /\ balance' \in [Cells -> Nat]
        /\ history' \in [Cells -> Seq(Entries)]
    BY <1>5, <2>1, <2>2, UpdateBalancesType DEF CompleteTransfer
  <2>4. reserved' \in [Cells -> Nat]
    BY <1>5, <2>2 DEF TypeOK, CompleteTransfer, ReleaseReservedBalance
  <2>5. txns' \in Seq(Transactions)
    <3>1. txns' = [txns EXCEPT ![i] = [txns[i] EXCEPT !.status = "completed"]]
      BY <1>5 DEF CompleteTransfer, SetStatus
    <3> QED
      BY <2>1, <3>1, RowType, TableType DEF TypeOK, Statuses
  <2> QED
    BY <1>5, <2>3, <2>4, <2>5 DEF TypeOK, CompleteTransfer
<1>6. ASSUME NEW i \in 1..Len(txns), ApproveExpense(i)
      PROVE  TypeOK'
  <2>1. txns[i] \in Transactions
    BY DEF TypeOK
  <2>2. txns' = [txns EXCEPT ![i] = [txns[i] EXCEPT !.status = "completed",
                                                    !.approved = TRUE]]
    BY <1>6, <2>1 DEF ApproveExpense
  <2>3. txns' \in Seq(Transactions)
    BY <2>1, <2>2, RowType, TableType DEF TypeOK, Statuses
  <2> QED
    BY <1>6, <2>3 DEF TypeOK, ApproveExpense
<1>7. ASSUME NEW i \in 1..Len(txns), CancelTransaction(i)
      PROVE  TypeOK'
  <2>1. txns[i] \in Transactions /\ i \in Nat
    BY DEF TypeOK
  <2>2. txns[i].cell \in Cells /\ txns[i].amount \in Nat
        /\ Reversal(txns[i]) \in Int
    BY <2>1 DEF Transactions, Reversal
  <2>3. txns' \in Seq(Transactions)
    <3>1. txns' = [txns EXCEPT ![i] = [txns[i] EXCEPT !.status = "cancelled"]]
      BY <1>7 DEF CancelTransaction, SetStatus
    <3> QED
      BY <2>1, <3>1, RowType, TableType DEF TypeOK, Statuses
  <2>4. CASE /\ UpdateBalance(txns[i].cell, Reversal(txns[i]), "adjustment", i)
             /\ UNCHANGED reserved
    <3>1. /\ rows' \subseteq Cells
          /\ balance' \in [Cells -> Nat]
          /\ history' \in [Cells -> Seq(Entries)]
      BY <2>1, <2>2, <2>4, UpdateBalanceType
    <3> QED
      BY <1>7, <2>3, <2>4, <3>1 DEF TypeOK, CancelTransaction
  <2>5. CASE /\ ReleaseReservedBalance(txns[i].cell, txns[i].amount)
             /\ UNCHANGED <<rows, balance, history>>
    <3>1. reserved' \in [Cells -> Nat]
      BY <2>2, <2>5 DEF TypeOK, ReleaseReservedBalance
    <3> QED
      BY <1>7, <2>3, <2>5, <3>1 DEF TypeOK, CancelTransaction
  <2> QED
    BY <1>7, <2>4, <2>5 DEF CancelTransaction
<1>8. ASSUME NEW x \in Cells, NEW n \in Counts, ReconcileBranchBalance(x, n)
      PROVE  TypeOK'
  <2>1. n - balance[x] \in Int
    BY LedgerAssumption DEF TypeOK
  <2>2. /\ rows' \subseteq Cells
        /\ balance' \in [Cells -> Nat]
        /\ history' \in [Cells -> Seq(Entries)]
    BY <1>8, <2>1, UpdateBalanceType DEF ReconcileBranchBalance
  <2> QED
    BY <1>8, <2>2 DEF TypeOK, ReconcileBranchBalance
<1>9. ASSUME NEW b \in Branches,
             DeleteBranch(b) \/ \E isActive \in BOOLEAN : UpdateBranch(b, isActive)
      PROVE  TypeOK'
  BY <1>9 DEF TypeOK, DeleteBranch, UpdateBranch
<1>10. CASE UNCHANGED vars
  BY <1>10 DEF TypeOK, vars
<1> QED
  BY <1>1, <1>2, <1>3, <1>4, <1>5, <1>6, <1>7, <1>8, <1>9, <1>10 DEF Next

\* Every reachable ledger is well typed: balances and reservations are never
\* negative, the CHECKs of branch_balances that no handler may run into.
THEOREM TypeCorrect == Spec => []TypeOK
<1>1. ASSUME Init PROVE TypeOK
  <2>1. Opening \in [Cells -> Nat]
    BY LedgerAssumption
  <2>2. <<>> \in Seq(Transactions) /\ <<>> \in Seq(Entries)
    OBVIOUS
  <2> QED
    BY <1>1, <2>1, <2>2 DEF Init, TypeOK
<1> QED
  BY <1>1, TypeStep, PTL DEF Spec

-----------------------------------------------------------------------------
(* Reservations never exceed balances.                                     *)

\* update_balance leaves every row with enough for what was reserved on it.
LEMMA UpdateBalanceSound ==
  ASSUME TypeOK, BooksSound, NEW x \in Cells, NEW amount \in Int, NEW change, NEW ref,
         UpdateBalance(x, amount, change, ref)
  PROVE  \A y \in Cells : reserved[y] <= balance'[y]
BY DEF TypeOK, BooksSound, UpdateBalance, MayUpdate

\* So do two calls on different rows.
LEMMA UpdateBalancesSound ==
  ASSUME TypeOK, BooksSound, NEW x \in Cells, NEW y \in Cells,
         NEW amountX \in Int, NEW amountY \in Int,
         NEW changeX, NEW changeY, NEW ref,
         UpdateBalances(x, amountX, changeX, y, amountY, changeY, ref)
  PROVE  \A z \in Cells : reserved[z] <= balance'[z]
BY DEF TypeOK, BooksSound, UpdateBalances, MayUpdate

\* No handler makes a branch promise more than it holds.
LEMMA BooksStep == TypeOK /\ BooksSound /\ [Next]_vars => BooksSound'
<1> SUFFICES ASSUME TypeOK, BooksSound, [Next]_vars PROVE BooksSound'
  OBVIOUS
<1>1. ASSUME NEW b \in Branches, NEW c \in Currencies, NEW a \in Amounts,
             \/ CreateIncome(b, c, a)
             \/ \E approval \in BOOLEAN : CreateExpense(b, c, a, approval)
      PROVE  BooksSound'
  <2>1. a \in Int /\ -a \in Int /\ <<b, c>> \in Cells
    BY LedgerAssumption DEF Cells
  <2>2. /\ UNCHANGED reserved
        /\ \/ UpdateBalance(<<b, c>>, a, "transaction", NextNumber)
           \/ UpdateBalance(<<b, c>>, -a, "transaction", NextNumber)
    BY <1>1 DEF CreateIncome, CreateExpense
  <2>3. \A y \in Cells : reserved[y] <= balance'[y]
    BY <2>1, <2>2, UpdateBalanceSound
  <2> QED
    BY <2>2, <2>3 DEF BooksSound
<1>2. ASSUME NEW b \in Branches, NEW c \in Currencies, NEW a \in Amounts,
             NEW d \in Currencies, NEW rate \in Rates, NEW pct \in Commissions,
             CreateExchange(b, c, d, a, rate, pct)
      PROVE  BooksSound'
  <2>1. Exchange(<<b, c>>, <<b, d>>, a, rate, pct) \in Transactions
    BY InsertedTypes
  <2>2. -TotalCost(a, pct) \in Int /\ ToAmount(a, rate) \in Int
    BY <2>1 DEF Transactions, Exchange
  <2>3. <<b, c>> \in Cells /\ <<b, d>> \in Cells
    BY DEF Cells
  <2>4. \A z \in Cells : reserved[z] <= balance'[z]
    BY <1>2, <2>2, <2>3, UpdateBalancesSound DEF CreateExchange
  <2> QED
    BY <1>2, <2>4 DEF BooksSound, CreateExchange
<1>3. ASSUME NEW b \in Branches, NEW c \in Currencies, NEW a \in Amounts,
             NEW to \in Branches, CreateTransfer(b, to, c, a)
      PROVE  BooksSound'
  <2>1. a \in Nat /\ <<b, c>> \in Cells
    BY LedgerAssumption DEF Cells
  <2>2. /\ balance' = balance
        /\ balance[<<b, c>>] - reserved[<<b, c>>] >= a
        /\ reserved' = [reserved EXCEPT ![<<b, c>>] = @ + a]
    BY <1>3 DEF CreateTransfer, ReserveBalance, Available
  <2>3. ASSUME NEW y \in Cells PROVE reserved'[y] <= balance'[y]
    <3>1. /\ reserved[y] \in Nat /\ balance[y] \in Nat /\ reserved[y] <= balance[y]
          /\ reserved'[y] = IF y = <<b, c>> THEN reserved[y] + a ELSE reserved[y]
      BY <2>1, <2>2 DEF TypeOK, BooksSound
    <3> QED
      BY <2>1, <2>2, <3>1
  <2> QED
    BY <2>3 DEF BooksSound
<1>4. ASSUME NEW i \in 1..Len(txns), CompleteTransfer(i)
      PROVE  BooksSound'
  <2>1. txns[i] \in Transactions
    BY DEF TypeOK
  <2>2. txns[i].cell \in Cells /\ txns[i].toCell \in Cells
        /\ txns[i].amount \in Nat /\ txns[i].amount \in Int /\ -txns[i].amount \in Int
    BY <2>1 DEF Transactions
  <2>3. \A z \in Cells : reserved[z] <= balance'[z]
    BY <1>4, <2>2, UpdateBalancesSound DEF CompleteTransfer
  <2>4. balance' \in [Cells -> Nat] /\ reserved \in [Cells -> Nat]
    BY TypeStep DEF TypeOK
  <2>5. \A z \in Cells : reserved'[z] <= reserved[z]
    BY <1>4, <2>2, <2>4 DEF CompleteTransfer, ReleaseReservedBalance
  <2>6. reserved' \in [Cells -> Nat]
    BY TypeStep DEF TypeOK
  <2> QED
    BY <2>3, <2>4, <2>5, <2>6 DEF BooksSound
<1>5. ASSUME NEW i \in 1..Len(txns), ApproveExpense(i)
      PROVE  BooksSound'
  BY <1>5 DEF BooksSound, ApproveExpense
<1>6. ASSUME NEW i \in 1..Len(txns), CancelTransaction(i)
      PROVE  BooksSound'
  <2>1. txns[i] \in Transactions
    BY DEF TypeOK
  <2>2. txns[i].cell \in Cells /\ txns[i].amount \in Nat /\ Reversal(txns[i]) \in Int
    BY <2>1 DEF Transactions, Reversal
  <2>3. CASE /\ UpdateBalance(txns[i].cell, Reversal(txns[i]), "adjustment", i)
             /\ UNCHANGED reserved
    BY <2>2, <2>3, UpdateBalanceSound DEF BooksSound
  <2>4. CASE /\ ReleaseReservedBalance(txns[i].cell, txns[i].amount)
             /\ UNCHANGED <<rows, balance, history>>
    BY <2>2, <2>4 DEF TypeOK, BooksSound, ReleaseReservedBalance
  <2> QED
    BY <1>6, <2>3, <2>4 DEF CancelTransaction
<1>7. ASSUME NEW x \in Cells, NEW n \in Counts, ReconcileBranchBalance(x, n)
      PROVE  BooksSound'
  <2>1. n - balance[x] \in Int
    BY LedgerAssumption DEF TypeOK
  <2>2. \A y \in Cells : reserved[y] <= balance'[y]
    BY <1>7, <2>1, UpdateBalanceSound DEF ReconcileBranchBalance
  <2> QED
    BY <1>7, <2>2 DEF BooksSound, ReconcileBranchBalance
<1>8. ASSUME NEW b \in Branches,
             DeleteBranch(b) \/ \E isActive \in BOOLEAN : UpdateBranch(b, isActive)
      PROVE  BooksSound'
  BY <1>8 DEF BooksSound, DeleteBranch, UpdateBranch
<1>9. CASE UNCHANGED vars
  BY <1>9 DEF BooksSound, vars
<1> QED
  BY <1>1, <1>2, <1>3, <1>4, <1>5, <1>6, <1>7, <1>8, <1>9 DEF Next

\* No sequence of requests makes a branch promise more than it holds: the
\* handlers respect reserved_not_exceeding_balance without the CHECK's help.
THEOREM BooksAreSound == Spec => []BooksSound
<1>1. Init => BooksSound
  <2>1. Opening \in [Cells -> Nat]
    BY LedgerAssumption
  <2> QED
    BY <2>1 DEF Init, BooksSound
<1> QED
  BY <1>1, TypeCorrect, BooksStep, PTL DEF Spec

-----------------------------------------------------------------------------
(* The reserved balance is the sum of the transfers that wait.             *)

\* The claims of a table are one natural number per row.
LEMMA ClaimsType ==
  ASSUME NEW table \in Seq(Transactions), NEW x
  PROVE  /\ Claims(table, x) \in Seq(Nat)
         /\ Len(Claims(table, x)) = Len(table)
<1>1. ASSUME NEW k \in 1..Len(table) PROVE ClaimOf(table[k], x) \in Nat
  <2>1. table[k] \in Transactions
    OBVIOUS
  <2> QED
    BY <2>1 DEF Transactions, ClaimOf
<1>2. Len(table) \in Nat
  OBVIOUS
<1>3. Claims(table, x) \in [1..Len(table) -> Nat]
  BY <1>1 DEF Claims
<1>4. Claims(table, x) \in Seq(Nat)
  BY <1>2, <1>3, SeqDef
<1>5. Len(Claims(table, x)) = Len(table)
  BY <1>2 DEF Claims
<1> QED
  BY <1>4, <1>5

\* An inserted transaction claims what it claims.
LEMMA ClaimsAppend ==
  ASSUME NEW table \in Seq(Transactions), NEW t \in Transactions, NEW x
  PROVE  TotalOf(Claims(Append(table, t), x))
           = TotalOf(Claims(table, x)) + ClaimOf(t, x)
<1> DEFINE old == Claims(table, x)
           new == Claims(Append(table, t), x)
<1>1. old \in Seq(Nat) /\ old \in Seq(Int) /\ Len(old) = Len(table)
  BY ClaimsType
<1>2. ClaimOf(t, x) \in Int
  BY DEF Transactions, ClaimOf
<1>3. Append(table, t) \in Seq(Transactions) /\ Len(Append(table, t)) = Len(table) + 1
  OBVIOUS
<1>4. new \in Seq(Int) /\ Len(new) = Len(table) + 1
  <2>1. new \in Seq(Nat) /\ Len(new) = Len(Append(table, t))
    BY <1>3, ClaimsType
  <2> HIDE DEF new
  <2> QED
    BY <1>3, <2>1
<1>5. \A k \in 1..Len(table) : new[k] = old[k]
  <2>1. ASSUME NEW k \in 1..Len(table) PROVE new[k] = old[k]
    <3>1. k \in 1..Len(Append(table, t)) /\ Append(table, t)[k] = table[k]
      OBVIOUS
    <3> QED
      BY <3>1 DEF Claims
  <2> QED
    BY <2>1
<1>6. new[Len(table) + 1] = ClaimOf(t, x)
  <2>1. /\ Len(table) + 1 \in 1..Len(Append(table, t))
        /\ Append(table, t)[Len(table) + 1] = t
    OBVIOUS
  <2> QED
    BY <2>1 DEF Claims
<1> HIDE DEF old, new
<1>7. new = Append(old, ClaimOf(t, x))
  <2>1. /\ Append(old, ClaimOf(t, x)) \in Seq(Int)
        /\ Len(Append(old, ClaimOf(t, x))) = Len(table) + 1
        /\ \A k \in 1..Len(table) : Append(old, ClaimOf(t, x))[k] = old[k]
        /\ Append(old, ClaimOf(t, x))[Len(table) + 1] = ClaimOf(t, x)
    BY <1>1, <1>2, AppendProperties
  <2>2. \A k \in 1..(Len(table) + 1) : k \in 1..Len(table) \/ k = Len(table) + 1
    OBVIOUS
  <2> QED
    BY <1>4, <1>5, <1>6, <2>1, <2>2, SeqEqual
<1>8. TotalOf(new) = TotalOf(old) + ClaimOf(t, x)
  BY <1>1, <1>2, <1>7, TotalOfAppend
<1> QED
  BY <1>8 DEF old, new

\* Rewriting a row changes the sum of the claims by that row's difference.
LEMMA ClaimsExcept ==
  ASSUME NEW table \in Seq(Transactions), NEW i \in 1..Len(table),
         NEW t \in Transactions, NEW x
  PROVE  TotalOf(Claims([table EXCEPT ![i] = t], x))
           = TotalOf(Claims(table, x)) + ClaimOf(t, x) - ClaimOf(table[i], x)
<1> DEFINE old == Claims(table, x)
           new == Claims([table EXCEPT ![i] = t], x)
<1>1. old \in Seq(Nat) /\ old \in Seq(Int) /\ Len(old) = Len(table)
  BY ClaimsType
<1>2. ClaimOf(t, x) \in Int
  BY DEF Transactions, ClaimOf
<1>3. new = [old EXCEPT ![i] = ClaimOf(t, x)]
  <2>1. /\ [table EXCEPT ![i] = t] \in Seq(Transactions)
        /\ Len([table EXCEPT ![i] = t]) = Len(table)
    BY TableType
  <2>2. new \in Seq(Nat) /\ Len(new) = Len(table)
    BY <2>1, ClaimsType
  <2>3. \A k \in 1..Len(table) : new[k] = IF k = i THEN ClaimOf(t, x) ELSE old[k]
    BY <2>1 DEF Claims
  <2> HIDE DEF old, new
  <2>4. new \in Seq(Int)
    BY <2>2
  <2>5. /\ [old EXCEPT ![i] = ClaimOf(t, x)] \in Seq(Int)
        /\ Len([old EXCEPT ![i] = ClaimOf(t, x)]) = Len(table)
        /\ \A k \in 1..Len(table) : [old EXCEPT ![i] = ClaimOf(t, x)][k]
                                      = IF k = i THEN ClaimOf(t, x) ELSE old[k]
    BY <1>1, <1>2, ExceptSeq
  <2> QED
    BY <2>2, <2>3, <2>4, <2>5, SeqEqual
<1>4. old[i] = ClaimOf(table[i], x)
  BY DEF Claims
<1> HIDE DEF old, new
<1>5. TotalOf(new) = TotalOf(old) + ClaimOf(t, x) - old[i]
  BY <1>1, <1>2, <1>3, TotalOfExcept
<1> QED
  BY <1>4, <1>5 DEF old, new

\* Settling row i gives back exactly what it claimed.
LEMMA SettledClaims ==
  ASSUME TypeOK, NEW i \in 1..Len(txns), NEW t \in Transactions,
         t.status # "pending", txns' = [txns EXCEPT ![i] = t], NEW x
  PROVE  TotalOf(Claims(txns', x))
           = TotalOf(Claims(txns, x)) - ClaimOf(txns[i], x)
<1>1. txns \in Seq(Transactions) /\ txns[i] \in Transactions
  BY DEF TypeOK
<1>2. ClaimOf(t, x) = 0 /\ ClaimOf(txns[i], x) \in Int
  BY <1>1 DEF ClaimOf, Transactions
<1>3. TotalOf(Claims(txns, x)) \in Int
  <2>1. Claims(txns, x) \in Seq(Nat)
    BY <1>1, ClaimsType
  <2>2. Claims(txns, x) \in Seq(Int)
    BY <2>1
  <2> QED
    BY <2>2, TotalOfType
<1>4. TotalOf(Claims(txns', x))
        = TotalOf(Claims(txns, x)) + ClaimOf(t, x) - ClaimOf(txns[i], x)
  BY <1>1, ClaimsExcept
<1> QED
  BY <1>2, <1>3, <1>4

\* Inserting t adds what it claims.
LEMMA InsertedClaims ==
  ASSUME TypeOK, NEW t \in Transactions, Insert(t), NEW x
  PROVE  TotalOf(Claims(txns', x)) = TotalOf(Claims(txns, x)) + ClaimOf(t, x)
BY ClaimsAppend DEF TypeOK, Insert

\* A settled transfer gives back its own reservation on its own cell, and
\* nothing anywhere else.
LEMMA ReleasedReservation ==
  ASSUME TypeOK, ReservationsMatchTransfers, NEW i \in 1..Len(txns),
         NEW t \in Transactions, t.status # "pending",
         txns' = [txns EXCEPT ![i] = t],
         txns[i].type = "transfer", txns[i].status = "pending",
         ReleaseReservedBalance(txns[i].cell, txns[i].amount)
  PROVE  ReservationsMatchTransfers'
<1>1. txns[i] \in Transactions
  BY DEF TypeOK
<1>2. txns[i].cell \in Cells /\ txns[i].amount \in Nat
  BY <1>1 DEF Transactions
<1>3. ASSUME NEW x \in Cells PROVE reserved'[x] = TotalOf(Claims(txns', x))
  <2>1. reserved'[x] = reserved[x] - ClaimOf(txns[i], x)
    BY <1>2 DEF TypeOK, ReleaseReservedBalance, ClaimOf
  <2>2. TotalOf(Claims(txns', x))
          = TotalOf(Claims(txns, x)) - ClaimOf(txns[i], x)
    BY SettledClaims
  <2> QED
    BY <2>1, <2>2 DEF ReservationsMatchTransfers
<1> QED
  BY <1>3 DEF ReservationsMatchTransfers

\* Settling what is not a waiting transfer moves no reservation.
LEMMA KeptReservations ==
  ASSUME TypeOK, ReservationsMatchTransfers, NEW i \in 1..Len(txns),
         NEW t \in Transactions, t.status # "pending",
         txns' = [txns EXCEPT ![i] = t], txns[i].type # "transfer", reserved' = reserved
  PROVE  ReservationsMatchTransfers'
<1>1. ASSUME NEW x \in Cells PROVE reserved'[x] = TotalOf(Claims(txns', x))
  <2>1. TotalOf(Claims(txns', x))
          = TotalOf(Claims(txns, x)) - ClaimOf(txns[i], x)
    BY SettledClaims
  <2>2. ClaimOf(txns[i], x) = 0
    BY DEF ClaimOf
  <2>3. reserved[x] \in Nat /\ reserved[x] = TotalOf(Claims(txns, x))
    BY DEF TypeOK, ReservationsMatchTransfers
  <2> QED
    BY <2>1, <2>2, <2>3
<1> QED
  BY <1>1 DEF ReservationsMatchTransfers

\* Inserting what is not a transfer moves no reservation.
LEMMA InsertedReservations ==
  ASSUME TypeOK, ReservationsMatchTransfers, NEW t \in Transactions,
         t.type # "transfer", Insert(t), reserved' = reserved
  PROVE  ReservationsMatchTransfers'
<1>1. ASSUME NEW x \in Cells PROVE reserved'[x] = TotalOf(Claims(txns', x))
  <2>1. TotalOf(Claims(txns', x)) = TotalOf(Claims(txns, x)) + ClaimOf(t, x)
    BY InsertedClaims
  <2>2. ClaimOf(t, x) = 0
    BY DEF ClaimOf
  <2>3. reserved[x] \in Nat /\ reserved[x] = TotalOf(Claims(txns, x))
    BY DEF TypeOK, ReservationsMatchTransfers
  <2> QED
    BY <2>1, <2>2, <2>3
<1> QED
  BY <1>1 DEF ReservationsMatchTransfers

\* Each handler moves the reservations and the waiting transfers together.
LEMMA ReservationsStep ==
  TypeOK /\ ReservationsMatchTransfers /\ [Next]_vars => ReservationsMatchTransfers'
<1> SUFFICES ASSUME TypeOK, ReservationsMatchTransfers, [Next]_vars
             PROVE  ReservationsMatchTransfers'
  OBVIOUS
<1>1. ASSUME NEW b \in Branches, NEW c \in Currencies, NEW a \in Amounts,
             CreateIncome(b, c, a)
      PROVE  ReservationsMatchTransfers'
  <2>1. Income(<<b, c>>, a).type # "transfer"
    BY DEF Income
  <2> QED
    BY <1>1, <2>1, InsertedTypes, InsertedReservations DEF CreateIncome
<1>2. ASSUME NEW b \in Branches, NEW c \in Currencies, NEW a \in Amounts,
             NEW approval \in BOOLEAN, CreateExpense(b, c, a, approval)
      PROVE  ReservationsMatchTransfers'
  <2>1. Expense(<<b, c>>, a, approval).type # "transfer"
    BY DEF Expense
  <2> QED
    BY <1>2, <2>1, InsertedTypes, InsertedReservations DEF CreateExpense
<1>3. ASSUME NEW b \in Branches, NEW c \in Currencies, NEW a \in Amounts,
             NEW d \in Currencies, NEW rate \in Rates, NEW pct \in Commissions,
             CreateExchange(b, c, d, a, rate, pct)
      PROVE  ReservationsMatchTransfers'
  <2>1. Exchange(<<b, c>>, <<b, d>>, a, rate, pct).type # "transfer"
    BY DEF Exchange
  <2> QED
    BY <1>3, <2>1, InsertedTypes, InsertedReservations DEF CreateExchange
<1>4. ASSUME NEW b \in Branches, NEW c \in Currencies, NEW a \in Amounts,
             NEW to \in Branches, CreateTransfer(b, to, c, a)
      PROVE  ReservationsMatchTransfers'
  <2> DEFINE t == Transfer(<<b, c>>, <<to, c>>, a)
  <2>1. a \in Nat /\ <<b, c>> \in Cells /\ t \in Transactions
    BY InsertedTypes, LedgerAssumption DEF Cells
  <2>2. ASSUME NEW x \in Cells PROVE reserved'[x] = TotalOf(Claims(txns', x))
    <3>1. TotalOf(Claims(txns', x)) = TotalOf(Claims(txns, x)) + ClaimOf(t, x)
      BY <1>4, <2>1, InsertedClaims DEF CreateTransfer
    <3>2. ClaimOf(t, x) = IF x = <<b, c>> THEN a ELSE 0
      BY DEF ClaimOf, Transfer
    <3>3. reserved' = [reserved EXCEPT ![<<b, c>>] = @ + a]
      BY <1>4 DEF CreateTransfer, ReserveBalance
    <3>4. reserved[x] \in Nat /\ reserved[x] = TotalOf(Claims(txns, x))
      BY DEF TypeOK, ReservationsMatchTransfers
    <3>5. reserved'[x] = IF x = <<b, c>> THEN reserved[x] + a ELSE reserved[x]
      BY <2>1, <3>3 DEF TypeOK
    <3> HIDE DEF t
    <3> QED
      BY <2>1, <3>1, <3>2, <3>4, <3>5
  <2> QED
    BY <2>2 DEF ReservationsMatchTransfers
<1>5. ASSUME NEW i \in 1..Len(txns), CompleteTransfer(i)
      PROVE  ReservationsMatchTransfers'
  <2> DEFINE t == [txns[i] EXCEPT !.status = "completed"]
  <2>1. t \in Transactions /\ t.status = "completed"
    <3>1. txns[i] \in Transactions
      BY DEF TypeOK
    <3> QED
      BY <3>1, RowType DEF Statuses
  <2>2. txns' = [txns EXCEPT ![i] = t]
    BY <1>5 DEF CompleteTransfer, SetStatus
  <2>3. /\ txns[i].type = "transfer" /\ txns[i].status = "pending"
        /\ ReleaseReservedBalance(txns[i].cell, txns[i].amount)
    BY <1>5 DEF CompleteTransfer
  <2> HIDE DEF t
  <2> QED
    BY <2>1, <2>2, <2>3, ReleasedReservation
<1>6. ASSUME NEW i \in 1..Len(txns), ApproveExpense(i)
      PROVE  ReservationsMatchTransfers'
  <2> DEFINE t == [txns[i] EXCEPT !.status = "completed", !.approved = TRUE]
  <2>1. t \in Transactions /\ t.status = "completed" /\ txns[i] \in Transactions
    <3>1. txns[i] \in Transactions
      BY DEF TypeOK
    <3> QED
      BY <3>1, RowType DEF Statuses
  <2>2. txns' = [txns EXCEPT ![i] = t]
    BY <1>6, <2>1 DEF ApproveExpense
  <2>3. txns[i].type # "transfer" /\ reserved' = reserved
    BY <1>6 DEF ApproveExpense
  <2> HIDE DEF t
  <2> QED
    BY <2>1, <2>2, <2>3, KeptReservations
<1>7. ASSUME NEW i \in 1..Len(txns), CancelTransaction(i)
      PROVE  ReservationsMatchTransfers'
  <2> DEFINE t == [txns[i] EXCEPT !.status = "cancelled"]
  <2>1. t \in Transactions /\ t.status = "cancelled"
    <3>1. txns[i] \in Transactions
      BY DEF TypeOK
    <3> QED
      BY <3>1, RowType DEF Statuses
  <2>2. txns' = [txns EXCEPT ![i] = t] /\ txns[i].status = "pending"
    BY <1>7 DEF CancelTransaction, SetStatus
  <2> HIDE DEF t
  <2>3. CASE txns[i].type \in {"income", "expense"} /\ reserved' = reserved
    BY <2>1, <2>2, <2>3, KeptReservations
  <2>4. CASE /\ txns[i].type = "transfer"
             /\ ReleaseReservedBalance(txns[i].cell, txns[i].amount)
    BY <2>1, <2>2, <2>4, ReleasedReservation
  <2> QED
    BY <1>7, <2>3, <2>4 DEF CancelTransaction
<1>8. ASSUME UNCHANGED <<txns, reserved>>
      PROVE  ReservationsMatchTransfers'
  BY <1>8 DEF ReservationsMatchTransfers
<1>9. ASSUME \/ \E x \in Cells, n \in Counts : ReconcileBranchBalance(x, n)
             \/ \E b \in Branches : DeleteBranch(b)
             \/ \E b \in Branches, isActive \in BOOLEAN : UpdateBranch(b, isActive)
             \/ UNCHANGED vars
      PROVE  UNCHANGED <<txns, reserved>>
  BY <1>9 DEF ReconcileBranchBalance, DeleteBranch, UpdateBranch, vars
<1> QED
  BY <1>1, <1>2, <1>3, <1>4, <1>5, <1>6, <1>7, <1>8, <1>9 DEF Next

\* At any time the reserved balance of every cell is the sum of the transfers
\* that still wait on it, in a ledger of any length.
THEOREM ReservationsMatch == Spec => []ReservationsMatchTransfers
<1>1. Init => ReservationsMatchTransfers
  <2> SUFFICES ASSUME Init, NEW x \in Cells
               PROVE  reserved[x] = TotalOf(Claims(txns, x))
    BY DEF ReservationsMatchTransfers
  <2>1. txns = <<>> /\ reserved[x] = 0
    BY DEF Init
  <2>2. <<>> \in Seq(Transactions)
    OBVIOUS
  <2>3. Claims(<<>>, x) \in Seq(Nat) /\ Len(Claims(<<>>, x)) = 0
    BY <2>2, ClaimsType
  <2> HIDE DEF Claims
  <2>4. Claims(<<>>, x) \in Seq(Int) /\ Claims(<<>>, x) = <<>>
    BY <2>3
  <2> QED
    BY <2>1, <2>4, TotalOfType
<1> QED
  BY <1>1, TypeCorrect, ReservationsStep, PTL DEF Spec

-----------------------------------------------------------------------------
(* A pending transaction can be cancelled.                                 *)

\* What row t is when it waits: an expense that nobody approved yet and that
\* is paid, or a transfer out of a row that exists.
WaitsIn(t, cells) ==
  t.status = "pending" =>
    \/ /\ t.type = "expense" /\ t.approvalRequired /\ ~ t.approved
       /\ t.cost = t.amount /\ t.toAmount = 0
    \/ /\ t.type = "transfer" /\ t.cell \in cells
       /\ t.cost = t.amount /\ t.toAmount = t.amount

\* The strengthening: ReservationsMatchTransfers and BooksSound say the rest.
PendingWaits == \A i \in 1..Len(txns) : WaitsIn(txns[i], rows)

\* A row that waits keeps waiting when rows are added to branch_balances.
LEMMA WaitsMore ==
  ASSUME NEW t, NEW fewer, NEW more, fewer \subseteq more, WaitsIn(t, fewer)
  PROVE  WaitsIn(t, more)
BY DEF WaitsIn

\* Inserting a row that waits, or has settled, keeps the invariant.
LEMMA InsertWaits ==
  ASSUME TypeOK, PendingWaits, NEW t \in Transactions, Insert(t),
         rows \subseteq rows', WaitsIn(t, rows')
  PROVE  PendingWaits'
<1>1. ASSUME NEW k \in 1..Len(txns') PROVE WaitsIn(txns'[k], rows')
  <2>1. (k \in 1..Len(txns) /\ txns'[k] = txns[k]) \/ txns'[k] = t
    BY DEF TypeOK, Insert
  <2> QED
    BY <2>1, WaitsMore DEF PendingWaits
<1> QED
  BY <1>1 DEF PendingWaits

\* So does settling one.
LEMMA SettleWaits ==
  ASSUME TypeOK, PendingWaits, NEW i \in 1..Len(txns), NEW t \in Transactions,
         t.status # "pending", txns' = [txns EXCEPT ![i] = t], rows \subseteq rows'
  PROVE  PendingWaits'
<1>1. ASSUME NEW k \in 1..Len(txns') PROVE WaitsIn(txns'[k], rows')
  <2>1. k \in 1..Len(txns) /\ txns'[k] = IF k = i THEN t ELSE txns[k]
    BY TableType DEF TypeOK
  <2>2. WaitsIn(t, rows')
    BY DEF WaitsIn
  <2> QED
    BY <2>1, <2>2, WaitsMore DEF PendingWaits
<1> QED
  BY <1>1 DEF PendingWaits

\* Each handler leaves only such rows pending.
LEMMA WaitsStep == TypeOK /\ PendingWaits /\ [Next]_vars => PendingWaits'
<1> SUFFICES ASSUME TypeOK, PendingWaits, [Next]_vars PROVE PendingWaits'
  OBVIOUS
<1>1. ASSUME NEW b \in Branches, NEW c \in Currencies, NEW a \in Amounts,
             CreateIncome(b, c, a)
      PROVE  PendingWaits'
  <2>1. WaitsIn(Income(<<b, c>>, a), rows')
    BY DEF WaitsIn, Income
  <2> QED
    BY <1>1, <2>1, InsertedTypes, InsertWaits DEF CreateIncome, UpdateBalance
<1>2. ASSUME NEW b \in Branches, NEW c \in Currencies, NEW a \in Amounts,
             NEW approval \in BOOLEAN, CreateExpense(b, c, a, approval)
      PROVE  PendingWaits'
  <2>1. WaitsIn(Expense(<<b, c>>, a, approval), rows')
    BY DEF WaitsIn, Expense
  <2> QED
    BY <1>2, <2>1, InsertedTypes, InsertWaits DEF CreateExpense, UpdateBalance
<1>3. ASSUME NEW b \in Branches, NEW c \in Currencies, NEW a \in Amounts,
             NEW d \in Currencies, NEW rate \in Rates, NEW pct \in Commissions,
             CreateExchange(b, c, d, a, rate, pct)
      PROVE  PendingWaits'
  <2>1. WaitsIn(Exchange(<<b, c>>, <<b, d>>, a, rate, pct), rows')
    BY DEF WaitsIn, Exchange
  <2> QED
    BY <1>3, <2>1, InsertedTypes, InsertWaits DEF CreateExchange, UpdateBalances
<1>4. ASSUME NEW b \in Branches, NEW c \in Currencies, NEW a \in Amounts,
             NEW to \in Branches, CreateTransfer(b, to, c, a)
      PROVE  PendingWaits'
  <2>1. rows' = rows /\ <<b, c>> \in rows
    BY <1>4 DEF CreateTransfer, ReserveBalance
  <2>2. WaitsIn(Transfer(<<b, c>>, <<to, c>>, a), rows')
    BY <2>1 DEF WaitsIn, Transfer
  <2> QED
    BY <1>4, <2>1, <2>2, InsertedTypes, InsertWaits DEF CreateTransfer
<1>5. ASSUME NEW i \in 1..Len(txns),
             CompleteTransfer(i) \/ ApproveExpense(i) \/ CancelTransaction(i)
      PROVE  PendingWaits'
  <2>1. txns[i] \in Transactions
    BY DEF TypeOK
  <2>2. rows \subseteq rows'
    BY <1>5 DEF CompleteTransfer, ApproveExpense, CancelTransaction,
                UpdateBalance, UpdateBalances
  <2>3. PICK t \in Transactions : t.status # "pending" /\ txns' = [txns EXCEPT ![i] = t]
    <3>1. CASE CompleteTransfer(i)
      <4>1. txns' = [txns EXCEPT ![i] = [txns[i] EXCEPT !.status = "completed"]]
        BY <3>1 DEF CompleteTransfer, SetStatus
      <4> QED
        BY <2>1, <4>1, RowType DEF Statuses
    <3>2. CASE ApproveExpense(i)
      <4>1. txns' = [txns EXCEPT ![i] = [txns[i] EXCEPT !.status = "completed",
                                                        !.approved = TRUE]]
        BY <2>1, <3>2 DEF ApproveExpense
      <4> QED
        BY <2>1, <4>1, RowType DEF Statuses
    <3>3. CASE CancelTransaction(i)
      <4>1. txns' = [txns EXCEPT ![i] = [txns[i] EXCEPT !.status = "cancelled"]]
        BY <3>3 DEF CancelTransaction, SetStatus
      <4> QED
        BY <2>1, <4>1, RowType DEF Statuses
    <3> QED
      BY <1>5, <3>1, <3>2, <3>3
  <2> QED
    BY <2>2, <2>3, SettleWaits
<1>6. ASSUME UNCHANGED txns, rows \subseteq rows'
      PROVE  PendingWaits'
  BY <1>6, WaitsMore DEF PendingWaits
<1>7. ASSUME \/ \E x \in Cells, n \in Counts : ReconcileBranchBalance(x, n)
             \/ \E b \in Branches : DeleteBranch(b)
             \/ \E b \in Branches, isActive \in BOOLEAN : UpdateBranch(b, isActive)
             \/ UNCHANGED vars
      PROVE  UNCHANGED txns /\ rows \subseteq rows'
  BY <1>7 DEF ReconcileBranchBalance, UpdateBalance, DeleteBranch, UpdateBranch, vars
<1> QED
  BY <1>1, <1>2, <1>3, <1>4, <1>5, <1>6, <1>7 DEF Next

\* Only such rows ever wait.
LEMMA WaitingIsKept == Spec => []PendingWaits
<1>1. Init => PendingWaits
  BY DEF Init, PendingWaits
<1> QED
  BY <1>1, TypeCorrect, WaitsStep, PTL DEF Spec

\* The three invariants together: an expense's refund is accepted because the
\* reserved balance is covered before it, and a transfer's release finds its
\* amount because it is one of the addends of the reserved balance.
LEMMA WaitingCanBeCancelled ==
  TypeOK /\ BooksSound /\ ReservationsMatchTransfers /\ PendingWaits
    => PendingIsCancellable
<1> SUFFICES ASSUME TypeOK, BooksSound, ReservationsMatchTransfers, PendingWaits,
                    NEW i \in 1..Len(txns), txns[i].status = "pending"
             PROVE  \/ /\ txns[i].type = "expense"
                       /\ txns[i].approvalRequired /\ ~ txns[i].approved
                       /\ MayUpdate(txns[i].cell, txns[i].amount)
                    \/ /\ txns[i].type = "transfer"
                       /\ txns[i].cell \in rows
                       /\ reserved[txns[i].cell] >= txns[i].amount
  BY DEF PendingIsCancellable, Pending
<1> DEFINE x == txns[i].cell
<1>1. txns[i] \in Transactions
  BY DEF TypeOK
<1>2. x \in Cells /\ txns[i].amount \in Nat
  BY <1>1 DEF Transactions
<1>3. balance[x] \in Nat /\ reserved[x] \in Nat /\ reserved[x] <= balance[x]
  BY <1>2 DEF TypeOK, BooksSound
<1>4. CASE txns[i].type = "expense" /\ txns[i].approvalRequired /\ ~ txns[i].approved
  BY <1>2, <1>3, <1>4 DEF MayUpdate
<1>5. CASE txns[i].type = "transfer" /\ x \in rows
  <2>1. Claims(txns, x) \in Seq(Nat) /\ Len(Claims(txns, x)) = Len(txns)
    BY ClaimsType DEF TypeOK
  <2>2. Claims(txns, x)[i] = txns[i].amount
    BY <1>5 DEF Claims, ClaimOf
  <2>3. Claims(txns, x)[i] <= TotalOf(Claims(txns, x))
    BY <2>1, TotalOfCovers
  <2>4. reserved[x] = TotalOf(Claims(txns, x))
    BY <1>2 DEF ReservationsMatchTransfers
  <2> QED
    BY <1>2, <1>3, <1>5, <2>2, <2>3, <2>4
<1> QED
  BY <1>4, <1>5 DEF PendingWaits, WaitsIn

\* Whatever else has happened at the branch, a pending expense can be refunded
\* and a pending transfer can release its reservation.
THEOREM PendingStaysCancellable == Spec => []PendingIsCancellable
<1> QED
  BY WaitingIsKept, TypeCorrect, BooksAreSound, ReservationsMatch, WaitingCanBeCancelled, PTL

-----------------------------------------------------------------------------
(* What a step does to the tables.                                         *)

\* Cell x changed by `amount`, for transaction ref, with its history row.
Posted(x, amount, ref) ==
  \/ amount = 0 /\ balance'[x] = balance[x] /\ history'[x] = history[x]
  \/ \E change \in ChangeTypes :
       /\ MayUpdate(x, amount)
       /\ balance'[x] = balance[x] + amount
       /\ history'[x] = Append(history[x], Entry(x, amount, change, ref))

Inserted(t) == txns' = Append(txns, t)

Settled(i, t) == /\ i \in 1..Len(txns)
                 /\ txns[i].status = "pending"
                 /\ txns' = [txns EXCEPT ![i] = t]

(* Every step is about one transaction, or none, and books on every cell the
   difference between what that transaction has done after and before.     *)
BooksTheChange ==
  \E ref \in Nat, post \in [Cells -> Int] :
    /\ \A x \in Cells : Posted(x, post[x], ref)
    /\ \/ ref = 0 /\ txns' = txns
       \/ /\ ref = Len(txns) + 1
          /\ \E t \in Transactions :
               Inserted(t) /\ \A x \in Cells : post[x] = Effect(t, x)
       \/ \E t \in Transactions :
               /\ Settled(ref, t)
               /\ \A x \in Cells : post[x] = Effect(t, x) - Effect(txns[ref], x)

\* An effect is a whole number of cents.
LEMMA EffectType ==
  ASSUME NEW t \in Transactions, NEW x
  PROVE  Effect(t, x) \in Int
<1>1. t.toAmount \in Int /\ t.cost \in Int
  BY DEF Transactions
<1> QED
  BY <1>1 DEF Effect

\* update_balance books its amount on its cell, and nothing on the others.
LEMMA UpdateBalanceBooks ==
  ASSUME TypeOK, NEW x \in Cells, NEW amount \in Int, NEW change \in ChangeTypes,
         NEW ref \in Nat, UpdateBalance(x, amount, change, ref), NEW y \in Cells
  PROVE  Posted(y, IF y = x THEN amount ELSE 0, ref)
<1>1. CASE y = x
  BY <1>1 DEF TypeOK, UpdateBalance, Posted
<1>2. CASE y # x
  BY <1>2 DEF TypeOK, UpdateBalance, Posted
<1> QED
  BY <1>1, <1>2

\* So do two calls on different cells.
LEMMA UpdateBalancesBook ==
  ASSUME TypeOK, NEW x \in Cells, NEW y \in Cells,
         NEW amountX \in Int, NEW amountY \in Int,
         NEW changeX \in ChangeTypes, NEW changeY \in ChangeTypes, NEW ref \in Nat,
         UpdateBalances(x, amountX, changeX, y, amountY, changeY, ref), NEW z \in Cells
  PROVE  Posted(z, IF z = x THEN amountX ELSE IF z = y THEN amountY ELSE 0, ref)
<1>0. x # y
  BY DEF UpdateBalances
<1>1. CASE z = x
  BY <1>0, <1>1 DEF TypeOK, UpdateBalances, Posted
<1>2. CASE z = y
  BY <1>0, <1>2 DEF TypeOK, UpdateBalances, Posted
<1>3. CASE z # x /\ z # y
  BY <1>3 DEF TypeOK, UpdateBalances, Posted
<1> QED
  BY <1>1, <1>2, <1>3

\* Each handler books the change of the effect of its transaction.
LEMMA StepBooks == TypeOK /\ PendingWaits /\ [Next]_vars => BooksTheChange
<1> SUFFICES ASSUME TypeOK, PendingWaits, [Next]_vars PROVE BooksTheChange
  OBVIOUS
<1> USE DEF ChangeTypes
<1>0. NextNumber \in Nat /\ NextNumber = Len(txns) + 1
  BY DEF TypeOK, NextNumber
<1>n. ASSUME UNCHANGED <<balance, history>>
      PROVE  \A x \in Cells : Posted(x, [y \in Cells |-> 0][x], 0)
  BY <1>n DEF Posted
<1>i. ASSUME NEW t \in Transactions, Inserted(t),
             \A x \in Cells : Posted(x, Effect(t, x), NextNumber)
      PROVE  BooksTheChange
  <2> DEFINE post == [x \in Cells |-> Effect(t, x)]
  <2>1. post \in [Cells -> Int]
    BY EffectType
  <2>2. \A x \in Cells : post[x] = Effect(t, x)
    OBVIOUS
  <2> HIDE DEF post
  <2> QED
    BY <1>0, <1>i, <2>1, <2>2 DEF BooksTheChange
<1>s. ASSUME NEW i \in 1..Len(txns), NEW t \in Transactions, Settled(i, t),
             \A x \in Cells : Posted(x, Effect(t, x) - Effect(txns[i], x), i)
      PROVE  BooksTheChange
  <2> DEFINE post == [x \in Cells |-> Effect(t, x) - Effect(txns[i], x)]
  <2>1. post \in [Cells -> Int] /\ i \in Nat
    BY EffectType DEF TypeOK
  <2>2. \A x \in Cells : post[x] = Effect(t, x) - Effect(txns[i], x)
    OBVIOUS
  <2> HIDE DEF post
  <2> QED
    BY <1>s, <2>1, <2>2 DEF BooksTheChange
<1>1. ASSUME NEW b \in Branches, NEW c \in Currencies, NEW a \in Amounts,
             CreateIncome(b, c, a)
      PROVE  BooksTheChange
  <2> DEFINE t == Income(<<b, c>>, a)
  <2>1. a \in Int /\ <<b, c>> \in Cells
    BY LedgerAssumption DEF Cells
  <2>2. t \in Transactions /\ Inserted(t)
    BY <1>1, InsertedTypes DEF CreateIncome, Insert, Inserted
  <2>3. \A x \in Cells : Effect(t, x) = IF x = <<b, c>> THEN a ELSE 0
    BY <2>1 DEF Effect, Income
  <2>4. \A x \in Cells : Posted(x, IF x = <<b, c>> THEN a ELSE 0, NextNumber)
    BY <1>0, <1>1, <2>1, UpdateBalanceBooks DEF CreateIncome
  <2> HIDE DEF t
  <2> QED
    BY <1>i, <2>2, <2>3, <2>4
<1>2. ASSUME NEW b \in Branches, NEW c \in Currencies, NEW a \in Amounts,
             NEW approval \in BOOLEAN, CreateExpense(b, c, a, approval)
      PROVE  BooksTheChange
  <2> DEFINE t == Expense(<<b, c>>, a, approval)
  <2>1. a \in Int /\ -a \in Int /\ <<b, c>> \in Cells
    BY LedgerAssumption DEF Cells
  <2>2. t \in Transactions /\ Inserted(t)
    BY <1>2, InsertedTypes DEF CreateExpense, Insert, Inserted
  <2>3. \A x \in Cells : Effect(t, x) = IF x = <<b, c>> THEN -a ELSE 0
    BY <2>1 DEF Effect, Expense
  <2>4. \A x \in Cells : Posted(x, IF x = <<b, c>> THEN -a ELSE 0, NextNumber)
    BY <1>0, <1>2, <2>1, UpdateBalanceBooks DEF CreateExpense
  <2> HIDE DEF t
  <2> QED
    BY <1>i, <2>2, <2>3, <2>4
<1>3. ASSUME NEW b \in Branches, NEW c \in Currencies, NEW a \in Amounts,
             NEW d \in Currencies, NEW rate \in Rates, NEW pct \in Commissions,
             CreateExchange(b, c, d, a, rate, pct)
      PROVE  BooksTheChange
  <2> DEFINE t == Exchange(<<b, c>>, <<b, d>>, a, rate, pct)
             out == TotalCost(a, pct)
             gain == ToAmount(a, rate)
  <2>1. <<b, c>> \in Cells /\ <<b, d>> \in Cells /\ <<b, c>> # <<b, d>>
    BY <1>3 DEF Cells, CreateExchange
  <2>2. t \in Transactions /\ Inserted(t)
    BY <1>3, InsertedTypes DEF CreateExchange, Insert, Inserted
  <2>3. out \in Int /\ -out \in Int /\ gain \in Int
    BY <2>2 DEF Transactions, Exchange
  <2>4. \A x \in Cells :
          Posted(x, IF x = <<b, c>> THEN -out ELSE IF x = <<b, d>> THEN gain ELSE 0, NextNumber)
    <3>1. UpdateBalances(<<b, c>>, -out, "transaction", <<b, d>>, gain, "transaction",
                         NextNumber)
      BY <1>3 DEF CreateExchange
    <3> DEFINE y == <<b, c>>
               z == <<b, d>>
               amountY == -out
    <3>2. /\ y \in Cells /\ z \in Cells /\ amountY \in Int /\ gain \in Int /\ NextNumber \in Nat
          /\ UpdateBalances(y, amountY, "transaction", z, gain, "transaction", NextNumber)
      BY <1>0, <2>1, <2>3, <3>1
    <3> HIDE DEF out, gain, y, z, amountY
    <3>3. \A x \in Cells :
            Posted(x, IF x = y THEN amountY ELSE IF x = z THEN gain ELSE 0, NextNumber)
      BY <3>2, UpdateBalancesBook
    <3> QED
      BY <3>3 DEF y, z, amountY
  <2> HIDE DEF out, gain
  <2>5. \A x \in Cells :
          Effect(t, x) = IF x = <<b, c>> THEN -out ELSE IF x = <<b, d>> THEN gain ELSE 0
    BY <2>1, <2>3 DEF Effect, Exchange, out, gain
  <2> HIDE DEF t
  <2> QED
    BY <1>i, <2>2, <2>4, <2>5
<1>4. ASSUME NEW b \in Branches, NEW c \in Currencies, NEW a \in Amounts,
             NEW to \in Branches, CreateTransfer(b, to, c, a)
      PROVE  BooksTheChange
  <2> DEFINE t == Transfer(<<b, c>>, <<to, c>>, a)
  <2>1. t \in Transactions /\ Inserted(t)
    BY <1>4, InsertedTypes DEF CreateTransfer, Insert, Inserted
  <2>2. \A x \in Cells : Effect(t, x) = 0
    BY DEF Effect, Transfer
  <2>3. \A x \in Cells : Posted(x, 0, NextNumber)
    BY <1>4 DEF CreateTransfer, Posted
  <2> HIDE DEF t
  <2> QED
    BY <1>i, <2>1, <2>2, <2>3
<1>5. ASSUME NEW i \in 1..Len(txns), CompleteTransfer(i)
      PROVE  BooksTheChange
  <2> DEFINE t == [txns[i] EXCEPT !.status = "completed"]
  <2>1. txns[i] \in Transactions /\ i \in Nat
    BY DEF TypeOK
  <2>2. /\ txns[i].cell \in Cells /\ txns[i].toCell \in Cells
        /\ txns[i].amount \in Int /\ -txns[i].amount \in Int
    BY <2>1 DEF Transactions
  <2>3. t \in Transactions /\ Settled(i, t)
    BY <1>5, <2>1, RowType DEF CompleteTransfer, SetStatus, Settled, Statuses
  <2>4. /\ txns[i].type = "transfer" /\ txns[i].status = "pending"
        /\ txns[i].cell # txns[i].toCell
    BY <1>5 DEF CompleteTransfer, UpdateBalances
  <2>5. txns[i].cost = txns[i].amount /\ txns[i].toAmount = txns[i].amount
    BY <2>4 DEF PendingWaits, WaitsIn
  <2>6. ASSUME NEW x \in Cells
        PROVE  Effect(t, x) - Effect(txns[i], x)
                 = IF x = txns[i].cell THEN -txns[i].amount
                   ELSE IF x = txns[i].toCell THEN txns[i].amount ELSE 0
    <3>1. Effect(txns[i], x) = 0
      BY <2>4 DEF Effect
    <3>2. /\ t.status = "completed" /\ t.cell = txns[i].cell
          /\ t.toCell = txns[i].toCell /\ t.cost = txns[i].amount
          /\ t.toAmount = txns[i].amount
      BY <2>1, <2>5 DEF Transactions
    <3> HIDE DEF t
    <3> QED
      BY <2>2, <2>4, <3>1, <3>2 DEF Effect
  <2>7. \A x \in Cells :
          Posted(x, IF x = txns[i].cell THEN -txns[i].amount
                    ELSE IF x = txns[i].toCell THEN txns[i].amount ELSE 0, i)
    <3>1. UpdateBalances(txns[i].cell, -txns[i].amount, "transfer_out",
                         txns[i].toCell, txns[i].amount, "transfer_in", i)
      BY <1>5 DEF CompleteTransfer
    <3> DEFINE x == txns[i].cell
               y == txns[i].toCell
               amountX == -txns[i].amount
               amountY == txns[i].amount
    <3>2. /\ x \in Cells /\ y \in Cells /\ amountX \in Int /\ amountY \in Int /\ i \in Nat
          /\ UpdateBalances(x, amountX, "transfer_out", y, amountY, "transfer_in", i)
      BY <2>1, <2>2, <3>1
    <3> HIDE DEF x, y, amountX, amountY
    <3>3. \A z \in Cells : Posted(z, IF z = x THEN amountX ELSE IF z = y THEN amountY ELSE 0, i)
      BY <3>2, UpdateBalancesBook
    <3> QED
      BY <3>3 DEF x, y, amountX, amountY
  <2> HIDE DEF t
  <2> QED
    BY <1>s, <2>3, <2>6, <2>7
<1>6. ASSUME NEW i \in 1..Len(txns), ApproveExpense(i)
      PROVE  BooksTheChange
  <2> DEFINE t == [txns[i] EXCEPT !.status = "completed", !.approved = TRUE]
  <2>1. txns[i] \in Transactions
    BY DEF TypeOK
  <2>2. t \in Transactions /\ Settled(i, t)
    BY <1>6, <2>1, RowType DEF ApproveExpense, Settled, Statuses
  <2>3. ASSUME NEW x \in Cells PROVE Effect(t, x) - Effect(txns[i], x) = 0
    <3>1. txns[i].type = "expense" /\ txns[i].status = "pending"
      BY <1>6 DEF ApproveExpense
    <3>2. /\ t.status = "completed" /\ t.type = txns[i].type /\ t.cell = txns[i].cell
          /\ t.toCell = txns[i].toCell /\ t.cost = txns[i].cost
          /\ t.toAmount = txns[i].toAmount
      BY <2>1 DEF Transactions
    <3>3. Effect(t, x) = Effect(txns[i], x)
      BY <3>1, <3>2 DEF Effect
    <3>4. Effect(txns[i], x) \in Int
      BY <2>1, EffectType
    <3> QED
      BY <3>3, <3>4
  <2>4. \A x \in Cells : Posted(x, 0, i)
    BY <1>6 DEF ApproveExpense, Posted
  <2> HIDE DEF t
  <2> QED
    BY <1>s, <2>2, <2>3, <2>4
<1>7. ASSUME NEW i \in 1..Len(txns), CancelTransaction(i)
      PROVE  BooksTheChange
  <2> DEFINE t == [txns[i] EXCEPT !.status = "cancelled"]
  <2>1. txns[i] \in Transactions /\ i \in Nat
    BY DEF TypeOK
  <2>2. t \in Transactions /\ t.status = "cancelled" /\ Settled(i, t)
    BY <1>7, <2>1, RowType DEF CancelTransaction, SetStatus, Settled, Statuses
  <2> HIDE DEF t
  <2>3. \A x : Effect(t, x) = 0
    BY <2>2 DEF Effect
  <2>4. txns[i].cell \in Cells /\ txns[i].amount \in Int
    BY <2>1 DEF Transactions
  <2>5. txns[i].status = "pending"
    BY <1>7 DEF CancelTransaction
  <2>6. CASE txns[i].type = "expense"
    <3>1. txns[i].cost = txns[i].amount /\ txns[i].toAmount = 0
      BY <2>5, <2>6 DEF PendingWaits, WaitsIn
    <3>2. ASSUME NEW x \in Cells
          PROVE  Effect(t, x) - Effect(txns[i], x)
                   = IF x = txns[i].cell THEN txns[i].amount ELSE 0
      <4>1. Effect(t, x) = 0
        BY <2>3
      <4>2. Effect(txns[i], x) = IF x = txns[i].cell THEN -txns[i].amount ELSE 0
        BY <2>4, <2>5, <2>6, <3>1 DEF Effect
      <4> QED
        BY <2>4, <4>1, <4>2
    <3>3. UpdateBalance(txns[i].cell, txns[i].amount, "adjustment", i)
      BY <1>7, <2>6 DEF CancelTransaction, Reversal
    <3>4. \A x \in Cells : Posted(x, IF x = txns[i].cell THEN txns[i].amount ELSE 0, i)
      BY <2>1, <2>4, <3>3, UpdateBalanceBooks
    <3> QED
      BY <1>s, <2>2, <3>2, <3>4
  <2>7. CASE txns[i].type = "transfer"
    <3>1. ASSUME NEW x \in Cells PROVE Effect(t, x) - Effect(txns[i], x) = 0
      <4>1. Effect(t, x) = 0
        BY <2>3
      <4>2. Effect(txns[i], x) = 0
        BY <2>5, <2>7 DEF Effect
      <4> QED
        BY <4>1, <4>2
    <3>2. \A x \in Cells : Posted(x, 0, i)
      BY <1>7, <2>7 DEF CancelTransaction, Posted
    <3> QED
      BY <1>s, <2>2, <3>1, <3>2
  <2> QED
    BY <2>5, <2>6, <2>7 DEF PendingWaits, WaitsIn
<1>8. ASSUME NEW x \in Cells, NEW n \in Counts, ReconcileBranchBalance(x, n)
      PROVE  BooksTheChange
  <2> DEFINE post == [y \in Cells |-> IF y = x THEN n - balance[x] ELSE 0]
  <2>1. n - balance[x] \in Int
    BY LedgerAssumption DEF TypeOK
  <2>2. \A y \in Cells : Posted(y, IF y = x THEN n - balance[x] ELSE 0, 0)
    BY <1>8, <2>1, UpdateBalanceBooks DEF ReconcileBranchBalance
  <2>3. post \in [Cells -> Int] /\ \A y \in Cells : Posted(y, post[y], 0)
    BY <2>1, <2>2
  <2> HIDE DEF post
  <2> QED
    BY <1>8, <2>3 DEF BooksTheChange, ReconcileBranchBalance
<1>9. ASSUME \/ \E b \in Branches : DeleteBranch(b)
             \/ \E b \in Branches, isActive \in BOOLEAN : UpdateBranch(b, isActive)
             \/ UNCHANGED vars
      PROVE  BooksTheChange
  <2>1. UNCHANGED <<balance, history, txns>>
    BY <1>9 DEF DeleteBranch, UpdateBranch, vars
  <2>2. [y \in Cells |-> 0] \in [Cells -> Int]
    OBVIOUS
  <2> QED
    BY <1>n, <2>1, <2>2 DEF BooksTheChange
<1> QED
  BY <1>1, <1>2, <1>3, <1>4, <1>5, <1>6, <1>7, <1>8, <1>9 DEF Next

-----------------------------------------------------------------------------
(* Settled transactions and history rows are final.                        *)

\* A settled row stays as it is.
SettledStay ==
  \A i \in 1..Len(txns) :
    /\ i \in 1..Len(txns')
    /\ ~ Pending(i) => txns'[i] = txns[i]

\* Every step leaves the rows of settled transactions as they are.
LEMMA SettledStayStep == TypeOK /\ PendingWaits /\ [Next]_vars => SettledStay
<1> SUFFICES ASSUME TypeOK, BooksTheChange, NEW i \in 1..Len(txns)
             PROVE  /\ i \in 1..Len(txns')
                    /\ txns[i].status # "pending" => txns'[i] = txns[i]
  BY StepBooks DEF SettledStay, Pending
<1>1. PICK ref \in Nat :
        \/ txns' = txns
        \/ \E t \in Transactions : Inserted(t) \/ Settled(ref, t)
  BY DEF BooksTheChange
<1>2. txns \in Seq(Transactions)
  BY DEF TypeOK
<1>3. ASSUME NEW t \in Transactions, Inserted(t)
      PROVE  i \in 1..Len(txns') /\ txns'[i] = txns[i]
  BY <1>2, <1>3 DEF Inserted
<1>4. ASSUME NEW t \in Transactions, Settled(ref, t)
      PROVE  /\ i \in 1..Len(txns')
             /\ txns[i].status # "pending" => txns'[i] = txns[i]
  BY <1>2, <1>4, TableType DEF Settled
<1> QED
  BY <1>1, <1>3, <1>4

\* COMPLETED and CANCELLED are immutable and the audit trail is append-only,
\* whichever handlers run, in whatever order.
THEOREM SettledStaysFinal == Spec => SettledIsFinal
<1> DEFINE Final ==
      /\ \A i \in 1..Len(txns) :
           /\ i \in 1..Len(txns')
           /\ ~ Pending(i) => txns'[i] = txns[i]
      /\ \A x \in Cells : \A k \in 1..Len(history[x]) :
           k \in 1..Len(history'[x]) /\ history'[x][k] = history[x][k]
<1>1. TypeOK /\ PendingWaits /\ [Next]_vars => [Final]_vars
  <2> SUFFICES ASSUME TypeOK, TypeOK', BooksTheChange, SettledStay PROVE Final
    BY TypeStep, StepBooks, SettledStayStep
  <2>1. PICK ref \in Nat, post \in [Cells -> Int] :
          \A x \in Cells : Posted(x, post[x], ref)
    BY DEF BooksTheChange
  <2>2. ASSUME NEW x \in Cells, NEW k \in 1..Len(history[x])
        PROVE  k \in 1..Len(history'[x]) /\ history'[x][k] = history[x][k]
    <3>1. history[x] \in Seq(Entries) /\ history'[x] \in Seq(Entries)
      BY DEF TypeOK
    <3>2. history'[x] = history[x] \/ \E e : history'[x] = Append(history[x], e)
      BY <2>1 DEF Posted
    <3> QED
      BY <3>1, <3>2, AppendProperties
  <2> QED
    BY <2>2 DEF SettledStay
<1>2. Spec => []PendingWaits
  BY WaitingIsKept
<1> QED
  BY <1>1, <1>2, TypeCorrect, PTL DEF Spec, SettledIsFinal

-----------------------------------------------------------------------------
(* The history explains every balance.                                     *)

\* The sum of the rows about transaction i grows by what an added row says of it.
LEMMA NetAppend ==
  ASSUME NEW s \in Seq(Entries), NEW e \in Entries, NEW i \in Nat
  PROVE  Net(s, i) \in Int /\ Net(Append(s, e), i) = Net(s, i) + PostOf(e, i)
<1> DEFINE Posts(r) == [k \in 1..Len(r) |-> PostOf(r[k], i)]
           old == Posts(s)
           new == Posts(Append(s, e))
<1>1. ASSUME NEW f \in Entries PROVE PostOf(f, i) \in Int
  BY DEF Entries, PostOf
<1>2. ASSUME NEW r \in Seq(Entries) PROVE Posts(r) \in Seq(Int) /\ Len(Posts(r)) = Len(r)
  <2>1. Len(r) \in Nat /\ \A k \in 1..Len(r) : r[k] \in Entries
    OBVIOUS
  <2>2. Posts(r) \in [1..Len(r) -> Int]
    BY <1>1, <2>1
  <2> QED
    BY <2>1, <2>2, SeqDef
<1>3. /\ Append(s, e) \in Seq(Entries) /\ Len(Append(s, e)) = Len(s) + 1
      /\ Append(s, e)[Len(s) + 1] = e /\ \A k \in 1..Len(s) : Append(s, e)[k] = s[k]
  BY AppendProperties
<1>4. old \in Seq(Int) /\ Len(old) = Len(s) /\ new \in Seq(Int) /\ Len(new) = Len(s) + 1
  BY <1>2, <1>3
<1>5. new[Len(s) + 1] = PostOf(e, i) /\ \A k \in 1..Len(s) : new[k] = old[k]
  <2>1. Len(s) + 1 \in 1..Len(Append(s, e)) /\ \A k \in 1..Len(s) : k \in 1..Len(Append(s, e))
    BY <1>3
  <2> QED
    BY <1>3, <2>1
<1>6. TotalOf(old) = Net(s, i) /\ TotalOf(new) = Net(Append(s, e), i)
  BY DEF Net
<1> HIDE DEF old, new, Posts
<1>7. new = Append(old, PostOf(e, i))
  <2>1. PostOf(e, i) \in Int
    BY <1>1
  <2>2. \A k \in 1..(Len(s) + 1) : k \in 1..Len(s) \/ k = Len(s) + 1
    OBVIOUS
  <2> QED
    BY <1>4, <1>5, <2>1, <2>2, AppendProperties, SeqEqual
<1> QED
  BY <1>1, <1>4, <1>6, <1>7, TotalOfAppend, TotalOfType

\* No row yet, nothing moved.
LEMMA NetUntouched ==
  ASSUME NEW s \in Seq(Entries), NEW i \in Nat \ {0},
         \A k \in 1..Len(s) : s[k].txn # i
  PROVE  Net(s, i) = 0
<1> DEFINE posts == [k \in 1..Len(s) |-> PostOf(s[k], i)]
<1>1. Len(s) \in Nat
  OBVIOUS
<1>2. \A k \in 1..Len(s) : PostOf(s[k], i) = 0
  BY DEF PostOf
<1>3. posts \in [1..Len(s) -> Int] /\ Len(posts) = Len(s) /\ \A k \in 1..Len(s) : posts[k] = 0
  BY <1>1, <1>2
<1>4. TotalOf(posts) = 0
  BY <1>1, <1>3, SeqDef, TotalOfZeros
<1> QED
  BY <1>4 DEF Net

\* What a booking adds to each transaction's account.
LEMMA PostedNet ==
  ASSUME TypeOK, NEW x \in Cells, NEW amount \in Int, NEW ref \in Nat,
         Posted(x, amount, ref), NEW i \in Nat
  PROVE  Net(history'[x], i) = Net(history[x], i) + IF i \in {0, ref} THEN amount ELSE 0
<1>1. history[x] \in Seq(Entries)
  BY DEF TypeOK
<1>2. CASE amount = 0 /\ history'[x] = history[x]
  <2>1. Net(history[x], i) \in Int
    <3>1. PICK e : e \in Entries
      <4>1. [txn |-> 0, change |-> "transaction", amount |-> 0, before |-> 0, after |-> 0]
              \in Entries
        BY DEF Entries, ChangeTypes
      <4> QED
        BY <4>1
    <3> QED
      BY <1>1, <3>1, NetAppend
  <2> QED
    BY <1>2, <2>1
<1>3. ASSUME NEW change \in ChangeTypes, MayUpdate(x, amount),
             history'[x] = Append(history[x], Entry(x, amount, change, ref))
      PROVE  Net(history'[x], i) = Net(history[x], i) + IF i \in {0, ref} THEN amount ELSE 0
  <2>1. Entry(x, amount, change, ref) \in Entries
    BY <1>3, EntryType
  <2>2. PostOf(Entry(x, amount, change, ref), i) = IF i \in {0, ref} THEN amount ELSE 0
    BY DEF PostOf, Entry
  <2> QED
    BY <1>1, <1>3, <2>1, <2>2, NetAppend
<1> QED
  BY <1>2, <1>3 DEF Posted

\* A booking leaves its cell explained: the row starts at the old balance, ends
\* at the new one, and says the difference.
LEMMA PostedExplained ==
  ASSUME TypeOK, NEW x \in Cells, Explained(x), NEW amount \in Int, NEW ref \in Nat,
         Posted(x, amount, ref)
  PROVE  Explained(x)'
<1> DEFINE h == history[x]
           last == IF h = <<>> THEN Opening[x] ELSE h[Len(h)].after
<1>1. /\ h \in Seq(Entries) /\ Len(h) \in Nat /\ balance[x] \in Int
      /\ Opening[x] \in Int /\ Net(h, 0) = balance[x] - Opening[x]
  <2>1. h \in Seq(Entries) /\ balance[x] \in Nat /\ Opening[x] \in Nat
    BY LedgerAssumption DEF TypeOK
  <2>2. balance[x] = Opening[x] + Net(h, 0) /\ Net(h, 0) \in Int
    <3>1. balance[x] = Opening[x] + Net(h, 0)
      BY DEF Explained
    <3>2. [txn |-> 0, change |-> "transaction", amount |-> 0, before |-> 0, after |-> 0]
            \in Entries
      BY DEF Entries, ChangeTypes
    <3> QED
      BY <2>1, <3>1, <3>2, NetAppend
  <2> QED
    BY <2>1, <2>2
<1>2. Net(history'[x], 0) = Net(h, 0) + amount
  BY PostedNet
<1>3. CASE amount = 0 /\ balance'[x] = balance[x] /\ history'[x] = history[x]
  BY <1>3 DEF Explained
<1>4. ASSUME NEW change \in ChangeTypes, MayUpdate(x, amount),
             balance'[x] = balance[x] + amount,
             history'[x] = Append(history[x], Entry(x, amount, change, ref))
      PROVE  Explained(x)'
  <2> DEFINE e == Entry(x, amount, change, ref)
             g == history'[x]
  <2>1. e.before = balance[x] /\ e.after = balance[x] + amount /\ e.amount = amount
    BY DEF Entry
  <2>2. e \in Entries
    BY <1>4, EntryType
  <2> HIDE DEF e
  <2>3. /\ g \in Seq(Entries) /\ Len(g) = Len(h) + 1 /\ g[Len(h) + 1] = e
        /\ \A k \in 1..Len(h) : g[k] = h[k]
    BY <1>1, <1>4, <2>2, AppendProperties DEF e
  <2>4. /\ \A k \in 1..Len(h) :
             /\ h[k].before = IF k = 1 THEN Opening[x] ELSE h[k - 1].after
             /\ h[k].after = h[k].before + h[k].amount
        /\ balance[x] = IF h = <<>> THEN Opening[x] ELSE h[Len(h)].after
    BY DEF Explained
  <2> HIDE DEF g
  <2>5. ASSUME NEW k \in 1..Len(g)
        PROVE  /\ g[k].before = IF k = 1 THEN Opening[x] ELSE g[k - 1].after
               /\ g[k].after = g[k].before + g[k].amount
    <3>1. CASE k = Len(h) + 1
      <4>1. h = <<>> <=> k = 1
        BY <1>1, <3>1
      <4>2. k # 1 => k - 1 \in 1..Len(h) /\ k - 1 = Len(h)
        BY <1>1, <3>1
      <4>3. g[k] = e /\ e.before = IF k = 1 THEN Opening[x] ELSE h[k - 1].after
        BY <2>1, <2>3, <2>4, <3>1, <4>1, <4>2
      <4>4. k # 1 => g[k - 1] = h[k - 1]
        BY <2>3, <4>2
      <4> QED
        BY <2>1, <4>3, <4>4
    <3>2. CASE k \in 1..Len(h)
      <4>1. k # 1 => k - 1 \in 1..Len(h)
        BY <1>1, <3>2
      <4> QED
        BY <2>3, <2>4, <3>2, <4>1
    <3> QED
      BY <1>1, <2>3, <3>1, <3>2
  <2>6. g # <<>> /\ g[Len(g)].after = balance'[x]
    BY <1>1, <1>4, <2>1, <2>3
  <2>7. balance'[x] = Opening[x] + Net(g, 0)
    BY <1>1, <1>2, <1>4 DEF g
  <2> QED
    BY <2>5, <2>6, <2>7 DEF Explained, g
<1> QED
  BY <1>3, <1>4 DEF Posted

\* The audit trail explains every balance from the opening one on, without a
\* gap, whatever the branches do.
THEOREM HistoryExplains == Spec => []HistoryExplainsBalance
<1>1. Init => HistoryExplainsBalance
  <2> SUFFICES ASSUME Init, NEW x \in Cells PROVE Explained(x)
    BY DEF HistoryExplainsBalance
  <2>1. history[x] = <<>> /\ balance[x] = Opening[x] /\ Opening[x] \in Nat
    BY LedgerAssumption DEF Init
  <2>2. Net(history[x], 0) = 0
    <3>1. history[x] \in Seq(Entries) /\ Len(history[x]) = 0
      BY <2>1
    <3>2. [k \in 1..Len(history[x]) |-> PostOf(history[x][k], 0)] = <<>>
      BY <3>1
    <3> QED
      BY <3>2, TotalOfType DEF Net
  <2> QED
    BY <2>1, <2>2 DEF Explained
<1>2. TypeOK /\ PendingWaits /\ HistoryExplainsBalance /\ [Next]_vars
        => HistoryExplainsBalance'
  <2> SUFFICES ASSUME TypeOK, BooksTheChange, HistoryExplainsBalance, NEW x \in Cells
               PROVE  Explained(x)'
    BY StepBooks DEF HistoryExplainsBalance
  <2>1. PICK ref \in Nat, post \in [Cells -> Int] : Posted(x, post[x], ref)
    BY DEF BooksTheChange
  <2> QED
    BY <2>1, PostedExplained DEF HistoryExplainsBalance
<1> QED
  BY <1>1, <1>2, WaitingIsKept, TypeCorrect, PTL DEF Spec

-----------------------------------------------------------------------------
(* Every transaction has moved what its status says.                       *)

\* No history row refers to a transaction that is not in the table.
RefsKnown ==
  \A x \in Cells : \A k \in 1..Len(history[x]) : history[x][k].txn \in 0..Len(txns)

\* A step that books the change of one transaction's effect keeps every
\* transaction's account at its effect.
LEMMA StepEffects ==
  TypeOK /\ RefsKnown /\ EffectsMatchStatus /\ BooksTheChange
    => RefsKnown' /\ EffectsMatchStatus'
<1> SUFFICES ASSUME TypeOK, RefsKnown, EffectsMatchStatus, BooksTheChange
             PROVE  RefsKnown' /\ EffectsMatchStatus'
  OBVIOUS
<1>1. PICK ref \in Nat, post \in [Cells -> Int] :
        /\ \A x \in Cells : Posted(x, post[x], ref)
        /\ \/ ref = 0 /\ txns' = txns
           \/ /\ ref = Len(txns) + 1
              /\ \E t \in Transactions :
                   Inserted(t) /\ \A x \in Cells : post[x] = Effect(t, x)
           \/ \E t \in Transactions :
                /\ Settled(ref, t)
                /\ \A x \in Cells : post[x] = Effect(t, x) - Effect(txns[ref], x)
  BY DEF BooksTheChange
<1>2. txns \in Seq(Transactions) /\ Len(txns) \in Nat
  BY DEF TypeOK
<1>3. \A x \in Cells, i \in Nat :
        Net(history'[x], i) = Net(history[x], i) + IF i \in {0, ref} THEN post[x] ELSE 0
  BY <1>1, PostedNet
<1>4. ASSUME NEW n \in Nat, Len(txns') = n, Len(txns) <= n, ref <= n
      PROVE  RefsKnown'
  <2> SUFFICES ASSUME NEW x \in Cells, NEW k \in 1..Len(history'[x])
               PROVE  history'[x][k].txn \in 0..n
    BY <1>4 DEF RefsKnown
  <2>1. history[x] \in Seq(Entries)
    BY DEF TypeOK
  <2>2. CASE history'[x] = history[x]
    BY <1>2, <1>4, <2>2 DEF RefsKnown
  <2>3. ASSUME NEW e, e.txn = ref, history'[x] = Append(history[x], e)
        PROVE  history'[x][k].txn \in 0..n
    <3>1. Len(history'[x]) = Len(history[x]) + 1
      BY <2>1, <2>3
    <3>2. CASE k \in 1..Len(history[x])
      <4>1. history'[x][k] = history[x][k]
        BY <2>1, <2>3, <3>2
      <4>2. history[x][k].txn \in 0..Len(txns)
        BY <3>2 DEF RefsKnown
      <4> QED
        BY <1>2, <1>4, <4>1, <4>2
    <3>3. CASE k = Len(history[x]) + 1
      <4>1. history'[x][k] = e
        BY <2>1, <2>3, <3>3
      <4> QED
        BY <1>4, <2>3, <4>1
    <3> QED
      BY <2>1, <3>1, <3>2, <3>3
  <2>4. history'[x] = history[x]
        \/ \E e : e.txn = ref /\ history'[x] = Append(history[x], e)
    <3>1. \A amount, change : Entry(x, amount, change, ref).txn = ref
      BY DEF Entry
    <3> QED
      BY <1>1, <3>1 DEF Posted
  <2> QED
    BY <2>2, <2>3, <2>4
<1>5. CASE ref = 0 /\ txns' = txns
  <2>1. EffectsMatchStatus'
    <3> SUFFICES ASSUME NEW i \in 1..Len(txns), NEW x \in Cells
                 PROVE  Net(history'[x], i) = Effect(txns[i], x)
      BY <1>5 DEF EffectsMatchStatus
    <3>1. i \in Nat /\ i # 0 /\ i # ref
      BY <1>2, <1>5
    <3>2. Net(history[x], i) = Effect(txns[i], x) /\ Effect(txns[i], x) \in Int
      BY <1>2, EffectType DEF EffectsMatchStatus
    <3> QED
      BY <1>3, <3>1, <3>2
  <2> QED
    BY <1>2, <1>4, <1>5, <2>1
<1>6. ASSUME NEW t \in Transactions, ref = Len(txns) + 1, Inserted(t),
             \A x \in Cells : post[x] = Effect(t, x)
      PROVE  RefsKnown' /\ EffectsMatchStatus'
  <2>1. /\ Len(txns') = Len(txns) + 1 /\ txns'[Len(txns) + 1] = t
        /\ \A k \in 1..Len(txns) : txns'[k] = txns[k]
    BY <1>2, <1>6, AppendProperties DEF Inserted
  <2>2. EffectsMatchStatus'
    <3> SUFFICES ASSUME NEW i \in 1..Len(txns'), NEW x \in Cells
                 PROVE  Net(history'[x], i) = Effect(txns'[i], x)
      BY DEF EffectsMatchStatus
    <3>1. CASE i = ref
      <4>1. \A k \in 1..Len(history[x]) : history[x][k].txn # i
        BY <1>2, <1>6, <3>1 DEF RefsKnown
      <4>2. Net(history[x], i) = 0
        <5>1. history[x] \in Seq(Entries) /\ i \in Nat \ {0}
          BY <1>2, <1>6, <3>1 DEF TypeOK
        <5> QED
          BY <4>1, <5>1, NetUntouched
      <4>3. Effect(t, x) \in Int
        BY EffectType
      <4> QED
        BY <1>3, <1>6, <2>1, <3>1, <4>2, <4>3
    <3>2. CASE i \in 1..Len(txns)
      <4>1. Net(history[x], i) = Effect(txns[i], x) /\ Effect(txns[i], x) \in Int
        BY <1>2, <3>2, EffectType DEF EffectsMatchStatus
      <4>2. i \in Nat /\ i # 0 /\ i # ref
        BY <1>2, <1>6, <3>2
      <4> QED
        BY <1>3, <2>1, <3>2, <4>1, <4>2
    <3> QED
      BY <1>2, <1>6, <2>1, <3>1, <3>2
  <2> QED
    BY <1>2, <1>4, <1>6, <2>1, <2>2
<1>7. ASSUME NEW t \in Transactions, Settled(ref, t),
             \A x \in Cells : post[x] = Effect(t, x) - Effect(txns[ref], x)
      PROVE  RefsKnown' /\ EffectsMatchStatus'
  <2>1. /\ ref \in 1..Len(txns) /\ Len(txns') = Len(txns)
        /\ \A k \in 1..Len(txns) : txns'[k] = IF k = ref THEN t ELSE txns[k]
    BY <1>2, <1>7, TableType DEF Settled
  <2>2. EffectsMatchStatus'
    <3> SUFFICES ASSUME NEW i \in 1..Len(txns), NEW x \in Cells
                 PROVE  Net(history'[x], i) = Effect(txns'[i], x)
      BY <2>1 DEF EffectsMatchStatus
    <3>1. /\ Net(history[x], i) = Effect(txns[i], x)
          /\ Effect(txns[i], x) \in Int /\ Effect(t, x) \in Int
      BY <1>2, EffectType DEF EffectsMatchStatus
    <3>2. i \in Nat /\ i # 0
      BY <1>2
    <3> QED
      BY <1>3, <1>7, <2>1, <3>1, <3>2
  <2> QED
    BY <1>2, <1>4, <2>1, <2>2
<1> QED
  BY <1>1, <1>5, <1>6, <1>7

\* In every reachable state history refers to existing transactions, and each has moved what its status says.
LEMMA EffectsAndRefs == Spec => [](RefsKnown /\ EffectsMatchStatus)
<1>1. Init => RefsKnown /\ EffectsMatchStatus
  <2> SUFFICES ASSUME Init PROVE RefsKnown /\ EffectsMatchStatus
    OBVIOUS
  <2>1. Len(txns) = 0 /\ \A x \in Cells : Len(history[x]) = 0
    BY DEF Init
  <2> QED
    BY <2>1 DEF RefsKnown, EffectsMatchStatus
<1>2. TypeOK /\ PendingWaits /\ RefsKnown /\ EffectsMatchStatus /\ [Next]_vars
        => RefsKnown' /\ EffectsMatchStatus'
  BY StepBooks, StepEffects
<1> QED
  BY <1>1, <1>2, WaitingIsKept, TypeCorrect, PTL DEF Spec

\* Nothing is paid twice, refunded twice or left behind by create, receive,
\* approve and cancel in any order.
THEOREM EffectsMatch == Spec => []EffectsMatchStatus
BY EffectsAndRefs, PTL

-----------------------------------------------------------------------------
(* What the reports rest on.                                               *)

\* What a row of the transactions table says of its money, whoever wrote it.
Priced(t) ==
  /\ t.type = "income" =>
       /\ t.status = "completed" /\ t.toCell = t.cell
       /\ t.cost = 0 /\ t.toAmount = t.amount
  /\ t.type = "expense" => t.cost = t.amount /\ t.toAmount = 0
  /\ t.type = "exchange" => t.status = "completed" /\ t.cost >= t.amount
  /\ t.type = "transfer" =>
       /\ t.cost = t.amount /\ t.toAmount = t.amount
       /\ t.cell[2] = t.toCell[2]

\* Every transaction is priced.
AllPriced == \A i \in 1..Len(txns) : Priced(txns[i])

\* A count refers to no transaction, and nothing else does without one.
Told(entries) ==
  \A k \in 1..Len(entries) : entries[k].txn = 0 <=> entries[k].change = "reconciliation"

\* Every cell's history tells them apart.
AllTold == \A x \in Cells : Told(history[x])

\* A cell without a row holds nothing.
RowsHold == \A x \in Cells : x \in rows \/ balance[x] = 0

\* An inserted row that is priced keeps the table priced.
LEMMA InsertPriced ==
  ASSUME TypeOK, AllPriced, NEW t \in Transactions, Insert(t), Priced(t)
  PROVE  AllPriced'
<1>1. ASSUME NEW k \in 1..Len(txns') PROVE Priced(txns'[k])
  <2>1. (k \in 1..Len(txns) /\ txns'[k] = txns[k]) \/ txns'[k] = t
    BY DEF TypeOK, Insert
  <2> QED
    BY <2>1 DEF AllPriced
<1> QED
  BY <1>1 DEF AllPriced

\* Settling a row that waits changes its status, not its price.
LEMMA SettlePriced ==
  ASSUME TypeOK, AllPriced, NEW i \in 1..Len(txns), txns[i].status = "pending",
         NEW t, t.type = txns[i].type, t.cell = txns[i].cell, t.toCell = txns[i].toCell,
         t.amount = txns[i].amount, t.cost = txns[i].cost, t.toAmount = txns[i].toAmount,
         txns' = [txns EXCEPT ![i] = t]
  PROVE  AllPriced'
<1>1. Priced(txns[i])
  BY DEF AllPriced
<1>2. Priced(t)
  BY <1>1 DEF Priced
<1>3. ASSUME NEW k \in 1..Len(txns') PROVE Priced(txns'[k])
  <2>1. k \in 1..Len(txns) /\ txns'[k] = IF k = i THEN t ELSE txns[k]
    BY DEF TypeOK
  <2> QED
    BY <1>2, <2>1 DEF AllPriced
<1> QED
  BY <1>3 DEF AllPriced

\* Each handler prices the row it writes.
LEMMA PricedStep == TypeOK /\ AllPriced /\ [Next]_vars => AllPriced'
<1> SUFFICES ASSUME TypeOK, AllPriced, [Next]_vars PROVE AllPriced'
  OBVIOUS
<1>1. ASSUME NEW b \in Branches, NEW c \in Currencies, NEW a \in Amounts,
             CreateIncome(b, c, a)
      PROVE  AllPriced'
  <2>1. Priced(Income(<<b, c>>, a))
    BY DEF Priced, Income
  <2> QED
    BY <1>1, <2>1, InsertedTypes, InsertPriced DEF CreateIncome
<1>2. ASSUME NEW b \in Branches, NEW c \in Currencies, NEW a \in Amounts,
             NEW approval \in BOOLEAN, CreateExpense(b, c, a, approval)
      PROVE  AllPriced'
  <2>1. Priced(Expense(<<b, c>>, a, approval))
    BY DEF Priced, Expense
  <2> QED
    BY <1>2, <2>1, InsertedTypes, InsertPriced DEF CreateExpense
<1>3. ASSUME NEW b \in Branches, NEW c \in Currencies, NEW a \in Amounts,
             NEW d \in Currencies, NEW rate \in Rates, NEW pct \in Commissions,
             CreateExchange(b, c, d, a, rate, pct)
      PROVE  AllPriced'
  <2>1. a \in Nat /\ rate \in Nat /\ pct \in Nat
    <3>1. a \in Nat /\ rate \in Nat /\ pct \in 0..PercentScale
      BY LedgerAssumption
    <3> QED
      BY <3>1 DEF PercentScale
  <2>2. TotalCost(a, pct) >= a
    BY <2>1, ExchangeAmounts
  <2>3. Priced(Exchange(<<b, c>>, <<b, d>>, a, rate, pct))
    BY <2>2 DEF Priced, Exchange
  <2> QED
    BY <1>3, <2>3, InsertedTypes, InsertPriced DEF CreateExchange
<1>4. ASSUME NEW b \in Branches, NEW c \in Currencies, NEW a \in Amounts,
             NEW to \in Branches, CreateTransfer(b, to, c, a)
      PROVE  AllPriced'
  <2>1. Priced(Transfer(<<b, c>>, <<to, c>>, a))
    BY DEF Priced, Transfer
  <2> QED
    BY <1>4, <2>1, InsertedTypes, InsertPriced DEF CreateTransfer
<1>5. ASSUME NEW i \in 1..Len(txns),
             CompleteTransfer(i) \/ ApproveExpense(i) \/ CancelTransaction(i)
      PROVE  AllPriced'
  <2>1. txns[i] \in Transactions /\ txns[i].status = "pending"
    BY <1>5 DEF TypeOK, CompleteTransfer, ApproveExpense, CancelTransaction
  <2>2. PICK t : /\ txns' = [txns EXCEPT ![i] = t]
                 /\ t.type = txns[i].type /\ t.cell = txns[i].cell /\ t.toCell = txns[i].toCell
                 /\ t.amount = txns[i].amount /\ t.cost = txns[i].cost
                 /\ t.toAmount = txns[i].toAmount
    <3>1. ASSUME NEW status, SetStatus(i, status)
          PROVE  \E t : /\ txns' = [txns EXCEPT ![i] = t]
                        /\ t.type = txns[i].type /\ t.cell = txns[i].cell
                        /\ t.toCell = txns[i].toCell /\ t.amount = txns[i].amount
                        /\ t.cost = txns[i].cost /\ t.toAmount = txns[i].toAmount
      <4> DEFINE t == [txns[i] EXCEPT !.status = status]
      <4>1. txns' = [txns EXCEPT ![i] = t]
        BY <3>1 DEF SetStatus
      <4>2. /\ t.type = txns[i].type /\ t.cell = txns[i].cell /\ t.toCell = txns[i].toCell
            /\ t.amount = txns[i].amount /\ t.cost = txns[i].cost
            /\ t.toAmount = txns[i].toAmount
        BY <2>1 DEF Transactions
      <4> QED
        BY <4>1, <4>2
    <3>2. CASE ApproveExpense(i)
      <4> DEFINE t == [txns[i] EXCEPT !.status = "completed", !.approved = TRUE]
      <4>1. txns' = [txns EXCEPT ![i] = t]
        BY <2>1, <3>2 DEF ApproveExpense
      <4>2. /\ t.type = txns[i].type /\ t.cell = txns[i].cell /\ t.toCell = txns[i].toCell
            /\ t.amount = txns[i].amount /\ t.cost = txns[i].cost
            /\ t.toAmount = txns[i].toAmount
        BY <2>1 DEF Transactions
      <4> QED
        BY <4>1, <4>2
    <3> QED
      BY <1>5, <3>1, <3>2 DEF CompleteTransfer, CancelTransaction
  <2> QED
    BY <2>1, <2>2, SettlePriced
<1>6. CASE UNCHANGED txns
  BY <1>6 DEF AllPriced
<1>7. ASSUME \/ \E x \in Cells, n \in Counts : ReconcileBranchBalance(x, n)
             \/ \E b \in Branches : DeleteBranch(b)
             \/ \E b \in Branches, isActive \in BOOLEAN : UpdateBranch(b, isActive)
             \/ UNCHANGED vars
      PROVE  UNCHANGED txns
  BY <1>7 DEF ReconcileBranchBalance, DeleteBranch, UpdateBranch, vars
<1> QED
  BY <1>1, <1>2, <1>3, <1>4, <1>5, <1>6, <1>7 DEF Next

\* A row of the history that tells what it is keeps the history telling.
LEMMA AppendTold ==
  ASSUME NEW h \in Seq(Entries), Told(h), NEW e \in Entries,
         e.txn = 0 <=> e.change = "reconciliation"
  PROVE  Told(Append(h, e))
<1>1. /\ Len(Append(h, e)) = Len(h) + 1 /\ Append(h, e)[Len(h) + 1] = e
      /\ \A k \in 1..Len(h) : Append(h, e)[k] = h[k]
  BY AppendProperties
<1> SUFFICES ASSUME NEW k \in 1..(Len(h) + 1)
             PROVE  Append(h, e)[k].txn = 0 <=> Append(h, e)[k].change = "reconciliation"
  BY <1>1 DEF Told
<1>2. k \in 1..Len(h) \/ k = Len(h) + 1
  OBVIOUS
<1> QED
  BY <1>1, <1>2 DEF Told

\* update_balance gives the cell a row, and says what it did and for whom.
LEMMA UpdateBalanceTold ==
  ASSUME TypeOK, AllTold, RowsHold, NEW x \in Cells, NEW amount \in Int,
         NEW change \in ChangeTypes, NEW ref \in Nat,
         ref = 0 <=> change = "reconciliation", UpdateBalance(x, amount, change, ref)
  PROVE  AllTold' /\ RowsHold'
<1>1. /\ Entry(x, amount, change, ref) \in Entries
      /\ Entry(x, amount, change, ref).txn = ref /\ Entry(x, amount, change, ref).change = change
  BY EntryType DEF UpdateBalance, Entry
<1>2. history[x] \in Seq(Entries) /\ Told(history[x])
  BY DEF TypeOK, AllTold
<1>3. Told(Append(history[x], Entry(x, amount, change, ref)))
  BY <1>1, <1>2, AppendTold
<1>4. \A y \in Cells : Told(history'[y])
  BY <1>3 DEF TypeOK, UpdateBalance, AllTold
<1>5. \A y \in Cells : y \in rows' \/ balance'[y] = 0
  BY DEF TypeOK, UpdateBalance, RowsHold
<1> QED
  BY <1>4, <1>5 DEF AllTold, RowsHold

\* Two balance changes of one transaction, each with its history row, leave the history telling both balances.
LEMMA UpdateBalancesTold ==
  ASSUME TypeOK, AllTold, RowsHold, NEW x \in Cells, NEW y \in Cells,
         NEW amountX \in Int, NEW amountY \in Int,
         NEW changeX \in ChangeTypes, NEW changeY \in ChangeTypes, NEW ref \in Nat \ {0},
         changeX # "reconciliation", changeY # "reconciliation",
         UpdateBalances(x, amountX, changeX, y, amountY, changeY, ref)
  PROVE  AllTold' /\ RowsHold'
<1> DEFINE eX == Entry(x, amountX, changeX, ref)
           eY == Entry(y, amountY, changeY, ref)
<1>1. /\ eX \in Entries /\ eX.txn = ref /\ eX.change = changeX
      /\ eY \in Entries /\ eY.txn = ref /\ eY.change = changeY
  BY EntryType DEF UpdateBalances, Entry
<1>2. /\ history[x] \in Seq(Entries) /\ Told(history[x])
      /\ history[y] \in Seq(Entries) /\ Told(history[y])
  BY DEF TypeOK, AllTold
<1>3. \A z \in Cells : history'[z] = IF z = x THEN Append(history[x], eX)
                                     ELSE IF z = y THEN Append(history[y], eY)
                                     ELSE history[z]
  BY DEF TypeOK, UpdateBalances
<1> HIDE DEF eX, eY
<1>4. Told(Append(history[x], eX)) /\ Told(Append(history[y], eY))
  BY <1>1, <1>2, AppendTold
<1>5. \A z \in Cells : Told(history'[z])
  BY <1>3, <1>4 DEF AllTold
<1>6. \A z \in Cells : z \in rows' \/ balance'[z] = 0
  BY DEF TypeOK, UpdateBalances, RowsHold
<1> QED
  BY <1>5, <1>6 DEF AllTold, RowsHold

\* Each handler tells what it is about, and gives a row to every cell it changes.
LEMMA ToldStep ==
  TypeOK /\ AllTold /\ RowsHold /\ [Next]_vars => AllTold' /\ RowsHold'
<1> SUFFICES ASSUME TypeOK, AllTold, RowsHold, [Next]_vars PROVE AllTold' /\ RowsHold'
  OBVIOUS
<1> USE DEF ChangeTypes
<1>0. NextNumber \in Nat \ {0}
  BY DEF TypeOK, NextNumber
<1>n. ASSUME UNCHANGED <<rows, balance, history>>
      PROVE  AllTold' /\ RowsHold'
  BY <1>n DEF AllTold, RowsHold
<1>1. ASSUME NEW b \in Branches, NEW c \in Currencies, NEW a \in Amounts,
             CreateIncome(b, c, a)
      PROVE  AllTold' /\ RowsHold'
  <2>1. a \in Int /\ <<b, c>> \in Cells
    BY LedgerAssumption DEF Cells
  <2> QED
    BY <1>0, <1>1, <2>1, UpdateBalanceTold DEF CreateIncome
<1>2. ASSUME NEW b \in Branches, NEW c \in Currencies, NEW a \in Amounts,
             NEW approval \in BOOLEAN, CreateExpense(b, c, a, approval)
      PROVE  AllTold' /\ RowsHold'
  <2>1. -a \in Int /\ <<b, c>> \in Cells
    BY LedgerAssumption DEF Cells
  <2> QED
    BY <1>0, <1>2, <2>1, UpdateBalanceTold DEF CreateExpense
<1>3. ASSUME NEW b \in Branches, NEW c \in Currencies, NEW a \in Amounts,
             NEW d \in Currencies, NEW rate \in Rates, NEW pct \in Commissions,
             CreateExchange(b, c, d, a, rate, pct)
      PROVE  AllTold' /\ RowsHold'
  <2>1. Exchange(<<b, c>>, <<b, d>>, a, rate, pct) \in Transactions
    BY InsertedTypes
  <2>2. -TotalCost(a, pct) \in Int /\ ToAmount(a, rate) \in Int
    BY <2>1 DEF Transactions, Exchange
  <2>3. <<b, c>> \in Cells /\ <<b, d>> \in Cells
    BY DEF Cells
  <2> QED
    BY <1>0, <1>3, <2>2, <2>3, UpdateBalancesTold DEF CreateExchange
<1>4. ASSUME NEW b \in Branches, NEW c \in Currencies, NEW a \in Amounts,
             NEW to \in Branches, CreateTransfer(b, to, c, a)
      PROVE  AllTold' /\ RowsHold'
  BY <1>4, <1>n DEF CreateTransfer
<1>5. ASSUME NEW i \in 1..Len(txns), CompleteTransfer(i)
      PROVE  AllTold' /\ RowsHold'
  <2>1. /\ txns[i].cell \in Cells /\ txns[i].toCell \in Cells
        /\ txns[i].amount \in Int /\ -txns[i].amount \in Int /\ i \in Nat \ {0}
    <3>1. txns[i] \in Transactions /\ i \in Nat \ {0}
      BY DEF TypeOK
    <3> QED
      BY <3>1 DEF Transactions
  <2> DEFINE x == txns[i].cell
             y == txns[i].toCell
             amountX == -txns[i].amount
             amountY == txns[i].amount
  <2>2. /\ x \in Cells /\ y \in Cells /\ amountX \in Int /\ amountY \in Int
        /\ i \in Nat \ {0}
    BY <2>1
  <2>3. UpdateBalances(x, amountX, "transfer_out", y, amountY, "transfer_in", i)
    BY <1>5 DEF CompleteTransfer
  <2> HIDE DEF x, y, amountX, amountY
  <2> QED
    BY <2>2, <2>3, UpdateBalancesTold
<1>6. ASSUME NEW i \in 1..Len(txns), ApproveExpense(i)
      PROVE  AllTold' /\ RowsHold'
  BY <1>6, <1>n DEF ApproveExpense
<1>7. ASSUME NEW i \in 1..Len(txns), CancelTransaction(i)
      PROVE  AllTold' /\ RowsHold'
  <2>1. /\ txns[i].cell \in Cells /\ Reversal(txns[i]) \in Int /\ i \in Nat \ {0}
    <3>1. txns[i] \in Transactions /\ i \in Nat \ {0}
      BY DEF TypeOK
    <3>2. txns[i].cell \in Cells /\ txns[i].amount \in Int /\ -txns[i].amount \in Int
      BY <3>1 DEF Transactions
    <3> QED
      BY <3>1, <3>2 DEF Reversal
  <2>2. CASE UpdateBalance(txns[i].cell, Reversal(txns[i]), "adjustment", i)
    <3> DEFINE x == txns[i].cell
               amount == Reversal(txns[i])
    <3>1. x \in Cells /\ amount \in Int /\ i \in Nat /\ (i = 0 <=> "adjustment" = "reconciliation")
      BY <2>1
    <3>2. UpdateBalance(x, amount, "adjustment", i)
      BY <2>2
    <3> HIDE DEF x, amount
    <3> QED
      BY <3>1, <3>2, UpdateBalanceTold
  <2>3. CASE UNCHANGED <<rows, balance, history>>
    BY <2>3, <1>n
  <2> QED
    BY <1>7, <2>2, <2>3 DEF CancelTransaction
<1>8. ASSUME NEW x \in Cells, NEW n \in Counts, ReconcileBranchBalance(x, n)
      PROVE  AllTold' /\ RowsHold'
  <2>1. n - balance[x] \in Int
    <3>1. n \in Nat /\ balance[x] \in Nat
      BY LedgerAssumption DEF TypeOK
    <3> QED
      BY <3>1
  <2> QED
    BY <1>8, <2>1, UpdateBalanceTold DEF ReconcileBranchBalance
<1>9. ASSUME \/ \E b \in Branches : DeleteBranch(b)
             \/ \E b \in Branches, isActive \in BOOLEAN : UpdateBranch(b, isActive)
             \/ UNCHANGED vars
      PROVE  AllTold' /\ RowsHold'
  BY <1>9, <1>n DEF DeleteBranch, UpdateBranch, vars
<1> QED
  BY <1>1, <1>2, <1>3, <1>4, <1>5, <1>6, <1>7, <1>8, <1>9 DEF Next

\* The three facts the reports' theorems rest on hold in every reachable state.
LEMMA ReportsRest == Spec => [](AllPriced /\ AllTold /\ RowsHold)
<1>1. Init => AllPriced /\ AllTold /\ RowsHold
  <2> SUFFICES ASSUME Init PROVE AllPriced /\ AllTold /\ RowsHold
    OBVIOUS
  <2>1. Len(txns) = 0 /\ \A x \in Cells : Len(history[x]) = 0
    BY DEF Init
  <2>2. RowsHold
    BY LedgerAssumption DEF Init, RowsHold
  <2> QED
    BY <2>1, <2>2 DEF AllPriced, AllTold, Told
<1>2. TypeOK /\ AllPriced /\ AllTold /\ RowsHold /\ [Next]_vars
        => AllPriced' /\ AllTold' /\ RowsHold'
  BY PricedStep, ToldStep
<1> QED
  BY <1>1, <1>2, TypeCorrect, PTL DEF Spec

\* The commission of each row.
Earned == [i \in 1..Len(txns) |-> Commission(txns[i])]

\* The table has finitely many rows, and what each earned is a number.
LEMMA RowFacts ==
  ASSUME TypeOK
  PROVE  /\ Len(txns) \in Nat /\ IsFiniteSet(1..Len(txns))
         /\ \A i \in 1..Len(txns) : txns[i] \in Transactions
         /\ \A i \in 1..Len(txns) : Earned[i] \in Int
<1>1. Len(txns) \in Nat /\ \A i \in 1..Len(txns) : txns[i] \in Transactions
  BY DEF TypeOK
<1>2. IsFiniteSet(1..Len(txns))
  BY <1>1, FS_Interval
<1>3. ASSUME NEW i \in 1..Len(txns) PROVE Commission(txns[i]) \in Int
  <2>1. txns[i].cost \in Int /\ txns[i].amount \in Int
    BY <1>1 DEF Transactions
  <2> QED
    BY <2>1 DEF Commission
<1> QED
  BY <1>1, <1>2, <1>3 DEF Earned

-----------------------------------------------------------------------------
(* A balance is what was there, what was counted and what was done.        *)

\* What each row has done to cell x.
Effects(x) == [i \in 1..Len(txns) |-> Effect(txns[i], x)]

\* The rows about transaction i, as a sum.
LEMMA NetIsSum ==
  ASSUME NEW s \in Seq(Entries), NEW i \in Nat
  PROVE  LET posts == [k \in 1..Len(s) |-> PostOf(s[k], i)]
         IN Net(s, i) = SumOver(posts, 1..Len(s)) /\ \A k \in 1..Len(s) : posts[k] \in Int
<1> DEFINE posts == [k \in 1..Len(s) |-> PostOf(s[k], i)]
<1>1. Len(s) \in Nat /\ \A k \in 1..Len(s) : s[k] \in Entries
  OBVIOUS
<1>2. \A k \in 1..Len(s) : posts[k] \in Int
  <2>1. \A e \in Entries : PostOf(e, i) \in Int
    BY DEF Entries, PostOf
  <2> QED
    BY <1>1, <2>1
<1>3. posts \in Seq(Int) /\ Len(posts) = Len(s)
  <2>1. posts \in [1..Len(s) -> Int]
    BY <1>2
  <2> QED
    BY <1>1, <2>1, SeqDef
<1> HIDE DEF posts
<1>4. TotalOf(posts) = SumOver(posts, 1..Len(posts))
  BY <1>3, TotalIsSum
<1> QED
  BY <1>2, <1>3, <1>4 DEF Net, posts

\* The history adds up to what was counted and what the transactions did.
LEMMA BalanceMoves ==
  ASSUME TypeOK, HistoryExplainsBalance, EffectsMatchStatus, RefsKnown, AllTold,
         NEW x \in Cells
  PROVE  /\ SumOver(Effects(x), 1..Len(txns)) \in Int /\ Counted(x) \in Int
         /\ balance[x] = Opening[x] + Counted(x) + SumOver(Effects(x), 1..Len(txns))
<1> DEFINE h == history[x]
           L == 1..Len(h)
           C == 1..Len(txns)
           amount == [k \in L |-> h[k].amount]
           txn == [k \in L |-> h[k].txn]
           R == {k \in L : h[k].change = "reconciliation"}
           D == {k \in L : h[k].change # "reconciliation"}
           Of == [i \in C |-> {k \in L : h[k].txn = i}]
           effects == Effects(x)
<1>1. h \in Seq(Entries)
  BY DEF TypeOK
<1>2. Len(h) \in Nat /\ \A k \in L : h[k] \in Entries
  BY <1>1
<1>3. IsFiniteSet(L) /\ IsFiniteSet(C)
  BY <1>2, RowFacts, FS_Interval
<1>4. \A k \in L : amount[k] \in Int
  <2>1. \A e \in Entries : e.amount \in Int
    BY DEF Entries
  <2> QED
    BY <1>2, <2>1
<1>5. \A i \in C : i \in Nat /\ i # 0
  BY RowFacts
<1>6. Net(h, 0) = SumOver(amount, L)
  <2> DEFINE posts == [k \in L |-> PostOf(h[k], 0)]
  <2>1. posts = amount
    BY DEF PostOf
  <2>2. Net(h, 0) = SumOver(posts, L)
    BY <1>1, NetIsSum
  <2> QED
    BY <2>1, <2>2
<1>7. ASSUME NEW i \in C PROVE effects[i] = SumOver(amount, Of[i])
  <2> DEFINE posts == [k \in L |-> PostOf(h[k], i)]
             T == Of[i]
  <2>1. Net(h, i) = SumOver(posts, L) /\ \A k \in L : posts[k] \in Int
    BY <1>1, <1>5, NetIsSum
  <2>2. T \in SUBSET L
    OBVIOUS
  <2>3. /\ \A k \in L \ T : posts[k] = 0
        /\ \A k \in T : posts[k] = amount[k]
    BY <1>5 DEF PostOf
  <2>4. effects[i] = Net(h, i)
    BY DEF EffectsMatchStatus, Effects
  <2> HIDE DEF h, L, C, amount, Of, effects, posts, T
  <2>5. SumOver(posts, L) = SumOver(posts, T)
    BY <1>3, <2>1, <2>2, <2>3, SumFilter
  <2>6. SumOver(posts, T) = SumOver(amount, T)
    BY <2>3, SumAgree
  <2> QED
    BY <2>1, <2>4, <2>5, <2>6 DEF T
<1>8. Counted(x) = SumOver(amount, R)
  <2>1. [k \in R |-> amount[k]] = [k \in R |-> h[k].amount]
    OBVIOUS
  <2>2. Counted(x) = SumFunction([k \in R |-> h[k].amount])
    BY DEF Counted
  <2> QED
    BY <2>1, <2>2 DEF SumOver
<1>9. ASSUME NEW k \in D PROVE txn[k] \in C
  <2>1. h[k].txn \in 0..Len(txns) /\ h[k].txn # 0
    BY DEF RefsKnown, AllTold, Told
  <2> QED
    BY <2>1, RowFacts
<1>10. ASSUME NEW i \in C PROVE Of[i] \subseteq D /\ \A k \in D : k \in Of[i] <=> txn[k] = i
  BY <1>5 DEF AllTold, Told
<1>11. R \cup D = L /\ R \cap D = {} /\ R \in SUBSET L /\ D \in SUBSET L
  OBVIOUS
<1>12. balance[x] = Opening[x] + Net(h, 0)
  BY DEF HistoryExplainsBalance, Explained
<1>13. Opening[x] \in Int
  BY LedgerAssumption
<1> HIDE DEF h, L, C, amount, txn, R, D, Of, effects
<1>14. IsFiniteSet(R) /\ IsFiniteSet(D)
  BY <1>3, <1>11, FS_Subset
<1>15. /\ \A k \in R \cup D : amount[k] \in Int
       /\ \A k \in R : amount[k] \in Int
       /\ \A k \in D : amount[k] \in Int
  BY <1>4, <1>11
<1>16. SumOver(amount, R \cup D) = SumOver(amount, R) + SumOver(amount, D)
  BY <1>11, <1>14, <1>15, SumUnion
<1>17. SumOver(amount, D) = SumOver(effects, C)
  BY <1>3, <1>7, <1>9, <1>10, <1>14, <1>15, SumClasses
<1>18. SumOver(amount, R) \in Int /\ SumOver(amount, D) \in Int
  <2>1. R \in SUBSET R /\ D \in SUBSET D
    OBVIOUS
  <2> QED
    BY <1>14, <1>15, <2>1, SumOverType
<1>19. SumOver(amount, L) = SumOver(amount, R) + SumOver(amount, D)
  BY <1>11, <1>16
<1> QED
  BY <1>6, <1>8, <1>12, <1>13, <1>17, <1>18, <1>19 DEF effects, C

\* The movement report shows of a row what it did, but for what it leaves out.
LEMMA EffectIsMovement ==
  ASSUME NEW t \in Transactions, Priced(t), NEW x
  PROVE  LET shown == IF t.status = "completed" /\ t.cell = x THEN Movement(t) ELSE 0
         IN  /\ shown \in Int /\ LeftOut(t, x) \in Int
             /\ Effect(t, x) = shown + LeftOut(t, x)
<1>1. /\ t.amount \in Int /\ t.cost \in Int /\ t.toAmount \in Int
      /\ t.type \in {"income", "expense", "exchange", "transfer"}
      /\ t.status \in {"pending", "completed", "cancelled"}
  BY DEF Transactions, Types, Statuses
<1> DEFINE shown == IF t.status = "completed" /\ t.cell = x THEN Movement(t) ELSE 0
<1>2. Movement(t) = IF t.type \in {"expense", "exchange"} THEN -t.amount ELSE t.amount
  BY DEF Movement, SourceAmount
<1>3. CASE t.type = "income"
  BY <1>1, <1>2, <1>3 DEF Priced, LeftOut, Effect
<1>4. CASE t.type = "expense"
  BY <1>1, <1>2, <1>4 DEF Priced, LeftOut, Effect
<1>5. CASE t.type = "exchange"
  BY <1>1, <1>2, <1>5 DEF Priced, LeftOut, Effect, Commission
<1>6. CASE t.type = "transfer"
  BY <1>1, <1>2, <1>6 DEF Priced, LeftOut, Effect
<1> QED
  BY <1>1, <1>3, <1>4, <1>5, <1>6

\* The running balance misses this much of the balance, and no more.
THEOREM MovementsMiss == Spec => []MovementsMissTheRest
<1>1. TypeOK /\ HistoryExplainsBalance /\ EffectsMatchStatus /\ RefsKnown /\ AllTold /\ AllPriced
        => MovementsMissTheRest
  <2> SUFFICES ASSUME TypeOK, HistoryExplainsBalance, EffectsMatchStatus, RefsKnown,
                      AllTold, AllPriced, NEW x \in Cells, NEW k \in Splits
               PROVE  balance[x] = Opening[x] + RunningBalance(x, k) + Counted(x)
                        + SumFunction([i \in Through(k) |-> LeftOut(txns[i], x)])
                        + SumFunction([i \in Today(k) |-> Effect(txns[i], x)])
    BY DEF MovementsMissTheRest
  <2> DEFINE Rows == 1..Len(txns)
             A == Through(k)
             Z == Today(k)
             B == {j \in Booked(Branches) \cap A : txns[j].cell = x}
             effects == Effects(x)
             shown == [i \in Rows |-> IF txns[i].status = "completed" /\ txns[i].cell = x
                                      THEN Movement(txns[i]) ELSE 0]
             left == [i \in Rows |-> LeftOut(txns[i], x)]
  <2>1. /\ Len(txns) \in Nat /\ IsFiniteSet(Rows)
        /\ \A i \in Rows : txns[i] \in Transactions
    BY RowFacts
  <2>2. A \cup Z = Rows /\ A \cap Z = {} /\ A \in SUBSET Rows /\ Z \in SUBSET Rows
    <3>1. k \in Nat /\ k <= Len(txns)
      BY <2>1 DEF Splits
    <3>2. ASSUME NEW i \in Rows PROVE (i \in Z <=> i > k) /\ (i \in A <=> ~ i > k)
      BY <2>1, <3>1 DEF Today, Through
    <3>3. A \in SUBSET Rows /\ Z \in SUBSET Rows
      BY <2>1, <3>1 DEF Today, Through
    <3> QED
      BY <3>2, <3>3
  <2>3. \A i \in Rows : /\ effects[i] \in Int /\ shown[i] \in Int /\ left[i] \in Int
                        /\ effects[i] = shown[i] + left[i]
    <3>1. ASSUME NEW i \in Rows
          PROVE  /\ shown[i] \in Int /\ left[i] \in Int
                 /\ effects[i] = shown[i] + left[i]
      <4>1. txns[i] \in Transactions /\ Priced(txns[i])
        BY <2>1 DEF AllPriced
      <4> QED
        BY <4>1, EffectIsMovement DEF Effects
    <3>2. \A i \in Rows : effects[i] \in Int
      BY <3>1
    <3> QED
      BY <3>1, <3>2
  <2>4. /\ B \in SUBSET A
        /\ \A i \in A \ B : shown[i] = 0
        /\ [i \in B |-> shown[i]] = [i \in B |-> Movement(txns[i])]
    <3>1. \A i \in Rows : txns[i].cell[1] \in Branches
      BY <2>1 DEF Transactions, Cells
    <3>2. \A i \in Rows : i \in B <=> i \in A /\ txns[i].status = "completed" /\ txns[i].cell = x
      BY <3>1 DEF Booked
    <3>3. B \in SUBSET A
      OBVIOUS
    <3> HIDE DEF A, B
    <3> QED
      BY <2>2, <3>2, <3>3
  <2>5. RunningBalance(x, k) = SumOver(shown, B)
    BY <2>4 DEF RunningBalance, SumOver
  <2>6. SumFunction([i \in A |-> LeftOut(txns[i], x)]) = SumOver(left, A)
    <3>1. [i \in A |-> left[i]] = [i \in A |-> LeftOut(txns[i], x)]
      BY <2>2
    <3> QED
      BY <3>1 DEF SumOver
  <2>7. SumFunction([i \in Z |-> Effect(txns[i], x)]) = SumOver(effects, Z)
    <3>1. [i \in Z |-> effects[i]] = [i \in Z |-> Effect(txns[i], x)]
      BY <2>2 DEF Effects
    <3> QED
      BY <3>1 DEF SumOver
  <2>8. /\ SumOver(effects, Rows) \in Int /\ Counted(x) \in Int
        /\ balance[x] = Opening[x] + Counted(x) + SumOver(effects, Rows)
    BY BalanceMoves
  <2>9. Opening[x] \in Int
    BY LedgerAssumption
  <2> HIDE DEF Rows, A, Z, B, effects, shown, left
  <2>10. IsFiniteSet(A) /\ IsFiniteSet(Z)
    BY <2>1, <2>2, FS_Subset
  <2>11. SumOver(effects, A \cup Z) = SumOver(effects, A) + SumOver(effects, Z)
    <3>1. \A i \in A \cup Z : effects[i] \in Int
      BY <2>2, <2>3
    <3> QED
      BY <2>2, <2>10, <3>1, SumUnion
  <2>12. SumOver(effects, A) = SumOver(shown, A) + SumOver(left, A)
    <3>1. \A i \in A : shown[i] \in Int /\ left[i] \in Int /\ effects[i] = shown[i] + left[i]
      BY <2>2, <2>3
    <3> QED
      BY <2>10, <3>1, SumPlus
  <2>13. SumOver(shown, A) = SumOver(shown, B)
    <3>1. \A i \in A : shown[i] \in Int
      BY <2>2, <2>3
    <3> QED
      BY <2>4, <2>10, <3>1, SumFilter
  <2>14. SumOver(shown, A) \in Int /\ SumOver(left, A) \in Int /\ SumOver(effects, Z) \in Int
    BY <2>1, <2>2, <2>3, SumOverType
  <2>15. SumOver(effects, Rows) = SumOver(shown, B) + SumOver(left, A) + SumOver(effects, Z)
    BY <2>2, <2>11, <2>12, <2>13
  <2>16. balance[x] = Opening[x] + RunningBalance(x, k) + Counted(x)
                        + SumFunction([i \in A |-> LeftOut(txns[i], x)])
                        + SumFunction([i \in Z |-> Effect(txns[i], x)])
    BY <2>5, <2>6, <2>7, <2>8, <2>9, <2>13, <2>14, <2>15
  <2> QED
    BY <2>16 DEF A, Z
<1>2. Spec => /\ []HistoryExplainsBalance /\ [](RefsKnown /\ EffectsMatchStatus)
              /\ [](AllPriced /\ AllTold /\ RowsHold)
  BY HistoryExplains, EffectsAndRefs, ReportsRest
<1> QED
  BY <1>1, <1>2, TypeCorrect, PTL

-----------------------------------------------------------------------------
(* The snapshots of all branches.                                          *)

\* The cells of one currency.
CellsOf(c) == {x \in Cells : x[2] = c}

\* A currency has finitely many cells, so sums over them are defined.
LEMMA CellsAreFinite ==
  ASSUME NEW c PROVE IsFiniteSet(CellsOf(c))
<1>1. IsFiniteSet(Cells)
  BY ReportsAssumption, FS_Product DEF Cells
<1>2. CellsOf(c) \in SUBSET Cells
  BY DEF CellsOf
<1> QED
  BY <1>1, <1>2, FS_Subset

\* What one branch of a transfer pays, the other receives.
LEMMA TransferMakesNoMoney ==
  ASSUME NEW t \in Transactions, Priced(t), t.type = "transfer", NEW c,
         NEW e, \A x \in CellsOf(c) : e[x] = Effect(t, x)
  PROVE  SumOver(e, CellsOf(c)) = 0
<1> DEFINE S == CellsOf(c)
           in == [x \in S |-> IF x = t.toCell THEN t.amount ELSE 0]
           out == [x \in S |-> IF x = t.cell THEN -t.amount ELSE 0]
<1>1. /\ t.amount \in Int /\ -t.amount \in Int /\ t.cell \in Cells /\ t.toCell \in Cells
      /\ t.toAmount = t.amount /\ t.cost = t.amount /\ t.cell[2] = t.toCell[2]
  BY DEF Transactions, Priced
<1>2. IsFiniteSet(S)
  BY CellsAreFinite
<1>3. CASE t.status # "completed" \/ t.cell \notin S
  <2>1. t.status # "completed" \/ (t.cell \notin S /\ t.toCell \notin S)
    BY <1>1, <1>3 DEF CellsOf
  <2>2. t.status \in {"pending", "completed", "cancelled"}
    BY DEF Transactions, Statuses
  <2>3. \A x \in S : e[x] = 0
    BY <2>1, <2>2 DEF Effect
  <2> HIDE DEF S
  <2> QED
    BY <1>2, <2>3, SumZeros DEF S
<1>4. CASE t.status = "completed" /\ t.cell \in S
  <2>1. t.cell \in S /\ t.toCell \in S
    BY <1>1, <1>4 DEF CellsOf
  <2>2. /\ in[t.toCell] = t.amount /\ out[t.cell] = -t.amount
        /\ \A x \in S : in[x] \in Int /\ out[x] \in Int
        /\ \A x \in S : x # t.toCell => in[x] = 0
        /\ \A x \in S : x # t.cell => out[x] = 0
    BY <1>1, <2>1
  <2>3. \A x \in S : e[x] = in[x] + out[x]
    BY <1>1, <1>4 DEF Effect
  <2> HIDE DEF S, in, out
  <2>4. SumOver(in, S) = in[t.toCell]
    BY <1>2, <2>1, <2>2, SumSingle
  <2>5. SumOver(out, S) = out[t.cell]
    BY <1>2, <2>1, <2>2, SumSingle
  <2>6. SumOver(e, S) = SumOver(in, S) + SumOver(out, S)
    BY <1>2, <2>2, <2>3, SumPlus
  <2> QED
    BY <1>1, <2>2, <2>4, <2>5, <2>6 DEF S
<1> QED
  BY <1>3, <1>4

\* The snapshots show the balances of a currency, of every branch that has one.
LEMMA SnapshotsShowBalances ==
  ASSUME TypeOK, RowsHold, NEW c \in Currencies
  PROVE  SumFunction([b \in {d \in Branches : c \in DOMAIN Snapshot(d)} |-> Snapshot(b)[c]])
           = SumOver(balance, CellsOf(c))
<1> DEFINE S == CellsOf(c)
           B == {d \in Branches : c \in DOMAIN Snapshot(d)}
           at == [b \in Branches |-> balance[<<b, c>>]]
           h == [x \in S |-> x[1]]
           Of == [b \in Branches |-> {<<b, c>>}]
<1>1. B = {d \in Branches : <<d, c>> \in rows}
  BY DEF Snapshot
<1>2. [b \in B |-> Snapshot(b)[c]] = [b \in B |-> at[b]]
  BY DEF Snapshot
<1>3. \A b \in Branches : <<b, c>> \in S /\ at[b] \in Int
  BY DEF CellsOf, Cells, TypeOK
<1>4. \A b \in Branches \ B : at[b] = 0
  BY <1>1, <1>3 DEF RowsHold, CellsOf
<1>5. \A x \in S : h[x] \in Branches /\ balance[x] \in Int
  BY DEF CellsOf, Cells, TypeOK
<1>6. \A b \in Branches : Of[b] \subseteq S /\ \A x \in S : x \in Of[b] <=> h[x] = b
  BY <1>3 DEF CellsOf, Cells
<1>7. ASSUME NEW b \in Branches PROVE at[b] = SumOver(balance, Of[b])
  <2> DEFINE y == <<b, c>>
             T == {y}
  <2>1. /\ IsFiniteSet(T) /\ y \in T /\ balance[y] \in Int
        /\ \A x \in T : x # y => balance[x] = 0
    BY <1>3, FS_Singleton
  <2> HIDE DEF T
  <2>2. SumOver(balance, T) = balance[y]
    BY <2>1, SumSingle
  <2> QED
    BY <2>2 DEF T
<1>8. B \in SUBSET Branches
  OBVIOUS
<1>9. SumFunction([b \in B |-> at[b]]) = SumOver(at, B)
  BY DEF SumOver
<1>10. IsFiniteSet(S) /\ IsFiniteSet(Branches)
  BY CellsAreFinite, ReportsAssumption
<1> HIDE DEF S, B, at, h, Of
<1>11. SumOver(at, Branches) = SumOver(at, B)
  BY <1>3, <1>4, <1>8, <1>10, SumFilter
<1>12. SumOver(balance, S) = SumOver(at, Branches)
  BY <1>5, <1>6, <1>7, <1>10, SumClasses
<1>13. SumFunction([b \in B |-> Snapshot(b)[c]]) = SumOver(balance, S)
  BY <1>2, <1>9, <1>11, <1>12
<1> QED
  BY <1>13 DEF B, S

\* No money appears or disappears between the branches: what the snapshots show
\* was there, was counted, or was traded with a customer.
THEOREM SnapshotsAdd == Spec => []SnapshotsAddUp
<1>1. TypeOK /\ HistoryExplainsBalance /\ EffectsMatchStatus /\ RefsKnown /\ AllTold
        /\ AllPriced /\ RowsHold => SnapshotsAddUp
  <2> SUFFICES ASSUME TypeOK, HistoryExplainsBalance, EffectsMatchStatus, RefsKnown, AllTold,
                      AllPriced, RowsHold
               PROVE  SnapshotsAddUp
    OBVIOUS
  <2>1. ASSUME NEW c \in Currencies
        PROVE  LET trade == {i \in 1..Len(txns) : txns[i].type # "transfer"}
               IN SumOver(balance, CellsOf(c))
                    = SumFunction([x \in CellsOf(c) |-> Opening[x]])
                        + SumFunction([x \in CellsOf(c) |-> Counted(x)])
                        + SumFunction([i \in trade |->
                            SumFunction([x \in CellsOf(c) |-> Effect(txns[i], x)])])
    <3> DEFINE S == CellsOf(c)
               Rows == 1..Len(txns)
               trade == {i \in Rows : txns[i].type # "transfer"}
               counted == [x \in S |-> Counted(x)]
               before == [x \in S |-> Opening[x] + Counted(x)]
               F == [x \in S |-> Effects(x)]
               G == [i \in Rows |-> [x \in S |-> Effect(txns[i], x)]]
               done == [x \in S |-> SumOver(F[x], Rows)]
               made == [i \in Rows |-> SumOver(G[i], S)]
    <3>1. /\ IsFiniteSet(Rows) /\ IsFiniteSet(S)
          /\ \A i \in Rows : txns[i] \in Transactions /\ Priced(txns[i])
      BY RowFacts, CellsAreFinite DEF AllPriced
    <3>2. \A x \in S : /\ x \in Cells
                       /\ Opening[x] \in Int /\ counted[x] \in Int
                       /\ before[x] \in Int /\ done[x] \in Int
                       /\ before[x] = Opening[x] + counted[x]
                       /\ balance[x] = before[x] + done[x]
      <4>1. ASSUME NEW x \in S
            PROVE  /\ x \in Cells /\ Opening[x] \in Int
                   /\ Counted(x) \in Int /\ SumOver(Effects(x), Rows) \in Int
                   /\ balance[x] = Opening[x] + Counted(x) + SumOver(Effects(x), Rows)
        <5>1. x \in Cells
          BY DEF CellsOf
        <5>2. Opening[x] \in Int
          BY <5>1, LedgerAssumption
        <5> QED
          BY <5>1, <5>2, BalanceMoves
      <4>2. \A x \in S : done[x] = SumOver(Effects(x), Rows)
        OBVIOUS
      <4> HIDE DEF S, Rows, done
      <4> QED
        BY <4>1, <4>2
    <3>3. /\ \A x \in S : \A i \in Rows : F[x][i] \in Int /\ G[i][x] = F[x][i]
          /\ \A x \in S : done[x] = SumOver(F[x], Rows)
          /\ \A i \in Rows : made[i] = SumOver(G[i], S)
      BY <3>1, EffectType DEF Effects
    <3>4. \A i \in Rows : \A x \in S : G[i][x] = Effect(txns[i], x)
      OBVIOUS
    <3>5. trade \in SUBSET Rows /\ \A i \in Rows \ trade : txns[i].type = "transfer"
      OBVIOUS
    <3>6. SumFunction([x \in S |-> Opening[x]]) = SumOver(Opening, S)
      BY DEF SumOver
    <3>7. SumFunction([x \in S |-> Counted(x)]) = SumOver(counted, S)
      <4>1. [x \in S |-> counted[x]] = [x \in S |-> Counted(x)]
        OBVIOUS
      <4> QED
        BY <4>1 DEF SumOver
    <3>8. SumFunction([i \in trade |-> SumFunction([x \in S |-> Effect(txns[i], x)])])
            = SumOver(made, trade)
      <4>1. ASSUME NEW i \in Rows
            PROVE  made[i] = SumFunction([x \in S |-> Effect(txns[i], x)])
        <5>1. [x \in S |-> G[i][x]] = [x \in S |-> Effect(txns[i], x)]
          OBVIOUS
        <5>2. made[i] = SumOver(G[i], S)
          OBVIOUS
        <5> QED
          BY <5>1, <5>2 DEF SumOver
      <4>2. [i \in trade |-> made[i]]
              = [i \in trade |-> SumFunction([x \in S |-> Effect(txns[i], x)])]
        BY <4>1
      <4> QED
        BY <4>2 DEF SumOver
    <3> HIDE DEF Rows, trade, counted, before, F, G, done, made
    <3>9. \A i \in Rows \ trade : made[i] = 0
      BY <3>1, <3>3, <3>4, <3>5, TransferMakesNoMoney
    <3> HIDE DEF S
    <3>10. \A i \in Rows : made[i] \in Int
      <4>1. ASSUME NEW i \in Rows PROVE SumOver(G[i], S) \in Int
        <5> DEFINE g == G[i]
        <5>1. \A x \in S : g[x] \in Int
          BY <3>3
        <5>2. S \in SUBSET S
          OBVIOUS
        <5> HIDE DEF g
        <5>3. SumOver(g, S) \in Int
          BY <3>1, <5>1, <5>2, SumOverType
        <5> QED
          BY <5>3 DEF g
      <4> QED
        BY <3>3, <4>1
    <3>11. SumOver(before, S) = SumOver(Opening, S) + SumOver(counted, S)
      BY <3>1, <3>2, SumPlus
    <3>12. SumOver(balance, S) = SumOver(before, S) + SumOver(done, S)
      BY <3>1, <3>2, SumPlus
    <3>13. SumOver(done, S) = SumOver(made, Rows)
      <4>1. Transposed(F, G, S, Rows)
        BY <3>3 DEF Transposed
      <4>2. \A x \in S : done[x] = SumOver(F[x], Rows)
        BY <3>3
      <4>3. \A i \in Rows : made[i] = SumOver(G[i], S)
        BY <3>3
      <4>4. IsFiniteSet(S) /\ IsFiniteSet(Rows)
        BY <3>1
      <4> QED
        BY <4>1, <4>2, <4>3, <4>4, SumSwap
    <3>14. SumOver(made, Rows) = SumOver(made, trade)
      BY <3>1, <3>5, <3>9, <3>10, SumFilter
    <3>15. SumOver(balance, S) = SumOver(Opening, S) + SumOver(counted, S) + SumOver(made, trade)
      BY <3>11, <3>12, <3>13, <3>14
    <3>16. SumOver(balance, S)
             = SumFunction([x \in S |-> Opening[x]]) + SumFunction([x \in S |-> Counted(x)])
                 + SumFunction([i \in trade |-> SumFunction([x \in S |-> Effect(txns[i], x)])])
      BY <3>6, <3>7, <3>8, <3>15
    <3> QED
      BY <3>16 DEF S, trade, Rows
  <2> QED
    BY <2>1, SnapshotsShowBalances DEF SnapshotsAddUp, CellsOf
<1>2. Spec => /\ []HistoryExplainsBalance /\ [](RefsKnown /\ EffectsMatchStatus)
              /\ [](AllPriced /\ AllTold /\ RowsHold)
  BY HistoryExplains, EffectsAndRefs, ReportsRest
<1> QED
  BY <1>1, <1>2, TypeCorrect, PTL

-----------------------------------------------------------------------------
(* The reports of the month.                                               *)

\* The figures of a report, as a sum over the table.
LEMMA FiguresAre ==
  ASSUME NEW S \in SUBSET (1..Len(txns))
  PROVE  Figures(S) = [count |-> Cardinality(S), revenue |-> SumOver(Earned, S)]
<1>1. [i \in S |-> Earned[i]] = [i \in S |-> Commission(txns[i])]
  BY DEF Earned
<1> QED
  BY <1>1 DEF Figures, SumOver

\* When nothing is pending, all of every balance is available and only
\* completed transactions have moved money.
THEOREM DashboardIsQuiet == Spec => []QuietDashboard
<1>1. TypeOK /\ ReservationsMatchTransfers /\ EffectsMatchStatus => QuietDashboard
  <2> SUFFICES ASSUME TypeOK, ReservationsMatchTransfers, EffectsMatchStatus, NEW b \in Branches
               PROVE  LET pending == Overview({b}, Len(txns)).pending
                      IN /\ MonthlyRevenue(Branches).count + pending
                              + Statistics(Branches)["cancelled"] = Len(txns)
                         /\ MonthlyRevenue({b}).count = Statistics({b})["completed"]
                         /\ pending = 0 =>
                              \A x \in Cells :
                                /\ BalanceDetails(x).available = BalanceDetails(x).balance
                                /\ \A i \in 1..Len(txns) :
                                     txns[i].status # "completed" => Net(history[x], i) = 0
    BY DEF QuietDashboard
  <2> DEFINE Rows == 1..Len(txns)
             M == Booked(Branches)
             P == {i \in Rows : Pending(i)}
             D == {i \in Rows : txns[i].status = "cancelled"}
  <2>1. /\ Len(txns) \in Nat /\ IsFiniteSet(Rows)
        /\ \A i \in Rows : txns[i] \in Transactions
    BY RowFacts
  <2>2. \A i \in Rows : txns[i].status \in Statuses /\ txns[i].cell[1] \in Branches
    BY <2>1 DEF Transactions, Cells
  <2>3. /\ Overview({b}, Len(txns)).pending = Cardinality(P)
        /\ MonthlyRevenue(Branches).count = Cardinality(Booked(Branches))
        /\ MonthlyRevenue({b}).count = Cardinality(Booked({b}))
    BY DEF Overview, MonthlyRevenue, Figures
  <2>4. Statistics(Branches)["cancelled"] = Cardinality(D)
    <3>1. {i \in Rows : txns[i].cell[1] \in Branches /\ txns[i].status = "cancelled"} = D
      BY <2>2
    <3> QED
      BY <3>1 DEF Statistics, Statuses
  <2>5. Statistics({b})["completed"] = Cardinality(Booked({b}))
    <3>1. {i \in Rows : txns[i].cell[1] \in {b} /\ txns[i].status = "completed"} = Booked({b})
      BY DEF Booked
    <3> QED
      BY <3>1 DEF Statistics, Statuses
  <2>6. Cardinality(M) + Cardinality(P) + Cardinality(D) = Len(txns)
    <3>1. /\ M \cup (P \cup D) = Rows /\ M \cap (P \cup D) = {}
          /\ P \cap D = {} /\ P \cup D \in SUBSET Rows
      BY <2>2 DEF Booked, Pending, Statuses
    <3> DEFINE Rest == P \cup D
    <3>2. IsFiniteSet(M) /\ IsFiniteSet(Rest) /\ IsFiniteSet(P) /\ IsFiniteSet(D)
      <4>1. M \in SUBSET Rows /\ P \in SUBSET Rows /\ D \in SUBSET Rows /\ Rest \in SUBSET Rows
        BY <3>1
      <4> HIDE DEF M, P, D, Rest, Rows
      <4> QED
        BY <2>1, <4>1, FS_Subset
    <3> HIDE DEF M, P, D, Rest, Rows
    <3>3. /\ Cardinality(M) \in Nat
          /\ Cardinality(M \cup Rest) = Cardinality(M) + Cardinality(Rest)
      <4>1. M \cap Rest = {}
        BY <3>1 DEF Rest
      <4> QED
        BY <3>2, <4>1, CountParts
    <3>4. /\ Cardinality(P \cup D) = Cardinality(P) + Cardinality(D)
          /\ Cardinality(P) \in Nat /\ Cardinality(D) \in Nat
      BY <3>1, <3>2, CountParts
    <3>5. Cardinality(Rows) = Len(txns)
      BY <2>1, FS_Interval DEF Rows
    <3>6. M \cup Rest = Rows
      BY <3>1 DEF Rest
    <3>7. Cardinality(Rows) = Cardinality(M) + Cardinality(Rest)
      BY <3>3, <3>6
    <3>8. Cardinality(Rest) = Cardinality(P) + Cardinality(D)
      BY <3>4 DEF Rest
    <3> QED
      BY <3>3, <3>4, <3>5, <3>7, <3>8
  <2>7. ASSUME Cardinality(P) = 0, NEW x \in Cells
        PROVE  /\ BalanceDetails(x).available = BalanceDetails(x).balance
               /\ \A i \in Rows : txns[i].status # "completed" => Net(history[x], i) = 0
    <3>1. \A i \in Rows : txns[i].status # "pending"
      <4>1. P \in SUBSET Rows
        OBVIOUS
      <4>2. IsFiniteSet(P)
        BY <2>1, <4>1, FS_Subset
      <4>3. P = {}
        BY <2>7, <4>2, FS_EmptySet
      <4> QED
        BY <4>3 DEF Pending
    <3>2. reserved[x] = 0
      <4> DEFINE claims == Claims(txns, x)
      <4>1. claims \in Seq(Nat) /\ Len(claims) = Len(txns)
        BY ClaimsType DEF TypeOK
      <4>2. claims \in Seq(Int) /\ \A k \in 1..Len(claims) : claims[k] = 0
        BY <3>1, <4>1 DEF Claims, ClaimOf
      <4> HIDE DEF claims
      <4>3. TotalOf(claims) = 0
        BY <4>2, TotalOfZeros
      <4> QED
        BY <4>3 DEF ReservationsMatchTransfers, claims
    <3>3. balance[x] \in Nat
      BY DEF TypeOK
    <3>4. BalanceDetails(x).available = BalanceDetails(x).balance
      BY <3>2, <3>3 DEF BalanceDetails
    <3>5. ASSUME NEW i \in Rows, txns[i].status # "completed" PROVE Net(history[x], i) = 0
      <4>1. txns[i].status = "cancelled"
        BY <2>2, <3>1, <3>5 DEF Statuses
      <4> QED
        BY <4>1 DEF EffectsMatchStatus, Effect
    <3> QED
      BY <3>4, <3>5
  <2> HIDE DEF P, D
  <2> QED
    BY <2>3, <2>4, <2>5, <2>6, <2>7
<1> QED
  BY <1>1, TypeCorrect, ReservationsMatch, EffectsMatch, PTL

\* The completed rows of a period that ends today, and of today, are the month's.
LEMMA PeriodAndToday ==
  ASSUME TypeOK, NEW S \in SUBSET (1..Len(txns)), NEW k \in Splits
  PROVE  /\ IsFiniteSet(S \cap Through(k)) /\ IsFiniteSet(S \cap Today(k))
         /\ Cardinality(S \cap Through(k)) \in Nat /\ Cardinality(S \cap Today(k)) \in Nat
         /\ Cardinality(S) = Cardinality(S \cap Today(k)) + Cardinality(S \cap Through(k))
         /\ SumOver(Earned, S)
              = SumOver(Earned, S \cap Today(k)) + SumOver(Earned, S \cap Through(k))
<1> DEFINE A == S \cap Today(k)
           B == S \cap Through(k)
<1>1. /\ Len(txns) \in Nat /\ IsFiniteSet(1..Len(txns))
      /\ \A i \in 1..Len(txns) : Earned[i] \in Int
  BY RowFacts
<1>2. IsFiniteSet(S)
  BY <1>1, FS_Subset
<1>3. A \cup B = S /\ A \cap B = {} /\ A \in SUBSET S /\ B \in SUBSET S
  <2>1. k \in Nat /\ k <= Len(txns)
    BY <1>1 DEF Splits
  <2>2. ASSUME NEW i \in 1..Len(txns)
        PROVE  (i \in Today(k) <=> i > k) /\ (i \in Through(k) <=> ~ i > k)
    BY <1>1, <2>1 DEF Today, Through
  <2> QED
    BY <2>1, <2>2
<1>4. \A i \in A \cup B : Earned[i] \in Int
  BY <1>1, <1>3
<1> HIDE DEF A, B
<1>5. IsFiniteSet(A) /\ IsFiniteSet(B)
  BY <1>2, <1>3, FS_Subset
<1>6. /\ Cardinality(A) \in Nat /\ Cardinality(B) \in Nat
      /\ Cardinality(A \cup B) = Cardinality(A) + Cardinality(B)
  BY <1>3, <1>5, CountParts
<1>7. SumOver(Earned, A \cup B) = SumOver(Earned, A) + SumOver(Earned, B)
  BY <1>3, <1>4, <1>5, SumUnion
<1>8. /\ Cardinality(S) = Cardinality(A) + Cardinality(B)
      /\ SumOver(Earned, S) = SumOver(Earned, A) + SumOver(Earned, B)
  BY <1>3, <1>6, <1>7
<1> QED
  BY <1>5, <1>6, <1>8 DEF A, B

\* Counting by currency counts each row once.
LEMMA CurrenciesCountOnce ==
  ASSUME TypeOK
  PROVE  SumFunction(CurrencyDistribution(Branches)) = MonthlyRevenue(Branches).count
<1> DEFINE S == Booked(Branches)
           h == [i \in S |-> txns[i].cell[2]]
           Of == [c \in Currencies |-> {i \in S : txns[i].cell[2] = c}]
           counts == CurrencyDistribution(Branches)
<1>1. S \in SUBSET (1..Len(txns))
  BY DEF Booked
<1>2. IsFiniteSet(S) /\ \A i \in S : h[i] \in Currencies
  <2>1. IsFiniteSet(1..Len(txns)) /\ \A i \in 1..Len(txns) : txns[i] \in Transactions
    BY RowFacts
  <2>2. \A i \in S : txns[i].cell \in Branches \X Currencies
    BY <1>1, <2>1 DEF Transactions, Cells
  <2> QED
    BY <1>1, <2>1, <2>2, FS_Subset
<1>3. \A c \in Currencies : Of[c] \subseteq S /\ \A i \in S : i \in Of[c] <=> h[i] = c
  OBVIOUS
<1>4. \A c \in Currencies : counts[c] = Cardinality(Of[c])
  BY DEF CurrencyDistribution
<1>5. SumFunction(counts) = SumOver(counts, Currencies)
  <2>1. counts = [c \in Currencies |-> counts[c]]
    BY DEF CurrencyDistribution
  <2> QED
    BY <2>1, SumFunctionIs
<1>6. MonthlyRevenue(Branches).count = Cardinality(S)
  BY DEF MonthlyRevenue, Figures
<1> HIDE DEF S, h, Of, counts
<1>7. Cardinality(S) = SumOver(counts, Currencies)
  <2>1. IsFiniteSet(Currencies)
    BY ReportsAssumption
  <2> QED
    BY <1>2, <1>3, <1>4, <2>1, CountClasses
<1> QED
  BY <1>5, <1>6, <1>7 DEF counts

\* The trends of all pairs of currencies are the exchanges of the period.
LEMMA TrendsCountOnce ==
  ASSUME TypeOK, NEW k \in Splits
  PROVE  SumFunction([p \in Currencies \X Currencies |-> ExchangeTrend(p[1], p[2], k)])
           = Cardinality({i \in Booked(Branches) : txns[i].type = "exchange"})
               - DailySummary(Branches, k).types["exchange"]
<1> DEFINE X == {i \in Booked(Branches) : txns[i].type = "exchange"}
           S == X \cap Through(k)
           Pairs == Currencies \X Currencies
           h == [i \in S |-> <<txns[i].cell[2], txns[i].toCell[2]>>]
           Of == [p \in Pairs |-> {i \in S : txns[i].cell[2] = p[1] /\ txns[i].toCell[2] = p[2]}]
           counts == [p \in Pairs |-> ExchangeTrend(p[1], p[2], k)]
<1>1. X \in SUBSET (1..Len(txns)) /\ S \in SUBSET X
  BY DEF Booked
<1>2. /\ Cardinality(S) \in Nat /\ Cardinality(X \cap Today(k)) \in Nat
      /\ IsFiniteSet(S) /\ Cardinality(X) = Cardinality(X \cap Today(k)) + Cardinality(S)
  <2> HIDE DEF X
  <2> QED
    BY <1>1, PeriodAndToday
<1>3. \A i \in S : h[i] \in Pairs
  <2>1. \A i \in 1..Len(txns) : txns[i] \in Transactions
    BY RowFacts
  <2>2. \A i \in S : txns[i].cell \in Branches \X Currencies /\ txns[i].toCell \in Branches \X Currencies
    BY <1>1, <2>1 DEF Transactions, Cells
  <2> QED
    BY <2>2
<1>4. \A p \in Pairs : Of[p] \subseteq S /\ \A i \in S : i \in Of[p] <=> h[i] = p
  <2> HIDE DEF S
  <2> QED
    OBVIOUS
<1>5. \A p \in Pairs : counts[p] = Cardinality(Of[p])
  <2>1. ASSUME NEW p \in Pairs PROVE counts[p] = Cardinality(Of[p])
    <3>1. Of[p] = {i \in Booked(Branches) \cap Through(k) :
                     txns[i].type = "exchange" /\ txns[i].cell[2] = p[1] /\ txns[i].toCell[2] = p[2]}
      OBVIOUS
    <3> QED
      BY <3>1 DEF ExchangeTrend
  <2> QED
    BY <2>1
<1>6. DailySummary(Branches, k).types["exchange"] = Cardinality(X \cap Today(k))
  <2>1. {i \in Booked(Branches) \cap Today(k) : txns[i].type = "exchange"} = X \cap Today(k)
    OBVIOUS
  <2> QED
    BY <2>1 DEF DailySummary, Types
<1>7. SumFunction(counts) = SumOver(counts, Pairs)
  <2>1. counts = [p \in Pairs |-> counts[p]]
    OBVIOUS
  <2> HIDE DEF counts
  <2> QED
    BY <2>1, SumFunctionIs
<1>8. IsFiniteSet(Pairs)
  BY ReportsAssumption, FS_Product
<1> HIDE DEF X, S, h, Of, counts, Pairs
<1>9. Cardinality(S) = SumOver(counts, Pairs)
  <2>1. IsFiniteSet(S)
    BY <1>2
  <2> QED
    BY <1>3, <1>4, <1>5, <1>8, <2>1, CountClasses
<1>10. SumFunction(counts) = Cardinality(X) - DailySummary(Branches, k).types["exchange"]
  BY <1>2, <1>6, <1>7, <1>9
<1> QED
  BY <1>10 DEF counts, Pairs, X

\* The open branches together earned what the closed ones did not.
LEMMA OpenAndClosedEarned ==
  ASSUME TypeOK, NEW k \in Splits
  PROVE  SumFunction([b \in active |-> BranchPerformance(k)[b].revenue])
           = CommissionEarned(Branches, k).revenue
               - CommissionEarned(Branches \ active, k).revenue
<1> DEFINE T(bs) == Booked(bs) \cap Through(k)
           h == [i \in T(active) |-> txns[i].cell[1]]
           Of == [b \in active |-> T({b})]
           revenue == [b \in active |-> BranchPerformance(k)[b].revenue]
<1>1. \A bs : T(bs) \in SUBSET (1..Len(txns))
  BY DEF Booked
<1>2. /\ IsFiniteSet(1..Len(txns)) /\ \A i \in 1..Len(txns) : Earned[i] \in Int
      /\ \A i \in 1..Len(txns) : txns[i] \in Transactions
  BY RowFacts
<1>3. \A bs : IsFiniteSet(T(bs)) /\ \A i \in T(bs) : Earned[i] \in Int
  <2> HIDE DEF T
  <2> QED
    BY <1>1, <1>2, FS_Subset
<1>4. T(active) \cup T(Branches \ active) = T(Branches) /\ T(active) \cap T(Branches \ active) = {}
  <2>1. active \subseteq Branches
    BY DEF TypeOK
  <2> QED
    BY <2>1 DEF Booked
<1>5. \A bs : CommissionEarned(bs, k).revenue = SumOver(Earned, T(bs))
  BY <1>1, FiguresAre DEF CommissionEarned
<1>6. \A b \in active : revenue[b] = SumOver(Earned, Of[b])
  BY <1>1, FiguresAre DEF BranchPerformance
<1>7. /\ \A i \in T(active) : h[i] \in active
      /\ \A b \in active : Of[b] \subseteq T(active) /\ \A i \in T(active) : i \in Of[b] <=> h[i] = b
  BY DEF Booked
<1>8. SumFunction(revenue) = SumOver(revenue, active)
  <2>1. revenue = [b \in active |-> revenue[b]]
    OBVIOUS
  <2> HIDE DEF revenue
  <2> QED
    BY <2>1, SumFunctionIs
<1>9. IsFiniteSet(active)
  BY ReportsAssumption, FS_Subset DEF TypeOK
<1> HIDE DEF h, Of, revenue
<1>10. SumOver(Earned, T(active)) = SumOver(revenue, active)
  <2> DEFINE S == T(active)
  <2>1. /\ IsFiniteSet(S) /\ \A i \in S : Earned[i] \in Int
        /\ \A i \in S : h[i] \in active
        /\ \A b \in active : Of[b] \subseteq S /\ \A i \in S : i \in Of[b] <=> h[i] = b
    BY <1>3, <1>7
  <2> HIDE DEF S
  <2>2. SumOver(Earned, S) = SumOver(revenue, active)
    BY <1>6, <1>9, <2>1, SumClasses
  <2> QED
    BY <2>2 DEF S
<1>11. /\ SumOver(Earned, T(Branches)) = SumOver(Earned, T(active)) + SumOver(Earned, T(Branches \ active))
       /\ SumOver(Earned, T(active)) \in Int /\ SumOver(Earned, T(Branches \ active)) \in Int
  <2> DEFINE A == T(active)
             B == T(Branches \ active)
  <2>1. /\ IsFiniteSet(A) /\ IsFiniteSet(B) /\ A \cap B = {} /\ A \in SUBSET A /\ B \in SUBSET B
        /\ \A i \in A \cup B : Earned[i] \in Int
    BY <1>3, <1>4
  <2> HIDE DEF A, B
  <2>2. SumOver(Earned, A \cup B) = SumOver(Earned, A) + SumOver(Earned, B)
    BY <2>1, SumUnion
  <2>3. SumOver(Earned, A) \in Int /\ SumOver(Earned, B) \in Int
    BY <2>1, SumOverType
  <2> QED
    BY <1>4, <2>2, <2>3 DEF A, B
<1>12. SumFunction(revenue)
         = CommissionEarned(Branches, k).revenue - CommissionEarned(Branches \ active, k).revenue
  <2> HIDE DEF T
  <2> QED
    BY <1>5, <1>8, <1>10, <1>11
<1> QED
  BY <1>12 DEF revenue

\* Each transaction of the month is reported once: by today's reports or by
\* those that end today, by currency, by pair and by branch.
THEOREM ReportedOnce == Spec => []EachTransactionReportedOnce
<1>1. TypeOK => EachTransactionReportedOnce
  <2> SUFFICES ASSUME TypeOK PROVE EachTransactionReportedOnce
    OBVIOUS
  <2> DEFINE month == MonthlyRevenue(Branches)
             Once(k) ==
               LET today       == Overview(Branches, k).today
                   earned      == CommissionEarned(Branches, k)
                   performance == BranchPerformance(k)
               IN /\ month = [count   |-> today.count + earned.count,
                              revenue |-> today.revenue + earned.revenue]
                  /\ SumFunction([p \in Currencies \X Currencies |-> ExchangeTrend(p[1], p[2], k)])
                       = Cardinality({i \in Booked(Branches) : txns[i].type = "exchange"})
                           - DailySummary(Branches, k).types["exchange"]
                  /\ \A b \in active : BranchComparison[b].count
                       = performance[b].count + DailySummary({b}, k).total.count
                  /\ SumFunction([b \in active |-> performance[b].revenue])
                       = earned.revenue - CommissionEarned(Branches \ active, k).revenue
  <2>1. ASSUME NEW k \in Splits
        PROVE  month = [count   |-> Overview(Branches, k).today.count
                                      + CommissionEarned(Branches, k).count,
                        revenue |-> Overview(Branches, k).today.revenue
                                      + CommissionEarned(Branches, k).revenue]
    <3> DEFINE S == Booked(Branches)
    <3>1. /\ S \in SUBSET (1..Len(txns)) /\ S \cap Today(k) \in SUBSET (1..Len(txns))
          /\ S \cap Through(k) \in SUBSET (1..Len(txns))
      BY DEF Booked
    <3>2. /\ month = Figures(S) /\ Overview(Branches, k).today = Figures(S \cap Today(k))
          /\ CommissionEarned(Branches, k) = Figures(S \cap Through(k))
      BY DEF MonthlyRevenue, Overview, CommissionEarned
    <3> HIDE DEF S, month
    <3>3. /\ Figures(S) = [count |-> Cardinality(S), revenue |-> SumOver(Earned, S)]
          /\ Figures(S \cap Today(k)) = [count |-> Cardinality(S \cap Today(k)),
                                         revenue |-> SumOver(Earned, S \cap Today(k))]
          /\ Figures(S \cap Through(k)) = [count |-> Cardinality(S \cap Through(k)),
                                           revenue |-> SumOver(Earned, S \cap Through(k))]
      BY <3>1, FiguresAre
    <3>4. /\ Cardinality(S) = Cardinality(S \cap Today(k)) + Cardinality(S \cap Through(k))
          /\ SumOver(Earned, S)
               = SumOver(Earned, S \cap Today(k)) + SumOver(Earned, S \cap Through(k))
      BY <3>1, PeriodAndToday
    <3> QED
      BY <3>2, <3>3, <3>4
  <2>2. ASSUME NEW k \in Splits, NEW b \in active
        PROVE  BranchComparison[b].count
                 = BranchPerformance(k)[b].count + DailySummary({b}, k).total.count
    <3> DEFINE S == Booked({b})
    <3>1. S \in SUBSET (1..Len(txns))
      BY DEF Booked
    <3>2. /\ BranchComparison[b].count = Cardinality(S)
          /\ BranchPerformance(k)[b].count = Cardinality(S \cap Through(k))
          /\ DailySummary({b}, k).total.count = Cardinality(S \cap Today(k))
      BY DEF BranchComparison, BranchPerformance, DailySummary, Figures
    <3> HIDE DEF S
    <3>3. /\ Cardinality(S) = Cardinality(S \cap Today(k)) + Cardinality(S \cap Through(k))
          /\ Cardinality(S \cap Today(k)) \in Nat /\ Cardinality(S \cap Through(k)) \in Nat
      BY <3>1, PeriodAndToday
    <3> QED
      BY <3>2, <3>3
  <2>3. ASSUME NEW k \in Splits PROVE Once(k)
    <3> HIDE DEF month
    <3> QED
      BY <2>1, <2>2, TrendsCountOnce, OpenAndClosedEarned
  <2>4. SumFunction(CurrencyDistribution(Branches)) = month.count
    BY CurrenciesCountOnce
  <2> QED
    BY <2>3, <2>4 DEF EachTransactionReportedOnce
<1> QED
  BY <1>1, TypeCorrect, PTL

\* An exchange earns no less than nothing.
LEMMA EarnedIsNat ==
  ASSUME TypeOK, AllPriced
  PROVE  \A i \in 1..Len(txns) : Earned[i] \in Nat
<1> SUFFICES ASSUME NEW i \in 1..Len(txns) PROVE Earned[i] \in Nat
  OBVIOUS
<1>1. txns[i] \in Transactions /\ Priced(txns[i])
  BY RowFacts DEF AllPriced
<1>2. txns[i].cost \in Nat /\ txns[i].amount \in Nat
  BY <1>1 DEF Transactions
<1>3. txns[i].type = "exchange" => txns[i].cost >= txns[i].amount
  BY <1>1 DEF Priced
<1> QED
  BY <1>2, <1>3 DEF Earned, Commission

\* No handler takes back a figure that was reported for a month.
THEOREM RevenueNeverFalls == Spec => ReportedRevenueNeverFalls
<1> DEFINE Kept(b) ==
      LET month == MonthlyRevenue({b})
          next  == MonthlyRevenue({b})'
      IN month.count <= next.count /\ month.revenue <= next.revenue
           Never == \A b \in Branches : Kept(b)
<1>1. TypeOK /\ TypeOK' /\ AllPriced' /\ SettledStay => Never
  <2> SUFFICES ASSUME TypeOK, TypeOK', AllPriced', SettledStay, NEW b \in Branches
               PROVE  Kept(b)
    OBVIOUS
  <2> DEFINE S == Booked({b})
             N == Booked({b})'
             earned == Earned
             earnedN == Earned'
  <2>1. S \in SUBSET (1..Len(txns)) /\ N \in SUBSET (1..Len(txns'))
    BY DEF Booked
  <2>2. /\ S \in SUBSET N
        /\ \A i \in S : earnedN[i] = earned[i]
    BY DEF Booked, SettledStay, Pending, Earned
  <2>3. MonthlyRevenue({b}) = [count |-> Cardinality(S), revenue |-> SumOver(earned, S)]
    BY <2>1, FiguresAre DEF MonthlyRevenue
  <2>4. MonthlyRevenue({b})' = [count |-> Cardinality(N), revenue |-> SumOver(earnedN, N)]
    <3>1. [i \in N |-> earnedN[i]] = [i \in N |-> Commission(txns'[i])]
      BY <2>1 DEF Earned
    <3> QED
      BY <3>1 DEF MonthlyRevenue, Figures, SumOver
  <2>5. IsFiniteSet(N) /\ \A i \in N : earnedN[i] \in Nat
    <3>1. (/\ Len(txns) \in Nat
           /\ \A i \in 1..Len(txns) : Earned[i] \in Nat)'
      BY RowFacts, EarnedIsNat, PTL
    <3>2. IsFiniteSet(1..Len(txns'))
      BY <3>1, FS_Interval
    <3> QED
      BY <2>1, <3>1, <3>2, FS_Subset
  <2> HIDE DEF S, N, earned, earnedN
  <2>6. Cardinality(S) <= Cardinality(N)
    BY <2>2, <2>5, FS_Subset
  <2>7. SumOver(earned, S) <= SumOver(earnedN, N)
    <3>1. SumOver(earnedN, S) = SumOver(earned, S)
      BY <2>2, SumAgree
    <3>2. SumOver(earnedN, S) <= SumOver(earnedN, N)
      BY <2>2, <2>5, SumMonotone
    <3> QED
      BY <3>1, <3>2
  <2> QED
    BY <2>3, <2>4, <2>6, <2>7
<1>2. TypeOK /\ TypeOK' /\ AllPriced' /\ PendingWaits /\ [Next]_vars => [Never]_vars
  BY <1>1, SettledStayStep
<1>3. Spec => []PendingWaits /\ [](AllPriced /\ AllTold /\ RowsHold)
  BY WaitingIsKept, ReportsRest
<1> QED
  BY <1>2, <1>3, TypeCorrect, PTL DEF Spec, ReportedRevenueNeverFalls
=============================================================================
