------------------------------- MODULE Reports -------------------------------
(***************************************************************************)
(* What ReportService and the dashboard tell of the ledger.  A report is   *)
(* not a step: it is an operator on the tables.  The ledger has no clock,  *)
(* so a report takes `k`, the transactions made before today's midnight;   *)
(* the rest were made today, and all of them in one month.  `bs` are the   *)
(* branches a report is about, {b} or all of them.                         *)
(***************************************************************************)
EXTENDS BranchLedger, FiniteSets, Functions

\* A sum over branches or currencies is a sum over rows of their tables.
ASSUME ReportsAssumption == IsFiniteSet(Branches) /\ IsFiniteSet(Currencies)

Splits == 0..Len(txns)

-----------------------------------------------------------------------------
(* The queries: only completed transactions, by branch and by date.        *)

Booked(bs) == {i \in 1..Len(txns) : txns[i].status = "completed" /\ txns[i].cell[1] \in bs}

\* func.date(transaction_date) == today
Today(k) == {i \in 1..Len(txns) : i > k}

(* The operators named <definition>_<fault> are the faults the runs are tried
   against: each replaces the definition after it by a plausible mistake.   *)
Through_TheDay(k) == 1..Len(txns)

\* transaction_date <= today: the date stands for its midnight
Through(k) == 1..k

SourceAmount(t) == t.amount

\* commission_amount, 0 for anything but an exchange
Commission(t) == IF t.type = "exchange" THEN t.cost - t.amount ELSE 0

Figures(S) ==
  [count |-> Cardinality(S), revenue |-> SumFunction([i \in S |-> Commission(txns[i])])]

-----------------------------------------------------------------------------
(* The reports.                                                            *)

DailySummary(bs, k) ==
  LET S == Booked(bs) \cap Today(k)
  IN [total |-> Figures(S),
      types |-> [type \in Types |-> Cardinality({i \in S : txns[i].type = type})]]

MonthlyRevenue(bs) == Figures(Booked(bs))

CommissionEarned(bs, k) == Figures(Booked(bs) \cap Through(k))

\* The comparison of a period that ends today, and the dashboard's, which has
\* no end: open branches only.
BranchPerformance(k) == [b \in active |-> Figures(Booked({b}) \cap Through(k))]
BranchComparison     == [b \in active |-> Figures(Booked({b}))]

\* The exchanges of one pair of currencies.
ExchangeTrend(c, d, k) ==
  Cardinality({i \in Booked(Branches) \cap Through(k) :
    txns[i].type = "exchange" /\ txns[i].cell[2] = c /\ txns[i].toCell[2] = d})

CurrencyDistribution(bs) ==
  [c \in Currencies |-> Cardinality({i \in Booked(bs) : txns[i].cell[2] = c})]

Snapshot_Available(b) ==
  [c \in {d \in Currencies : <<b, d>> \in rows} |-> Available(<<b, c>>)]

Snapshot(b) == [c \in {d \in Currencies : <<b, d>> \in rows} |-> balance[<<b, c>>]]

\* What the branch endpoints show of a cell.
BalanceDetails(x) ==
  [balance |-> balance[x], reserved |-> reserved[x], available |-> balance[x] - reserved[x]]

\* All transactions are counted here, whatever became of them.
Statistics(bs) ==
  LET Of(status) == {i \in 1..Len(txns) : txns[i].cell[1] \in bs /\ txns[i].status = status}
  IN [status \in Statuses |-> Cardinality(Of(status))]

Overview_HidesExpenses(bs, k) ==
  [today |-> Figures(Booked(bs) \cap Today(k)),
   pending |-> Cardinality({i \in 1..Len(txns) : Pending(i) /\ txns[i].approvalRequired})]

\* The figures are those of the branch asked for, what waits is everybody's.
Overview(bs, k) ==
  [today   |-> Figures(Booked(bs) \cap Today(k)),
   pending |-> Cardinality({i \in 1..Len(txns) : Pending(i)})]

Movement_Signed(t) == IF t.type = "income" THEN t.amount ELSE -t.amount

\* What the movement report shows of a transaction: a transfer is a credit.
Movement(t) ==
  IF t.type \in {"expense", "exchange"} THEN -SourceAmount(t) ELSE SourceAmount(t)

\* The last running balance of cell x: it starts at 0, and counts a transaction
\* only under the branch and currency it is booked under.
RunningBalance(x, k) ==
  SumFunction([i \in {j \in Booked(Branches) \cap Through(k) : txns[j].cell = x}
                 |-> Movement(txns[i])])

-----------------------------------------------------------------------------
(* What the reports promise about the ledger.                              *)

\* What the movement report leaves out of transaction t on cell x.
LeftOut(t, x) ==
  CASE t.type = "transfer" /\ t.status = "completed" ->
         (IF x = t.toCell THEN t.amount ELSE 0) - (IF x = t.cell THEN 2 * t.amount ELSE 0)
    [] t.type = "exchange" ->
         (IF x = t.toCell THEN t.toAmount ELSE 0) - (IF x = t.cell THEN Commission(t) ELSE 0)
    [] t.type = "expense" /\ t.status = "pending" -> IF x = t.cell THEN -t.amount ELSE 0
    [] OTHER -> 0

Counted(x) ==
  SumFunction([n \in {m \in 1..Len(history[x]) : history[x][m].change = "reconciliation"}
                 |-> history[x][n].amount])

(* The running balance of the movement report is not the balance of the cell,
   the "opening_balance", "closing_balance" and "balance_after" of the API's
   documentation: it starts at 0, credits the branch that sends a transfer
   and not the one that receives it, knows one side of an exchange and not its
   commission, no expense before it is approved, no reconciliation and nothing
   of the day it ends on.  This is all it misses: the rest is the balance.  *)
MovementsMissTheRest ==
  \A x \in Cells :
    LET counted == Counted(x)
    IN \A k \in Splits :
         balance[x] = Opening[x] + RunningBalance(x, k) + counted
                        + SumFunction([i \in Through(k) |-> LeftOut(txns[i], x)])
                        + SumFunction([i \in Today(k) |-> Effect(txns[i], x)])

(* The snapshots of all branches, closed ones included, add up per currency to
   the opening balances, what income, expenses and exchanges brought and took,
   and what was counted: a transfer on its way or received makes no money.   *)
SnapshotsAddUp ==
  \A c \in Currencies :
    LET cells == {x \in Cells : x[2] = c}
        trade == {i \in 1..Len(txns) : txns[i].type # "transfer"}
    IN SumFunction([b \in {d \in Branches : c \in DOMAIN Snapshot(d)} |-> Snapshot(b)[c]])
         = SumFunction([x \in cells |-> Opening[x]]) + SumFunction([x \in cells |-> Counted(x)])
             + SumFunction([i \in trade |-> SumFunction([x \in cells |-> Effect(txns[i], x)])])

(* What the dashboard calls pending and the month does not report, the
   statistics know of as waiting or cancelled; and when it has nothing pending,
   all of every balance is available and money was moved for completed
   transactions alone.                                                      *)
QuietDashboard ==
  \A b \in Branches :
    LET pending == Overview({b}, Len(txns)).pending
    IN /\ MonthlyRevenue(Branches).count + pending + Statistics(Branches)["cancelled"] = Len(txns)
       /\ MonthlyRevenue({b}).count = Statistics({b})["completed"]
       /\ pending = 0 =>
            \A x \in Cells :
              /\ BalanceDetails(x).available = BalanceDetails(x).balance
              /\ \A i \in 1..Len(txns) : txns[i].status # "completed" => Net(history[x], i) = 0

(* The reports that end today miss today, the daily summary has only today:
   together they count each transaction of the month once, by branch, by type
   and by currency.  The comparisons lose the branches that were closed.     *)
EachTransactionReportedOnce ==
  LET month == MonthlyRevenue(Branches)
  IN /\ SumFunction(CurrencyDistribution(Branches)) = month.count
     /\ \A k \in Splits :
          LET today       == Overview(Branches, k).today
              earned      == CommissionEarned(Branches, k)
              performance == BranchPerformance(k)
          IN /\ month = [count   |-> today.count + earned.count,
                         revenue |-> today.revenue + earned.revenue]
             /\ SumFunction([p \in Currencies \X Currencies |-> ExchangeTrend(p[1], p[2], k)])
                  = Cardinality({i \in Booked(Branches) : txns[i].type = "exchange"})
                      - DailySummary(Branches, k).types["exchange"]
             /\ \A b \in active : BranchComparison[b].count
                                    = performance[b].count + DailySummary({b}, k).total.count
             /\ SumFunction([b \in active |-> performance[b].revenue])
                  = earned.revenue - CommissionEarned(Branches \ active, k).revenue

(* A figure once reported for a month never falls: no handler takes a completed
   transaction back, whatever it refunds.                                    *)
ReportedRevenueNeverFalls ==
  [][\A b \in Branches :
       LET month == MonthlyRevenue({b})
           next  == MonthlyRevenue({b})'
       IN month.count <= next.count /\ month.revenue <= next.revenue]_vars
=============================================================================
