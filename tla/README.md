# CEMS in TLA+

CEMS (Currency Exchange Management System) is a FastAPI application on
SQLAlchemy's asyncio ORM and PostgreSQL. Branches hold balances in several
currencies; tellers book incomes, expenses, exchanges and transfers between
branches; vaults hold larger sums and move them between each other and the
branches; rates are set by hand or fetched from a provider and reviewed;
reports and a dashboard tell what was done. This directory holds a TLA+ model
of the parts of CEMS that keep state, the TLC runs that check it and the TLAPS
proofs about it. All paths below are relative to the repository (`src/`).

## 1. Inventory

| Component | State it keeps | Operations | Module |
|---|---|---|---|
| Transactions (`app/services/transaction_service.py`, `app/db/models/transaction.py`) | table `transactions`: type, status, branch, currency, amounts | create income / expense / exchange / transfer, receive (complete) a transfer, approve an expense, cancel | `BranchLedger`, `RequestLedger` |
| Branch balances (`balance_service.py`, `models/branch.py`, `branch_repo.py`) | `branch_balances`: balance, reserved balance per branch and currency; `branch_balance_history` | update, reserve, release, reconcile; set thresholds | `BranchLedger`, `RequestLedger` |
| Exchange arithmetic (`calculate_exchange`, `create_exchange`) | none | convert, commission, round | `Money` |
| Reports and dashboard (`report_service.py`, `endpoints/dashboard.py`) | none: they read the ledger | summaries, revenue, comparisons, trends, snapshots, movements, statistics | `Reports` |
| Vaults (`vault_service.py`, `models/vault.py`, `endpoints/vault.py`) | `vaults`, `vault_balances`, `vault_transfers` | three kinds of transfer, approve, reject, complete, cancel, adjust; create, update | `VaultTransfers`, `Registry` |
| Exchange rates (`currency_service.py`, `currency_repo.py`) | `exchange_rates` with validity intervals, `exchange_rate_history` | set; derive the latest, inverse, cross and base rates; convert | `RateBook`, `Quotes` |
| Rate synchronisation (`rate_sync_service.py`) | `rate_update_requests` | fetch, approve and apply, reject, expire | `RateBook` |
| Branches, currencies (`branch_service.py`, `currency_service.py`) | `branches`, `currencies`: unique codes, is_active, the main branch, the base currency | create, update, delete, activate, deactivate | `Registry` (and `BranchLedger`, `RateBook` for what they mean there) |
| Customers (`customer_service.py`, `customer_repo.py`) | `customers`: ids, number; documents, verification, risk level, alerts | create, import, deactivate; verify, assess, add a document | `Registry`, `CustomerFiles` |
| Accounts (`auth_service.py`, `user_service.py`, staff in `branch_repo.py`) | `users`: password, failed attempts, lock; `user_branches` | login, register, update, delete, unlock, deactivate, change and reset the password; assign and remove staff | `Accounts` |
| Sessions and PostgreSQL (`app/db/base.py`, `utils/decorators.py`, the migrations) | per request: the ORM's copies, pending writes, row locks | SELECT, flush, commit, rollback, deadlock detection | `RequestLedger`, `VaultTransfers`, `Registry`, `RateBook`, `Accounts` |
| Permissions, exports, external rates, notifications, logging | none, or their own | checks, formatting, I/O | not modelled (section 8) |

**How they interact.** An endpoint opens an `AsyncSession` per request and calls
one service method. `TransactionService` calls `BalanceService`, which calls
`BranchRepository`, all on that session; `TransactionService` commits once, at
the end. `VaultService` commits in every `update_vault_balance`, `CurrencyService`
twice for a rate, `RateSyncService` through it once more per rate, an import of
customers after every entry. Nothing else is shared between requests: every
interaction goes through the tables.

**What is hard.** Requests run concurrently, at READ COMMITTED, without a
`SELECT ... FOR UPDATE` and without a version column. The ORM computes new values
in Python from rows it has read and writes the *values* of the columns that
changed. Hence the order of a handler's accesses decides what two requests can do
to each other; failures in the middle must roll back everything (branches) or
leave a defensible state (vaults, rates, imports); sequences of operations on one
cell share one reserved number; checks (a main branch, a base currency, a free
number, a document on file) are made before the write they protect. The section
"hazards" of `PROJECT.json` lists each point at its line, with the property that
watches it or the reason why none does.

**What makes each component correct.**

- balances: never negative, never below what is reserved, explained row by row
  by the history; the reserved balance is the sum of the waiting transfers;
- transactions: each has moved exactly what its type and status say; settled
  ones do not change; a pending one can be settled;
- reports: they agree with each other and with the balances, up to differences
  that can be named;
- requests: each takes effect at once or not at all, whatever runs beside it,
  and ends;
- vault transfers: money taken arrives, a waiting transfer has moved nothing,
  no money appears or disappears;
- rates: one rate in force per pair, always one once there was one (unless it is
  set ahead); a history that tells which rate another one ended; derived rates that
  keep the dealer's spread; a reviewed request has set what its status says;
- branches, vaults, currencies: codes are unique, and so is the special row;
- customers: an import does what it answers; a customer whom somebody verified has
  documents, and the file is the last word of its reviewers;
- accounts: the lock counts the failed attempts and is kept; the last password
  stands; the staff of a branch is whom it was assigned.

## 2. Plan, and where it stands

1. `Money`, `Totals`, `BranchLedger`: the promise of the branch side, every
   handler one atomic step. *Done.*
2. `RequestLedger`: the same handlers as sequences of database accesses, shown
   to implement `BranchLedger` where they do. *Done.*
3. `VaultTransfers`: the vault side, with its several commits. *Done.*
4. `TotalsProofs`, `BranchLedgerProofs`: every invariant of the ledger itself, for
   all values of the constants. *Done.*
5. `Reports`: what is told of the ledger, checked on its states and proved of all of
   them. *Done.*
6. `Quotes`, `RateBook`: rates, their history and their synchronisation. *Done.*
7. `Registry`, `CustomerFiles`: the reference tables, and the review of customers.
   *Done.* `RegistryProofs`, `CustomerFilesProofs`: their invariants and their action
   property. *Done.*
8. `Accounts`: the lock, the passwords, the staff. *Done.*
9. `AccountsProofs`, `VaultTransfersProofs`, `RateBookProofs`: every invariant and
   action property of the accounts, the vault transfers and the rates, for any
   number of sessions. *Done.*
10. `RequestLedgerProofs`: the invariants of overlapping requests, and that requests
   implement `BranchLedger` where only creations overlap, on one day. *Done.*
11. What a next step would be: roles of users; the fields of a customer that
   `update_customer` writes.

## 3. Modules

| Module | Role |
|---|---|
| `Money` | amounts in whole cents; conversion, commission, `quantize` half to even |
| `Totals` | the sum of a table's rows, as a recursive function |
| `BranchLedger` | abstract: one action per handler, from validation to commit |
| `Reports` | extends `BranchLedger`: reports as operators, and what they promise |
| `RequestLedger` | detailed: sessions, accesses, locks, rollback; `Ledger == INSTANCE BranchLedger WITH ...` |
| `VaultTransfers` | vault handlers, one action per committed part of a handler |
| `Quotes` | exact fractions: inverse, cross product, spread, half up to cents |
| `RateBook` | rates and rate requests, one action per SELECT or commit |
| `Registry` | branches, vaults, currencies and customers: unique keys and special rows |
| `CustomerFiles` | extends `Registry`: documents, verification, risk level |
| `Accounts` | users, the lock, passwords, staff |
| `MCBranchLedger`, `MCRequestLedger`, `MCVaultTransfers`, `MCRateBook`, `MCRegistry`, `MCAccounts` | instances for TLC |
| `TotalsProofs` | lemmas on sums over rows and over finite sets |
| `BranchLedgerProofs` | theorems about `BranchLedger` and `Reports` |
| `RequestLedgerProofs`, `VaultTransfersProofs`, `RateBookProofs`, `RegistryProofs`, `CustomerFilesProofs`, `AccountsProofs` | theorems about the module of that name |

### BranchLedger

A *cell* is a row of `branch_balances`, `<<branch, currency>>`. `rows` are the
cells that have a row (they are created by the first credit), `balance` and
`reserved` its columns, `history[x]` the rows of `branch_balance_history` of the
cell, `txns` the transactions in the order of their numbers, `active` the
branches with `is_active`. `MayUpdate`, `UpdateBalance`, `ReserveBalance` and
`ReleaseReservedBalance` are the operations of `BalanceService` with their
refusals; `CreateIncome` ... `CancelTransaction` the handlers of
`TransactionService`; `ReconcileBranchBalance`, `DeleteBranch`, `UpdateBranch`
those of the branch endpoints. A handler that raises leaves no step: it rolls back.

Details taken from the code, not from its documents: an expense that needs an
approval is paid when it is created and approving it only changes its status;
completing a transfer deducts (against everything reserved, itself included)
before it releases; cancelling reverses by type; a branch may be closed with money
and with transfers on their way; `delete_branch` looks at balances only.

Abstractions: customers, categories, descriptions, users and timestamps are
left out; the latest rate is any of `Rates`; `status` has the three values
the handlers write (`failed`, `in_transit` and `reversed` are never assigned).

### RequestLedger

`db` holds the committed tables. A session (`session[p]`) has a program, `todo`,
computed by `Program(request)`: the accesses the handler makes, in its order.
Each access is an action, and between any two of them others may run:

- a SELECT sees the committed tables and the session's own flushed writes
  (`Visible`), and leaves a copy of the row in the handler's hands;
- an UPDATE writes the value computed from that copy, checks what the code checks
  against the *copy*, waits for the row while another session has written it
  (`Waits`), then meets the CHECK of the table;
- an INSERT of a duplicate key waits for the other inserter to end, then fails;
- `Commit` publishes everything, and the status the handler assigns;
- `Rollback` on any failure, `Crash` at any point, `DeadlockVictim` for a cycle
  of waiting sessions.

Why each `BalanceService` call reads again: SQLAlchemy's identity map holds its
objects weakly, and `get_balance` / `ensure_branch_balance` drop theirs.
`reconcile_branch_balance` keeps its row, so it goes on with the old copy.
`contended` is a history variable: the cells that two requests under way have
used. A handler uses a cell when it reads its row or writes it, and also when it
looks at the transaction it is about to settle (`LoadTransaction`), because what it
does to the cell rests on that status. A transaction number is `<<day, n>>`:
`GenerateNumber` reads the clock (any of `Days`, for a request that draws its number
around midnight) and takes the place after the last one of that day (`db.last`).
`contended` also holds `Midnight` once two sessions have inserted transactions of
different days at one time: the UNIQUE column stops neither of them.
`autoflush` is off and `expire_on_commit` is off (`app/db/base.py`).

### VaultTransfers

`active`, `balance` (a function on the vaults that have a `vault_balances` row)
and `transfers` are the tables; `moved`, `adjusted`, `contended` and `disturbed`
are history variables for the properties. Because `update_vault_balance` commits,
a handler is a sequence of *committed* parts and `Fail` (an exception or a
crash) keeps what was committed. `MissingMethod` is the call of
`BranchService.update_branch_balance`, which does not exist. A small transfer
between vaults and an adjustment keep the row object they read first, so their
first write uses that copy; all the others read again.

Nothing relates two currencies of one vault, so the model has one.

### Reports

A report is a query, so it is an operator and not an action: `Reports` extends
`BranchLedger` and is checked on its states. The ledger has no clock; a report
takes `k`, how many of the transactions were made before today's midnight, and
the properties quantify over every `k`. `Booked` and `Today` / `Through` are the
WHERE clauses: completed transactions, `func.date(...) == today`, and
`transaction_date <= end_date`, which stands for the midnight the day starts with.
A figure is a `Cardinality` or a `SumFunction` over the rows it is about.

### RateBook and Quotes

`rates` is the table `exchange_rates`, in the order of its rows. A row has the pair, the
quote, and what is told of its two moments: `due`, that `effective_from` has passed;
`ahead`, that the caller gave a later one than the time of the INSERT; `until`, the row
whose commit set `effective_to` (0 for NULL; the code always sets it to that moment).
`InForce` is the WHERE clause of `get_exchange_rate`, and `TakesEffect` the time of a
row set ahead. `SetRate` lists the accesses of
`set_exchange_rate`: its own SELECT, the repository's, the commit that closes the
old rate and inserts the new one, the commit of the history. `ApplyRates` runs it
for each fetched pair and goes on when one raises (`Skip`); `Verdict` and
`SetStatus` are the last commit of `approve_and_apply_rates`, of `reject_request`
and of `expire_old_requests`, each writing the status whatever it is by then.
`Leg`, `Cross`, `LatestRate`, `Intermediaries`, `BaseRates` are the search for a
rate; `Ambiguous` is the `MultipleResultsFound` of `scalar_one_or_none`. A rate is
an exact fraction. Rates of a review are never ahead: they take the default of
`ExchangeRateCreate`.

The module is faithful to the **services**. The endpoint that sets a rate and the
endpoints of `rate_sync.py` fail before they write (section 6), so today only a
caller of the services meets these behaviours; the `map` names the endpoints for
the requests they were written to make.

### Registry and CustomerFiles

`rows[t]` is table `t`: a row has `keys`, the values of its UNIQUE columns, and
the flags `special` (main branch, main vault, base currency) and `active`. A
request is a program of accesses, as in `RequestLedger`: the SELECTs of its
checks, one flush that writes a row in an open transaction (waiting for a row or
a key another has written, then meeting UNIQUE and the trigger of the base
currency, or the foreign key of a customer's branch), and the commit. `known` says
whether the branch of a request that registers customers exists; nothing looks before
the INSERT. An import is a program of one creation after the
other, each with its commit; `Refuse` is an entry reported as failed, `Abort` the
end of the whole import after a database error. `Changed` writes only the columns
that differ from the copy, which is what the ORM does.

`CustomerFiles` extends it with `files`, one per customer row (`Follow` gives a
committed customer its file), and with the requests `verify`, `assess` and
`document`, each a read and a save. `word` (the last assessment answered) and
`shared` (customers two requests assessed at one time) are history variables.
Details from the code: a verification ignores `is_verified = false` in the request
and may come with a NULL level, which the column refuses; it changes the level
without an alert. The files at the beginning are those `seed_customers.py` makes
(`SeededFile`): any level, verified ("seed" is the verifier) or not, and of the
verified ones some without a document.

### Accounts

`accounts` is the table `users` (the attributes the lock, the password and the
staff depend on), `staff` the rows of `user_branches`. A request reads an account,
decides on the copy, and commits the attributes it changed (`Updated`). `LockPasses`
is `locked_until` falling behind the clock. Assigning staff is a DELETE that sees
some rows (`FindStaff`), waits for the ones others have locked (`ClearStaff`) and
inserts the list with the commit. `wrong`, `since`, `wanted`, `chosen` and
`contended` are history variables.

## 4. Runs

| Run | Question | Bounds | States |
|---|---|---|---|
| `ledger` | do atomic handlers keep the books, and do the reports agree with them? | 2 branches x 2 currencies, 3 transactions, amounts 1-2, counts of 1, rates 0.5 and 1.5, commission 75% | 127 000 |
| `completable` (violation) | can every pending transfer be received? | the same, with counts of 2, rates 0.3 and 1.5, commission 50% | |
| `requests` | is every request, and are two overlapping creations, steps of `BranchLedger`? | 2 sessions, 3 requests of 11 kinds, 2 days, crashes anywhere | 468 000 |
| `races` | what holds of any overlapping requests? does each end? | 2 sessions, 3 requests of 8 kinds, 2 currencies | 218 000 |
| `lost_update`, `immutable` (violations) | do the promises in comments hold under overlap? | 2 sessions, 2 or 3 requests | |
| `vaults` | what do several commits still guarantee? | 2 sessions, 4 requests, 2 vaults, 1 branch | 1 094 000 |
| `vault_atomicity` (violation) | are vault transfers atomic? | 1 session, 3 requests | |
| `rates` | which rates are in force, told and derived, whoever sets them? | 2 sessions, 3 requests, 3 currencies, feeds of 1 and 2 rates, 2 pairs set by hand, at once or ahead | 107 000 |
| `registry` | are special rows unique, do imports go through, are files right? | 2 sessions, 3 requests of 15 kinds, imports of 2 entries, branches that exist or not | 999 000 |
| `main_branch` (violation) | is there only one main branch? | 1 session, 3 requests | |
| `accounts` | does the lock count, does the last password stand, is the staff whom it was assigned? | 2 sessions, 5 requests, 2 users, 2 passwords, 2 attempts lock | 1 802 000 |

**Why the bounds are enough.** Three transactions let two transfers reserve on
one cell while a third operation spends from it; amounts of 1 and 2 against an
opening balance of 3 make every refusal and every acceptance occur; rates and
the commission produce halves, so that rounding to even matters, and a result
of 0. A count of 1 lowers a balance, is refused where more is reserved, and raises one
that was spent. `MaxEntries` only stops reconciliations, which could go on for ever.
Two sessions are enough for the conflicts the code has: each is between two
requests, and the third one of a run starts while the others are under way or
sets the stage (a transfer to receive and cancel). In `races` a branch has no row
for its second currency: an income in it creates the row before it inserts its number, an
exchange into it afterwards, and the two wait for each other: without
`DeadlockVictim`, `EveryRequestEnds` fails there. Two days are as many as two sessions can
draw numbers of. Four vault requests let a
transfer be created, approved by one request while another handles it, and
completed or cancelled. Three rate requests are a fetch, its review and anything
that comes between the commits of the review, or a rate set ahead, its time, and another
set before or after it; a feed with both directions of a
pair meets the inverse of what it has just set. Three registry requests close a
main branch, make another and open the first again, or let a third creation meet
two that overlapped; two entries of an import let the first be refused and the second follow,
or the second repeat the first, or the first meet a branch that does not exist and the second
the session after its rollback. Five account requests are two wrong passwords, which lock, a login after
the lock has passed, and two others that overlap it. Sessions, days, passwords and
customer numbers are symmetric where no liveness is checked.

**Deadlock checking** is off for every module whose requests are bounded: when
the requests have been made and have ended, the system is idle.

**Fairness.** `RequestLedger` assumes weak fairness of each session's `Step` (the
event loop resumes a coroutine whose database call has returned) and of
`DeadlockVictim` (PostgreSQL runs its deadlock detector). Clients need not send
requests and crashes need not happen. `EveryRequestEnds` rests on this only.

## 5. What the passing runs show

- `BooksSound`, `ReservationsMatchTransfers`: however creations, completions,
  cancellations, spending and reconciliations alternate, the one reserved number
  of a cell is the sum of its waiting transfers, and never exceeds the balance.
- `HistoryExplainsBalance`: the history rows of a cell are a chain from the
  opening balance to the present one.
- `EffectsMatchStatus`: every transaction has moved what its type and status say,
  where an expense that waits for its approval is paid already: that is what the
  code does, not what its endpoints say (section 6).
- `PendingIsCancellable`: a pending transaction can always be cancelled; as a
  corollary, two branches of `cancel_transaction` (income, exchange) are dead.
- `SettledIsFinal`: taken alone, no handler changes a settled transaction.
- `EachTransactionReportedOnce`: the reports that end today (which lack today) and
  the daily summary together count every transaction of the month once, by
  branch, type, pair and currency; `ReportedRevenueNeverFalls`: no cancellation
  takes back what a month has reported.
- `MovementsMissTheRest`: the movement report is not a balance; the property is
  the exact difference (signs of transfers, the other side and the commission of
  an exchange, unapproved expenses, reconciliations, the last day).
- `SnapshotsAddUp`, `QuietDashboard`: transfers make no money in the sum of the
  snapshots; when the dashboard has nothing pending nothing is reserved or half
  paid.
- `ImplementsLedger`: requests that do not overlap are atomic, wherever they crash;
  so are overlapping *creations*, for a reason the code does not state: both
  generate the same transaction number and the UNIQUE column stops the second
  before it reads the balance it would change. The property ends where the reason
  does: once two creations around midnight have inserted numbers of different days.
- `UncontendedBooks`, `NothingHalfDone`, `EveryRequestEnds`: what remains when
  completions, cancellations and reconciliations overlap, and that sessions which wait
  for each other, as they do in `races`, are broken up.
- `PendingMovedNothing`, `UndisturbedTransferIsWhole`, `UncontendedVaultAddsUp`:
  a transfer that waits moved nothing, even after a crash or a race; one that no
  two requests handled at once and no failure cut off is whole; money on a
  vault no two requests share adds up.
- `UncontendedPairHasOneRate`: of the rates of a pair that were not set ahead, all but
  the last have ended, unless two requests set the pair at one time.
  `HistoryTellsTheRateBefore`: rows of the history may be lost; those there are name the
  one rate that the new one ended, or none if it ended none, rates set ahead included.
  `NoRateGap`: what has a rate, direct or derived, still has one after every step but
  one, that of setting a rate ahead (section 6). `UndisturbedSyncIsSettledOnce`: a rate request
  reviewed by one at a time has set what its status and its count say.
- `SpreadKept`, `ConversionBothWays`: if the rates people enter have a dealer's
  spread, inverse, cross and intermediate rates with missing sides keep it: to the
  cent, the buy rate gives no more than the rate itself and the sell rate no less;
  and what converts one way converts back. `set_exchange_rate` asks only that each
  of the three be positive (`currency_service.py:224-228`), so the spread of an
  entered quote is a hypothesis; that of a synchronised one is computed.
- `UncontendedSpecialIsUnique`: two special rows need two requests that claim it at
  one time (or, for branches, a reopening: `main_branch`); the trigger makes the
  currency safe against reopening.
- `ImportGoesThrough`: an import to a branch that exists is never aborted while nobody
  else registers customers, and everyone whom an answered import does not report as
  failed is registered. `VerifiedWithDocuments` is about customers whom a request has
  verified; those the seed script verified may have none (section 6).
- `VerifiedWithDocuments`, `UnsharedFileIsTheLastWord`, `AlertTellsTheLevelBefore`:
  the review of customers, whatever overlaps.
- `NeverLockedEarly`, `CounterTellsFailures`, `LockIsKept`: overlapping logins can
  lose counts or a fresh lock, but never lock too early; without overlap the
  counter is exact and a lock is kept. `LastPasswordStands`: since only changed
  columns are written, nothing puts an old password back.
  `StaffIsWhatWasAssigned`: unless two requests change the staff of a branch at one
  time, which can leave the union of both lists.

## 6. What the violations show

1. **A transfer of most of a balance cannot be received** (`completable`).
   `complete_transfer` deducts first, and `update_balance` refuses a result below
   the reserved balance, which still contains the transfer.
2. **Lost update** (`lost_update`). "Get current balance (with lock for update)"
   takes no lock.
3. **A completed transaction is cancelled** (`immutable`). Both requests loaded
   it as pending.
4. **Vault transfers are not atomic** (`vault_atomicity`). Approving a transfer to
   a branch takes the money from the vault and fails.
5. **Two main branches** (`main_branch`). Only `is_main_branch` is checked, not
   `is_active`: close the main branch, make another, open the first again.

Met while modelling and not turned into runs:

- *Transactions.* The generator of numbers says "Thread-safe"
  (`models/transaction.py:664`), but two overlapping requests draw the same number
  and the UNIQUE column makes one fail; it also is all that keeps creations on one cell
  apart, and does not when midnight (UTC) falls between two of them: both are inserted,
  and one of their changes of the balance can be lost as in `lost_update`. The endpoints
  say that expenses "are created in PENDING status and require manager approval before
  funds are deducted" (`endpoints/transactions.py:388-389`) and that "Approving deducts
  the amount from branch balance" (`:435-436`): `create_expense` deducts at once, also
  when it leaves the expense pending (`transaction_service.py:552`), one that needs no
  approval is completed at once, and `approve_expense_transaction` only changes the
  status (`:1186-1250`). `EffectsMatchStatus` and the reports are stated for what the
  code does. The reconciliation of a balance answers 500 after it has committed
  (`branches.py:746-753`).
- *Vaults.* `TRANSFER_APPROVAL_THRESHOLD` is commented "Transfers above this
  require approval" (`constants.py:306`) and used with `>=`
  (`vault_service.py:411`, `:494`); a small transfer from a vault to a branch never
  moves money; a closed vault cannot be opened again, and a closed main vault
  still blocks another.
- *Rates.* `POST /currencies/rates` always fails, because
  `UUID(current_user['id'])` (`currency_service.py:238`) is given a UUID, and so do
  the endpoints of `rate_sync.py` that index a `User` object (`:69`, `:145`, `:184`).
  A rate may be set ahead (`schemas/currency.py:95`), but the old one ends at once
  (`currency_repo.py:238`) and the new one is not found before its time (`:173`): the
  pair has no rate in between. A set in between does not find it either, records
  "created" and leaves two rows without `effective_to`, commented "NULL = current rate"
  (`models/currency.py:168-173`); from the later rate's time on the lookup raises
  `MultipleResultsFound`. "Effective date can't be in past (for new rates)"
  (`API_DOCUMENTATION.md:689`) is not checked.
- *Currencies.* `PUT` can deactivate the base currency, which the endpoint made for
  it refuses.
- *Customers.* The `is_verified = false` of a KYC request is ignored
  (`API_DOCUMENTATION.md:918-935`); "Documents should be verified"
  (`customers.py:494-496`) is not enforced; `risk_level` and `is_active` in a `PUT`
  are dropped (`customer_service.py:166-169`); the ids of a deactivated customer
  stay taken. "Customer must have documents before KYC verification"
  (`customer_service.py:297`), but `seed_customers.py` inserts verified customers
  without any (`:101`, `:180-207`, `:320`). The `branch_id` of an import is any UUID
  (`endpoints/customers.py:108`, `customer_service.py:113`): if no branch has it, the first
  INSERT fails on the foreign key (`models/customer.py:174-176`), and after the rollback
  the second entry ends the import with an error instead of a report of failures.
- *Accounts.* `POST /users/{id}/change-password` reads a field its schema lacks
  (`users.py:374`, `schemas/user.py:110-112`); the counter is not reset when a lock
  expires, so the next wrong password locks at once; a new password ends no
  session and no lock.
- *Reports.* The movement report is documented with "opening_balance",
  "closing_balance", "balance_before" and "balance_after"
  (`API_DOCUMENTATION.md:1851-1883`); it returns one running sum that starts at 0 and is
  not the balance (`MovementsMissTheRest` says by how much). Those compared with
  `<= end_date` leave out the end date;
  `transaction_volume_trends` and the high-value customers sum a plain Python
  property in SQL and always fail; the dashboard's alerts raise `KeyError` when a
  balance is low (`dashboard.py:421`); what it calls pending is everybody's.

## 7. What is proved

TLAPS proves the following for every value of the constants: any number of
branches, vaults, currencies, users, customers and sessions, all amounts, rates
and limits, and runs of any length (the bounds on transactions, entries and
requests are arbitrary natural numbers).

| Theorem | Statement |
|---|---|
| `TypeCorrect` | `Spec => []TypeOK` |
| `BooksAreSound` | `Spec => []BooksSound` |
| `ReservationsMatch` | `Spec => []ReservationsMatchTransfers` |
| `SettledStaysFinal` | `Spec => SettledIsFinal` |
| `PendingStaysCancellable` | `Spec => []PendingIsCancellable` |
| `HistoryExplains` | `Spec => []HistoryExplainsBalance` |
| `EffectsMatch` | `Spec => []EffectsMatchStatus` |
| `MovementsMiss` | `Spec => []MovementsMissTheRest` |
| `SnapshotsAdd` | `Spec => []SnapshotsAddUp` |
| `DashboardIsQuiet` | `Spec => []QuietDashboard` |
| `ReportedOnce` | `Spec => []EachTransactionReportedOnce` |
| `RevenueNeverFalls` | `Spec => ReportedRevenueNeverFalls` |
| `TypeCorrect` (requests) | `Spec => []TypeOK` |
| `BooksOfUncontended` | `Spec => []UncontendedBooks` |
| `NothingIsHalfDone` | `Spec => []NothingHalfDone` |
| `RequestsImplementLedger` | `Overlapping \subseteq Creating`: `Spec => ImplementsLedger` (up to `Midnight`) |
| `KeysAreUnique` | `FilesSpec => []TypeOK` |
| `SpecialIsUnique` | `FilesSpec => []UncontendedSpecialIsUnique` |
| `ImportsGoThrough` | `FilesSpec => []ImportGoesThrough` |
| `VerifiedHasDocuments` | `FilesSpec => []VerifiedWithDocuments` |
| `LastWordIsKept` | `FilesSpec => []UnsharedFileIsTheLastWord` |
| `AlertsAreTrue` | `FilesSpec => AlertTellsTheLevelBefore` |
| `VaultsTypeCorrect` | `Spec => []TypeOK` |
| `PendingIsUnpaid` | `Spec => []PendingMovedNothing` |
| `TransfersAreWhole` | `Spec => []UndisturbedTransferIsWhole` |
| `VaultsAddUp` | `Spec => []UncontendedVaultAddsUp` |
| `RatesTypeCorrect` | `Spec => []TypeOK` |
| `OneRateIsOpen` | `Spec => []UncontendedPairHasOneRate` |
| `HistoryIsRight` | `Spec => []HistoryTellsTheRateBefore` |
| `SyncsAreSettledOnce` | `Spec => []UndisturbedSyncIsSettledOnce` |
| `SpreadSurvives` | `Spec => []SpreadKept` |
| `ConvertsBack` | `Spec => []ConversionBothWays` |
| `RatesHaveNoGap` | `Spec => NoRateGap` |
| `AccountsTypeCorrect` | `Spec => []TypeOK` |
| `NeverLockedTooEarly` | `Spec => []NeverLockedEarly` |
| `CounterIsRight` | `Spec => []CounterTellsFailures` |
| `LastPasswordWins` | `Spec => []LastPasswordStands` |
| `StaffIsRight` | `Spec => []StaffIsWhatWasAssigned` |
| `LocksHold` | `Spec => LockIsKept` |

`Spec` is that of `BranchLedger`, `RequestLedger`, `VaultTransfers`, `RateBook` and
`Accounts` in turn. The first twelve rest on `LedgerAssumption` and `RateScaleAssumption` (amounts are positive
cents, percentages are at most 100, opening balances are not negative), those about
reports also on `ReportsAssumption` (branches and currencies are finitely many, as
the rows of a table are); TLC evaluates all of them on the runs of `MCBranchLedger`. The next four on `RequestAssumption`,
which says the same of the requests, and that the bounds of the ledger leave room for
every request, evaluated by the runs of `MCRequestLedger`. The six after them rest on
`RegistryAssumption`, `CustomerFilesAssumption` and `SeededAssumption` (what the seed
script inserts), evaluated by the runs of `MCRegistry`; the others on `VaultAssumption`, `RateAssumption` and
`AccountsAssumption`, evaluated by the runs of these modules.

**The ledger.** `TypeOK` is inductive: `MayUpdate` keeps balances natural, and
rounding a natural product gives a natural number. `BooksSound` is inductive
relative to it: every deduction compares with what is reserved, every
reservation with what is available. `ReservationsMatchTransfers` needs sums over
a table: `TotalsProofs` shows, for the recursive function `Total`, what
appending a row or changing one does to the sum (`TotalOfAppend`,
`TotalOfExcept`), and that a sum of naturals covers each of them
(`TotalOfCovers`). Settling a transfer then gives back exactly its own claim.
`PendingIsCancellable` follows: a waiting transfer's amount is one term of the
reserved sum, a waiting expense's refund only raises a balance that already covers
its reservations; it needs the shape of waiting transactions as its own
inductive part (`PendingWaits`: only expenses with an approval and transfers
wait, and what each costs and credits).

`HistoryExplains`, `EffectsMatch` and `SettledStaysFinal` share one description of a step,
`BooksTheChange`: a step is about one transaction, or none, and books on every cell
the difference between that transaction's effect after and before. `StepBooks`
shows it handler by handler; here `PendingWaits` is needed again, because what
receiving or cancelling books depends on what a waiting transaction is. From it:
a booking extends the chain of history rows (`PostedExplained`); it adds to the
account of its own transaction only (`PostedNet`), so that every account stays at
its effect (`StepEffects`), given that no row refers to a transaction that does not
exist yet (`RefsKnown`): a new transaction starts from an empty account.

That `Total` has running totals at all is an induction over the rows of a table.
The induction theorems of the library take an operator as a parameter, which the
provers used here cannot instantiate; `TotalsProofs` argues by a least
counterexample instead (`LeastElement`, from the well-foundedness of `<`).

**The reports.** Their figures are sums over sets of rows, branches, currencies and
cells. `SumFunction` of the community modules is a fold that picks its elements by
`CHOOSE`, and a sum must not depend on the order: `TotalsProofs` shows that it has a
recursive solution on the subsets of a finite set (`SumsExist`, `SumsUnique`), that any
element may be taken first (`SumOverRemove`), and from there that sums add
(`SumPlus`), split (`SumUnion`), may leave out zeros (`SumFilter`), be taken class by
class (`SumClasses`, `CountClasses`) or in the other order (`SumSwap`), and that
`TotalOf` is one of them (`TotalIsSum`). About the ledger the reports need what
`EffectsMatchStatus` does not say: what a row costs and credits by its type (`Priced`),
that a history row refers to no transaction exactly when it is a count (`Told`), and that
a cell without a row holds nothing (`RowsHold`); these are inductive (`ReportsRest`).
`BalanceMoves` then turns the history of a cell, sorted by the transaction its rows
refer to, into what was counted and what each transaction did.
`MovementsMiss` compares that row by row with what the movement report shows
(`EffectIsMovement`); `SnapshotsAdd` adds it up over the cells of a currency, first by
cell and then by transaction, where what one side of a transfer pays the other
receives (`TransferMakesNoMoney`). `ReportedOnce` sorts the completed rows by
period, currency, pair and branch. `RevenueNeverFalls` is the one action property:
settled rows stay (`SettledStay`), and no exchange earns less than nothing.

**Files under review.** The three properties of `CustomerFiles` are not inductive:
what a session writes depends on the copy it read some steps before. The seed script's
files are in the invariant as they are: only a session's name as verifier promises
documents. The inductive invariant `FilesInv` says of every session about to save (`Knows`) that
the documents it saw are still there, and that the assessment in its copy is still
the one on file unless the customer is shared; of every session on a file that it
is at one of its two steps on a customer there is (`OnCourse`); and that two
sessions assessing one customer make it shared (`SharedIsKnown`). It holds
initially; `RegistryStep` shows that a step of the other requests, an import that
adds customers included, leaves the files alone and keeps what sessions know;
`FilesStep` treats reading, saving and beginning. `Merged` is where it matters
that only changed columns are written: on an unshared customer the copy equals
the file, so the merge writes exactly the new assessment.

**Requests in several steps.** In the other modules no property is inductive
either, for the same reason, and every invariant has the same three parts: the
types, the *course* of a session (what it may still have to do, given its request),
and what a session *knows*, that is, how the copies in its hands relate to the
tables unless a history variable says that somebody else interfered. Two
sessions that share a row have always made it contended; that is part of the
invariant, and it is why a step of one session takes nothing from what another
knows.

- *Ledger* (`RequestInv`). `Plan` says what a handler's accesses are whatever its kind:
  which looks come before which writes, and what it is to post and to reserve
  (`Dues`). A session is at one position of its plan (`OnCourse`), and what it has
  done by then is what the plan says up to that position. What it knows (`KnowsX`)
  is about the *committed* tables: the row it has read or written, the reserved
  balance, the number it has drawn, the status of the transaction it settles, each
  unless the cell is contended. `Apart` says what two sessions cannot both hold: a
  row one of them has written, a row or a number of one day one of them has inserted.
  What a new transaction's history rows refer to is the place its commit gives it
  (`Reference`), not its number; numbers only have to be above the last of their day
  (`LastAfter`). A commit
  then publishes a finished plan (`Finished`), from which come `NothingHalfDone`,
  contended or not, and `UncontendedBooks`.
- *The refinement* (`RequestsImplementLedger`). Only a commit changes the tables, so
  every other step is a stutter of the ledger. Where only creations overlap
  (`Separate`), what a session has read holds until its commit even on contended
  cells: a creation that has drawn its number has inserted its transaction before it
  reads a balance, and only one session can have inserted at a time, as long as
  `Midnight` is not contended: two would have the same day and so the same number
  (`Alone`). So each commit
  is the handler's action, its guards included (`CreatesIncome` ... `ChangesBranch`).
  Every other request runs alone, which is the hypothesis the run `requests` makes
  too; without it the refinement is false (`lost_update`, `immutable`).
- *Vault transfers* (`VaultInv`). `OnTransfer` says for each point between two
  commits of a handler what its transfer has moved by then: an approval that has
  paid has moved `out` and not `in`, a cancellation that has given the money back
  has undone `out` and not `in`, and so on. A step moves a transfer from one of
  these points to the next; `Fail` may leave it at any, and makes it disturbed.
  `UncontendedVaultAddsUp` is a sum over the transfers and needs `TotalOfExcept`: a
  step changes one of its terms and the balance by the same amount, and the copy
  the step starts from is the balance itself when the vault is not contended.
- *Rates* (`RateInv`). Before it inserts, a request knows which rate of its pair is in
  force, if any, and after it, which row is its own, unless the pair is contended
  (a rate set ahead that takes effect meanwhile makes it so too): so what it closes is
  what it has read, and the history tells that. A review
  knows how many rates it has set. That plans are followed in order (`Shaped`) is
  shown for `set_exchange_rate` run once, once per fetched pair, and cut short by
  a `Skip`. The derived rates are arithmetic: products of fractions are monotone,
  reciprocals antitone and rounding half up monotone, so that the inverse, the
  product and the cross rate of quotes with a spread have one.
- *Registry* (`RegistryInv`). The course of a request is its plan from some access
  on (`LeftToCreate`, `LeftToChange`, `ImportAfter`). A flushed new row has keys nobody
  has, a flushed old one has not changed since (`KnowsWrite`): the locks on rows and
  unique keys (`Apart`) keep it so until the commit. A request that found no other
  special row still finds none, and so does one that has flushed its own
  (`KnowsSpecial`, `KnowsClaim`), unless two claimers have made the table contended;
  opening a closed main branch again checks nothing and is the exception. An
  import has registered every entry so far that it does not report, and while it is
  alone the keys and the number it is about to insert are free (`KnowsImport`),
  so that no database error ends it.
- *Accounts* (`AccountsInv`). A copy never counts a wrong password that was not
  given, whatever has happened since it was read; if nobody else changes the
  account, its counter is the one in the table and its lock differs only by having
  passed. A session that deletes staff has found, and then locked, all the rows
  there are of its branch.

**The action properties** follow from the invariants of the state before:
`LockIsKept` and `NoRateGap` look at each action with the knowledge of the session
that takes it.

**What the proofs changed.** `UncontendedBooks` was false with four requests: of two
that settle one transfer, one could begin before the other ended and write after it,
so that the cell they share was never read by both at one time, and nobody called it
contended. Three requests, the bound of the run, are too few for that. Looking at a
transaction that is to be settled now counts as using its cell, and the property holds for any number of
requests. A CASE whose guards overlap may take either branch,
which TLC settles by their order and a proof cannot: `Handled`, in `Accounts`, and
`Leg`, in `RateBook`, now exclude each other as the returns of the code do. `SpreadKept`
had a hypothesis nobody had stated, that entered quotes have a spread. The plans
of a creation are now listed table by table, as the services write them, and
`RegistryAssumption` states what the seeds give: opening rows with keys of their own and
at most one special row in a table. The reports' sums are `SumFunction`s over
functions, where they were folds over an operator, of which nothing can be proved here.

**Only model-checked:** liveness (`EveryRequestEnds`): weak fairness is out of this
prover's reach.

## 8. Not modelled, and why

- *Tokens, hashing, sessions of users*: cryptography; logging out changes nothing.
- *Roles and permissions*: checks before a handler that change no modelled state;
  `middleware/rbac.py` and `core/permissions.py` have no callers. Roles assigned to
  a user are not part of any property here.
- *References to a deleted user*: `ON DELETE SET NULL` empties the columns that name an
  approver, a verifier or a manager; no property rests on them (`delete_user` itself,
  with the staff lists it takes along, is in `Accounts`).
- *Plain fields* of users, customers, branches and vaults (names, addresses, notes),
  and the verification of a single document.
- *The other reports*: user activity, audit trail, customer analysis,
  rate volatility, the vault part of movements, low-balance alerts; exports are
  formatting.
- *External rate providers, notifications, logging*: pure I/O; `RateBook` takes any
  answer of a provider.
- *`transaction_validation_service.py`, `commit_reserved_balance`, `assign_manager`,
  `update_risk_level` as an endpoint*: no callers (the last is modelled as the
  service method it is).
- *Thresholds and alerts of balances*: they do not limit any operation on money;
  setting them fails after its validations (`balance_service.py:689`).
- *Transaction numbers beyond 99999 in a day* (string order of a five-digit
  field): out of reach of a small instance; listed as a hazard.
