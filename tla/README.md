# Verification of muhkam ERP

TLA+ models, TLC runs and TLAPS proofs of the server of muhkam ERP: what
happens to money, stock and documents when requests overlap, fail half-way, are
sent again, or arrive in an order nobody planned.

Paths without a prefix are relative to `artifacts/api-server/src/`. All modules
and configurations are in this directory; `PROJECT.json` lists components,
runs, mutants, the source lines behind every definition, findings, hazards and
theorems.

    tlc -workers 2 -config MCSafeTransfer.cfg MCSafeTransfer.tla   # one run
    tlapm ServerProofs.tla                                         # the proofs of a module

## 1. The system

One Node.js process (pm2: one instance, fork mode) serves an Express API to a
React frontend and a mobile cashier application. All lasting state is in one
PostgreSQL database, reached through a pool of ten connections
(`lib/db/src/index.ts`). Every handler is an async function; between two awaited
statements any other handler may run. `db.transaction(...)` is a READ COMMITTED
transaction: a plain SELECT sees what has committed and locks nothing, an UPDATE,
a DELETE and `SELECT ... FOR UPDATE` wait for the row lock and keep it until the
end, and an UPDATE that waited evaluates its WHERE clause and its SET again on
the committed row. Statements on `db` outside a transaction commit one by one.

| Component | State it keeps | Operations | Interacts through | Hard behaviours | What makes it correct |
|---|---|---|---|---|---|
| Safe transfers (`services/safe-transfer.service.ts`) | `safes.balance`, rows of `transactions`, `expenses` | transfer with fee | safes with every cash document | lock order, conditional debit, rollback, deletion of a safe meanwhile | no overdraft, money conserved (but for the deletion of a safe), no circular wait, all or nothing |
| Stock quantities (sales, purchases, their returns and cancellations, repair parts, counts, adjustments, opening balances) | `products.quantity`, `stock_movements` | thirteen kinds of posting | products, shared by all of them | unlocked read and absolute write, cut-off at zero, document claimed twice, circular waits | quantity = sum of movements, never negative but by a count that found a shortage, each document once and whole |
| Sale lifecycle (`routes/sales`, `routes/returns/sales-returns.ts`) | `sales.posting_status`, `sale_items.quantity_returned`, `sales_returns`, journal | create, post, cancel, return, delete a return | stock, journal accounts, safes, customers | two transactions of one request, status read before the transaction, returns racing | status, returns and journal agree; a cancelled sale stays cancelled |
| Cash vouchers (receipt, payment, deposit, treasury vouchers, expenses, income) | `safes.balance`, `customers.balance`, `customer_ledger`, the documents, journal | create, post, cancel, delete | safes and customers | locks on three tables, unlocked read of the customer, no transaction around entry and status | no overdraft, ledger explains the balance, posted documents stay |
| Safes administration (`routes/settings/safes.ts`) | `safes` | create, edit, delete, close, statement | all cash documents | absolute writes of stale balances | closing loses no cash |
| Money of sales, purchases, returns and customers (`routes/sales`, `routes/purchases`, `routes/returns`, `routes/customers/payments.ts`) | `customers.balance`, `customer_ledger`, safes | create, cancel, return, delete a return, payments | stock (the row of the product is the lock that counts), vouchers | unlocked read and absolute write by eleven handlers, each with an order of locks of its own | ledger explains the balance; an invoice and its money move together and are undone exactly |
| Stock transfers (`routes/stock-transfers.ts`, `routes/inventory-control.ts`) | `stock_transfers.status`, movements per warehouse | request, approve, ship, receive, cancel | stock | two transfers of one stock | goods are in exactly one place |
| Average cost | `products.cost_price` | purchase, return, cancellation | stock | computed from a quantity that changes | value of stock = sum of movements at cost |
| Repair workshop (`services/repair-pipeline.service.ts`, `services/commission.service.ts`, `routes/repairs`) | job status, reports, services, commissions, payments, shipping | transitions, reports, services, payments, delivery gate, customer return | stock, safes, payroll | status read early and written late, two deliveries at once, the gate confirmed again | terminal states stay, only the delivery gate takes more than the price, commission earned once, inspection after a report |
| Payroll, advances, custody (`routes/payroll/processing.ts`, `routes/salary-advances.ts`, `routes/employee-bonuses-custody.ts`) | periods, records, `salary_advances`, `employee_custody` | request, approve, repay; grant, settle, reimburse; process, approve, pay | safes | processing stops half-way and is repeated, cashiers pay one period together | nobody is paid twice, an advance is accounted for, a custody is settled once |
| Journal and accounts (`routes/accounts.ts`, `lib/auto-account.ts`, `lib/integrity.ts`) | `journal_entries`, lines, `accounts.current_balance` | enter, post, reverse, delete; the entries of every document; check and repair the balances | every document, assets, accruals | statements without a transaction, balances written as absolute values, two sign conventions, a repair that counts drafts | debits = credits, balances = sums of lines |
| Accruals, fixed assets, fiscal years (`routes/accruals.ts`, `routes/fixed-assets.ts`, `routes/fiscal-years.ts`) | runs per period, what was charged, status | depreciate, dispose, recognize, delete, close a year | journal, accounts shared by code | check before the transaction, a depreciation stops half-way | a month is charged once, the record says what the journal says |
| Period lock (`lib/period-lock.ts`) | `closing_date`, cache per process | close, check | refuses changes of all documents | stale cache | nothing changes in a closed period |
| Connections (`middleware/auth.ts`, `lib/db/src/index.ts`) | pool of ten, the company set on each connection | authenticate, pin, query, release | every request | a request holds a connection while it waits for others, finish and close both release, a pin fails | no connection in two hands, no query in another company's context, no wait for ever |
| Sessions and tokens | `refresh_tokens`, blacklist, counters | rotate, revoke | every request | read, then mark as used | a token is used once |
| Background jobs (`lib/job-queue.ts`) | table in memory, at most 1000 | enqueue, finish, evict | payroll, backups | eviction of a running job | a job is found until it ends |

Backup and restore, notifications, tenants and trials, staff records, devices,
reports, the frontends and the generated clients are listed in `PROJECT.json`
with the reason why they are not modelled: files, messages, configuration,
record keeping and queries, with little order between requests to get wrong.

## 2. Modules

Each component has a module with its state, one action per statement or step,
and its properties; an abstract module that says what it promises; an MC module
and configurations; and a module with its proofs.

| Module | Role |
|---|---|
| `SafeTransfer`, `MoneyTransfer` | the transfer service; the atomic transfer it implements |
| `StockLedger`, `StockBook` | posting stock lines; quantities and movements that change together |
| `SaleLifecycle`, `SaleBook` | the documents of a sale; the life of one sale |
| `CashVouchers`, `CashBook` | documents that move cash; the cash book of one safe |
| `StaffCash`, `CustodyBook` | advances, custodies and the payroll; the custodies of one safe |
| `RepairJobs`, `RepairBook` | the jobs of the workshop; the life of a job and the credit of its technicians |
| `CustomerMoney`, `CustomerBook` | what invoices, returns and payments do to customers and safes; the account of one customer |
| `GeneralLedger`, `ChargePlan` | manual entries, depreciation, disposal and accruals with the balances of the accounts; the months charged for one schedule |
| `ConnectionPool` | the connections and the company set on them |
| `MC*` | values of the constants for TLC |
| `Sums` | lemmas about sums of a function over a finite set |
| `ServerProofs` | theorems about `SafeTransfer` and `ConnectionPool`, which share no variable |
| `LedgerProofs` | theorems about the two ledgers, `StockLedger` and `GeneralLedger`, which share no variable |
| `SaleLifecycleProofs`, `CashVouchersProofs`, `StaffCashProofs`, `RepairJobsProofs`, `CustomerMoneyProofs` | theorems about one component each |

An operator marked *Mutant* changes the definition that follows it the way a
plausible mistake in the code would; nothing uses it but the check that each
property can fail.

### How code becomes actions

* **A handler is a program of statements.** `pc[r]` (or `at[r]`) is the statement
  request `r` is at. A SELECT reads committed state into `seen[r]`; an UPDATE
  waits for the lock variable of its row and takes it. What a transaction has
  written appears to others at its COMMIT: `SafeTransfer` and `StockLedger` keep a
  working copy `work` of a locked row next to the committed value, because a
  transaction of theirs writes one row several times or reads its own writes; in
  `SaleLifecycle` and `CashVouchers` each row is written once, so the COMMIT
  computes the new value of the rows it has locked. In `StaffCash`, `RepairJobs` and
  `GeneralLedger` the statements of a transaction from its first lock on are one step, unless it
  reads rows in between that it has not locked (the payment of a salary counts the
  unpaid ones, the delivery reads the services): those are steps of their own.
* **A failure** (`Fail`) of a transaction at any statement is an error of a
  statement, the statement timeout of 30 s, or a crash of the process: PostgreSQL
  rolls back. After a COMMIT, or between statements that commit by themselves,
  nothing is undone; this is how a cashier's sale stays a draft and how the entry of a
  voucher stays without its status.
* **A circular wait** is resolved by PostgreSQL's deadlock detector, which fails
  one member (`DeadlockVictim`). `SafeTransfer` and `CashVouchers` have no such action:
  their runs show that none is needed.
* **Requests refused before the first write** change nothing and are not steps.
  A request sent again is another request for the same document.

### SafeTransfer

`Submit` parses the body, computes the fee, validates and checks ownership without
a lock. `LockFirst` and `LockSecond` are the `SELECT ... ORDER BY id FOR UPDATE`;
`SafeMissing` its missing row; `Debit`, `Insufficient` and `Credit` the conditional
and the relative UPDATE; `Record` the inserts and the COMMIT. `CheckDelete` and
`DeleteSafe` are the reads and the unconditional DELETE of `settings/safes.ts`.
Money is counted in thousandths, so that the rounding of `numeric(12,2)` and of
`Math.round` is visible (`Piastres`). The money there is (`Money`) is what the rows of
safes that still exist hold and the fees taken: the row of a deleted safe is gone with what it
held, so `MoneyConserved` says that no step *but a deletion* changes it.

### StockLedger

The handlers share one shape and differ in five ways, which the records `Sale`,
`Purchase`, `PurchaseCancel`, ... state: whether lines add, take or set; how the
quantity is read (not at all, once before the first line, at each line, with a
lock); what happens below zero (refused by the WHERE clause, cut off by
`Math.max`, allowed); how a repeated document is noticed (a status read before the
transaction, a unique index or conditional UPDATE, not at all); and whether the
quantities are compared before the transaction. `Claim`, `Prefetch`, `ReadLine`,
`LockLine`, `Write`, `Short` and `Commit` interpret the record. A line of a count carries
physical minus system quantity, below zero for a shortage, and is added to what the product
holds by now with no floor (`inventory-control.ts:327`); `NeverBelowZero` are the jobs without
such a line.

### SaleLifecycle

`Programs` lists, for each kind of request, the rows its transaction locks in
order, with the reads in between; `createJournalEntry` locks the accounts in the
order of the lines of the entry. `ReceiveAgain` is the answer to a known
`x-request-id`; `autopost` is the second transaction of a cashier's creation. `ReceiveReturn`
compares money, the amount the client claims with what is left of the invoice (`MoneyBack`), not
pieces. A return that names its line is bounded by the pieces when it is written; one that names
the product falls back to a line without enough left, which is why `ReturnedWithinSold` is about sales whose
returns name their line ("returnByProduct" is not among their `Kinds`).

### CashVouchers

One action per statement of creation and deletion (`StillThere`, `ReadSafe`,
`UpdateSafe`, `ReadCustomer`, `UpdateCustomer`, `InsertRow` or `DeleteRow`,
`Commit`), and of posting and cancelling, which have no transaction
(`InsertEntry`, `InsertReversal`, `SetStatus`). The kinds of document differ in
whether they bring or take cash (`Effect`), name a customer, carry a request_id,
compare the balance (`Guarded`) and read the safe first (income).

### StaffCash

Three groups of handlers around the safes. An advance: `ReceiveAdvance` counts the
active ones, `InsertAdvance` inserts; `ReceiveApproval` and `ReadSafe` are the reads
before the transaction of `GrantAdvance`; `ManualPayment` locks the row of the
advance. A custody: granted, settled (`ReceiveSettlement`, `Settle`: the
conditional UPDATE), reimbursed, deleted. A period: `ReceiveProcess` reads it as
a draft, each `Look` and `InsertSlip` commits by itself, and `Processed` sets the status
last, so that a failure leaves a draft with some of its records, which is processed again;
`ApprovePeriod` and `ApproveSlips`; `PayPeriod` pays
all at once, and `ReceivePayment`, `DebitSalary`, `CountUnpaid` and `CommitPayment` pay one record
and close the period with the last. Besides `Shared`, `Reviewed` says for which periods
records are reviewed after they were paid.

### RepairJobs

`ReceiveMove` reads the job and checks what the stage requires; `Move` and
`InsertHistory` are the two statements that commit by themselves; a move to
delivered is the transaction `LockJob`, `ReadServices`, `LockCommissions`. The history
matters because only reports after the last entry into the repair count: `reports`
is what the code counts, `written` whether there is a report of the present
repair; the history row of a payment names the status the job has, so it counts as another entry
(`RowOf`). `ReceiveDeliveryAgain` is "delivered" sent for a delivered job, which runs the
delivery once more.

`ReceivePayment` compares an amount with the rest of the price (`cost`); `InsertPayment` writes
`deposit_paid` from the sum that was read. `banked` is the part of the payments whose rows name
the safe, which a deletion gives back (`DeletePayment`). `Review` and `SettleShipping` are the two requests of
the delivery gate: the review takes any amount, in cash or on credit, compared with nothing in the
client or the server, and only cash reaches the safe; `atGate` remembers what it took. `Correct` is the PATCH,
or the creation, that writes `final_cost` and `deposit_paid` as they are sent. `ReceiveReturn` and `TakeBack` are the
customer's return, `Share` the rounding of what is taken
back from a technician. Besides `Shared`, `Flaky` says for which jobs a change of status may
stop between its two statements, `Corrected` for which price and deposit are written by hand.

### CustomerMoney

`Programs` is the sequence of statements of each handler, as in `SaleLifecycle`, with the
reads that matter: `readCustomer` and `readSafes` are plain SELECTs, `customer`, `safe`,
`safe2` and `product` the UPDATEs that wait for a row, and the order differs from handler to
handler. At the COMMIT a row gets the value computed from what was read
(`DebtChange`, `CashChange`), while the ledger gets a row with the change itself
(`LedgerChange`), so that the two part when a read was stale. `CheckNoReturns` precedes the
transaction of a cancellation; `CheckStillThere` and `ReadLines` begin the deletion of a
return, which finds no line to lock a product for when another deletion of the return committed first
(`undoEmpty`).
`SafesFound` are the safes a handler may pick when the document names none: the query for
the main safe has a LIMIT and no ORDER BY. `Terms` holds the invoices, `Asked` and `Ways` what clients
ask for which customer; requests of a customer in `Serial` do not overlap.

### GeneralLedger

Manual entries commit statement by statement: `InsertEntry` inserts the row, `FetchAccounts` reads the
balances of all its accounts, `InsertLines` inserts the lines, and each `WriteAccount` writes the balance
that was read plus one line. Posting is `SetPosted`, `FetchAccounts` and the same writes; a
deletion is `DeleteLines` and `DeleteEntry`, whose foreign key keeps an entry that got lines meanwhile;
only the reversal is a transaction (`ReverseEntry`), and it reads the balances without a lock as well. `Lines` holds
the lines with debits above and credits below zero; `Sign` is the side an account grows on by hand. The row
and the lines of an entry that `postEntry` writes are one step: a row without lines holds no amount.

Depreciation and disposal (`PostEntry`, `AddToAccount` for each line, then `Accumulate` and `InsertRun`, or `Close`)
commit one by one too, but change balances with relative UPDATEs. A recognition is one transaction
(`Recognize`). `Portion` is a month's charge as a function of what has been charged, which covers both
methods of depreciation; `Amount` cuts it to the rest. Entries that are not manual are kept as the sums of
their lines (`ledger`), for manual ones the lines are added from `status` and `lined`, because they come and go.
An asset takes the accounts of its code, so `Debit`, `Credit` and `AssetAccount` may agree for several.

`Repair` is POST /integrity/repair-accounts: one UPDATE that writes into the balances of a company
(`Repaired`) what the lines of *all* its entries add up to. The query asks for posted entries in a LEFT JOIN whose
columns it does not use (`lib/integrity.ts:245-253`), so the lines of drafts are in (`Recounted`), as they are in the check of the same
file (108-111). `Posted` leaves drafts out: it is what a balance stands for, "after each entry is posted" (line 87). The repair is one
step; on the accounts that are exact it changes nothing, so that it need not wait for a lock of theirs.

The requests are `Clerks`, `asked[r]` is what one was sent with and `next[r]` its next statement;
what they do is `Accept`, `Proceed` or `BreakOff`. (The names differ from those of `StockLedger` because
`LedgerProofs` extends both.)

### ConnectionPool

A request is authenticated once for each router in front of its route that asks for
it (`layer`); each time it borrows a connection for the user (`Borrow`,
`LookedUp`), pins one and sets the company on it (`Pin`), and then adds the listeners that
release it (`Listen`). The handler borrows others. The end of a response
(`Answer`, `EndEarly`, `Close`) hands the pinned connections to `ClearAndRelease`. `TimeoutPin`
and `TimeoutBorrow` are the connection timeout of the pool; after a failed pin
`SetContextOnPool` sets the company on whatever connection it is given, from where on
`openly` is true and `ContextIsOwn` promises nothing.

### Shared documents

Two people may work on one document at the same time, and several handlers do not
defend against it. Each module has a constant that says for which documents it
happens (`Shared`; `Jobs` in `StockLedger`), so that a run has both kinds: the
properties that hold regardless are checked on all of them, those that need order
on the others, and the runs that expect a violation show what breaks. For all
documents, nobody works on one whose creation is in progress, since its id is not
known before. Which sale, safe, customer or petty cash an abstract book describes is a constant of the
detailed module (`Audited`, `Drawer`, `Regular`, `Petty`), so that the theorems say it of each.

## 3. Runs

Deadlock is checked in every run: a state without a step would be an error.
`Quiescent` is the state in which all requests are answered and the bound on
requests is used up.

| Run | Instance | Shows |
|---|---|---|
| `safe_transfer` | 3 safes of 2 companies, 2 requests, amounts 0, 2, 3 piastres, fees none, fixed, percent; one safe deletable; 60 443 states | no overdraft, nothing but the deletion of a safe changes the money there is, rows explain balances, a commit finds both safes alive, the atomic transfer is implemented, every transfer is answered |
| `stock_exact` | 2 products in opposite orders, 3 requests: sales, cancellation, deletion of a return; 33 172 states | stock = movements, StockBook implemented (each document at once and whole), every request answered although waits may be circular |
| `stock_every_kind` | 1 product, 2 requests of any of the thirteen kinds, counts with a surplus only; 9 712 states | never negative, but for counts that found a shortage; claims that lock admit one posting |
| `stock_lost_update` | purchase and sale | *violation*: the purchase overwrites the sale |
| `sale_lifecycle` | 2 sales (one shared), 4 requests of any kind, 2 at a time; 236 000 states | returns that name their line within what was sold, status, returns and journal agree, SaleBook implemented for the orderly sale, every request answered |
| `sale_cashier_retry` | creation fails between its transactions and is sent again | *violation*: a cashier is told of a sale that is a draft |
| `cash_vouchers` | 7 documents of 7 kinds, 3 safes (orderly, shared, with income), 4 requests, 2 at a time; 96 200 states | no overdraft, ledger = balance, CashBook implemented for the orderly safe, every request answered |
| `staff_cash` | 2 advances of one employee (one needs no approval), a custody of the petty cash, a month for 2 employees, 6 requests, 2 at a time; 970 000 states | repayments and rest make up an advance, nobody is paid twice, a period is paid when its salaries are, CustodyBook implemented |
| `repair_jobs` | an orderly job and a shared one that may also stop half-way and is corrected by hand, a service each at 2 prices, 5 requests, 2 at a time; 596 000 states up to the symmetry of the requests | one commission per service, at its price, only the gate takes more than the price, no inspection without a report of the present repair, RepairBook implemented for the orderly job |
| `connection_pool` | 3 connections, requests of 2 companies, one authenticated twice, 3 in all, two at a time; they may want 5 connections; 43 600 states | no connection in two hands, no query in a foreign context while every pin succeeds, every request dealt with and its connections back |
| `customer_money` | 6 invoices (one paid into two safes) of 3 customers, 3 safes, any 3 requests, 2 at a time; 94 700 states | balance = ledger for a customer who waits for answers and for one whose invoices are about one product, whatever overlaps; CustomerBook implemented for the orderly customer; every request answered although waits may be circular |
| `general_ledger` | a company with a manual entry and 3 assets, of which 2 share their accounts and the third may overlap and stop half-way; one with a shared entry and 2 accruals (one shared) with common accounts, whose balances are repaired at any time; 2 months, any 3 requests, 2 at a time; 154 405 states | balances = sums of lines where the code protects them, although depreciations, recognitions and repairs overlap; nothing recorded that is not in the journal; the account of accumulated depreciation is that of the assets still there; ChargePlan implemented |

Further configurations show where a property ends because the code protects no more; each is one
`tlc -config <name>.cfg <module>.tla` away and ends with the violation named:

| Configuration (module) | Violated | Shows |
|---|---|---|
| `MCSafeTransferDeleted` (`MCSafeTransfer`) | `DeletedSafesEmpty` | a transfer commits into a safe between the checks of its deletion and the DELETE: the money is gone with the row |
| `MCSafeTransferFraction` (`MCSafeTransfer`) | `MoneyConserved` | 1.5 piastres: the source loses one, the destination gains two |
| `MCStockLedgerShortage` (`MCStockLedger`) | `StockNeverNegative` | a count finds as a shortage the two pieces that were sold since it began, and takes them off again |
| `MCSaleLifecycleByProduct` (`MCSaleLifecycle`) | `NothingReturnedTwice` | two returns by product, one after the other, take back more pieces than were sold |
| `MCRepairJobsRest` (`MCRepairJobs`) | `PaymentsWithinRest` | two payments, each within the rest, exceed the price together |
| `MCGeneralLedgerSign` (`MCGeneralLedger`) | `EveryAccountAddsUp` | a loan one person enters and posts leaves the debt with the opposite sign of its lines |
| `MCGeneralLedgerLost` (`MCGeneralLedger`) | `EveryAccountAddsUp` | of two entries posted at the same time the bank account keeps one |
| `MCGeneralLedgerDraft` (`MCGeneralLedger`) | `EveryAccountAddsUp` | a repair while an entry is a draft puts its lines into the balances |

**Why the bounds are enough.** Every hazard listed is between two actors, or one
actor and a failure; two concurrent requests reach all of them, and a third is
there in `stock_exact` for circular waits that leave a bystander. Amounts are
chosen so that one document fits into a safe or product and two do not, or only
after another one. Four requests per document allow create, post, cancel and
delete, or create, two returns and a deletion. The amounts of `safe_transfer` are whole piastres; half of one of
them is not, so that a fee has to be rounded. Six requests let an advance be asked for,
granted and repaid twice while another acts, a period be processed, stop, be processed again,
approved and paid. Five let a service be added to a job that is reviewed, settled, delivered, and then
returned, edited or delivered by a second person, or a job enter the repair twice and be reported and inspected.
The price of a job is one there: a refund is all of it, more or nothing; shares of it, and any number of services, are proved (`ShareBound`, `JobsImplementBook`). In `customer_money` three requests are an invoice, its return and the deletion of the return or its cancellation
meanwhile, or two invoices and a payment; a loss of one of two changes needs no more. In `general_ledger` three are an entry, its posting and
its reversal or deletion, two depreciations and a disposal, or two recognitions of one month at once. In `connection_pool` two requests want more connections
than there are, which is what ten do with the real pool. In `repair_jobs` the prices of a service are
no sums of each other, so that a commission credited twice cannot pass for one. What must hold for any number of requests,
documents and amounts is proved (section 5). `MaxSent` bounds the requests of a behaviour;
`Amounts`, `Jobs`, `Kinds` and `Voucher` bound the inputs.

**Fairness.** `FairSpec` assumes weak fairness of the next statement of each
handler: Node.js resumes a handler whose query was answered, and PostgreSQL grants
a free row. Where waits may be circular, also of `DeadlockVictim`: the detector
runs after a second of waiting. In `ConnectionPool` the steps of the server and the timers of its
pool are fair (`Work`): they are what ends the circular wait. `StaffCash`, `RepairJobs` and `GeneralLedger` have no liveness property:
their requests end by themselves. Clients, failures, deletions and administrators are never forced. Liveness
then says: every request that started is answered.

## 4. Findings

Two are reproduced by runs that expect a violation; the lines are quoted in
`PROJECT.json`.

1. `stock_lost_update`: absolute writes of `products.quantity` from unlocked reads lose
   concurrent sales; the movements stay.
2. `sale_cashier_retry`: the second half of a cashier's sale is lost and the retry
   reports success.

More that the models show, each a place where a property is stated with a
condition because the code does not protect the other case (a name in parentheses is one of the
further configurations of section 3):

* A status read before the transaction and set by id: posting a sale that was
  cancelled meanwhile, cancelling it twice, deleting a custody that was settled, moving a
  job that was delivered, returning it twice, processing or paying a period twice, paying a
  record that was approved again.
* Cancelling a sale that was paid into two safes takes the whole amount out of the first
  (`routes/sales/returns.ts:269`); `CashChange` does the same.
* A stock count writes the quantity plus physical minus system with no floor (`routes/inventory-control.ts:327`): what was
  sold between the start of the session and the counting is taken off twice, and the product ends below zero (`MCStockLedgerShortage`).
  The manual adjustment refuses such a quantity (`routes/inventory.ts:48`). `NeverBelowZero` leaves these counts out.
* A return by product is bounded by the money the client claims (`routes/returns/sales-returns.ts:136,166`) and falls back to the first
  line of the product without looking at its pieces (258-260): more goes back than was sold, without any overlap
  (`MCSaleLifecycleByProduct`). `ReturnedWithinSold` is about sales whose returns name their line.
* The delivery gate takes what the clerk enters, in cash or on credit; neither the client (`useDeliveryGate.ts:241-258`) nor the
  server (`pre-delivery.ts:186-202`) compares it with the rest, and the gate sends it again when its second request has failed.
  Two payments at a time may exceed the rest as well (`MCRepairJobsRest`), and PATCH writes price and deposit
  as sent. `PaymentsAddUp` allows above the price what the gate took, and leaves out shared and corrected jobs.
* A payment during the repair counts as another entry into it, so the report written before it no longer counts (`RowOf`).
* A voucher of a customer without an account is booked when it is posted and not reversed when it is
  cancelled (`SetStatus` of `CashVouchers`).
* The DELETE of a safe repeats none of its checks, so it may delete a safe that received
  money meanwhile, with the money (`MCSafeTransferDeleted`), although `routes/settings/safes.ts:135` refuses a safe with a balance. The fee of a transfer has a row of its own next to the
  gross row that contains it, so a statement computed from the rows ends one fee below the balance.
* `Math.max(0, ...)` cuts the quantity but not the movement; a sale that is cancelled can be
  returned (`SaleBook` allows `TakeBack` in every status, as the code does).
* The payroll deducts all that remains of an advance and leaves `remaining_balance` as it is, so
  the next period deducts it again.
* Deleting a sale return on account gives the amount back to `customers.balance` and writes no row to
  `customer_ledger` (`routes/returns/sales-returns.ts:504`), although `lib/integrity.ts:142` says the two agree;
  `DebtIsLedger` leaves out customers whose sale returns are deleted.
* A voucher entry and its posting status are written without a transaction (`routes/receipt-vouchers.ts:202`): after a
  stop between them posting again books it twice.
* Manual entries and reversals move a liability, equity or revenue account on its normal side, while depreciation, disposal
  and accruals add debit minus credit, which is what `lib/integrity.ts:89` expects of every account (`MCGeneralLedgerSign`). Balances are
  absolute writes of values read without a lock (`MCGeneralLedgerLost`), and posting an entry that is posted already counts its lines twice.
  `AccountsAddUp` leaves out credit-normal accounts of manual entries and accounts two entries write.
* The check and the repair of the balances count the lines of drafts: a draft is reported as drift, and after a repair its posting
  counts it twice (`MCGeneralLedgerDraft`). A repair during a depreciation, or after an entry got its lines and before it
  writes the balances, counts these twice too. Of the accounts that are repaired `AccountsAddUp` keeps those that only accruals write.
* A depreciation that stops after its entry is booked again for the same month, and two recognitions of one month at
  the same time are both booked (`Flaky` and `Shared` of `GeneralLedger`).
* The creation of an asset posts nothing, so its account ends at minus its cost when it is disposed of.
* The end of a response that comes before the listeners are set is not heard, and the pinned
  connection never comes back (`Leavers` of `ConnectionPool`, empty in the run).

Where a proof has a hypothesis, the code breaks
the conclusion without it: with amounts of fractions of a piastre the debit and
the credit of a transfer are rounded apart (`MCSafeTransferFraction`); a customer whose vouchers go through
two safes, or who also buys or pays elsewhere, has a balance two handlers can
write at once; a safe with income can lose a concurrent expense.

## 5. Proofs

All theorems hold for every value of the constants that satisfies the
assumptions: any number of safes, products, sales, documents, requests and
amounts. The assumptions (`SafesAssumption`, `RequestsAssumption`, `StockAssumption` and
its like) say what the schema and the validation guarantee: sets have the
right type, balances begin non-negative, `NoRequest` is no request.

| Theorem | Hypothesis | Inductive invariant |
|---|---|---|
| ServerProofs: `NeverOverdrawn`, `NeverDirty`, `LocksAlwaysAscend`, `CommitsBetweenLiveSafes` | — | `TransferInv` |
| `RowsAlwaysExplain`, `MoneyAlwaysConserved` (no step but a deletion), `TransferRefinesPromise` | `WholePiastres` | `TransferInv` |
| `AlwaysHeldOnce`, `ContextAlwaysOwn` | — | `PoolInv` |
| LedgerProofs: `NeverNegative` | every job `NeverBelowZero`: all but counts that found a shortage | `QuantitiesInv` |
| `MovementsAlwaysExplain`, `LedgerImplementsBook` | every job `Exact` | `LedgerInv` |
| `ClaimedAtMostOnce` | `OneClaimPerDoc` | `ClaimInv` |
| `AccountsAlwaysAddUp` | — (see `ExactAccount`: where balances are repaired, the accounts of accruals) | `ClerksInv`, `RelativeInv`, `HandInv` |
| `ChargesAlwaysAddUp`, `JournalImplementsPlan` | — (the record: `Steady` schedules) | `ClerksInv`, `ChargeInv` |
| `BookValueAlwaysInJournal` | — (accounts of `Steady` assets, see `Accumulates`) | `ClerksInv`, `ChargeInv`, `WornInv` |
| SaleLifecycleProofs: `ReturnedAlwaysWithinSold` | — (sales whose returns name their line) | `ReturnInv` |
| `JournalFollowsStatus`, `CancelledStays` | — (unshared sales) | `OrderlyInv` |
| `DocumentsAlwaysAgree` | — (unshared sales) | `OrderlyInv`, `DocsInv` |
| `LifecycleImplementsBook` | `Audited` is unshared | `OrderlyInv`, `DocsInv` |
| CashVouchersProofs: `NeverOverdrawn` | — | `LockInv`, `EnoughInv` |
| `PostedAlwaysKept`, `LedgerAlwaysExplains` | — (see the properties) | `VouchersInv`, `DebtInv` |
| `VouchersImplementBook` | `Orderly` | `VouchersInv` |
| StaffCashProofs: `AdvancesAccounted` | — (unshared advances) | `AdvanceInv` |
| `NobodyPaidTwice` | — (unshared, unreviewed periods) | `PayrollInv` |
| `PeriodAlwaysFollows` | — (such periods, paid from one safe) | `PayrollInv`, `FollowInv` |
| `CustodiesImplementBook` | `PettyApart` | `TypesInv`, `CustodyInv` |
| RepairJobsProofs: `EarnedOnce`, `EarnedAsPriced` | — (the second: unshared jobs) | `BaseInv`, `ServiceInv` |
| `PaidWithinRest` | — (unshared jobs that are not corrected by hand) | `BaseInv`, `PayInv` |
| `InspectedAfterReport` | — (unshared jobs that do not stop half-way) | `BaseInv`, `ReportInv` |
| `JobsImplementBook` | — (unshared jobs) | `BookInv` |
| CustomerMoneyProofs: `DebtAlwaysLedger` | — (see the property) | `DebtInv` |
| `MoneyImplementsBook` | `OrderlyHome` | `DebtInv`, `HomeInv` |

All proof modules also contain `TypeCorrect` (`PoolTypeCorrect` for the connections, `JournalTypeCorrect` for the journal), that `TypeOK` always holds;
only `staff_cash` and `general_ledger` (as `JournalTypeOK`) check it, the others would show nothing more, and neither do they check
`PostedIsKept` (a posted voucher is not deleted), which `PostedAlwaysKept` proves. The arguments:

* **Transfers.** No overdraft is not inductive: a rollback restores `balance`, so the
  invariant must say that the row nobody holds is clean, and that a request past a
  lock statement holds what it locked (one part of `TransferInv`). With it the WHERE
  clause of the debit speaks of the value the COMMIT publishes. The mapping to
  `MoneyTransfer` sends every statement to a stutter but the COMMIT.
* **Sums.** The money in all safes, the pieces of all returns, the salaries of a period and
  the commissions of a job are sums over sets of any size. `Sums` proves what the proofs need of them without induction over the sets: if a
  law of sums failed, it would fail for a subset none of whose proper subsets it fails for (`Smallest`),
  and taking one element out of that subset refutes it. A step then changes at most a term or two of a sum (`SumUpdate`).
* **Stock.** `LedgerInv` ties the working value to the committed one plus the
  movements not yet committed (`Pending`), and says that a value read under a lock is
  still the value of the row when it is written (`Fresh`).
* **Balances.** An account that only relative updates write is behind its ledger by the lines that are posted and not
  yet added, summed over all requests (`Dues`); every step moves the two sides alike, also for
  accounts that several assets and accruals share. An account of one entry is written from a balance that was read,
  so there the invariant follows the one request that is at the entry: what it has read, plus the lines it still has
  to write, is what the entry is worth (`BalanceAt`, `Owed`). On a credit-normal account `Sign` breaks this, which is why
  `ExactAccount` leaves it out. A repair writes into an account that only accruals write what it
  already holds, since a recognition commits lines and balance together (`RelativeRepaired`); the accounts by hand
  that the invariant speaks of are not repaired.
* **Charges.** A charge that was worked out leaves the record within the limit and, once posted, within the journal
  (`ChargeAt`), whatever overlaps, because `charged` never falls; for `Steady` schedules the amount
  read is still the record when it is written (`SteadyAt`).
* **Book value.** What an account of accumulated depreciation holds of an asset is what was charged
  for it until its disposal is posted, and nothing from there on, although the status follows only later (`Carried`,
  `Leaving`). That the disposal takes out all that was charged needs that record and
  journal agree at that moment, which `ChargeInv` gives. `Accumulates` leaves out accounts that other
  entries write too: the code names these accounts with a prefix of their own (`ASSET-ACCDEPR-`, `fixed-assets.ts:231`),
  but a manual entry may name any account.
* **Claims.** Once a document is applied or claimed by a transaction past its
  claim, no other transaction is past the claim of the same document.
* **Returns.** `quantity_returned` was read without a lock, but a request that has read it
  writes an absolute value in range; that every value read is in range is the
  invariant.
* **Sales.** For an unshared sale at most one request is at work, and
  the status it read is still the status; so the entry is booked by
  whoever changes the status. The returns of such a sale have ids of their own and name items that exist (`DocsInv`),
  so that a return or its deletion moves the sum of the documents by what it moves the column.
* **Vouchers.** The row of the safe is locked from the first UPDATE to the COMMIT, so the
  comparison in the WHERE clause still holds at the COMMIT (`EnoughInv`). The same lock
  protects the customer: for a customer whose vouchers use one safe, the request
  that has read `customers.balance` holds the lock of that safe, so nobody else has written it
  (`DebtInv`). This is the reason why an unlocked read-modify-write is
  correct there, and it fails as soon as a second safe is used.
* **Payroll.** An employee may get a second record only if `Look` does not see the first: a request that
  processes a period of its own alone has read every record it has not itself
  inserted, and the status of the period keeps payments and processing apart.
* **Periods.** Whoever pays one salary of a period holds the row of the safe from the debit to the commit, so the payments
  from one safe take turns (`TakeTurns`): a request that has counted no other unpaid record is still right when
  it closes the period (`DeskInv`).
* **Custodies.** Settlement and reimbursement look at the custody in the statement that changes it; the deletion does not,
  and is right because whoever deletes a custody is alone with it (`DeletesAlone`). A custody that was not yet settled owes
  nothing (`Unowed`).
* **Commissions.** The delivery that has read the services holds the row lock of the
  job, so of two deliveries at once the second reads the services only when the first
  has locked their commissions; a service that is not locked has earned nothing, whatever
  edits come between. That the amount is the price of the service needs a job
  nobody edits meanwhile (`PricedInv`).
* **Repairs.** A request of an unshared job writes the status by id and finds it as it read it, since it is alone
  with the job (`Undecided`); and nothing was taken back of a job that is not returned (`StageInv`), so a delivery credits at
  most the highest price per service and a return takes back at most that: the rounded share of a commission never exceeds it (`ShareBound`).
* **Inspection.** Between the new status and its history row the count of reports is that
  of the previous repair; nobody else can use it on an unshared job (`Entering`), and a stop
  there is what the hypothesis excludes.
* **Debts.** A request that has read `customers.balance` and not yet committed holds the row of its
  product (`HoldsProduct`) or is the only one of its customer (`SerialAlone`); either way nobody has written the
  balance since, so what it read is still the balance (`Fresh`), and what it writes is the
  balance plus the row of the ledger. `JobsAsked` carries what clients ask for from the
  request to its COMMIT.
* **Accounts.** What a request of the regular customer has checked or read is still so when it writes, since nobody else changes
  the customer's documents or pays into the two safes of the regular products (`RegularPrepared`); a return has a number nobody else uses, and
  whoever deletes it knows its amount (`Numbered`). So cancelling and deleting undo exactly what the document moved.
* **Connections.** A listened-to connection is pinned by the request that listens
  (`WatchedPinned`), and an idle one carries no company (`IdleClean`) until a context was set openly.

**Only model-checked:** liveness (no prover here does fairness or `ENABLED`). `NeverDirty` and `LocksAlwaysAscend` are proved
and not model-checked: the properties of `safe_transfer` fail without them.

## 6. What is left out

* Rows of `transactions` other than those of transfers, audit logs, notifications: no
  handler of the models reads them.
* The journal of documents is a count of entries per document; the accounts are present in `SaleLifecycle` as
  rows that are locked. `GeneralLedger` has lines and balances, of manual entries, assets and accruals. It leaves out
  entry numbers (counted and without a unique index), the reversal of a reversal or of an automatic
  entry, the repair of the balances of customers (`lib/integrity.ts:272-297`), the creation and the edit of accounts, months whose charge rounds to nothing, and fiscal years.
* Of the money of customers: returns without an invoice, invoices whose payments differ from the
  total by up to 0.05, purchases whose `payment_type` contradicts `paid_amount`, the absolute edit of a balance
  (`routes/customers/crud.ts:124`), and vouchers, which `CashVouchers` models: neither module says
  anything of a customer who has both at the same time.
* `assertPeriodOpen` refuses a request before it writes; the models contain the
  requests it lets through.
* Tenants: a handler adds `company_id` to every WHERE clause; except in transfers,
  which take two ids from the body, the models contain one company.
* Of the payroll: settings, bonuses, single deductions and the journal of a payment. Of the
  workshop: the deletion of jobs, their creation but for the deposit it writes, the parts bought at the delivery gate, the conditions of the stages before the repair,
  external workshops, warranty cards, and the endpoint `delivery-payment`, which no client
  sends. Of the connections: errors of the statements that set and clear the company, which the code
  swallows, and the policies themselves.
* Stock per warehouse. A branch transfer never gets past approved, because the query of its shipment
  locks the rows of an aggregate (`routes/stock-transfers.ts:286-294`), which PostgreSQL refuses.
* The frontends, except where they decide what is sent (the buttons of an entry in `GeneralLedger`, the delivery gate of
  `RepairJobs`), the reports and the generated clients, which are most of the lines of the
  repository: they keep no state the server shares between requests.
* The edit of a safe (`routes/settings/safes.ts:83`) and its closing (211), edits of products to absolute values, second-hand devices, sales returns without a sale.

## 7. Plan

In order; a module is followed by its proofs when it holds a promise worth one.

1. `SafeDay`: closing, absolute edits, statement.
2. Fiscal years on top of `GeneralLedger`: closing entries, and the entries of documents with their lines.
3. `PeriodLock` and `RefreshTokens`: small protocols.
4. `AverageCost` as an algorithm over bounded inputs against the value of stock.

Runs are few on purpose: when a component is added, a run that shows a weaker disagreement
gives way to one that shows what the new component guarantees.
