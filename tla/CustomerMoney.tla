---------------------------- MODULE CustomerMoney ----------------------------
(***************************************************************************)
(* What customers owe and what their documents do to the safes: sales and  *)
(* purchases, their cancellation, returns and the deletion of returns, and *)
(* the payments a customer makes or receives without a document.           *)
(*                                                                         *)
(* Each handler is one PostgreSQL transaction at READ COMMITTED.  All read *)
(* customers.balance and safes.balance by plain SELECTs and write absolute *)
(* values back, in different orders.  A document has one line; it stays a  *)
(* draft, since posting (SaleLifecycle) moves no money.  Quantities are in *)
(* StockLedger: rows of products are here for their locks.  The locks of   *)
(* journal accounts, of lines and of the documents themselves are left     *)
(* out: the model waits less than the code.                                *)
(***************************************************************************)
EXTENDS Integers, Sequences, FiniteSets, FiniteSetsExt

CONSTANTS
  Docs,        \* the sales and purchases the clients create
  Terms,       \* Terms[d]: what document d says
  Customers,   \* ids of the rows of table customers
  NoCustomer,  \* not a customer: a walk-in
  Safes,       \* ids of the rows of table safes
  NoSafe,      \* not a safe
  OnAccount,   \* not a safe: the refund goes to the customer's balance
  Products,    \* ids of the rows of table products
  Opening,     \* Opening[s]: the balance of safe s to begin with
  Asked,       \* Asked[c]: what clients ask for customer c
  Ways,        \* Ways[c]: where the money of returns and payments goes
  Amounts,     \* the amounts of payments
  Serial,      \* the customers whose requests never overlap in time
  Regular,     \* the customer CustomerBook describes
  Home,        \* the safes in that book
  MaxSent,     \* bound: requests sent
  Requests,    \* the requests in progress at a time
  NoRequest    \* not a request: nobody holds the lock

Creating == {"sell", "buy"}
Returning == {"return", "sendBack"}
Undoing == {"undo", "undoEmpty"}
Paying == {"receipt", "payment", "supplierPayment"}
Kinds == Creating \cup {"cancel"} \cup Returning \cup Undoing \cup Paying
Parties == Customers \cup {NoCustomer}
Places == Safes \cup {NoSafe, OnAccount}

ASSUME MoneyAssumption ==
  /\ Docs # {}
  /\ NoCustomer \notin Customers
  /\ {NoSafe, OnAccount} \cap Safes = {} /\ NoSafe # OnAccount
  /\ Terms \in [Docs -> [type : {"sale", "purchase"}, customer : Parties,
                         product : Products, credit : Nat,
                         safe : Safes \cup {NoSafe}, cash : Nat,
                         safe2 : Safes \cup {NoSafe}, cash2 : Nat]]
  /\ \A d \in Docs : /\ Terms[d].cash > 0 <=> Terms[d].safe # NoSafe
                     /\ Terms[d].cash2 > 0 <=> Terms[d].safe2 # NoSafe
  /\ Opening \in [Safes -> Nat]
  /\ Asked \in [Parties -> SUBSET Kinds]
  /\ Ways \in [Parties -> SUBSET Places]
  /\ Amounts \subseteq Nat \ {0}
  /\ Serial \subseteq Customers
  /\ Regular \in Customers
  /\ Home \subseteq Safes
  /\ MaxSent \in Nat
  /\ NoRequest \notin Requests

VARIABLES
  status,      \* status[d]: "none": no row, "active", "cancelled"
  debt,        \* debt[c]: committed value of customers.balance
  ledger,      \* ledger[c]: sum of the rows of customer_ledger
  balance,     \* balance[s]: committed value of safes.balance
  returns,     \* the rows of sales_returns and purchase_returns
  lockedBy,    \* lockedBy[row]: the transaction that holds the row lock
  job,         \* job[r]: what request r asks for
  at,          \* at[r]: the statement of its program r is at; 0: no request
  seenDebt,    \* seenDebt[r]: the customer's balance r has read
  seenCash,    \* seenCash[r][s]: the balance of safe s r has read
  sent         \* requests sent so far

moneyVars == <<status, debt, ledger, balance, returns>>
vars == <<status, debt, ledger, balance, returns, lockedBy, job, at,
          seenDebt, seenCash, sent>>

-----------------------------------------------------------------------------
(* What a request changes *)

Job == [kind : Kinds, doc : Docs, customer : Parties, amount : Nat, via : Places,
        id : 0..MaxSent]
Return == [id : 1..MaxSent, doc : Docs, amount : Nat, via : Places]

DocsOf(c) == {d \in Docs : Terms[d].customer = c}
IsSale(d) == Terms[d].type = "sale"

\* A sale adds to what the customer owes and to the safe, a purchase takes away.
Sign(d) == IF IsSale(d) THEN 1 ELSE -1

\* Everything that was paid, and the invoice's total.
Paid(d) == Terms[d].cash + Terms[d].cash2
Total(d) == Terms[d].credit + Paid(d)

\* The amount a request is about, as it changes what the customer owes.
Entry(j) ==
  CASE j.kind \in Creating -> Sign(j.doc) * Terms[j.doc].credit
    [] j.kind = "cancel" -> - Sign(j.doc) * Terms[j.doc].credit
    [] j.kind \in Returning -> - Sign(j.doc) * j.amount
    [] j.kind \in Undoing -> Sign(j.doc) * j.amount
    [] j.kind \in {"receipt", "payment"} -> - j.amount
    [] j.kind = "supplierPayment" -> j.amount

\* customers.balance: a refund in cash leaves it alone.
DebtChange(j) ==
  IF \/ j.customer = NoCustomer
     \/ j.kind \in Returning \cup Undoing /\ j.via # OnAccount
  THEN 0 ELSE Entry(j)

\* customer_ledger: a sale return has a row even when it is paid in cash, its
\* deletion has none.
LedgerChange(j) ==
  IF j.kind = "return" /\ j.customer # NoCustomer THEN Entry(j)
  ELSE IF j.kind \in Undoing /\ IsSale(j.doc) THEN 0
  ELSE DebtChange(j)

\* safes.balance: a sale may be paid into two safes; its cancellation takes
\* everything from the first.
CashChange(j, s) ==
  LET t == Terms[j.doc]
  IN CASE j.kind \in Creating ->
            Sign(j.doc) * ((IF s = j.via THEN t.cash ELSE 0)
                             + (IF s = t.safe2 THEN t.cash2 ELSE 0))
       [] j.kind = "cancel" -> IF s = j.via THEN - Sign(j.doc) * Paid(j.doc) ELSE 0
       [] j.kind \in Returning \cup Undoing -> IF s = j.via THEN Entry(j) ELSE 0
       [] j.kind \in Paying -> IF s = j.via THEN - Entry(j) ELSE 0

ReturnsOf(d) == {b \in returns : b.doc = d}
ReturnedOf(docs) == MapThenSumSet(LAMBDA b : b.amount, {b \in returns : b.doc \in docs})
TotalOf(docs) == MapThenSumSet(Total, docs)

-----------------------------------------------------------------------------
(* Rows and statements *)

\* The order of the statements: a sale updates the customer before the safes, a
\* purchase and a payment the other way round; the refund of a purchase return
\* comes before the goods.  No lines are found when the return is gone.
Programs ==
  [sell |-> <<"readSafes", "product", "readCustomer", "customer", "safe", "safe2", "commit">>,
   buy |-> <<"product", "readSafes", "safe", "readCustomer", "customer", "commit">>,
   cancel |-> <<"noReturns", "product", "readCustomer", "customer", "readSafes", "safe", "commit">>,
   return |-> <<"product", "readCustomer", "customer", "readSafes", "safe", "commit">>,
   sendBack |-> <<"readSafes", "safe", "readCustomer", "customer", "product", "commit">>,
   undo |-> <<"stillThere", "lines", "product", "readCustomer", "customer", "readSafes",
              "safe", "commit">>,
   undoEmpty |-> <<"stillThere", "lines", "readCustomer", "customer", "readSafes", "safe",
                   "commit">>,
   receipt |-> <<"readCustomer", "customer", "commit">>,
   payment |-> <<"readCustomer", "readSafes", "safe", "customer", "commit">>,
   supplierPayment |-> <<"readCustomer", "readSafes", "safe", "customer", "commit">>]

\* Mutant: the cancellation reads the customer before it locks the product.
EarlyRead(j) ==
  IF j.kind = "cancel"
  THEN <<"noReturns", "readCustomer", "product", "customer", "readSafes", "safe", "commit">>
  ELSE Programs[j.kind]

Program(j) == Programs[j.kind]

\* The row a statement locks; none, when it has nothing to change.
Rows == ({"product"} \X Products) \cup ({"customer"} \X Customers) \cup ({"safe"} \X Safes)
RowOf(j, statement) ==
  CASE statement = "product" -> <<"product", Terms[j.doc].product>>
    [] statement = "customer" -> <<"customer", IF DebtChange(j) = 0 THEN NoCustomer ELSE j.customer>>
    [] statement = "safe" -> <<"safe", j.via>>
    [] statement = "safe2" -> <<"safe", Terms[j.doc].safe2>>
Locking == {"product", "customer", "safe", "safe2"}

Idle(r) == at[r] = 0
At(r, statement) == ~ Idle(r) /\ Program(job[r])[at[r]] = statement
Advance(r) == at' = [at EXCEPT ![r] = at[r] + 1]

\* The handler returns, and its variables are gone.
AnyDoc == CHOOSE d \in Docs : TRUE
NoJob == [kind |-> "receipt", doc |-> AnyDoc, customer |-> NoCustomer, amount |-> 0,
          via |-> NoSafe, id |-> 0]
NothingSeen == [s \in Safes |-> 0]
Finish(r) ==
  /\ at' = [at EXCEPT ![r] = 0]
  /\ job' = [job EXCEPT ![r] = NoJob]
  /\ seenDebt' = [seenDebt EXCEPT ![r] = 0]
  /\ seenCash' = [seenCash EXCEPT ![r] = NothingSeen]

\* COMMIT and ROLLBACK release the locks.
Release(r) ==
  lockedBy' = [row \in Rows |-> IF lockedBy[row] = r THEN NoRequest ELSE lockedBy[row]]

\* Mutant: the transaction is abandoned and not rolled back.
AbandonKeepsLocks(r) ==
  Finish(r) /\ UNCHANGED <<moneyVars, lockedBy, sent>>

Abandon(r) == Finish(r) /\ Release(r) /\ UNCHANGED <<moneyVars, sent>>

-----------------------------------------------------------------------------
(* Requests arrive: what the handlers check before they write.  A request  *)
(* that is refused here changes nothing and is not a step.                 *)

\* The clients of a Serial customer wait for the answer; nobody creates a
\* document twice at the same time.
MaySend(r, j) ==
  /\ Idle(r)
  /\ sent < MaxSent
  /\ j.kind \in Asked[j.customer]
  /\ \A q \in Requests : ~ Idle(q) =>
       /\ job[q].customer = j.customer => j.customer \notin Serial
       /\ j.kind \in Creating => ~ (job[q].kind = j.kind /\ job[q].doc = j.doc)

Send(r, j) ==
  /\ MaySend(r, j)
  /\ job' = [job EXCEPT ![r] = j]
  /\ at' = [at EXCEPT ![r] = 1]
  /\ sent' = sent + 1
  /\ UNCHANGED <<moneyVars, lockedBy, seenDebt, seenCash>>

About(kind, d, amount, via, id) ==
  [kind |-> kind, doc |-> d, customer |-> Terms[d].customer, amount |-> amount,
   via |-> via, id |-> id]

ReceiveCreate(r, d) ==
  /\ status[d] = "none"
  /\ Send(r, About(IF IsSale(d) THEN "sell" ELSE "buy", d, 0, Terms[d].safe, 0))

\* A sale keeps its first safe.  A purchase does not: its cancellation takes the
\* first row it finds of those written for the purchase, and only the row of the
\* cash names a safe, the row of the credit does not.
SafesFound(d) ==
  {Terms[d].safe} \cup (IF ~ IsSale(d) /\ Terms[d].credit > 0 /\ Terms[d].customer # NoCustomer
                        THEN {NoSafe} ELSE {})

ReceiveCancel(r, d) ==
  /\ status[d] = "active"
  /\ \E via \in SafesFound(d) : Send(r, About("cancel", d, 0, via, 0))

\* The returns so far and this one stay within the total of the invoice, and
\* within all the customer was ever sold; no status is looked at.
WithinTotals(d, amount) ==
  /\ ReturnedOf({d}) + amount <= TotalOf({d})
  /\ LET sold == {e \in DocsOf(Terms[d].customer) : IsSale(e) /\ status[e] # "none"}
     IN Terms[d].customer # NoCustomer => ReturnedOf(sold) + amount <= TotalOf(sold)

ReceiveReturn(r, d) ==
  /\ status[d] # "none"
  /\ \E amount \in 1..Total(d), via \in Ways[Terms[d].customer] :
       /\ IsSale(d) => WithinTotals(d, amount)
       /\ ~ IsSale(d) => via # NoSafe
       /\ Send(r, About(IF IsSale(d) THEN "return" ELSE "sendBack", d, amount, via, sent + 1))

ReceiveUndo(r) == \E b \in returns : Send(r, About("undo", b.doc, b.amount, b.via, b.id))

\* Payments name no document.  A receipt names no safe, a payment may.
ReceivePayment(r, c) ==
  \E kind \in Paying, amount \in Amounts, via \in Ways[c] \ {OnAccount} :
    /\ kind = "receipt" => via = NoSafe
    /\ kind = "supplierPayment" => via # NoSafe
    /\ Send(r, [kind |-> kind, doc |-> AnyDoc, customer |-> c,
                amount |-> amount, via |-> via, id |-> 0])

-----------------------------------------------------------------------------
(* The statements *)

\* Mutant: the check for returns is gone.
CheckNothing(r) ==
  /\ At(r, "noReturns")
  /\ Advance(r)
  /\ UNCHANGED <<moneyVars, lockedBy, job, seenDebt, seenCash, sent>>

\* "An invoice linked to returns cannot be cancelled", before the transaction.
CheckNoReturns(r) ==
  /\ At(r, "noReturns")
  /\ IF ReturnsOf(job[r].doc) = {}
     THEN Advance(r) /\ UNCHANGED <<moneyVars, lockedBy, job, seenDebt, seenCash, sent>>
     ELSE Abandon(r)

IsThere(r) == \E b \in returns : b.id = job[r].id

\* The row of the return, and then its lines, without a lock.
CheckStillThere(r) ==
  /\ At(r, "stillThere")
  /\ IF IsThere(r)
     THEN Advance(r) /\ UNCHANGED <<moneyVars, lockedBy, job, seenDebt, seenCash, sent>>
     ELSE Abandon(r)

ReadLines(r) ==
  /\ At(r, "lines")
  /\ job' = [job EXCEPT ![r].kind = IF IsThere(r) THEN "undo" ELSE "undoEmpty"]
  /\ Advance(r)
  /\ UNCHANGED <<moneyVars, lockedBy, seenDebt, seenCash, sent>>

ReadCustomer(r) ==
  /\ At(r, "readCustomer")
  /\ seenDebt' = [seenDebt EXCEPT ![r] =
                    IF job[r].customer = NoCustomer THEN 0 ELSE debt[job[r].customer]]
  /\ Advance(r)
  /\ UNCHANGED <<moneyVars, lockedBy, job, seenCash, sent>>

\* The safes by a plain SELECT; only a payment to a supplier compares what it
\* takes with what is there.
ReadSafes(r) ==
  /\ At(r, "readSafes")
  /\ IF job[r].kind = "supplierPayment" /\ balance[job[r].via] < job[r].amount
     THEN Abandon(r)
     ELSE /\ seenCash' = [seenCash EXCEPT ![r] = balance]
          /\ Advance(r)
          /\ UNCHANGED <<moneyVars, lockedBy, job, seenDebt, sent>>

\* An UPDATE or a SELECT ... FOR UPDATE waits for the row.
Lock(r) ==
  \E statement \in Locking :
    LET row == RowOf(job[r], statement)
    IN /\ At(r, statement)
       /\ IF row \in Rows
          THEN lockedBy[row] \in {NoRequest, r} /\ lockedBy' = [lockedBy EXCEPT ![row] = r]
          ELSE UNCHANGED lockedBy
       /\ Advance(r)
       /\ UNCHANGED <<moneyVars, job, seenDebt, seenCash, sent>>

\* The COMMIT publishes the absolute values; ledger rows are inserted.
Commit(r) ==
  LET j == job[r]
  IN /\ At(r, "commit")
     /\ status' = CASE j.kind \in Creating -> [status EXCEPT ![j.doc] = "active"]
                    [] j.kind = "cancel" -> [status EXCEPT ![j.doc] = "cancelled"]
                    [] OTHER -> status
     /\ returns' = CASE j.kind \in Returning ->
                          returns \cup {[id |-> j.id, doc |-> j.doc, amount |-> j.amount,
                                         via |-> j.via]}
                     [] j.kind \in Undoing -> {b \in returns : b.id # j.id}
                     [] OTHER -> returns
     /\ debt' = [c \in Customers |-> IF c = j.customer /\ DebtChange(j) # 0
                                     THEN seenDebt[r] + DebtChange(j) ELSE debt[c]]
     /\ ledger' = [c \in Customers |-> IF c = j.customer THEN ledger[c] + LedgerChange(j)
                                                         ELSE ledger[c]]
     /\ balance' = [s \in Safes |-> IF CashChange(j, s) # 0
                                    THEN seenCash[r][s] + CashChange(j, s) ELSE balance[s]]
     /\ Release(r)
     /\ Finish(r)
     /\ UNCHANGED sent

\* An error, a timeout or a crash: the transaction is rolled back.
Fail(r) == ~ Idle(r) /\ Abandon(r)

\* PostgreSQL aborts a transaction of a circular wait.
WaitsFor(r) == UNION {IF At(r, statement) /\ RowOf(job[r], statement) \in Rows
                      THEN {lockedBy[RowOf(job[r], statement)]} ELSE {} :
                        statement \in Locking} \ {NoRequest, r}
Deadlocked(r) ==
  \E group \in SUBSET Requests :
    r \in group /\ \A q \in group : WaitsFor(q) \cap group # {}
DeadlockVictim(r) == Deadlocked(r) /\ Abandon(r)

Step(r) ==
  \/ CheckNoReturns(r) \/ CheckStillThere(r) \/ ReadLines(r) \/ ReadCustomer(r)
  \/ ReadSafes(r) \/ Lock(r) \/ Commit(r)

Receive(r) ==
  \/ \E d \in Docs : ReceiveCreate(r, d) \/ ReceiveCancel(r, d) \/ ReceiveReturn(r, d)
  \/ ReceiveUndo(r)
  \/ \E c \in Customers : ReceivePayment(r, c)

Init ==
  /\ status = [d \in Docs |-> "none"]
  /\ debt = [c \in Customers |-> 0]
  /\ ledger = [c \in Customers |-> 0]
  /\ balance = Opening
  /\ returns = {}
  /\ lockedBy = [row \in Rows |-> NoRequest]
  /\ job = [r \in Requests |-> NoJob]
  /\ at = [r \in Requests |-> 0]
  /\ seenDebt = [r \in Requests |-> 0]
  /\ seenCash = [r \in Requests |-> NothingSeen]
  /\ sent = 0

\* The clients have sent all they may: nothing is left to do.
Quiescent == (\A r \in Requests : Idle(r)) /\ sent = MaxSent /\ UNCHANGED vars

Next == (\E r \in Requests : Receive(r) \/ Step(r) \/ Fail(r) \/ DeadlockVictim(r)) \/ Quiescent

Spec == Init /\ [][Next]_vars

\* A handler that can take its next statement takes it, and the deadlock
\* detector of the server runs; clients and failures are never forced.
FairSpec == /\ Spec
            /\ \A r \in Requests : WF_vars(Step(r)) /\ WF_vars(DeadlockVictim(r))

-----------------------------------------------------------------------------
(* Properties *)

\* The shape of the state; a request is at a statement of its program, and a
\* return that is entered has a number.
TypeOK ==
  /\ status \in [Docs -> {"none", "active", "cancelled"}]
  /\ debt \in [Customers -> Int]
  /\ ledger \in [Customers -> Int]
  /\ balance \in [Safes -> Int]
  /\ returns \subseteq Return
  /\ lockedBy \in [Rows -> Requests \cup {NoRequest}]
  /\ job \in [Requests -> Job]
  /\ at \in [Requests -> Nat]
  /\ \A r \in Requests :
       /\ at[r] <= Len(Program(job[r]))
       /\ job[r].kind \in Returning => job[r].id > 0
       /\ job[r].kind = "supplierPayment" => job[r].via \in Safes
  /\ seenDebt \in [Requests -> Int]
  /\ seenCash \in [Requests -> [Safes -> Int]]
  /\ sent \in 0..MaxSent

\* "customers.balance = SUM(customer_ledger.amount)" (lib/integrity.ts:142): the
\* balance is read without a lock and written back, yet it stays the sum of the
\* ledger when all documents of the customer are about one product, whose row
\* is locked before the read, or when requests do not overlap; invoices
\* cancelled twice at the same time included.  Left out are refunds of sales in
\* cash and deleted returns of sales, which part the two by themselves.
OneProduct(c) ==
  /\ \A d, e \in DocsOf(c) : Terms[d].product = Terms[e].product
  /\ Asked[c] \subseteq {"sell", "buy", "cancel", "return"}
BothMove(c) ==
  /\ "return" \in Asked[c] => Ways[c] \subseteq {OnAccount}
  /\ "undo" \in Asked[c] => \A d \in DocsOf(c) : ~ IsSale(d)
DebtIsLedger ==
  \A c \in Customers : BothMove(c) /\ (c \in Serial \/ OneProduct(c)) => debt[c] = ledger[c]

\* What a regular customer owes and the safes only he pays into move with his
\* documents, returns and payments, in one step and by the same amounts.
OrderlyHome ==
  /\ Regular \in Serial
  /\ \A d \in Docs :
       IF Terms[d].customer = Regular
       THEN /\ Terms[d].cash2 = 0
            /\ IsSale(d) \/ Terms[d].credit = 0 \/ Terms[d].cash = 0
       ELSE {Terms[d].safe, Terms[d].safe2} \cap Home = {}
  /\ \A c \in Parties \ {Regular} : Ways[c] \cap Home = {}
Till == [s \in Home |-> balance[s]]
Papers == [d \in DocsOf(Regular) |-> status[d]]
Given == {b \in returns : b.doc \in DocsOf(Regular)}
Owing == [d \in DocsOf(Regular) |-> Sign(d) * Terms[d].credit]
Cashing == [d \in DocsOf(Regular) |-> [s \in Home |->
              IF s = Terms[d].safe THEN Sign(d) * Terms[d].cash ELSE 0]]
Signs == [d \in DocsOf(Regular) |-> Sign(d)]
Book == INSTANCE CustomerBook WITH
          Docs <- DocsOf(Regular), Safes <- Home, Direction <- Signs, Owed <- Owing, PaidIn <- Cashing,
          Beginning <- [s \in Home |-> Opening[s]],
          owed <- debt[Regular], till <- Till, papers <- Papers, given <- Given
ImplementsCustomerBook == Book!Spec

\* Every request is answered, circular waits included.
EveryRequestAnswered == \A r \in Requests : ~ Idle(r) ~> Idle(r)

=============================================================================
