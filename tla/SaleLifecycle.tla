---------------------------- MODULE SaleLifecycle ----------------------------
(***************************************************************************)
(* The life of sales: creation, posting to the journal, cancellation,      *)
(* returns and the deletion of returns.  Each handler looks at the sale    *)
(* first, outside its transaction, and then runs one PostgreSQL            *)
(* transaction at READ COMMITTED, statement by statement; the creation by  *)
(* a cashier runs a second one that posts the sale.                        *)
(*                                                                         *)
(* A sale has one line, of Units[s] pieces at price and cost 1, and so an  *)
(* invoice total of Units[s]; the goods of a return that names a product   *)
(* only are worth what the client says.  Rows of products and accounts are *)
(* here for their locks: quantities are in StockLedger; the money of       *)
(* customers and safes is not modelled here.                               *)
(***************************************************************************)
EXTENDS Integers, Sequences, FiniteSets, FiniteSetsExt

CONSTANTS
  Sales,       \* the sales the clients create, each with its x-request-id
  Units,       \* Units[s]: pieces sold
  Cashier,     \* the sales a cashier creates
  Shared,      \* the sales whose requests may overlap in time
  Audited,     \* the sale whose life is compared with SaleBook
  Kinds,       \* Kinds[s]: what clients ask for sale s
  MaxSent,     \* bound: requests sent
  Requests,    \* the requests in progress at a time
  NoRequest    \* not a request: nobody holds the lock

AllKinds == {"create", "post", "cancel", "return", "returnByProduct", "delete"}

ASSUME SalesAssumption ==
  /\ Units \in [Sales -> Nat \ {0}]
  /\ Cashier \subseteq Sales
  /\ Shared \subseteq Sales
  /\ Audited \in Sales
  /\ Kinds \in [Sales -> SUBSET AllKinds]
  /\ MaxSent \in Nat
  /\ NoRequest \notin Requests

VARIABLES
  status,      \* sales.posting_status; "none": no row
  returned,    \* sale_items.quantity_returned
  refunds,     \* the rows of sales_returns, [id, sale, qty, money]
  entries,     \* entries[s]: journal entries of the sale less their reversals
  cost,        \* cost[s]: debit less credit on the cost account for the sale
  lockedBy,    \* lockedBy[row]: the transaction that holds the row lock
  job,         \* job[r]: what request r asks for, and the status it read
  at,          \* at[r]: the statement of its program r is at; 0: no request
  seen,        \* seen[r]: the quantity_returned request r has read
  answer,      \* answer[r]: the last answer to r
  sent         \* requests sent so far

saleVars == <<status, returned, refunds, entries, cost>>
vars == <<status, returned, refunds, entries, cost,
          lockedBy, job, at, seen, answer, sent>>

-----------------------------------------------------------------------------
(* Rows and statements *)

Ids == 1..MaxSent
Statuses == {"none", "draft", "posted", "cancelled"}
Job == [kind : AllKinds \cup {"autopost"}, sale : Sales, qty : Nat, money : Nat,
        id : 0..MaxSent, was : Statuses]
Rows == {<<"product", 0>>, <<"cogs", 0>>, <<"inventory", 0>>}
          \cup ({"sale", "item"} \X Sales) \cup ({"return"} \X Ids)

\* The row a statement locks; the others lock none.
RowOf(j, statement) ==
  CASE statement \in {"product", "cogs", "inventory"} -> <<statement, 0>>
    [] statement \in {"sale", "item"} -> <<statement, j.sale>>
    [] statement = "return" -> <<"return", j.id>>
Locking == {"product", "cogs", "inventory", "sale", "item", "return"}

\* createJournalEntry updates the accounts in the order of its lines: a sale
\* and its reversal cost before inventory, a return the other way round.  The
\* cancellation reverses the entry of a sale it has read as posted.
Programs ==
  [create |-> <<"product", "commit">>,
   post |-> <<"cogs", "inventory", "sale", "commit">>,
   autopost |-> <<"cogs", "inventory", "sale", "commit">>,
   cancel |-> <<"noReturns", "product", "sale", "commit">>,
   cancelPosted |-> <<"noReturns", "cogs", "inventory", "product", "sale", "commit">>,
   return |-> <<"remaining", "item", "product", "inventory", "cogs", "commit">>,
   returnByProduct |-> <<"remaining", "item", "product", "inventory", "cogs", "commit">>,
   delete |-> <<"stillThere", "remaining", "item", "product", "cogs", "inventory",
                "return", "commit">>]
Program(j) ==
  Programs[IF j.kind = "cancel" /\ j.was = "posted" THEN "cancelPosted" ELSE j.kind]

Idle(r) == at[r] = 0
At(r, statement) == ~ Idle(r) /\ Program(job[r])[at[r]] = statement

RefundsOf(s) == {f \in refunds : f.sale = s}
Pieces(rows) == MapThenSumSet(LAMBDA f : f.qty, rows)
Refunded(s) == Pieces(RefundsOf(s))
\* What the returns of the invoice have been recorded with.
MoneyBack(s) == MapThenSumSet(LAMBDA f : f.money, RefundsOf(s))

\* The locks of r are released; a transaction that fails leaves nothing else.
Release(r) == lockedBy' = [row \in Rows |-> IF lockedBy[row] = r THEN NoRequest
                                                                ELSE lockedBy[row]]
Finish(r, a) ==
  /\ at' = [at EXCEPT ![r] = 0]
  /\ answer' = [answer EXCEPT ![r] = a]

\* Mutant: the transaction is abandoned and not rolled back.
AbandonKeepsLocks(r, a) == Finish(r, a) /\ UNCHANGED <<saleVars, lockedBy, job, seen, sent>>

Abandon(r, a) ==
  /\ Release(r)
  /\ Finish(r, a)
  /\ UNCHANGED <<saleVars, job, seen, sent>>

Advance(r) == at' = [at EXCEPT ![r] = at[r] + 1]

-----------------------------------------------------------------------------
(* Requests arrive: what the handlers check before their transactions.  A  *)
(* request that is refused here changes nothing and is not a step.         *)

\* Requests for a sale that is not Shared are sent one after the other: whoever
\* works on it waits for the answer.
MaySend(r, s) ==
  /\ Idle(r)
  /\ sent < MaxSent
  /\ \A q \in Requests : ~ Idle(q) /\ job[q].sale = s
                           => s \in Shared /\ job[q].kind # "create"

Send(r, kind, s, qty, money, id) ==
  /\ MaySend(r, s)
  /\ kind \in Kinds[s]
  /\ job' = [job EXCEPT ![r] = [kind |-> kind, sale |-> s, qty |-> qty, money |-> money,
                                id |-> id, was |-> status[s]]]
  /\ at' = [at EXCEPT ![r] = 1]
  /\ answer' = [answer EXCEPT ![r] = "none"]
  /\ sent' = sent + 1
  /\ UNCHANGED <<saleVars, lockedBy, seen>>

ReceiveCreate(r, s) == status[s] = "none" /\ Send(r, "create", s, 0, 0, 0)

\* The request_id is known: the handler answers with the row it finds.
ReceiveAgain(r, s) ==
  /\ status[s] # "none"
  /\ MaySend(r, s)
  /\ "create" \in Kinds[s]
  /\ job' = [job EXCEPT ![r] = [kind |-> "create", sale |-> s, qty |-> 0, money |-> 0,
                                id |-> 0, was |-> status[s]]]
  /\ answer' = [answer EXCEPT ![r] = "ok"]
  /\ sent' = sent + 1
  /\ UNCHANGED <<saleVars, lockedBy, at, seen>>

ReceivePost(r, s) == status[s] = "draft" /\ Send(r, "post", s, 0, 0, 0)

ReceiveCancel(r, s) == status[s] \in {"draft", "posted"} /\ Send(r, "cancel", s, 0, 0, 0)

\* The money of the returns so far and of this one stays within the total of
\* the invoice; what this one is worth is the client's claim.  A return that
\* names its sale item is recorded with the price of the invoice, one that names
\* a product with the claim, the prices of a client making up its total.  The
\* status of the sale is not looked at.
ReceiveReturn(r, s) ==
  /\ status[s] # "none"
  /\ \E qty \in 1..Units[s], claim \in 0..Units[s] :
       /\ MoneyBack(s) + claim <= Units[s]
       /\ \/ Send(r, "return", s, qty, qty, sent + 1)
          \/ Send(r, "returnByProduct", s, qty, claim, sent + 1)

ReceiveDelete(r) == \E f \in refunds : Send(r, "delete", f.sale, f.qty, f.money, f.id)

-----------------------------------------------------------------------------
(* The statements *)

\* Mutant: the check for returns is gone.
CheckNothing(r) ==
  /\ At(r, "noReturns")
  /\ Advance(r)
  /\ UNCHANGED <<saleVars, lockedBy, job, seen, answer, sent>>

\* "A sale linked to returns cannot be cancelled"; still outside the transaction.
CheckNoReturns(r) ==
  /\ At(r, "noReturns")
  /\ IF RefundsOf(job[r].sale) = {}
     THEN Advance(r) /\ UNCHANGED <<saleVars, lockedBy, job, seen, answer, sent>>
     ELSE Abandon(r, "rejected")

\* The row of the return, read again without a lock.
CheckStillThere(r) ==
  /\ At(r, "stillThere")
  /\ IF \E f \in refunds : f.id = job[r].id
     THEN Advance(r) /\ UNCHANGED <<saleVars, lockedBy, job, seen, answer, sent>>
     ELSE Abandon(r, "rejected")

\* Mutant: the quantity is not compared with what is left to return.
ReadItemUnchecked(r) ==
  /\ At(r, "remaining")
  /\ seen' = [seen EXCEPT ![r] = returned[job[r].sale]]
  /\ Advance(r)
  /\ UNCHANGED <<saleVars, lockedBy, job, answer, sent>>

\* quantity_returned by a plain SELECT; a return that names its sale item is
\* compared with what is left, one that names only a product is not.
ReadItem(r) ==
  LET s == job[r].sale
  IN /\ At(r, "remaining")
     /\ IF job[r].kind = "return" /\ job[r].qty > Units[s] - returned[s]
        THEN Abandon(r, "rejected")
        ELSE /\ seen' = [seen EXCEPT ![r] = returned[s]]
             /\ Advance(r)
             /\ UNCHANGED <<saleVars, lockedBy, job, answer, sent>>

\* An UPDATE, a DELETE or a SELECT ... FOR UPDATE: it waits for the row.
Lock(r) ==
  \E statement \in Locking :
    LET row == RowOf(job[r], statement)
    IN /\ At(r, statement)
       /\ lockedBy[row] \in {NoRequest, r}
       /\ lockedBy' = [lockedBy EXCEPT ![row] = r]
       /\ Advance(r)
       /\ UNCHANGED <<saleVars, job, seen, answer, sent>>

\* The COMMIT of a creation; a cashier's goes on to post the sale, unchecked.
CommitCreate(r) ==
  LET s == job[r].sale
  IN /\ At(r, "commit")
     /\ job[r].kind = "create"
     /\ status' = [status EXCEPT ![s] = "draft"]
     /\ Release(r)
     /\ IF s \in Cashier
        THEN /\ job' = [job EXCEPT ![r] = [kind |-> "autopost", sale |-> s, qty |-> 0,
                                           money |-> 0, id |-> 0, was |-> "draft"]]
             /\ at' = [at EXCEPT ![r] = 1]
             /\ UNCHANGED answer
        ELSE Finish(r, "ok") /\ UNCHANGED job
     /\ UNCHANGED <<returned, refunds, entries, cost, seen, sent>>

\* Mutant: the status is posted and the entry is left out.
CommitPostSilently(r) ==
  LET s == job[r].sale
  IN /\ At(r, "commit")
     /\ job[r].kind \in {"post", "autopost"}
     /\ status' = [status EXCEPT ![s] = "posted"]
     /\ Release(r)
     /\ Finish(r, "ok")
     /\ UNCHANGED <<returned, refunds, entries, cost, job, seen, sent>>

CommitPost(r) ==
  LET s == job[r].sale
  IN /\ At(r, "commit")
     /\ job[r].kind \in {"post", "autopost"}
     /\ status' = [status EXCEPT ![s] = "posted"]
     /\ entries' = [entries EXCEPT ![s] = entries[s] + 1]
     /\ cost' = [cost EXCEPT ![s] = cost[s] + Units[s]]
     /\ Release(r)
     /\ Finish(r, "ok")
     /\ UNCHANGED <<returned, refunds, job, seen, sent>>

CommitCancel(r) ==
  LET s == job[r].sale
      reversed == IF job[r].was = "posted" THEN 1 ELSE 0
  IN /\ At(r, "commit")
     /\ job[r].kind = "cancel"
     /\ status' = [status EXCEPT ![s] = "cancelled"]
     /\ entries' = [entries EXCEPT ![s] = entries[s] - reversed]
     /\ cost' = [cost EXCEPT ![s] = cost[s] - reversed * Units[s]]
     /\ Release(r)
     /\ Finish(r, "ok")
     /\ UNCHANGED <<returned, refunds, job, seen, sent>>

\* Only the cost is booked; quantity_returned is an absolute value.
CommitReturn(r) ==
  LET s == job[r].sale
  IN /\ At(r, "commit")
     /\ job[r].kind \in {"return", "returnByProduct"}
     /\ refunds' = refunds \cup {[id |-> job[r].id, sale |-> s, qty |-> job[r].qty,
                               money |-> job[r].money]}
     /\ returned' = [returned EXCEPT ![s] = seen[r] + job[r].qty]
     /\ cost' = [cost EXCEPT ![s] = cost[s] - job[r].qty]
     /\ Release(r)
     /\ Finish(r, "ok")
     /\ UNCHANGED <<status, entries, job, seen, sent>>

\* The DELETE does not look whether it found a row.
CommitDelete(r) ==
  LET s == job[r].sale
      left == seen[r] - job[r].qty
  IN /\ At(r, "commit")
     /\ job[r].kind = "delete"
     /\ refunds' = {f \in refunds : f.id # job[r].id}
     /\ returned' = [returned EXCEPT ![s] = IF left < 0 THEN 0 ELSE left]
     /\ cost' = [cost EXCEPT ![s] = cost[s] + job[r].qty]
     /\ Release(r)
     /\ Finish(r, "ok")
     /\ UNCHANGED <<status, entries, job, seen, sent>>

\* An error, a timeout, too little stock or a crash: the transaction in progress
\* is rolled back, the one a cashier's creation has committed stays.
Fail(r) == ~ Idle(r) /\ Abandon(r, "failed")

\* PostgreSQL aborts a transaction of a circular wait.
WaitsFor(r) == UNION {IF At(r, statement) THEN {lockedBy[RowOf(job[r], statement)]} ELSE {} :
                        statement \in Locking} \ {NoRequest, r}
Deadlocked(r) ==
  \E group \in SUBSET Requests :
    r \in group /\ \A q \in group : WaitsFor(q) \cap group # {}
DeadlockVictim(r) == Deadlocked(r) /\ Abandon(r, "failed")

\* The handler goes on.
Step(r) ==
  \/ CheckNoReturns(r) \/ CheckStillThere(r) \/ ReadItem(r) \/ Lock(r)
  \/ CommitCreate(r) \/ CommitPost(r) \/ CommitCancel(r)
  \/ CommitReturn(r) \/ CommitDelete(r)

Receive(r) ==
  \/ \E s \in Sales : \/ ReceiveCreate(r, s) \/ ReceiveAgain(r, s) \/ ReceivePost(r, s)
                      \/ ReceiveCancel(r, s) \/ ReceiveReturn(r, s)
  \/ ReceiveDelete(r)

Init ==
  /\ status = [s \in Sales |-> "none"]
  /\ returned = [s \in Sales |-> 0]
  /\ refunds = {}
  /\ entries = [s \in Sales |-> 0]
  /\ cost = [s \in Sales |-> 0]
  /\ lockedBy = [row \in Rows |-> NoRequest]
  /\ job = [r \in Requests |-> [kind |-> "create", sale |-> CHOOSE s \in Sales : TRUE,
                                qty |-> 0, money |-> 0, id |-> 0, was |-> "none"]]
  /\ at = [r \in Requests |-> 0]
  /\ seen = [r \in Requests |-> 0]
  /\ answer = [r \in Requests |-> "none"]
  /\ sent = 0

\* The clients have sent all they may: nothing is left to do.
Quiescent == (\A r \in Requests : Idle(r)) /\ sent = MaxSent /\ UNCHANGED vars

Next ==
  \/ \E r \in Requests : Receive(r) \/ Step(r) \/ Fail(r) \/ DeadlockVictim(r)
  \/ Quiescent

Spec == Init /\ [][Next]_vars

\* A handler that can take its next statement takes it, and the deadlock
\* detector of the server runs; clients and failures are never forced.
FairSpec == /\ Spec
            /\ \A r \in Requests : WF_vars(Step(r)) /\ WF_vars(DeadlockVictim(r))

-----------------------------------------------------------------------------
(* Properties *)

\* The shape of the state; a request is at a statement of its program.
TypeOK ==
  /\ status \in [Sales -> Statuses]
  /\ returned \in [Sales -> Nat]
  /\ refunds \subseteq [id : Ids, sale : Sales, qty : Nat \ {0}, money : Nat]
  /\ entries \in [Sales -> Int]
  /\ cost \in [Sales -> Int]
  /\ lockedBy \in [Rows -> Requests \cup {NoRequest}]
  /\ job \in [Requests -> Job]
  /\ at \in [Requests -> Nat]
  /\ \A r \in Requests :
       /\ at[r] <= Len(Program(job[r]))
       /\ job[r].kind \in {"return", "returnByProduct"} => job[r].id > 0 /\ job[r].qty > 0
  /\ seen \in [Requests -> Nat]
  /\ answer \in [Requests -> {"none", "ok", "rejected", "failed"}]
  /\ sent \in 0..MaxSent

\* "The quantity to return exceeds the quantity available for return"
\* (sales-returns.ts:247): however returns and their deletions overlap,
\* quantity_returned stays within the quantity sold, for a sale whose returns
\* all name their sale item.
ReturnedWithinSold ==
  \A s \in Sales : "returnByProduct" \notin Kinds[s] => returned[s] \in 0..Units[s]

\* "More than what was sold to the customer cannot be returned"
\* (sales-returns.ts:188), of every return.
NothingReturnedTwice == \A s \in Sales : returned[s] <= Units[s]

\* For a sale whose requests do not overlap, the column, the rows of
\* sales_returns and the journal tell the same story, after any sequence of
\* requests, failures and crashes.
EntriesFollowStatus ==
  \A s \in Sales \ Shared : entries[s] = IF status[s] = "posted" THEN 1 ELSE 0
DocumentsAgree ==
  /\ EntriesFollowStatus
  /\ \A s \in Sales \ Shared :
       /\ returned[s] = Refunded(s)
       /\ cost[s] = entries[s] * Units[s] - Refunded(s)

\* "Cashier: immediate post (no draft concept at cashier level)"
\* (sales/create.ts:504): a sale a cashier was told of is not a draft.
CashierSalesPosted ==
  \A r \in Requests :
    answer[r] = "ok" /\ job[r].kind \in {"create", "autopost"} /\ job[r].sale \in Cashier
      => status[job[r].sale] # "draft"

\* A sale whose requests do not overlap lives the life of SaleBook.
Book == INSTANCE SaleBook WITH
          Units <- Units[Audited], status <- status[Audited], returned <- returned[Audited],
          entries <- entries[Audited], cost <- cost[Audited]
ImplementsSaleBook == Book!Spec

\* Every request is answered, circular waits included.
EveryRequestAnswered == \A r \in Requests : ~ Idle(r) ~> Idle(r)

=============================================================================
