----------------------------- MODULE CashVouchers -----------------------------
(***************************************************************************)
(* The documents that move cash: receipt, payment and deposit vouchers,    *)
(* treasury vouchers, expenses and income; the safes and customers they    *)
(* change, the customer ledger and the journal.                            *)
(*                                                                         *)
(* Creating and deleting a document is one PostgreSQL transaction at READ  *)
(* COMMITTED, statement by statement.  Posting and cancelling a voucher is *)
(* a sequence of statements without a transaction: each commits by itself. *)
(* The rows of table transactions, which no handler here reads, and the    *)
(* account balances behind a journal entry are left out.                   *)
(***************************************************************************)
EXTENDS Integers

CONSTANTS
  Safes,        \* ids of the rows of table safes
  Customers,    \* ids of the rows of table customers
  NoCustomer,   \* not a customer: the document names nobody
  Accounted,    \* the customers with an account in the chart of accounts
  Docs,         \* the documents the clients create
  Voucher,      \* Voucher[d]: [kind, safe, customer, amount]
  Opening,      \* Opening[s]: the balance of safe s to begin with
  Drawer,       \* the safe whose cash book CashBook describes
  Shared,       \* the documents whose requests may overlap in time
  MaxSent,      \* bound: requests sent
  Requests,     \* the requests in progress at a time
  NoRequest     \* not a request: nobody holds the lock

\* Only the first three are posted, cancelled and protected by a request_id.
Posted == {"receipt", "payment", "deposit"}
CashIn == {"receipt", "deposit", "treasuryReceipt", "income"}
Kinds == Posted \cup CashIn \cup {"treasuryPayment", "expense"}

ASSUME VouchersAssumption ==
  /\ Docs # {}
  /\ NoCustomer \notin Customers
  /\ Accounted \subseteq Customers
  /\ Voucher \in [Docs -> [kind : Kinds, safe : Safes, amount : Nat \ {0},
                           customer : Customers \cup {NoCustomer}]]
  /\ \A d \in Docs : Voucher[d].kind \notin Posted => Voucher[d].customer = NoCustomer
  /\ Opening \in [Safes -> Nat]
  /\ Drawer \in Safes
  /\ Shared \subseteq Docs
  /\ MaxSent \in Nat
  /\ NoRequest \notin Requests

VARIABLES
  status,       \* status[d]: posting_status; "none", "deleted": no row
  balance,      \* balance[s]: committed value of safes.balance
  debt,         \* debt[c]: committed value of customers.balance
  ledger,       \* ledger[c]: sum of the rows of customer_ledger
  journal,      \* journal[d]: journal entries of d less their reversals
  safeLock,     \* safeLock[s]: the transaction that holds the row lock
  customerLock, \* customerLock[c]: the same for customers
  docLock,      \* docLock[d]: the same for the document or its request_id
  job,          \* job[r]: what request r asks for
  pc,           \* pc[r]: the statement r is at
  seen,         \* seen[r]: the balance r has read
  sent          \* requests sent so far

moneyVars == <<balance, debt, ledger>>
lockVars == <<safeLock, customerLock, docLock>>
vars == <<status, balance, debt, ledger, journal, safeLock, customerLock, docLock,
          job, pc, seen, sent>>

-----------------------------------------------------------------------------
(* Documents *)

Kind(d) == Voucher[d].kind
Safe(d) == Voucher[d].safe
Customer(d) == Voucher[d].customer
HasCustomer(d) == Customer(d) # NoCustomer

\* What the document adds to its safe, and to the debt of its customer.
Effect(d) == IF Kind(d) \in CashIn THEN Voucher[d].amount ELSE - Voucher[d].amount
DebtEffect(d) == - Effect(d)

Idle(r) == pc[r] = "idle"
Doc(r) == job[r].doc
Sign(r) == IF job[r].kind = "create" THEN 1 ELSE -1
Change(r) == Sign(r) * Effect(Doc(r))
DebtChange(r) == Sign(r) * DebtEffect(Doc(r))

\* "A posted voucher cannot be deleted - use the cancellation."
Deletable(d) == status[d] \in {"draft", "cancelled"}

\* The statement that follows the look-up of the document.
Start(d) == IF Kind(d) = "income" THEN "readSafe" ELSE "safe"

\* Mutant: only what takes cash when it is created is compared with the balance.
GuardedOnCreate(r) == job[r].kind = "create" /\ Change(r) < 0 /\ Kind(Doc(r)) # "income"

\* The UPDATE that takes cash requires balance >= amount; income never does.
Guarded(r) == Change(r) < 0 /\ Kind(Doc(r)) # "income"
Suffices(r) == Guarded(r) => balance[Safe(Doc(r))] + Change(r) >= 0

\* Mutant: the locks of a transaction that ended stay.
AbandonKeepsLocks(r) ==
  /\ pc' = [pc EXCEPT ![r] = "idle"]
  /\ UNCHANGED <<status, moneyVars, journal, lockVars, job, seen, sent>>

Release(r) ==
  /\ safeLock' = [s \in Safes |-> IF safeLock[s] = r THEN NoRequest ELSE safeLock[s]]
  /\ customerLock' = [c \in Customers |->
                        IF customerLock[c] = r THEN NoRequest ELSE customerLock[c]]
  /\ docLock' = [d \in Docs |-> IF docLock[d] = r THEN NoRequest ELSE docLock[d]]

\* The transaction is rolled back.
Abandon(r) ==
  /\ Release(r)
  /\ pc' = [pc EXCEPT ![r] = "idle"]
  /\ UNCHANGED <<status, moneyVars, journal, job, seen, sent>>

Goto(r, statement) == pc' = [pc EXCEPT ![r] = statement]

-----------------------------------------------------------------------------
(* Requests arrive: what the handlers check before they write.  A request  *)
(* that is refused here, or a creation whose request_id is found, changes  *)
(* nothing and is not a step.                                              *)

\* A creation with a request_id may be sent again before it is answered.  Nobody
\* works on a document whose creation is in progress.
MaySend(r, kind, d) ==
  /\ Idle(r)
  /\ sent < MaxSent
  /\ \A q \in Requests : ~ Idle(q) /\ Doc(q) = d =>
       IF kind = "create" THEN job[q].kind = "create" /\ Kind(d) \in Posted
                          ELSE job[q].kind # "create" /\ d \in Shared

Send(r, kind, d, first) ==
  /\ MaySend(r, kind, d)
  /\ job' = [job EXCEPT ![r] = [kind |-> kind, doc |-> d]]
  /\ Goto(r, first)
  /\ sent' = sent + 1
  /\ UNCHANGED <<status, moneyVars, journal, lockVars, seen>>

ReceiveCreate(r, d) == status[d] = "none" /\ Send(r, "create", d, Start(d))

ReceivePost(r, d) == Kind(d) \in Posted /\ status[d] = "draft" /\ Send(r, "post", d, "entry")

\* Only the entry of a customer with an account is reversed.
ReceiveCancel(r, d) ==
  /\ Kind(d) \in Posted
  /\ status[d] \in {"draft", "posted"}
  /\ Send(r, "cancel", d, IF status[d] = "posted" /\ Customer(d) \in Accounted
                          THEN "reversal" ELSE "status")

ReceiveDelete(r, d) == Deletable(d) /\ Send(r, "delete", d, "stillThere")

-----------------------------------------------------------------------------
(* The statements of creation and deletion *)

\* The document, read again in the transaction and without a lock.
StillThere(r) ==
  /\ pc[r] = "stillThere"
  /\ IF Deletable(Doc(r))
     THEN /\ Goto(r, Start(Doc(r)))
          /\ UNCHANGED <<status, moneyVars, journal, lockVars, job, seen, sent>>
     ELSE Abandon(r)

\* Income computes the new balance from a plain SELECT.
ReadSafe(r) ==
  /\ pc[r] = "readSafe"
  /\ seen' = [seen EXCEPT ![r] = balance[Safe(Doc(r))]]
  /\ Goto(r, "safe")
  /\ UNCHANGED <<status, moneyVars, journal, lockVars, job, sent>>

\* UPDATE safes: it waits for the row; with too little in the safe it matches no
\* row and the handler gives up.
UpdateSafe(r) ==
  /\ pc[r] = "safe"
  /\ safeLock[Safe(Doc(r))] = NoRequest
  /\ IF Suffices(r)
     THEN /\ safeLock' = [safeLock EXCEPT ![Safe(Doc(r))] = r]
          /\ Goto(r, IF HasCustomer(Doc(r)) THEN "readCustomer" ELSE "row")
          /\ UNCHANGED <<status, moneyVars, journal, customerLock, docLock, job, seen, sent>>
     ELSE Abandon(r)

\* A plain SELECT of customers.balance, and the UPDATE to an absolute value.
ReadCustomer(r) ==
  /\ pc[r] = "readCustomer"
  /\ seen' = [seen EXCEPT ![r] = debt[Customer(Doc(r))]]
  /\ Goto(r, "customer")
  /\ UNCHANGED <<status, moneyVars, journal, lockVars, job, sent>>

UpdateCustomer(r) ==
  /\ pc[r] = "customer"
  /\ customerLock[Customer(Doc(r))] = NoRequest
  /\ customerLock' = [customerLock EXCEPT ![Customer(Doc(r))] = r]
  /\ Goto(r, "row")
  /\ UNCHANGED <<status, moneyVars, journal, safeLock, docLock, job, seen, sent>>

\* Mutant: request_id is not unique.
InsertTwice(r) ==
  /\ pc[r] = "row"
  /\ job[r].kind = "create"
  /\ docLock[Doc(r)] = NoRequest
  /\ docLock' = [docLock EXCEPT ![Doc(r)] = r]
  /\ Goto(r, "commit")
  /\ UNCHANGED <<status, moneyVars, journal, safeLock, customerLock, job, seen, sent>>

\* The INSERT of the document: the unique index refuses a known request_id.
InsertRow(r) ==
  /\ pc[r] = "row"
  /\ job[r].kind = "create"
  /\ docLock[Doc(r)] = NoRequest
  /\ IF status[Doc(r)] = "none"
     THEN /\ docLock' = [docLock EXCEPT ![Doc(r)] = r]
          /\ Goto(r, "commit")
          /\ UNCHANGED <<status, moneyVars, journal, safeLock, customerLock, job, seen, sent>>
     ELSE Abandon(r)

\* The DELETE does not look whether it found a row, nor in which status.
DeleteRow(r) ==
  /\ pc[r] = "row"
  /\ job[r].kind = "delete"
  /\ docLock[Doc(r)] = NoRequest
  /\ docLock' = [docLock EXCEPT ![Doc(r)] = r]
  /\ Goto(r, "commit")
  /\ UNCHANGED <<status, moneyVars, journal, safeLock, customerLock, job, seen, sent>>

\* Mutant: a deletion leaves customer_ledger as it is.
LedgerOnlyGrows(r) == IF job[r].kind = "create" THEN DebtChange(r) ELSE 0

\* A deletion inserts a reversing row; that of a receipt deletes the row, if it
\* is still there.
LedgerChange(r) ==
  IF job[r].kind = "delete" /\ Kind(Doc(r)) = "receipt" /\ status[Doc(r)] = "deleted"
  THEN 0 ELSE DebtChange(r)

\* The COMMIT publishes the new balances.  Expenses go on to the journal.
Commit(r) ==
  LET d == Doc(r)
      s == Safe(d)
  IN /\ pc[r] = "commit"
     /\ status' = [status EXCEPT ![d] = IF job[r].kind = "create" THEN "draft" ELSE "deleted"]
     /\ balance' = [balance EXCEPT ![s] =
                      (IF Kind(d) = "income" THEN seen[r] ELSE balance[s]) + Change(r)]
     /\ debt' = [c \in Customers |-> IF c = Customer(d) THEN seen[r] + DebtChange(r)
                                                        ELSE debt[c]]
     /\ ledger' = [c \in Customers |-> IF c = Customer(d) THEN ledger[c] + LedgerChange(r)
                                                          ELSE ledger[c]]
     /\ Release(r)
     /\ Goto(r, IF Kind(d) # "expense" THEN "idle"
                ELSE IF job[r].kind = "create" THEN "entry" ELSE "reversal")
     /\ UNCHANGED <<journal, job, seen, sent>>

-----------------------------------------------------------------------------
(* The journal and the posting status, without a transaction *)

\* createAutoJournalEntry; the one of an expense follows its transaction.
InsertEntry(r) ==
  /\ pc[r] = "entry"
  /\ journal' = [journal EXCEPT ![Doc(r)] = journal[Doc(r)] + 1]
  /\ Goto(r, IF job[r].kind = "post" THEN "status" ELSE "idle")
  /\ UNCHANGED <<status, moneyVars, lockVars, job, seen, sent>>

InsertReversal(r) ==
  /\ pc[r] = "reversal"
  /\ journal' = [journal EXCEPT ![Doc(r)] = journal[Doc(r)] - 1]
  /\ Goto(r, IF job[r].kind = "cancel" THEN "status" ELSE "idle")
  /\ UNCHANGED <<status, moneyVars, lockVars, job, seen, sent>>

\* UPDATE ... SET posting_status WHERE id: the status it has is not looked at; a
\* row that is gone is an error of the handler.
SetStatus(r) ==
  LET d == Doc(r)
  IN /\ pc[r] = "status"
     /\ docLock[d] = NoRequest
     /\ status' = [status EXCEPT ![d] =
                     IF status[d] = "deleted" THEN "deleted"
                     ELSE IF job[r].kind = "post" THEN "posted" ELSE "cancelled"]
     /\ Goto(r, "idle")
     /\ UNCHANGED <<moneyVars, journal, lockVars, job, seen, sent>>

\* An error, a timeout or a crash: the transaction in progress is rolled back,
\* what has committed by itself stays.
Fail(r) == ~ Idle(r) /\ Abandon(r)

Step(r) ==
  \/ StillThere(r) \/ ReadSafe(r) \/ UpdateSafe(r) \/ ReadCustomer(r) \/ UpdateCustomer(r)
  \/ InsertRow(r) \/ DeleteRow(r) \/ Commit(r)
  \/ InsertEntry(r) \/ InsertReversal(r) \/ SetStatus(r)

Receive(r) ==
  \E d \in Docs : ReceiveCreate(r, d) \/ ReceivePost(r, d) \/ ReceiveCancel(r, d)
                    \/ ReceiveDelete(r, d)

Init ==
  /\ status = [d \in Docs |-> "none"]
  /\ balance = Opening
  /\ debt = [c \in Customers |-> 0]
  /\ ledger = [c \in Customers |-> 0]
  /\ journal = [d \in Docs |-> 0]
  /\ safeLock = [s \in Safes |-> NoRequest]
  /\ customerLock = [c \in Customers |-> NoRequest]
  /\ docLock = [d \in Docs |-> NoRequest]
  /\ job = [r \in Requests |-> [kind |-> "create", doc |-> CHOOSE d \in Docs : TRUE]]
  /\ pc = [r \in Requests |-> "idle"]
  /\ seen = [r \in Requests |-> 0]
  /\ sent = 0

\* The clients have sent all they may: nothing is left to do.
Quiescent == (\A r \in Requests : Idle(r)) /\ UNCHANGED vars

Next == (\E r \in Requests : Receive(r) \/ Step(r) \/ Fail(r)) \/ Quiescent

Spec == Init /\ [][Next]_vars

\* A handler that can take its next statement takes it; clients and failures are
\* never forced.  No detector of circular waits is needed.
FairSpec == Spec /\ \A r \in Requests : WF_vars(Step(r))

-----------------------------------------------------------------------------
(* Properties *)

\* The shape of the state; a customer is looked up only for a document that
\* names one.
TypeOK ==
  /\ status \in [Docs -> {"none", "draft", "posted", "cancelled", "deleted"}]
  /\ balance \in [Safes -> Int]
  /\ debt \in [Customers -> Int]
  /\ ledger \in [Customers -> Int]
  /\ journal \in [Docs -> Int]
  /\ safeLock \in [Safes -> Requests \cup {NoRequest}]
  /\ customerLock \in [Customers -> Requests \cup {NoRequest}]
  /\ docLock \in [Docs -> Requests \cup {NoRequest}]
  /\ job \in [Requests -> [kind : {"create", "post", "cancel", "delete"}, doc : Docs]]
  /\ pc \in [Requests -> {"idle", "stillThere", "readSafe", "safe", "readCustomer",
                          "customer", "row", "commit", "entry", "reversal", "status"}]
  /\ seen \in [Requests -> Int]
  /\ sent \in 0..MaxSent
  /\ \A r \in Requests :
       /\ pc[r] \in {"readCustomer", "customer"} => HasCustomer(Doc(r))
       /\ pc[r] = "stillThere" => job[r].kind = "delete"
       /\ pc[r] = "status" => job[r].kind \in {"post", "cancel"}
       /\ pc[r] \in {"readSafe", "safe", "readCustomer", "customer", "row", "commit"}
            => job[r].kind \in {"create", "delete"}

\* "The balance of the safe does not suffice" (payment-vouchers.ts:78): however
\* requests overlap, and whatever is deleted twice, a safe that takes no income
\* is never overdrawn.
DocsOf(s) == {d \in Docs : Safe(d) = s}
NoIncome(s) == \A d \in DocsOf(s) : Kind(d) # "income"
SafeNeverNegative == \A s \in Safes : NoIncome(s) => balance[s] >= 0

\* "customers.balance = SUM(customer_ledger.amount)" (lib/integrity.ts:142): the
\* balance is read without a lock and written back, yet it never parts from the
\* ledger for a customer whose vouchers go through one safe, since the row of
\* the safe is locked first.
OneSafe(c) ==
  \A d, e \in Docs : Customer(d) = c /\ Customer(e) = c => Safe(d) = Safe(e) /\ d \notin Shared
LedgerExplainsDebt == \A c \in Customers : OneSafe(c) => debt[c] = ledger[c]

\* "A posted voucher cannot be deleted" (receipt-vouchers.ts:286), for a document
\* whose requests do not overlap.
PostedIsKept ==
  [][\A d \in Docs \ Shared : status[d] = "posted" => status'[d] # "deleted"]_vars

\* A safe and the documents that exist change together, in one step, and a
\* creation that is sent again moves the cash once.  It holds for a safe without
\* income whose documents are not Shared.
Live == {d \in DocsOf(Drawer) : status[d] \in {"draft", "posted", "cancelled"}}
Orderly == NoIncome(Drawer) /\ DocsOf(Drawer) \cap Shared = {}
Effects == [d \in DocsOf(Drawer) |-> Effect(d)]
Book == INSTANCE CashBook WITH
          Docs <- DocsOf(Drawer), Adds <- Effects, Beginning <- Opening[Drawer],
          cash <- balance[Drawer], kept <- Live
ImplementsCashBook == Book!Spec

\* Every request is answered: nobody waits for ever, though locks are taken on
\* three tables.
EveryRequestAnswered == \A r \in Requests : ~ Idle(r) ~> Idle(r)

=============================================================================
