---------------------------- MODULE SafeTransfer ----------------------------
(***************************************************************************)
(* Transfers between two safes (cash registers) of a company:              *)
(* services/safe-transfer.service.ts, called by POST /safe-transfers.      *)
(*                                                                         *)
(* Each request is one PostgreSQL transaction at READ COMMITTED.  A row of *)
(* table safes has a committed balance, a working balance that only the    *)
(* holder of its row lock sees, and that lock; UPDATE and SELECT ... FOR   *)
(* UPDATE take the lock and keep it until commit or rollback.              *)
(*                                                                         *)
(* An administrator may delete a safe meanwhile (settings/safes.ts): the   *)
(* checks of that handler and its DELETE are separate statements.          *)
(*                                                                         *)
(* Money is counted in mils, thousandths of a pound: the columns are       *)
(* numeric(12,2), so they hold multiples of ten, while an amount in a      *)
(* request may be any positive number.                                     *)
(***************************************************************************)
EXTENDS Integers, FiniteSets, FiniteSetsExt

CONSTANTS
  Safes,       \* ids of the rows of table safes
  Owner,       \* Owner[s]: the company a safe belongs to
  Opening,     \* Opening[s]: the balance a safe starts with
  Requests,    \* the POST /safe-transfers requests
  Company,     \* Company[r]: the tenant a request is authenticated for
  Amounts,     \* gross amounts a request may carry
  FeeTerms,    \* pairs [type, rate] a request may carry
  Deletable,   \* the safes an administrator may ask to delete
  NoRequest    \* not a request: nobody holds a row lock

ASSUME SafesAssumption ==
  /\ IsFiniteSet(Safes)
  /\ Safes \subseteq Nat \ {0}
  /\ Opening \in [Safes -> Nat]
  /\ \A s \in Safes : Opening[s] % 10 = 0
  /\ Deletable \subseteq Safes
ASSUME RequestsAssumption ==
  /\ NoRequest \notin Requests
  /\ Amounts \subseteq Int
  /\ FeeTerms \subseteq [type : {"none", "fixed", "percentage"}, rate : Int]

VARIABLES
  live,        \* the safes whose row exists
  condemned,   \* the safes whose deletion has passed its checks
  balance,     \* balance[s]: committed value of safes.balance
  work,        \* work[s]: the value the transaction holding the row sees
  lockedBy,    \* lockedBy[s]: the transaction that holds the row lock
  order,       \* order[r]: the parsed body of a request
  pc,          \* pc[r]: where the handler of a request is
  rows,        \* rows[s]: totals of the committed rows of table transactions
  fees         \* fees[s]: total of the fee rows in table expenses

rowVars == <<live, condemned, balance, work, lockedBy>>
bookVars == <<rows, fees>>
vars == <<live, condemned, balance, work, lockedBy, order, pc, rows, fees>>

-----------------------------------------------------------------------------
(* Amounts *)

\* What a numeric(12,2) column, and Math.round(x * 100) / 100, keep of x mils.
Piastres(x) == ((x + 5) \div 10) * 10

\* calculateTransferFee: a fixed rate is in mils, a percentage in basis points.
FeeOf(amount, terms) ==
  LET raw == CASE terms.type = "none"       -> 0
               [] terms.type = "fixed"      -> Piastres(terms.rate)
               [] terms.type = "percentage" ->
                    10 * ((2 * amount * terms.rate + 100000) \div 200000)
  IN IF raw < 0 THEN 0 ELSE raw

NetOf(amount, fee) == Piastres(amount - fee)

Order == [from : Safes, to : Safes, amount : Int, fee : Int, net : Int]
NoOrder == [from |-> 0, to |-> 0, amount |-> 0, fee |-> 0, net |-> 0]

\* validateTransferInput
Valid(o, rate) ==
  /\ o.from # o.to
  /\ o.amount > 0
  /\ rate >= 0
  /\ o.net >= 0

\* The pre-flight ownership check of executeSafeTransfer.
OwnsBoth(r, o) == {o.from, o.to} \subseteq {s \in live : Owner[s] = Company[r]}

-----------------------------------------------------------------------------
(* Rows and locks *)

First(r) == IF order[r].from < order[r].to THEN order[r].from ELSE order[r].to
Second(r) == IF First(r) = order[r].from THEN order[r].to ELSE order[r].from

Free(s) == lockedBy[s] = NoRequest
Held(r) == {s \in Safes : lockedBy[s] = r}

InTransaction(r) == pc[r] \in {"lockFirst", "lockSecond", "debit", "credit", "record"}
Answered(r) == pc[r] \in {"committed", "rejected", "failed"}

\* Mutant: the locks outlive the failed transaction.
RollbackKeepsLocks(r, outcome) ==
  /\ work' = [s \in Safes |-> IF lockedBy[s] = r THEN balance[s] ELSE work[s]]
  /\ pc' = [pc EXCEPT ![r] = outcome]
  /\ UNCHANGED <<live, condemned, balance, lockedBy, order, rows, fees>>

\* Rollback drops what the transaction wrote and its locks.
Rollback(r, outcome) ==
  /\ work' = [s \in Safes |-> IF lockedBy[s] = r THEN balance[s] ELSE work[s]]
  /\ lockedBy' = [s \in Safes |-> IF lockedBy[s] = r THEN NoRequest ELSE lockedBy[s]]
  /\ pc' = [pc EXCEPT ![r] = outcome]
  /\ UNCHANGED <<live, condemned, balance, order, rows, fees>>

-----------------------------------------------------------------------------
(* The handler, one action per statement *)

Init ==
  /\ live = Safes
  /\ condemned = {}
  /\ balance = Opening
  /\ work = Opening
  /\ lockedBy = [s \in Safes |-> NoRequest]
  /\ order = [r \in Requests |-> NoOrder]
  /\ pc = [r \in Requests |-> "idle"]
  /\ rows = [s \in Safes |-> [in |-> 0, out |-> 0, fee |-> 0]]
  /\ fees = [s \in Safes |-> 0]

\* Parse, compute the fee, validate, check ownership; none of it is locked.
Submit(r) ==
  /\ pc[r] = "idle"
  /\ \E f, t \in Safes, a \in Amounts, terms \in FeeTerms :
       LET fee == FeeOf(a, terms)
           o == [from |-> f, to |-> t, amount |-> a, fee |-> fee, net |-> NetOf(a, fee)]
       IN /\ order' = [order EXCEPT ![r] = o]
          /\ pc' = [pc EXCEPT ![r] =
               IF Valid(o, terms.rate) /\ OwnsBoth(r, o) THEN "lockFirst" ELSE "rejected"]
  /\ UNCHANGED <<rowVars, bookVars>>

\* SELECT ... WHERE id IN (..) ORDER BY id FOR UPDATE locks the smaller id first;
\* a row that is gone is skipped.
LockFirst(r) ==
  /\ pc[r] = "lockFirst"
  /\ Free(First(r))
  /\ lockedBy' = IF First(r) \in live THEN [lockedBy EXCEPT ![First(r)] = r] ELSE lockedBy
  /\ pc' = [pc EXCEPT ![r] = "lockSecond"]
  /\ UNCHANGED <<live, condemned, balance, work, order, bookVars>>

\* Mutant: the check that both rows came back is gone.
LockSecondUnchecked(r) ==
  /\ pc[r] = "lockSecond"
  /\ Free(Second(r))
  /\ lockedBy' = [lockedBy EXCEPT ![Second(r)] = r]
  /\ pc' = [pc EXCEPT ![r] = "debit"]
  /\ UNCHANGED <<live, condemned, balance, work, order, bookVars>>

LockSecond(r) ==
  /\ pc[r] = "lockSecond"
  /\ Free(Second(r))
  /\ {First(r), Second(r)} \subseteq live
  /\ lockedBy' = [lockedBy EXCEPT ![Second(r)] = r]
  /\ pc' = [pc EXCEPT ![r] = "debit"]
  /\ UNCHANGED <<live, condemned, balance, work, order, bookVars>>

\* rows.find(...) found only one of the two safes: 400 and rollback.
SafeMissing(r) ==
  /\ pc[r] = "lockSecond"
  /\ Free(Second(r))
  /\ ~ ({First(r), Second(r)} \subseteq live)
  /\ Rollback(r, "rejected")

\* Mutant: the WHERE clause has lost balance >= amount.
DebitUnguarded(r) ==
  LET s == order[r].from
  IN /\ pc[r] = "debit"
     /\ work' = [work EXCEPT ![s] = Piastres(@ - order[r].amount)]
     /\ pc' = [pc EXCEPT ![r] = "credit"]
     /\ UNCHANGED <<live, condemned, balance, lockedBy, order, bookVars>>

\* UPDATE safes SET balance = balance - amount WHERE balance >= amount
Debit(r) ==
  LET s == order[r].from
      a == order[r].amount
  IN /\ pc[r] = "debit"
     /\ work[s] >= a
     /\ work' = [work EXCEPT ![s] = Piastres(@ - a)]
     /\ pc' = [pc EXCEPT ![r] = "credit"]
     /\ UNCHANGED <<live, condemned, balance, lockedBy, order, bookVars>>

\* The UPDATE matched no row: 400 and rollback.
Insufficient(r) ==
  /\ pc[r] = "debit"
  /\ work[order[r].from] < order[r].amount
  /\ Rollback(r, "rejected")

\* Mutant: the destination gets the gross amount.
CreditGross(r) ==
  /\ pc[r] = "credit"
  /\ work' = [work EXCEPT ![order[r].to] = Piastres(@ + order[r].amount)]
  /\ pc' = [pc EXCEPT ![r] = "record"]
  /\ UNCHANGED <<live, condemned, balance, lockedBy, order, bookVars>>

\* UPDATE safes SET balance = balance + net.  The check that follows it in the
\* code recomputes net by the same formula and cannot fail.
Credit(r) ==
  /\ pc[r] = "credit"
  /\ work' = [work EXCEPT ![order[r].to] = Piastres(@ + order[r].net)]
  /\ pc' = [pc EXCEPT ![r] = "record"]
  /\ UNCHANGED <<live, condemned, balance, lockedBy, order, bookVars>>

\* Mutant: fees of up to ten piastres are not recorded as an expense.
RecordLargeFees(r) ==
  LET o == order[r]
      mine(s) == lockedBy[s] = r
  IN /\ pc[r] = "record"
     /\ balance' = [s \in Safes |-> IF mine(s) THEN work[s] ELSE balance[s]]
     /\ lockedBy' = [s \in Safes |-> IF mine(s) THEN NoRequest ELSE lockedBy[s]]
     /\ rows' = [s \in Safes |->
                   [in  |-> rows[s].in + (IF s = o.to THEN o.net ELSE 0),
                    out |-> rows[s].out + (IF s = o.from THEN Piastres(o.amount) ELSE 0),
                    fee |-> rows[s].fee + (IF s = o.from THEN o.fee ELSE 0)]]
     /\ fees' = [fees EXCEPT ![o.from] = @ + (IF o.fee > 100 THEN o.fee ELSE 0)]
     /\ pc' = [pc EXCEPT ![r] = "committed"]
     /\ UNCHANGED <<live, condemned, work, order>>

\* INSERT the transfer, its two rows of transactions and, with a fee, the
\* expense and a third row; the inserts lock nothing others wait for, so they
\* appear with the COMMIT that publishes them.
Record(r) ==
  LET o == order[r]
      mine(s) == lockedBy[s] = r
  IN /\ pc[r] = "record"
     /\ balance' = [s \in Safes |-> IF mine(s) THEN work[s] ELSE balance[s]]
     /\ lockedBy' = [s \in Safes |-> IF mine(s) THEN NoRequest ELSE lockedBy[s]]
     /\ rows' = [s \in Safes |->
                   [in  |-> rows[s].in + (IF s = o.to THEN o.net ELSE 0),
                    out |-> rows[s].out + (IF s = o.from THEN Piastres(o.amount) ELSE 0),
                    fee |-> rows[s].fee + (IF s = o.from THEN o.fee ELSE 0)]]
     /\ fees' = [fees EXCEPT ![o.from] = @ + o.fee]
     /\ pc' = [pc EXCEPT ![r] = "committed"]
     /\ UNCHANGED <<live, condemned, work, order>>

\* A statement timeout, a lost connection or a crash of the process before the
\* COMMIT: PostgreSQL rolls the transaction back.
Fail(r) == InTransaction(r) /\ Rollback(r, "failed")

\* DELETE /settings/safes/:id reads the balance and counts the movements of the
\* safe, outside any transaction; a safe nobody moved keeps its balance, so one
\* step stands for these reads.
Moved(s) == \E r \in Requests : pc[r] = "committed" /\ s \in {order[r].from, order[r].to}
CheckDelete(s) ==
  /\ s \in live \ condemned
  /\ balance[s] = 0
  /\ ~ Moved(s)
  /\ condemned' = condemned \cup {s}
  /\ UNCHANGED <<live, balance, work, lockedBy, order, pc, bookVars>>

\* The DELETE waits for the row lock and looks at nothing but the id.
DeleteSafe(s) ==
  /\ s \in condemned
  /\ Free(s)
  /\ live' = live \ {s}
  /\ condemned' = condemned \ {s}
  /\ UNCHANGED <<balance, work, lockedBy, order, pc, bookVars>>

Step(r) ==
  \/ LockFirst(r)
  \/ LockSecond(r)
  \/ SafeMissing(r)
  \/ Debit(r)
  \/ Insufficient(r)
  \/ Credit(r)
  \/ Record(r)

Transfer(r) == Submit(r) \/ Step(r) \/ Fail(r)

\* Every request has its answer: nothing is left to do.
Quiescent == (\A r \in Requests : Answered(r)) /\ UNCHANGED vars

Next ==
  \/ \E r \in Requests : Transfer(r)
  \/ \E s \in Deletable : CheckDelete(s) \/ DeleteSafe(s)
  \/ Quiescent

Spec == Init /\ [][Next]_vars

\* A handler that can take its next statement eventually takes it; failures and
\* new requests are never forced.
FairSpec == Spec /\ \A r \in Requests : WF_vars(Step(r))

-----------------------------------------------------------------------------
(* Properties *)

\* The shape of the state; an order that passed validation has a positive gross
\* amount that covers its fee (validateTransferInput).
TypeOK ==
  /\ condemned \subseteq live /\ live \subseteq Safes
  /\ balance \in [Safes -> Int]
  /\ work \in [Safes -> Int]
  /\ lockedBy \in [Safes -> Requests \cup {NoRequest}]
  /\ pc \in [Requests -> {"idle", "lockFirst", "lockSecond", "debit", "credit",
                          "record", "committed", "rejected", "failed"}]
  /\ \A r \in Requests :
       \/ pc[r] = "idle" /\ order[r] = NoOrder
       \/ pc[r] = "rejected" /\ order[r] \in Order
       \/ /\ pc[r] \notin {"idle", "rejected"}
          /\ order[r] \in Order
          /\ order[r].from # order[r].to
          /\ order[r].amount > 0 /\ order[r].fee >= 0 /\ order[r].net >= 0
  /\ DOMAIN order = Requests
  /\ rows \in [Safes -> [in : Int, out : Int, fee : Int]]
  /\ fees \in [Safes -> Int]

\* Rule 4 of the service: concurrent transfers never take a safe below zero, in
\* the committed table or inside any transaction.
NoOverdraft == \A s \in Safes : balance[s] >= 0 /\ work[s] >= 0

\* What a transaction wrote is visible to others only after its COMMIT and is
\* gone after its rollback: a row nobody has locked shows its committed value.
NoDirtyRow == \A s \in Safes : Free(s) => work[s] = balance[s]

\* Rule 6 of the service: locks are taken in ascending id order, so a request
\* that waits for a row holds only rows with smaller ids.
Waiting(r) == pc[r] \in {"lockFirst", "lockSecond"}
Wanted(r) == IF pc[r] = "lockFirst" THEN First(r) ELSE Second(r)
LocksAscend == \A r \in Requests : Waiting(r) => \A s \in Held(r) : s < Wanted(r)

\* A transfer commits only between safes that exist then: the rows it locked and
\* found cannot be deleted under it.
OnlyLiveSafes ==
  [][\A r \in Requests : pc[r] = "record" /\ pc'[r] = "committed" =>
       {order[r].from, order[r].to} \subseteq live]_vars

\* The transfer_in and transfer_out rows of table transactions explain every
\* committed balance.  It holds when amounts are whole piastres.
WholePiastres == \A a \in Amounts : a % 10 = 0
RowsExplainBalance ==
  \A s \in Safes : balance[s] = Opening[s] + rows[s].in - rows[s].out

\* "Debit the FULL gross amount from the source safe", "credit only the NET amount
\* to the destination safe" (safe-transfer.service.ts:222 and 241), the fee being
\* an expense: no step but the deletion of a safe changes what the safes hold and
\* have paid in fees together.  It holds when amounts are whole piastres.
Money == MapThenSumSet(LAMBDA s : balance[s] + fees[s], live)
MoneyConserved == [][live' = live => Money' = Money]_vars

\* "A safe that holds a balance cannot be deleted" (settings/safes.ts:135).
DeletedSafesEmpty == \A s \in Safes \ live : balance[s] = 0

\* Every transfer that starts its transaction is answered.
EveryTransferAnswered == \A r \in Requests : InTransaction(r) ~> Answered(r)

\* The whole service implements the atomic transfer.
Outcome(r) == CASE pc[r] = "idle" -> "none"
                [] pc[r] = "committed" -> "done"
                [] pc[r] \in {"rejected", "failed"} -> "refused"
                [] OTHER -> "open"
Promise == INSTANCE MoneyTransfer WITH outcome <- [r \in Requests |-> Outcome(r)]
ImplementsPromise == Promise!Spec

=============================================================================
