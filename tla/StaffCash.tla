------------------------------ MODULE StaffCash ------------------------------
(***************************************************************************)
(* The cash an employee receives: salary advances, custodies (cash to      *)
(* spend for the company and account for) and the payroll, with the safes  *)
(* it is taken from.                                                       *)
(*                                                                         *)
(* A handler reads what it checks, then runs a transaction.  The           *)
(* statements from the first row lock of a transaction to its COMMIT are   *)
(* one step, unless it reads a row it has not locked in between: nobody    *)
(* can see or disturb them.  Processing a period has no transaction: each  *)
(* statement commits by itself.                                            *)
(***************************************************************************)
EXTENDS Integers, FiniteSets, FiniteSetsExt, Functions

CONSTANTS
  Safes,        \* ids of the rows of table safes
  Staff,        \* the active employees
  Advances,     \* the salary advances the employees ask for
  Owner,        \* Owner[a]: the employee advance a is for
  AdvanceSize,  \* AdvanceSize[a]: its amount
  Custodies,    \* the custodies
  Worth,        \* Worth[c]: the cash of custody c
  GivenFrom,    \* GivenFrom[c]: the safe it is taken from
  Excess,       \* what an employee may spend more than the custody
  Periods,      \* the payroll periods
  Salary,       \* Salary[e]: the pay of a month before advances are deducted
  Desks,        \* Desks[d]: the safes the cash of document d may be paid from
  Petty,        \* the safe CustodyBook describes
  Opening,      \* Opening[s]: the balance of safe s to begin with
  MaxAdvances,  \* setting max_concurrent_advances
  Trusted,      \* the advances that need no approval (setting requires_approval)
  Shared,       \* documents whose requests may overlap in time
  Reviewed,     \* the periods whose records are reviewed even when they are paid
  MaxSent,      \* bound: requests sent
  Requests      \* the requests in progress at a time

Docs == Advances \cup Custodies \cup Periods

\* Rows of payroll_records, named by the request that inserted them.
Rows == Periods \X Staff \X Requests

ASSUME StaffAssumption ==
  /\ IsFiniteSet(Advances)
  /\ IsFiniteSet(Rows)
  /\ Staff # {}
  /\ Periods # {}
  /\ Owner \in [Advances -> Staff]
  /\ AdvanceSize \in [Advances -> Nat \ {0}]
  /\ Worth \in [Custodies -> Nat \ {0}]
  /\ GivenFrom \in [Custodies -> Safes]
  /\ Excess \in Nat
  /\ Salary \in [Staff -> Nat]
  /\ Desks \in [Docs -> SUBSET Safes]
  /\ Petty \in Safes
  /\ Opening \in [Safes -> Nat]
  /\ MaxAdvances \in Nat
  /\ Trusted \subseteq Advances
  /\ Shared \subseteq Docs
  /\ Reviewed \subseteq Periods
  /\ MaxSent \in Nat
  /\ Advances \cap Custodies = {}
  /\ Advances \cap Periods = {}
  /\ Custodies \cap Periods = {}

VARIABLES
  balance,      \* balance[s]: safes.balance
  advance,      \* advance[a]: salary_advances.status; "none": no row
  approved,     \* approved[a]: approved_amount
  remaining,    \* remaining[a]: remaining_balance
  repaid,       \* repaid[a]: sum of the manual payments in salary_advance_ledger
  custody,      \* custody[c]: employee_custody.status; "none", "deleted": no row
  due,          \* due[c]: reimbursement_due
  period,       \* period[p]: payroll_periods.status
  slip,         \* slip[x]: payroll_records.status; "none": no row
  cut,          \* cut[x]: the deduction of each advance in record x
  paidOut,      \* paidOut[x]: how many times record x was paid
  job, pc,      \* job[r], pc[r]: what request r asks for and its next statement
  seen,         \* seen[r]: what r has read
  sent          \* requests sent so far

advanceVars == <<advance, approved, remaining, repaid>>
custodyVars == <<custody, due>>
payrollVars == <<period, slip, cut, paidOut>>
vars == <<balance, advanceVars, custodyVars, payrollVars, job, pc, seen, sent>>

-----------------------------------------------------------------------------
(* Requests *)

NoCuts == [a \in Advances |-> 0]
Nothing == [rows |-> {}, staff |-> {}, cuts |-> NoCuts, last |-> FALSE]

Idle(r) == pc[r] = "idle"
Doc(r) == job[r].doc
Safe(r) == job[r].safe
Row(r) == job[r].row
Goto(r, statement) == pc' = [pc EXCEPT ![r] = statement]

RowsOf(p) == {x \in Rows : x[1] = p}
Exists(x) == slip[x] # "none"
Slips(p) == {x \in RowsOf(p) : Exists(x)}

\* "Math.max(0, netSalary)"
Net(x) == LET net == Salary[x[2]] - SumFunction(cut[x])
          IN IF net > 0 THEN net ELSE 0
Total(rows) == MapThenSumSet(Net, rows)

\* The payment of a single salary holds its locks over a read.
Paying(q) == pc[q] \in {"count", "finish"}
SafeFree(s) == \A q \in Requests : Paying(q) => Safe(q) # s
RowsFree(rows) == \A q \in Requests : Paying(q) => Row(q) \notin rows

\* Different records of a period may be paid at the same time, and a custody
\* accounted for by two people.
Agree(j, k) == \/ j.kind = "payOne" /\ k.kind = "payOne" /\ j.row # k.row
               \/ j.kind = "settle" /\ k.kind = "settle"
Alone(d) == d \in Shared \/ \A q \in Requests : ~ Idle(q) => Doc(q) # d

Start(r, request, first) ==
  /\ Idle(r)
  /\ sent < MaxSent
  /\ \A q \in Requests :
       ~ Idle(q) /\ Doc(q) = request.doc /\ Doc(q) \notin Shared => Agree(request, job[q])
  /\ job' = [job EXCEPT ![r] = request]
  /\ Goto(r, first)
  /\ sent' = sent + 1
Send(r, request, first) ==
  /\ Start(r, request, first)
  /\ UNCHANGED <<balance, advanceVars, custodyVars, payrollVars, seen>>

Ask(kind, d) ==
  [kind |-> kind, doc |-> d, safe |-> Petty, row |-> CHOOSE x \in Rows : TRUE,
   back |-> 0, more |-> 0]

\* An error, a timeout or a crash: what has not committed is undone.
Abandon(r) ==
  /\ Goto(r, "idle")
  /\ seen' = [seen EXCEPT ![r] = Nothing]
  /\ UNCHANGED <<balance, advanceVars, custodyVars, payrollVars, job, sent>>
Fail(r) == ~ Idle(r) /\ Abandon(r)

Answer(r) == Goto(r, "idle") /\ seen' = [seen EXCEPT ![r] = Nothing] /\ UNCHANGED <<job, sent>>

\* A request of one transaction that locks its row first.
AtOnce == sent < MaxSent /\ sent' = sent + 1 /\ UNCHANGED <<job, pc, seen>>

\* The plain SELECT of the safe, and the refusal when it holds too little.
Amount(r) == IF job[r].kind = "approve" THEN AdvanceSize[Doc(r)]
             ELSE IF job[r].kind = "payAll" THEN Total(seen[r].rows) ELSE Net(Row(r))
ReadSafe(r) ==
  /\ pc[r] = "readSafe"
  /\ IF balance[Safe(r)] < Amount(r)
     THEN Abandon(r)
     ELSE /\ Goto(r, job[r].kind)
          /\ UNCHANGED <<balance, advanceVars, custodyVars, payrollVars, job, seen, sent>>

-----------------------------------------------------------------------------
(* Salary advances *)

Active(e) == {a \in Advances : Owner[a] = e /\ advance[a] \in {"pending", "approved", "active"}}

\* The count of the employee's advances, and the INSERT.  An advance that needs no
\* approval counts as granted, and no safe is debited.
ReceiveAdvance(r, a) ==
  /\ advance[a] = "none"
  /\ \A q \in Requests : pc[q] = "insert" => Doc(q) # a
  /\ Cardinality(Active(Owner[a])) < MaxAdvances
  /\ Send(r, Ask("request", a), "insert")
InsertAdvance(r) ==
  /\ pc[r] = "insert"
  /\ IF Doc(r) \in Trusted
     THEN /\ advance' = [advance EXCEPT ![Doc(r)] = "approved"]
          /\ approved' = [approved EXCEPT ![Doc(r)] = AdvanceSize[Doc(r)]]
          /\ remaining' = [remaining EXCEPT ![Doc(r)] = AdvanceSize[Doc(r)]]
     ELSE /\ advance' = [advance EXCEPT ![Doc(r)] = "pending"]
          /\ UNCHANGED <<approved, remaining>>
  /\ Answer(r)
  /\ UNCHANGED <<balance, repaid, custodyVars, payrollVars>>

\* The status is read before the transaction and not again.
ReceiveApproval(r, a, s) ==
  /\ advance[a] = "pending"
  /\ Send(r, [Ask("approve", a) EXCEPT !.safe = s], "readSafe")

\* Mutant: the remaining balance is left at its default.
GrantWithoutBalance(r) ==
  /\ pc[r] = "approve"
  /\ SafeFree(Safe(r))
  /\ balance' = [balance EXCEPT ![Safe(r)] = @ - AdvanceSize[Doc(r)]]
  /\ advance' = [advance EXCEPT ![Doc(r)] = "active"]
  /\ approved' = [approved EXCEPT ![Doc(r)] = AdvanceSize[Doc(r)]]
  /\ Answer(r)
  /\ UNCHANGED <<remaining, repaid, custodyVars, payrollVars>>

GrantAdvance(r) ==
  /\ pc[r] = "approve"
  /\ SafeFree(Safe(r))
  /\ balance' = [balance EXCEPT ![Safe(r)] = @ - AdvanceSize[Doc(r)]]
  /\ advance' = [advance EXCEPT ![Doc(r)] = "active"]
  /\ approved' = [approved EXCEPT ![Doc(r)] = AdvanceSize[Doc(r)]]
  /\ remaining' = [remaining EXCEPT ![Doc(r)] = AdvanceSize[Doc(r)]]
  /\ Answer(r)
  /\ UNCHANGED <<repaid, custodyVars, payrollVars>>

ReceiveRejection(r, a) ==
  /\ advance[a] = "pending"
  /\ Send(r, Ask("reject", a), "reject")
RejectAdvance(r) ==
  /\ pc[r] = "reject"
  /\ advance' = [advance EXCEPT ![Doc(r)] = "rejected"]
  /\ Answer(r)
  /\ UNCHANGED <<balance, approved, remaining, repaid, custodyVars, payrollVars>>

\* Any advance is cancelled, in any status; the cash stays where it is.
CancelAdvance(a) ==
  /\ advance[a] # "none"
  /\ Alone(a)
  /\ advance' = [advance EXCEPT ![a] = "cancelled"]
  /\ AtOnce
  /\ UNCHANGED <<balance, approved, remaining, repaid, custodyVars, payrollVars>>

\* Mutant: what remains is compared with what was granted, not with what remains.
ManualPaymentOfGranted(a, amount) ==
  /\ advance[a] # "none"
  /\ amount <= approved[a]
  /\ remaining' = [remaining EXCEPT ![a] = @ - amount]
  /\ repaid' = [repaid EXCEPT ![a] = @ + amount]
  /\ advance' = [advance EXCEPT ![a] = IF remaining[a] = amount THEN "completed" ELSE "active"]
  /\ AtOnce
  /\ UNCHANGED <<balance, approved, custodyVars, payrollVars>>

\* FOR UPDATE, the comparison, the new balance; the status is not looked at.
ManualPayment(a, amount) ==
  /\ advance[a] # "none"
  /\ amount <= remaining[a]
  /\ remaining' = [remaining EXCEPT ![a] = @ - amount]
  /\ repaid' = [repaid EXCEPT ![a] = @ + amount]
  /\ advance' = [advance EXCEPT ![a] = IF remaining[a] = amount THEN "completed" ELSE "active"]
  /\ AtOnce
  /\ UNCHANGED <<balance, approved, custodyVars, payrollVars>>

-----------------------------------------------------------------------------
(* Custodies *)

\* The conditional UPDATE of the safe and the INSERT.
GrantCustody(c) ==
  /\ custody[c] = "none"
  /\ SafeFree(GivenFrom[c])
  /\ balance[GivenFrom[c]] >= Worth[c]
  /\ balance' = [balance EXCEPT ![GivenFrom[c]] = @ - Worth[c]]
  /\ custody' = [custody EXCEPT ![c] = "open"]
  /\ AtOnce
  /\ UNCHANGED <<advanceVars, due, payrollVars>>

\* What was spent and what comes back make up the custody, or more was spent and
\* nothing comes back.
ReceiveSettlement(r, c, back, more) ==
  /\ custody[c] = "open"
  /\ back = 0 \/ more = 0
  /\ Send(r, [Ask("settle", c) EXCEPT !.back = back, !.more = more], "settle")

\* Mutant: the status is not read again under the lock.
SettleUnchecked(r) ==
  /\ pc[r] = "settle"
  /\ SafeFree(GivenFrom[Doc(r)])
  /\ balance' = [balance EXCEPT ![GivenFrom[Doc(r)]] = @ + job[r].back]
  /\ custody' = [custody EXCEPT ![Doc(r)] = "settled"]
  /\ due' = [due EXCEPT ![Doc(r)] = job[r].more]
  /\ Answer(r)
  /\ UNCHANGED <<advanceVars, payrollVars>>

\* FOR UPDATE, the status again, and a conditional UPDATE at the end.
Settle(r) ==
  /\ pc[r] = "settle"
  /\ IF custody[Doc(r)] # "open"
     THEN Abandon(r)
     ELSE /\ SafeFree(GivenFrom[Doc(r)])
          /\ balance' = [balance EXCEPT ![GivenFrom[Doc(r)]] = @ + job[r].back]
          /\ custody' = [custody EXCEPT ![Doc(r)] = "settled"]
          /\ due' = [due EXCEPT ![Doc(r)] = job[r].more]
          /\ Answer(r)
          /\ UNCHANGED <<advanceVars, payrollVars>>

\* FOR UPDATE, a conditional UPDATE of the safe the client names, due becomes 0.
Reimburse(c, s) ==
  /\ custody[c] = "settled"
  /\ due[c] > 0
  /\ SafeFree(s)
  /\ balance[s] >= due[c]
  /\ balance' = [balance EXCEPT ![s] = @ - due[c]]
  /\ due' = [due EXCEPT ![c] = 0]
  /\ AtOnce
  /\ UNCHANGED <<advanceVars, custody, payrollVars>>

\* The deletion gives back what it read and deletes by id, whatever happened since.
ReceiveDeletion(r, c) ==
  /\ custody[c] = "open"
  /\ Send(r, Ask("delete", c), "delete")
DeleteCustody(r) ==
  /\ pc[r] = "delete"
  /\ SafeFree(GivenFrom[Doc(r)])
  /\ balance' = [balance EXCEPT ![GivenFrom[Doc(r)]] = @ + Worth[Doc(r)]]
  /\ custody' = [custody EXCEPT ![Doc(r)] = "deleted"]
  /\ due' = [due EXCEPT ![Doc(r)] = 0]
  /\ Answer(r)
  /\ UNCHANGED <<advanceVars, payrollVars>>

-----------------------------------------------------------------------------
(* The payroll *)

ReceiveProcess(r, p) ==
  /\ period[p] = "draft"
  /\ Start(r, Ask("process", p), "look")
  /\ seen' = [seen EXCEPT ![r] = [Nothing EXCEPT !.staff = Staff]]
  /\ UNCHANGED <<balance, advanceVars, custodyVars, payrollVars>>

\* Mutant: employees that already have a record are not passed over.
LookAgain(r, e) ==
  /\ pc[r] = "look"
  /\ e \in seen[r].staff
  /\ Goto(r, "slip")
  /\ job' = [job EXCEPT ![r].row = <<Doc(r), e, r>>]
  /\ seen' = [seen EXCEPT ![r].staff = @ \ {e},
                          ![r].cuts = [a \in Advances |->
                             IF Owner[a] = e /\ advance[a] = "active" THEN remaining[a] ELSE 0]]
  /\ UNCHANGED <<balance, advanceVars, custodyVars, payrollVars, sent>>

\* An employee who has a record is passed over; otherwise the active advances are
\* read: all that remains of each is deducted.
Look(r, e) ==
  /\ pc[r] = "look"
  /\ e \in seen[r].staff
  /\ IF \E x \in Slips(Doc(r)) : x[2] = e
     THEN /\ seen' = [seen EXCEPT ![r].staff = @ \ {e}]
          /\ UNCHANGED <<job, pc>>
     ELSE /\ Goto(r, "slip")
          /\ job' = [job EXCEPT ![r].row = <<Doc(r), e, r>>]
          /\ seen' = [seen EXCEPT ![r].staff = @ \ {e},
                                  ![r].cuts = [a \in Advances |->
                             IF Owner[a] = e /\ advance[a] = "active" THEN remaining[a] ELSE 0]]
  /\ UNCHANGED <<balance, advanceVars, custodyVars, payrollVars, sent>>

InsertSlip(r) ==
  /\ pc[r] = "slip"
  /\ slip' = [slip EXCEPT ![Row(r)] = "draft"]
  /\ cut' = [cut EXCEPT ![Row(r)] = seen[r].cuts]
  /\ Goto(r, "look")
  /\ UNCHANGED <<balance, advanceVars, custodyVars, period, paidOut, job, seen, sent>>

Processed(r) ==
  /\ pc[r] = "look"
  /\ seen[r].staff = {}
  /\ period' = [period EXCEPT ![Doc(r)] = "processing"]
  /\ Answer(r)
  /\ UNCHANGED <<balance, advanceVars, custodyVars, slip, cut, paidOut>>

\* A conditional UPDATE of the period, then the UPDATE of all its records.
ApprovePeriod(r, p) ==
  /\ period[p] = "processing"
  /\ Start(r, Ask("approvePeriod", p), "approveSlips")
  /\ period' = [period EXCEPT ![p] = "approved"]
  /\ UNCHANGED <<balance, advanceVars, custodyVars, slip, cut, paidOut, seen>>

ApproveSlips(r) ==
  /\ pc[r] = "approveSlips"
  /\ RowsFree(Slips(Doc(r)))
  /\ slip' = [x \in Rows |-> IF x \in Slips(Doc(r)) THEN "approved" ELSE slip[x]]
  /\ Answer(r)
  /\ UNCHANGED <<balance, advanceVars, custodyVars, period, cut, paidOut>>

\* A single record is approved or rejected, whatever its status.
ReviewSlip(x, verdict) ==
  /\ Exists(x)
  /\ slip[x] # "paid" \/ x[1] \in Reviewed
  /\ RowsFree({x})
  /\ Alone(x[1])
  /\ slip' = [slip EXCEPT ![x] = verdict]
  /\ AtOnce
  /\ UNCHANGED <<balance, advanceVars, custodyVars, period, cut, paidOut>>

\* The unpaid records are read before the transaction that pays them, the rejected
\* ones with them.
ReceivePayPeriod(r, p, s) ==
  LET unpaid == {x \in Slips(p) : slip[x] # "paid"}
  IN /\ period[p] = "approved"
     /\ Total(unpaid) > 0
     /\ Start(r, [Ask("payAll", p) EXCEPT !.safe = s], "readSafe")
     /\ seen' = [seen EXCEPT ![r] = [Nothing EXCEPT !.rows = unpaid]]
     /\ UNCHANGED <<balance, advanceVars, custodyVars, payrollVars>>

PayPeriod(r) ==
  /\ pc[r] = "payAll"
  /\ SafeFree(Safe(r))
  /\ RowsFree(seen[r].rows)
  /\ balance' = [balance EXCEPT ![Safe(r)] = @ - Total(seen[r].rows)]
  /\ slip' = [x \in Rows |-> IF x \in seen[r].rows THEN "paid" ELSE slip[x]]
  /\ paidOut' = [x \in Rows |-> IF x \in seen[r].rows THEN paidOut[x] + 1 ELSE paidOut[x]]
  /\ period' = [period EXCEPT ![Doc(r)] = "paid"]
  /\ Answer(r)
  /\ UNCHANGED <<advanceVars, custodyVars, cut>>

ReceivePayment(r, x, s) ==
  /\ Exists(x)
  /\ slip[x] # "paid"
  /\ period[x[1]] = "approved"
  /\ Net(x) > 0
  /\ Send(r, [Ask("payOne", x[1]) EXCEPT !.safe = s, !.row = x], "readSafe")

\* Mutant: the safe is debited last, so that nothing is locked at the count.
DebitLate(r) ==
  /\ pc[r] = "payOne"
  /\ RowsFree({Row(r)})
  /\ Goto(r, "count")
  /\ UNCHANGED <<balance, advanceVars, custodyVars, payrollVars, job, seen, sent>>

\* The UPDATEs of the safe and the record lock both rows ...
DebitSalary(r) ==
  /\ pc[r] = "payOne"
  /\ SafeFree(Safe(r))
  /\ RowsFree({Row(r)})
  /\ Goto(r, "count")
  /\ UNCHANGED <<balance, advanceVars, custodyVars, payrollVars, job, seen, sent>>

\* ... then the records of the period that are not yet paid are read ...
CountUnpaid(r) ==
  /\ pc[r] = "count"
  /\ seen' = [seen EXCEPT ![r].last =
                \A x \in Slips(Doc(r)) : x = Row(r) \/ slip[x] = "paid"]
  /\ Goto(r, "finish")
  /\ UNCHANGED <<balance, advanceVars, custodyVars, payrollVars, job, sent>>

\* ... and when there is none the period is paid too; the COMMIT.
CommitPayment(r) ==
  /\ pc[r] = "finish"
  /\ balance' = [balance EXCEPT ![Safe(r)] = @ - Net(Row(r))]
  /\ slip' = [slip EXCEPT ![Row(r)] = "paid"]
  /\ paidOut' = [paidOut EXCEPT ![Row(r)] = @ + 1]
  /\ period' = [period EXCEPT ![Doc(r)] = IF seen[r].last THEN "paid" ELSE @]
  /\ Answer(r)
  /\ UNCHANGED <<advanceVars, custodyVars, cut>>

-----------------------------------------------------------------------------
Init ==
  /\ balance = Opening
  /\ advance = [a \in Advances |-> "none"]
  /\ approved = [a \in Advances |-> 0]
  /\ remaining = [a \in Advances |-> 0]
  /\ repaid = [a \in Advances |-> 0]
  /\ custody = [c \in Custodies |-> "none"]
  /\ due = [c \in Custodies |-> 0]
  /\ period = [p \in Periods |-> "draft"]
  /\ slip = [x \in Rows |-> "none"]
  /\ cut = [x \in Rows |-> NoCuts]
  /\ paidOut = [x \in Rows |-> 0]
  /\ job = [r \in Requests |-> Ask("process", CHOOSE p \in Periods : TRUE)]
  /\ pc = [r \in Requests |-> "idle"]
  /\ seen = [r \in Requests |-> Nothing]
  /\ sent = 0

AdvanceRequest(r, a) ==
  \/ ReceiveAdvance(r, a) \/ ReceiveRejection(r, a)
  \/ \E s \in Desks[a] : ReceiveApproval(r, a, s)
CustodyRequest(r, c) ==
  \/ ReceiveDeletion(r, c)
  \/ \E back \in 0..Worth[c], more \in 0..Excess : ReceiveSettlement(r, c, back, more)
PayrollRequest(r, p) ==
  \/ ReceiveProcess(r, p) \/ ApprovePeriod(r, p)
  \/ \E s \in Desks[p] : \/ ReceivePayPeriod(r, p, s)
                            \/ \E x \in RowsOf(p) : ReceivePayment(r, x, s)
Receive(r) ==
  \/ \E a \in Advances : AdvanceRequest(r, a)
  \/ \E c \in Custodies : CustodyRequest(r, c)
  \/ \E p \in Periods : PayrollRequest(r, p)

Step(r) ==
  \/ ReadSafe(r) \/ InsertAdvance(r) \/ GrantAdvance(r) \/ RejectAdvance(r)
  \/ Settle(r) \/ DeleteCustody(r)
  \/ (\E e \in Staff : Look(r, e)) \/ InsertSlip(r) \/ Processed(r) \/ ApproveSlips(r)
  \/ PayPeriod(r) \/ DebitSalary(r) \/ CountUnpaid(r) \/ CommitPayment(r)

AtOnceRequest ==
  \/ \E a \in Advances : \/ CancelAdvance(a)
                         \/ \E amount \in 1..AdvanceSize[a] : ManualPayment(a, amount)
  \/ \E c \in Custodies : GrantCustody(c) \/ \E s \in Desks[c] : Reimburse(c, s)
  \/ \E x \in Rows, verdict \in {"approved", "rejected"} : ReviewSlip(x, verdict)

\* The clients have sent all they may: nothing is left to do.
Quiescent == (\A r \in Requests : Idle(r)) /\ UNCHANGED vars

Next == (\E r \in Requests : Receive(r) \/ Step(r) \/ Fail(r)) \/ AtOnceRequest \/ Quiescent

Spec == Init /\ [][Next]_vars

-----------------------------------------------------------------------------
(* Properties *)

TypeOK ==
  /\ balance \in [Safes -> Int]
  /\ advance \in [Advances -> {"none", "pending", "approved", "active", "completed", "rejected", "cancelled"}]
  /\ approved \in [Advances -> Nat]
  /\ remaining \in [Advances -> Nat]
  /\ repaid \in [Advances -> Nat]
  /\ custody \in [Custodies -> {"none", "open", "settled", "deleted"}]
  /\ due \in [Custodies -> Nat]
  /\ period \in [Periods -> {"draft", "processing", "approved", "paid"}]
  /\ slip \in [Rows -> {"none", "draft", "approved", "rejected", "paid"}]
  /\ cut \in [Rows -> [Advances -> Nat]]
  /\ paidOut \in [Rows -> Nat]
  /\ job \in [Requests ->
       [kind : {"request", "approve", "reject", "settle", "delete", "process",
                "approvePeriod", "payAll", "payOne"},
        doc : Docs, safe : Safes, row : Rows, back : Nat, more : Nat]]
  /\ pc \in [Requests -> {"idle", "insert", "readSafe", "approve", "reject", "settle", "delete",
                          "look", "slip", "approveSlips", "payAll", "payOne", "count", "finish"}]
  /\ seen \in [Requests -> [rows : SUBSET Rows, staff : SUBSET Staff,
                            cuts : [Advances -> Nat], last : BOOLEAN]]
  /\ sent \in 0..MaxSent

\* "Lock the row of the advance so that two payments at the same time do not exceed
\* the balance" (salary-advances.ts:452): for an advance that is decided upon by one
\* person at a time, what was paid back and what remains make up what was granted.
AdvanceAccounted ==
  \A a \in Advances \ Shared : remaining[a] + repaid[a] = approved[a]

\* "This salary was paid before" (processing.ts:655): an employee is paid for a
\* period at most once, though the processing may stop half-way and start again.
PaidOnce(p) ==
  \A x, y \in RowsOf(p) :
    x[2] = y[2] /\ paidOut[x] > 0 /\ paidOut[y] > 0 => x = y /\ paidOut[x] = 1
SalaryPaidOnce == \A p \in Periods \ (Shared \cup Reviewed) : PaidOnce(p)

\* "All salaries of this period are paid" (processing.ts:334): the period of which
\* every salary is paid, from one safe, is paid itself, though two cashiers pay
\* two employees at the same time.
PeriodFollowsSalaries ==
  \A p \in Periods \ (Shared \cup Reviewed) :
    (\E s \in Safes : Desks[p] = {s}) /\ (\E x \in Slips(p) : paidOut[x] > 0)
    => (period[p] = "paid" <=> \A x \in Slips(p) : slip[x] = "paid")

\* The custodies of the petty cash keep its book, though two people may account
\* for one of them at the same time, when none is deleted meanwhile.
PettyCustodies == {c \in Custodies : GivenFrom[c] = Petty}
Book == INSTANCE CustodyBook WITH
          Custodies <- PettyCustodies, Beginning <- Opening[Petty],
          Worth <- [c \in PettyCustodies |-> Worth[c]],
          cash <- balance[Petty],
          state <- [c \in PettyCustodies |-> custody[c]],
          owed <- [c \in PettyCustodies |-> due[c]]
ImplementsCustodyBook == Book!Spec

=============================================================================
