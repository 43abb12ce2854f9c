----------------------------- MODULE RepairJobs -----------------------------
(***************************************************************************)
(* The jobs of the repair workshop: their status, the services with the    *)
(* commissions of the technicians, the payments of the customer, the       *)
(* delivery with its shipping, and the return by the customer.             *)
(*                                                                         *)
(* A handler reads, then writes.  What a transaction does from its first   *)
(* row lock to its COMMIT is one step, unless it reads rows it has not     *)
(* locked in between: the delivery locks the job, then reads the services, *)
(* then locks their commissions.                                           *)
(***************************************************************************)
EXTENDS Integers, FiniteSets, FiniteSetsExt

CONSTANTS
  Jobs,         \* the repair jobs
  Services,     \* the services on the jobs
  For,          \* For[v]: the job of service v
  Fees,         \* the commissions a service may be priced at
  Price,        \* Price[j]: final_cost of job j to begin with
  Freight,      \* Freight[j]: what the shipping of job j costs
  Opening,      \* the balance of the safe to begin with
  Shared,       \* jobs whose requests may overlap in time
  Flaky,        \* jobs a change of which may stop between its two statements
  Corrected,    \* jobs whose final_cost and deposit_paid are written by hand
  MaxSent,      \* bound: requests sent
  Requests      \* the requests in progress at a time

ASSUME RepairAssumption ==
  /\ Jobs # {} /\ Services # {} /\ IsFiniteSet(Services)
  /\ For \in [Services -> Jobs]
  /\ Fees \subseteq Nat \ {0} /\ Fees # {} /\ IsFiniteSet(Fees)
  /\ Price \in [Jobs -> Nat \ {0}]
  /\ Freight \in [Jobs -> Nat]
  /\ Opening \in Nat
  /\ Shared \subseteq Jobs /\ Flaky \subseteq Jobs /\ Corrected \subseteq Jobs
  /\ MaxSent \in Nat

VARIABLES
  status,       \* status[j]: repair_jobs.status
  returned,     \* returned[j]: is_customer_returned
  reviewed,     \* reviewed[j]: pre_delivery_reviewed_at is set
  settled,      \* settled[j]: shipping_settled_at is set
  reports,      \* reports[j]: the engineer's reports after the last entry into the repair in the history
  written,      \* written[j]: a report was written in the present repair
  fee,          \* fee[v]: the commission service v is worth; 0: no service
  locked,       \* locked[v]: commission_locked
  earned,       \* earned[v]: the commission_earned rows of service v
  clawed,       \* clawed[v]: what the reversal rows take back of them
  cost,         \* cost[j]: final_cost
  paid,         \* paid[j]: the sum of its repair_payments rows
  banked,       \* banked[j]: the part of it in rows that name the safe
  atGate,       \* atGate[j]: what the delivery gate has taken so far, on credit too
  deposit,      \* deposit[j]: deposit_paid
  cash,         \* safes.balance of the workshop's safe
  job, pc,      \* job[r], pc[r]: what request r asks for and its next statement
  sent          \* requests sent so far

jobVars == <<status, returned, reviewed, settled>>
reportVars == <<reports, written>>
serviceVars == <<fee, locked, earned, clawed>>
moneyVars == <<cost, paid, banked, atGate, deposit, cash>>
vars == <<jobVars, reportVars, serviceVars, moneyVars, job, pc, sent>>

\* "received" stands for every stage that can be entered from any open stage on
\* conditions of its own, "cancelled" for the rejected jobs too.
Terminal == {"delivered", "cancelled"}
Statuses == {"received", "in_repair", "final_quality_check"} \cup Terminal

-----------------------------------------------------------------------------
(* Requests *)

Idle(r) == pc[r] = "idle"
Doc(r) == job[r].doc
Goto(r, statement) == pc' = [pc EXCEPT ![r] = statement]

\* The delivery of job j holds the lock of its row.
Locked(j) == \E r \in Requests : pc[r] \in {"services", "commissions"} /\ Doc(r) = j
Alone(j) == j \in Shared \/ \A r \in Requests : ~ Idle(r) => Doc(r) # j

Ask(kind, j) ==
  [kind |-> kind, doc |-> j, to |-> "received", service |-> CHOOSE v \in Services : TRUE,
   amount |-> 0, total |-> 0, seen |-> {}]

\* What is remembered of a request that was answered.
Rest == Ask("move", CHOOSE j \in Jobs : TRUE)
Answer(r) == Goto(r, "idle") /\ job' = [job EXCEPT ![r] = Rest] /\ UNCHANGED sent

Send(r, request, first) ==
  /\ Idle(r)
  /\ sent < MaxSent
  /\ Alone(request.doc)
  /\ job' = [job EXCEPT ![r] = request]
  /\ Goto(r, first)
  /\ sent' = sent + 1
  /\ UNCHANGED <<jobVars, reportVars, serviceVars, moneyVars>>

\* A request of one statement or one transaction that locks its row first.
AtOnce(j) == Alone(j) /\ ~ Locked(j) /\ sent < MaxSent /\ sent' = sent + 1 /\ UNCHANGED <<job, pc>>

\* An error, a timeout or a crash: what has not committed is undone.
Abandon(r) == Answer(r) /\ UNCHANGED <<jobVars, reportVars, serviceVars, moneyVars>>
Fail(r) == ~ Idle(r) /\ (pc[r] = "history" => Doc(r) \in Flaky) /\ Abandon(r)

-----------------------------------------------------------------------------
(* The status *)

\* What a stage requires: the inspection a report written after the last entry into
\* the repair, the delivery the review and the settlement of the shipping.
Requirement(j, to) ==
  /\ to = "final_quality_check" => reports[j] > 0
  /\ to = "delivered" => reviewed[j] /\ settled[j]

\* Mutant: a job that is delivered or cancelled may be moved on.
ReceiveAnyMove(r, j, to) ==
  /\ to # status[j]
  /\ Requirement(j, to)
  /\ Send(r, [Ask("move", j) EXCEPT !.to = to], IF to = "delivered" THEN "deliver" ELSE "move")

\* The job is read once, and a terminal status is never left by a change of status.
ReceiveMove(r, j, to) ==
  /\ status[j] \notin Terminal
  /\ to # status[j]
  /\ Requirement(j, to)
  /\ Send(r, [Ask("move", j) EXCEPT !.to = to], IF to = "delivered" THEN "deliver" ELSE "move")

\* "delivered" asked for a delivered job is no change of status: it is not validated, and
\* with `locked` in the body it is not refused either, so the delivery runs again.
ReceiveDeliveryAgain(r, j) ==
  /\ status[j] = "delivered"
  /\ Send(r, [Ask("move", j) EXCEPT !.to = "delivered"], "deliver")

\* The UPDATE names the job by its id alone.
Move(r) ==
  /\ pc[r] = "move"
  /\ ~ Locked(Doc(r))
  /\ status' = [status EXCEPT ![Doc(r)] = job[r].to]
  /\ Goto(r, "history")
  /\ written' = IF job[r].to = "in_repair" THEN [written EXCEPT ![Doc(r)] = FALSE] ELSE written
  /\ UNCHANGED <<returned, reviewed, settled, reports, serviceVars, moneyVars, job, sent>>

\* Mutant: reports written before the entry into the repair count as well.
KeepOldReports(r) ==
  /\ pc[r] = "history"
  /\ Answer(r)
  /\ UNCHANGED <<jobVars, reportVars, serviceVars, moneyVars>>

\* The history is written by a statement of its own: from then on the reports before
\* the entry into the repair no longer count.
InsertHistory(r) ==
  /\ pc[r] = "history"
  /\ Answer(r)
  /\ reports' = IF job[r].to = "in_repair" THEN [reports EXCEPT ![Doc(r)] = 0] ELSE reports
  /\ UNCHANGED <<jobVars, written, serviceVars, moneyVars>>

WriteReport(j) ==
  /\ Alone(j) /\ sent < MaxSent /\ sent' = sent + 1
  /\ reports' = [reports EXCEPT ![j] = @ + 1]
  /\ written' = [written EXCEPT ![j] = TRUE]
  /\ UNCHANGED <<jobVars, serviceVars, moneyVars, job, pc>>

DeleteReport(j) ==
  /\ reports[j] > 0
  /\ Alone(j) /\ sent < MaxSent /\ sent' = sent + 1
  /\ reports' = [reports EXCEPT ![j] = @ - 1]
  /\ UNCHANGED <<jobVars, written, serviceVars, moneyVars, job, pc>>

-----------------------------------------------------------------------------
(* The services and their commissions *)

ServicesOf(j) == {v \in Services : For[v] = j /\ fee[v] > 0}

\* A service is added to a job in any status.
AddService(v, price) ==
  /\ fee[v] = 0 /\ ~ locked[v] /\ earned[v] = 0
  /\ Alone(For[v]) /\ sent < MaxSent /\ sent' = sent + 1
  /\ fee' = [fee EXCEPT ![v] = price]
  /\ UNCHANGED <<jobVars, reportVars, locked, earned, clawed, moneyVars, job, pc>>

\* Mutant: the lock of the commission is not looked at.
ReceiveAnyEdit(r, v, price) ==
  /\ fee[v] > 0 /\ price # fee[v]
  /\ Send(r, [Ask("edit", For[v]) EXCEPT !.service = v, !.amount = price], "edit")

\* The lock is read once; the UPDATE, or the DELETE when the new price is 0, names
\* the service by its id alone.
ReceiveEdit(r, v, price) ==
  /\ fee[v] > 0 /\ price # fee[v]
  /\ ~ locked[v]
  /\ Send(r, [Ask("edit", For[v]) EXCEPT !.service = v, !.amount = price], "edit")
EditService(r) ==
  /\ pc[r] = "edit"
  /\ Answer(r)
  /\ LET v == job[r].service
     IN fee' = [fee EXCEPT ![v] = IF @ = 0 THEN 0 ELSE job[r].amount]
  /\ UNCHANGED <<jobVars, reportVars, locked, earned, clawed, moneyVars>>

\* The delivery: the UPDATE of the job takes its lock ...
LockJob(r) ==
  /\ pc[r] = "deliver"
  /\ ~ Locked(Doc(r))
  /\ Goto(r, "services")
  /\ UNCHANGED <<jobVars, reportVars, serviceVars, moneyVars, job, sent>>

\* Mutant: commissions that are locked already are locked again.
ReadEveryService(r) ==
  /\ pc[r] = "services"
  /\ Goto(r, "commissions")
  /\ job' = [job EXCEPT ![r].seen = {<<v, fee[v]>> : v \in ServicesOf(Doc(r))}]
  /\ UNCHANGED <<jobVars, reportVars, serviceVars, moneyVars, sent>>

\* ... then the services are read that have no locked commission yet ...
ReadServices(r) ==
  /\ pc[r] = "services"
  /\ Goto(r, "commissions")
  /\ job' = [job EXCEPT ![r].seen =
               {<<v, fee[v]>> : v \in {w \in ServicesOf(Doc(r)) : ~ locked[w]}}]
  /\ UNCHANGED <<jobVars, reportVars, serviceVars, moneyVars, sent>>

\* What was read of service v is credited.
Credit(seen, v) ==
  IF \E x \in seen : x[1] = v THEN (CHOOSE x \in seen : x[1] = v)[2] ELSE 0

\* ... and their commissions locked and credited as they were read; the COMMIT.
LockCommissions(r) ==
  LET seen == job[r].seen
  IN /\ pc[r] = "commissions"
     /\ status' = [status EXCEPT ![Doc(r)] = "delivered"]
     /\ locked' = [v \in Services |-> locked[v] \/ (fee[v] > 0 /\ \E x \in seen : x[1] = v)]
     /\ earned' = [v \in Services |-> earned[v] + Credit(seen, v)]
     /\ Answer(r)
     /\ UNCHANGED <<returned, reviewed, settled, reportVars, fee, clawed, moneyVars>>

-----------------------------------------------------------------------------
(* The payments *)

\* A payment goes to the safe when it names one ("pay"), else nowhere ("note").
Asked(kind, j, amount) ==
  [Ask(kind, j) EXCEPT !.to = status[j], !.amount = amount, !.total = paid[j]]

\* Mutant: what was paid is not compared with the price.
ReceiveAnyPayment(r, j, amount) ==
  \E kind \in {"pay", "note"} : Send(r, Asked(kind, j, amount), "pay")

\* The payments are added up, and an amount above the rest of the price refused.
ReceivePayment(r, j, amount) ==
  /\ amount <= cost[j] - paid[j]
  /\ \E kind \in {"pay", "note"} : Send(r, Asked(kind, j, amount), "pay")

\* The history of a payment names the status the job has, as if it was entered again:
\* in the repair the reports written so far no longer count.
RowOf(j, stage) == reports' = IF stage = "in_repair" THEN [reports EXCEPT ![j] = 0] ELSE reports

\* deposit_paid is the sum that was read and the amount.
InsertPayment(r) ==
  LET j == Doc(r) toSafe == IF job[r].kind = "pay" THEN job[r].amount ELSE 0 IN
  /\ pc[r] = "pay"
  /\ ~ Locked(j)
  /\ paid' = [paid EXCEPT ![j] = @ + job[r].amount]
  /\ banked' = [banked EXCEPT ![j] = @ + toSafe]
  /\ cash' = cash + toSafe
  /\ deposit' = [deposit EXCEPT ![j] = job[r].total + job[r].amount]
  /\ RowOf(j, job[r].to)
  /\ Answer(r)
  /\ UNCHANGED <<jobVars, written, serviceVars, cost, atGate>>

\* The DELETE claims the row, the safe it names is debited whatever it holds, and
\* deposit_paid becomes the sum of the rows that are left.
DeletePayment(j, amount, ofSafe) ==
  /\ ofSafe <= amount /\ ofSafe <= banked[j] /\ amount - ofSafe <= paid[j] - banked[j]
  /\ ofSafe \in {0, amount}
  /\ AtOnce(j)
  /\ paid' = [paid EXCEPT ![j] = @ - amount]
  /\ banked' = [banked EXCEPT ![j] = @ - ofSafe]
  /\ cash' = cash - ofSafe
  /\ deposit' = [deposit EXCEPT ![j] = paid[j] - amount]
  /\ RowOf(j, status[j])
  /\ UNCHANGED <<jobVars, written, serviceVars, cost, atGate>>

\* PATCH, and the creation of the job, write final_cost and deposit_paid as they are sent.
Correct(j, price, received) ==
  /\ j \in Corrected
  /\ AtOnce(j)
  /\ cost' = [cost EXCEPT ![j] = price]
  /\ deposit' = [deposit EXCEPT ![j] = received]
  /\ UNCHANGED <<jobVars, reportVars, serviceVars, paid, banked, atGate, cash>>

-----------------------------------------------------------------------------
(* The delivery gate and the return *)

\* The review at the delivery gate takes what the clerk has entered, in cash and on
\* credit: it is compared with nothing, only the cash reaches the safe, and deposit_paid
\* stays.  A gate whose next request is refused sends the review again.
Review(j, amount, inCash) ==
  /\ AtOnce(j)
  /\ reviewed' = [reviewed EXCEPT ![j] = TRUE]
  /\ atGate' = [atGate EXCEPT ![j] = @ + amount]
  /\ paid' = [paid EXCEPT ![j] = @ + amount]
  /\ banked' = [banked EXCEPT ![j] = @ + inCash]
  /\ cash' = cash + inCash
  /\ UNCHANGED <<status, returned, settled, reportVars, serviceVars, cost, deposit>>

\* The claim of shipping_settled_at, and the safe debited if it holds enough.
SettleShipping(j) ==
  /\ ~ settled[j]
  /\ cash >= Freight[j]
  /\ AtOnce(j)
  /\ settled' = [settled EXCEPT ![j] = TRUE]
  /\ cash' = cash - Freight[j]
  /\ UNCHANGED <<status, returned, reviewed, reportVars, serviceVars, cost, paid, banked,
                 atGate, deposit>>

\* The transaction of the return reads the job, and its price, without a lock.
ReceiveReturn(r, j, refund) ==
  /\ status[j] = "delivered"
  /\ ~ returned[j]
  /\ Send(r, [Ask("return", j) EXCEPT !.amount = refund, !.total = cost[j]], "return")

\* The share of the price that is refunded, at most all of it, is taken back from
\* every technician, rounded to the nearest, and nothing of a job without a price; each
\* service has its own technician.
Share(price, refund, v) ==
  LET part == IF refund < price THEN refund ELSE price
  IN IF price = 0 THEN 0 ELSE (2 * earned[v] * part + price) \div (2 * price)

TakeBack(r) ==
  LET j == Doc(r) refund == job[r].amount IN
  /\ pc[r] = "return"
  /\ IF cash < refund
     THEN Abandon(r)
     ELSE /\ ~ Locked(j)
          /\ returned' = [returned EXCEPT ![j] = TRUE]
          /\ cash' = cash - refund
          /\ clawed' = [v \in Services |->
                          IF For[v] = j THEN clawed[v] + Share(job[r].total, refund, v) ELSE clawed[v]]
          /\ Answer(r)
          /\ UNCHANGED <<status, reviewed, settled, reportVars, fee, locked, earned,
                         cost, paid, banked, atGate, deposit>>

-----------------------------------------------------------------------------
Init ==
  /\ status = [j \in Jobs |-> "received"]
  /\ returned = [j \in Jobs |-> FALSE]
  /\ reviewed = [j \in Jobs |-> FALSE]
  /\ settled = [j \in Jobs |-> FALSE]
  /\ reports = [j \in Jobs |-> 0]
  /\ written = [j \in Jobs |-> FALSE]
  /\ fee = [v \in Services |-> 0]
  /\ locked = [v \in Services |-> FALSE]
  /\ earned = [v \in Services |-> 0]
  /\ clawed = [v \in Services |-> 0]
  /\ cost = Price
  /\ paid = [j \in Jobs |-> 0]
  /\ banked = [j \in Jobs |-> 0]
  /\ atGate = [j \in Jobs |-> 0]
  /\ deposit = [j \in Jobs |-> 0]
  /\ cash = Opening
  /\ job = [r \in Requests |-> Rest]
  /\ pc = [r \in Requests |-> "idle"]
  /\ sent = 0

Receive(r) ==
  \/ \E j \in Jobs, to \in Statuses : ReceiveMove(r, j, to)
  \/ \E j \in Jobs : ReceiveDeliveryAgain(r, j)
  \/ \E v \in Services, price \in Fees \cup {0} : ReceiveEdit(r, v, price)
  \/ \E j \in Jobs : \E amount \in 1..Price[j] : ReceivePayment(r, j, amount)
  \/ \E j \in Jobs : \E refund \in 0..Price[j] + 1 : ReceiveReturn(r, j, refund)

Step(r) ==
  \/ Move(r) \/ InsertHistory(r) \/ LockJob(r) \/ ReadServices(r) \/ LockCommissions(r)
  \/ EditService(r) \/ InsertPayment(r) \/ TakeBack(r)

AtOnceRequest ==
  \/ \E j \in Jobs : WriteReport(j) \/ DeleteReport(j) \/ SettleShipping(j)
  \/ \E v \in Services, price \in Fees : AddService(v, price)
  \/ \E j \in Jobs : \E amount \in 1..Price[j], ofSafe \in 0..Price[j] :
       DeletePayment(j, amount, ofSafe)
  \/ \E j \in Jobs : \E amount \in 0..Price[j] : \E inCash \in 0..amount :
       Review(j, amount, inCash)
  \/ \E j \in Jobs : \E price, received \in 0..Price[j] : Correct(j, price, received)

\* The clients have sent all they may: nothing is left to do.
Quiescent == (\A r \in Requests : Idle(r)) /\ UNCHANGED vars

Next == (\E r \in Requests : Receive(r) \/ Step(r) \/ Fail(r)) \/ AtOnceRequest \/ Quiescent

Spec == Init /\ [][Next]_vars

-----------------------------------------------------------------------------
(* Properties *)

TypeOK ==
  /\ status \in [Jobs -> Statuses]
  /\ returned \in [Jobs -> BOOLEAN]
  /\ reviewed \in [Jobs -> BOOLEAN]
  /\ settled \in [Jobs -> BOOLEAN]
  /\ reports \in [Jobs -> Nat]
  /\ written \in [Jobs -> BOOLEAN]
  /\ fee \in [Services -> Fees \cup {0}]
  /\ locked \in [Services -> BOOLEAN]
  /\ earned \in [Services -> Nat]
  /\ clawed \in [Services -> Nat]
  /\ cost \in [Jobs -> Nat]
  /\ paid \in [Jobs -> Nat]
  /\ banked \in [Jobs -> Nat] /\ \A j \in Jobs : banked[j] <= paid[j]
  /\ atGate \in [Jobs -> Nat]
  /\ deposit \in [Jobs -> Nat]
  /\ cash \in Int
  /\ job \in [Requests ->
       [kind : {"move", "edit", "pay", "note", "return"}, doc : Jobs, to : Statuses, service : Services,
        amount : Nat, total : Nat, seen : SUBSET (Services \X Fees)]]
  /\ pc \in [Requests -> {"idle", "move", "history", "deliver", "services", "commissions",
                          "edit", "pay", "return"}]
  /\ sent \in 0..MaxSent

\* "Locked before: skip" (commission.service.ts:141): a service earns its technician
\* one commission at one of its prices, even when the job is delivered by two people
\* at the same time and the service edited or deleted meanwhile.
CommissionEarnedOnce == \A v \in Services : earned[v] \in Fees \cup {0}

\* "A service that was locked at the delivery cannot be changed" (job-services.ts:175):
\* the commission of a job that one person works on at a time is the one the service
\* is worth, and it stays so.
CommissionAsPriced ==
  \A v \in Services : For[v] \notin Shared =>
    earned[v] = IF locked[v] THEN fee[v] ELSE 0

\* "The amount exceeds the rest" (payments.ts:68): what the customer of a job has paid
\* beyond its price was taken at the delivery gate, which compares with nothing, and
\* deposit_paid is short of the payments by what the gate took at most; for a job that
\* one person works on at a time and whose price and deposit nobody writes by hand.
PaymentsAddUp ==
  \A j \in Jobs \ (Shared \cup Corrected) :
    /\ paid[j] <= Price[j] + atGate[j]
    /\ deposit[j] <= paid[j] /\ paid[j] <= deposit[j] + atGate[j]

\* "Check that the rest is not exceeded" (payments.ts:60), for the jobs whose requests
\* overlap as well.
PaymentsWithinRest == \A j \in Jobs \ Corrected : paid[j] <= Price[j] + atGate[j]

\* "The report was written in this stage, not before it" (crud.ts:287): a job is not
\* inspected before the engineer has reported on the present repair, for a job whose
\* changes of status do not overlap nor stop half-way.
ReportedRepair(j) == status[j] = "final_quality_check" => written[j]
ReportOfThisRepair == \A j \in Jobs \ (Shared \cup Flaky) : ReportedRepair(j)

Orderly == Jobs \ Shared
Own(j) == {v \in Services : For[v] = j}
Stages == [j \in Orderly |->
             IF returned[j] THEN "returned"
             ELSE IF status[j] = "delivered" THEN "delivered"
             ELSE IF status[j] = "cancelled" THEN "closed" ELSE "open"]
Credits == [j \in Orderly |-> SumFunctionOnSet(earned, Own(j)) - SumFunctionOnSet(clawed, Own(j))]
MostCredits == [j \in Orderly |-> Cardinality(Own(j)) * Max(Fees)]

\* The jobs that one person works on at a time keep the book of the workshop,
\* wherever a request stops.
Book == INSTANCE RepairBook WITH
          Jobs <- Orderly, MostCredit <- MostCredits, stage <- Stages, credit <- Credits
ImplementsRepairBook == Book!Spec

=============================================================================
