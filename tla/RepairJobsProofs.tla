-------------------------- MODULE RepairJobsProofs --------------------------
(***************************************************************************)
(* Proofs about RepairJobs for any jobs, services, prices and numbers of   *)
(* requests.                                                               *)
(***************************************************************************)
EXTENDS RepairJobs, Sums

-----------------------------------------------------------------------------
(* The requests *)

Places == {"idle", "move", "history", "deliver", "services", "commissions", "edit", "pay",
           "return"}
Fields == {"kind", "doc", "to", "service", "amount", "total", "seen"}

\* What a request asks for makes sense where the request stands.
Fits(r) ==
  /\ pc[r] # "idle" => Doc(r) \in Jobs
  /\ pc[r] = "edit" => /\ job[r].service \in Services /\ For[job[r].service] = Doc(r)
                       /\ job[r].amount \in Fees \cup {0}
  /\ pc[r] = "pay" => job[r].amount \in Nat /\ job[r].total \in Int
  /\ pc[r] = "commissions" =>
       /\ \A x \in job[r].seen : x[1] \in Services /\ For[x[1]] = Doc(r) /\ x[2] \in Fees
       /\ \A x, y \in job[r].seen : x[1] = y[1] => x = y

RequestInv ==
  /\ pc \in [Requests -> Places]
  /\ DOMAIN job = Requests
  /\ \A r \in Requests : DOMAIN job[r] = Fields
  /\ \A r \in Requests : Fits(r)
  \* one request at a time for a job that is not Shared
  /\ \A r, q \in Requests : pc[r] # "idle" /\ pc[q] # "idle" /\ Doc(r) = Doc(q)
                            /\ Doc(r) \notin Shared => r = q
  \* one delivery at a time holds the lock of a job
  /\ \A r, q \in Requests : pc[r] \in {"services", "commissions"} /\ Doc(r) = Doc(q)
                            /\ pc[q] \in {"services", "commissions"} => r = q

OthersStay(r) == \A q \in Requests \ {r} : pc'[q] = pc[q] /\ job'[q] = job[q]

\* What Receive sends, with what was checked.
Checked(r, request, first) ==
  /\ Send(r, request, first)
  /\ DOMAIN request = Fields
  /\ request.doc \in Jobs
  /\ \/ /\ first = "move"
        /\ request.to = "final_quality_check" => reports[request.doc] > 0
        /\ status[request.doc] \notin Terminal /\ request.to # "delivered"
     \/ /\ first = "deliver"
        /\ status[request.doc] # "cancelled"
     \/ /\ first = "return"
        /\ status[request.doc] = "delivered" /\ ~ returned[request.doc]
     \/ /\ first = "edit"
        /\ request.service \in Services /\ For[request.service] = request.doc
        /\ request.amount \in Fees \cup {0} /\ ~ locked[request.service]
     \/ /\ first = "pay"
        /\ request.amount \in Nat /\ request.amount <= cost[request.doc] - paid[request.doc]
        /\ request.total = paid[request.doc] /\ request.total \in Int

LEMMA ReceiveChecks ==
  ASSUME paid \in [Jobs -> Int], NEW r \in Requests, Receive(r)
  PROVE  \E request, first : Checked(r, request, first)
<1>1. ASSUME NEW j \in Jobs, NEW to \in Statuses, ReceiveMove(r, j, to)
      PROVE  \E request, first : Checked(r, request, first)
  <2> DEFINE request == [Ask("move", j) EXCEPT !.to = to]
             first == IF to = "delivered" THEN "deliver" ELSE "move"
  <2>1. DOMAIN request = Fields /\ request.doc = j /\ request.to = to
    BY DEF Ask, Fields
  <2>2. /\ Send(r, request, first) /\ (to = "final_quality_check" => reports[j] > 0)
        /\ status[j] \notin Terminal
    BY <1>1 DEF ReceiveMove, Requirement
  <2>3. (first = "move" /\ to # "delivered") \/ first = "deliver"
    OBVIOUS
  <2> HIDE DEF request, first
  <2> QED BY <2>1, <2>2, <2>3 DEF Checked, Terminal
<1>2. ASSUME NEW v \in Services, NEW price \in Fees \cup {0}, ReceiveEdit(r, v, price)
      PROVE  \E request, first : Checked(r, request, first)
  <2> DEFINE request == [Ask("edit", For[v]) EXCEPT !.service = v, !.amount = price]
  <2>1. /\ DOMAIN request = Fields /\ request.doc = For[v] /\ request.service = v
        /\ request.amount = price
    BY DEF Ask, Fields
  <2>2. Send(r, request, "edit") /\ ~ locked[v] /\ For[v] \in Jobs
    BY <1>2, RepairAssumption DEF ReceiveEdit
  <2> HIDE DEF request
  <2> QED BY <2>1, <2>2 DEF Checked
<1>3. ASSUME NEW j \in Jobs, NEW amount \in 1..Price[j], ReceivePayment(r, j, amount)
      PROVE  \E request, first : Checked(r, request, first)
  <2>0. PICK kind \in {"pay", "note"} : Send(r, Asked(kind, j, amount), "pay")
    BY <1>3 DEF ReceivePayment
  <2> DEFINE request == Asked(kind, j, amount)
  <2>1. /\ DOMAIN request = Fields /\ request.doc = j /\ request.total = paid[j]
        /\ request.amount = amount
    BY DEF Asked, Ask, Fields
  <2>2. Send(r, request, "pay") /\ amount <= cost[j] - paid[j] /\ amount \in Nat
    BY <1>3, <2>0, RepairAssumption DEF ReceivePayment
  <2> HIDE DEF request
  <2> QED BY <2>1, <2>2 DEF Checked
<1>4. ASSUME NEW j \in Jobs, NEW refund \in 0..Price[j] + 1, ReceiveReturn(r, j, refund)
      PROVE  \E request, first : Checked(r, request, first)
  <2> DEFINE request == [Ask("return", j) EXCEPT !.amount = refund, !.total = cost[j]]
  <2>1. DOMAIN request = Fields /\ request.doc = j
    BY DEF Ask, Fields
  <2>2. Send(r, request, "return") /\ status[j] = "delivered" /\ ~ returned[j]
    BY <1>4 DEF ReceiveReturn
  <2> HIDE DEF request
  <2> QED BY <2>1, <2>2 DEF Checked
<1>5. ASSUME NEW j \in Jobs, ReceiveDeliveryAgain(r, j)
      PROVE  \E request, first : Checked(r, request, first)
  <2> DEFINE request == [Ask("move", j) EXCEPT !.to = "delivered"]
  <2>1. DOMAIN request = Fields /\ request.doc = j
    BY DEF Ask, Fields
  <2>2. Send(r, request, "deliver") /\ status[j] = "delivered"
    BY <1>5 DEF ReceiveDeliveryAgain
  <2> HIDE DEF request
  <2> QED BY <2>1, <2>2 DEF Checked
<1> QED BY <1>1, <1>2, <1>3, <1>4, <1>5 DEF Receive

\* The request that is sent is the only one of its job unless the job is Shared.
LEMMA CheckedFacts ==
  ASSUME RequestInv, NEW r \in Requests, NEW request, NEW first, Checked(r, request, first)
  PROVE  /\ pc[r] = "idle" /\ pc'[r] = first /\ job'[r] = request /\ Doc(r)' = request.doc
         /\ OthersStay(r)
         /\ \A q \in Requests : pc[q] # "idle" /\ request.doc \notin Shared => Doc(q) # request.doc
         /\ UNCHANGED <<jobVars, reportVars, serviceVars, moneyVars>>
BY DEF Checked, Send, Goto, Idle, Alone, OthersStay, RequestInv, Doc

LEMMA CheckedKeeps ==
  ASSUME RequestInv, NEW r \in Requests, NEW request, NEW first, Checked(r, request, first)
  PROVE  RequestInv'
<1> USE CheckedFacts DEF OthersStay
<1>1. /\ pc' = [pc EXCEPT ![r] = first] /\ job' = [job EXCEPT ![r] = request]
      /\ first \in {"move", "deliver", "return", "edit", "pay"}
  BY DEF Checked, Send, Goto
<1>2. pc' \in [Requests -> Places] /\ DOMAIN job' = Requests
  BY <1>1 DEF RequestInv, Places
<1>3. \A q \in Requests : DOMAIN job'[q] = Fields
  BY DEF Checked, RequestInv
<1>4. Fits(r)'
  BY <1>1 DEF Checked, Fits
<1>5. \A q \in Requests \ {r} : Fits(q)' /\ Doc(q)' = Doc(q)
  BY DEF RequestInv, Fits, Doc
<1>6. \A t, q \in Requests : pc'[t] # "idle" /\ pc'[q] # "idle" /\ Doc(t)' = Doc(q)'
                             /\ Doc(t)' \notin Shared => t = q
  BY <1>5 DEF RequestInv
<1>7. \A t, q \in Requests : pc'[t] \in {"services", "commissions"} /\ Doc(t)' = Doc(q)'
                             /\ pc'[q] \in {"services", "commissions"} => t = q
  BY <1>1, <1>5 DEF RequestInv
<1> QED BY <1>2, <1>3, <1>4, <1>5, <1>6, <1>7 DEF RequestInv

\* A request that is answered.
LEMMA AnswerFacts ==
  ASSUME RequestInv, NEW r \in Requests, Answer(r)
  PROVE  pc'[r] = "idle" /\ OthersStay(r) /\ RequestInv'
<1>1. /\ pc' = [pc EXCEPT ![r] = "idle"] /\ job' = [job EXCEPT ![r] = Rest]
  BY DEF Answer, Goto
<1>2. pc'[r] = "idle" /\ OthersStay(r) /\ job'[r] = Rest
  BY <1>1 DEF OthersStay, RequestInv
<1>3. pc' \in [Requests -> Places] /\ DOMAIN job' = Requests
  BY <1>1 DEF RequestInv, Places
<1>4. DOMAIN Rest = Fields
  BY DEF Rest, Ask, Fields
<1>5. \A q \in Requests : DOMAIN job'[q] = Fields
  BY <1>2, <1>4 DEF RequestInv, OthersStay
<1>6. \A q \in Requests \ {r} : Fits(q)' /\ Doc(q)' = Doc(q)
  BY <1>2 DEF RequestInv, Fits, Doc, OthersStay
<1>7. Fits(r)'
  BY <1>2 DEF Fits
<1>8. \A t, q \in Requests : pc'[t] # "idle" /\ pc'[q] # "idle" /\ Doc(t)' = Doc(q)'
                             /\ Doc(t)' \notin Shared => t = q
  BY <1>2, <1>6 DEF RequestInv, OthersStay
<1>9. \A t, q \in Requests : pc'[t] \in {"services", "commissions"} /\ Doc(t)' = Doc(q)'
                             /\ pc'[q] \in {"services", "commissions"} => t = q
  BY <1>2, <1>6 DEF RequestInv, OthersStay
<1> QED BY <1>2, <1>3, <1>5, <1>6, <1>7, <1>8, <1>9 DEF RequestInv

\* A request that goes on to its next statement.
LEMMA GoesOn ==
  ASSUME RequestInv, NEW r \in Requests, NEW next \in Places \ {"idle"}, pc[r] # "idle",
         pc' = [pc EXCEPT ![r] = next], DOMAIN job' = Requests, DOMAIN job'[r] = Fields,
         Doc(r)' = Doc(r), \A q \in Requests \ {r} : job'[q] = job[q], Fits(r)',
         next \in {"services", "commissions"} =>
           pc[r] \in {"services", "commissions"} \/ ~ Locked(Doc(r))
  PROVE  RequestInv' /\ OthersStay(r) /\ pc'[r] = next
<1>1. OthersStay(r) /\ pc'[r] = next
  BY DEF OthersStay, RequestInv
<1>2. pc' \in [Requests -> Places]
  BY DEF RequestInv
<1>3. \A q \in Requests : DOMAIN job'[q] = Fields
  BY DEF RequestInv
<1>4. \A q \in Requests \ {r} : Fits(q)'
  BY <1>1 DEF RequestInv, Fits, Doc, OthersStay
<1>5. \A q \in Requests : Doc(q)' = Doc(q) /\ (pc'[q] # "idle") = (pc[q] # "idle")
  BY <1>1 DEF OthersStay, Doc
<1>6. \A t, q \in Requests : pc'[t] # "idle" /\ pc'[q] # "idle" /\ Doc(t)' = Doc(q)'
                             /\ Doc(t)' \notin Shared => t = q
  BY <1>5 DEF RequestInv
<1>7. \A t, q \in Requests : pc'[t] \in {"services", "commissions"} /\ Doc(t)' = Doc(q)'
                             /\ pc'[q] \in {"services", "commissions"} => t = q
  BY <1>1, <1>5 DEF RequestInv, OthersStay, Locked
<1> QED BY <1>1, <1>2, <1>3, <1>4, <1>6, <1>7 DEF RequestInv

-----------------------------------------------------------------------------
(* The data, and every step of a request *)

Data ==
  /\ DOMAIN status = Jobs
  /\ reports \in [Jobs -> Int]
  /\ written \in [Jobs -> BOOLEAN]
  /\ fee \in [Services -> Fees \cup {0}]
  /\ locked \in [Services -> BOOLEAN]
  /\ DOMAIN earned = Services
  /\ cost \in [Jobs -> Int]
  /\ paid \in [Jobs -> Int]
  /\ atGate \in [Jobs -> Int]
  /\ deposit \in [Jobs -> Int]

BaseInv == RequestInv /\ Data

LEMMA LockSteps ==
  ASSUME BaseInv, NEW r \in Requests, LockJob(r) \/ ReadServices(r) \/ Move(r)
  PROVE  RequestInv' /\ OthersStay(r)
<1> USE DEF BaseInv
<1>1. CASE LockJob(r)
  <2>1. /\ pc[r] = "deliver" /\ pc' = [pc EXCEPT ![r] = "services"] /\ job' = job
        /\ ~ Locked(Doc(r))
    BY <1>1 DEF LockJob, Goto
  <2>2. Fits(r)' /\ Doc(r)' = Doc(r) /\ DOMAIN job' = Requests /\ DOMAIN job'[r] = Fields
    BY <2>1 DEF RequestInv, Fits, Doc
  <2> QED BY <2>1, <2>2, GoesOn DEF Places
<1>2. CASE ReadServices(r)
  <2> DEFINE read == {<<v, fee[v]>> : v \in {w \in ServicesOf(Doc(r)) : ~ locked[w]}}
  <2>1. /\ pc[r] = "services" /\ pc' = [pc EXCEPT ![r] = "commissions"]
        /\ job' = [job EXCEPT ![r].seen = read]
    BY <1>2 DEF ReadServices, Goto
  <2>2. /\ \A x \in read : x[1] \in Services /\ For[x[1]] = Doc(r) /\ x[2] \in Fees
        /\ \A x, y \in read : x[1] = y[1] => x = y
    BY DEF ServicesOf, Data
  <2> HIDE DEF read
  <2>3. /\ DOMAIN job' = Requests /\ DOMAIN job'[r] = Fields
        /\ job'[r].doc = job[r].doc /\ job'[r].seen = read
        /\ \A q \in Requests \ {r} : job'[q] = job[q]
    BY <2>1 DEF RequestInv, Fields
  <2>4. Doc(r)' = Doc(r) /\ pc'[r] = "commissions" /\ Doc(r) \in Jobs
    BY <2>1, <2>3 DEF RequestInv, Fits, Doc
  <2>5. Fits(r)'
    BY <2>2, <2>3, <2>4 DEF Fits
  <2> QED BY <2>1, <2>3, <2>4, <2>5, GoesOn DEF Places
<1>3. CASE Move(r)
  <2>1. pc[r] = "move" /\ pc' = [pc EXCEPT ![r] = "history"] /\ job' = job
    BY <1>3 DEF Move, Goto
  <2>2. Fits(r)' /\ Doc(r)' = Doc(r) /\ DOMAIN job' = Requests /\ DOMAIN job'[r] = Fields
    BY <2>1 DEF RequestInv, Fits, Doc
  <2> QED BY <2>1, <2>2, GoesOn DEF Places
<1> QED BY <1>1, <1>2, <1>3

\* The requests of one statement leave the others where they are.
LEMMA AtOnceFacts ==
  ASSUME RequestInv, AtOnceRequest
  PROVE  RequestInv' /\ pc' = pc /\ job' = job
<1>1. pc' = pc /\ job' = job
  BY DEF AtOnceRequest, WriteReport, DeleteReport, SettleShipping, AddService, DeletePayment,
         Correct, Review, AtOnce
<1> QED BY <1>1 DEF RequestInv, Fits, Doc

\* The history of a payment takes reports away or leaves them.
LEMMA RowFacts ==
  ASSUME reports \in [Jobs -> Int], NEW k \in Jobs, NEW stage, RowOf(k, stage)
  PROVE  reports' \in [Jobs -> Int] /\ \A j \in Jobs : reports'[j] \in {reports[j], 0}
<1>1. CASE stage = "in_repair"
  BY <1>1 DEF RowOf
<1>2. CASE stage # "in_repair"
  BY <1>2 DEF RowOf
<1> QED BY <1>1, <1>2

\* What a step of request r may be.
LEMMA NextActs ==
  BaseInv /\ [Next]_vars =>
    \/ UNCHANGED vars
    \/ AtOnceRequest
    \/ \E r \in Requests : \/ \E request, first : Checked(r, request, first)
                           \/ Step(r)
                           \/ Abandon(r) /\ pc[r] # "idle" /\ (pc[r] = "history" => Doc(r) \in Flaky)
BY ReceiveChecks DEF Next, Quiescent, Fail, Idle, BaseInv, Data

LEMMA StepRequestInv == BaseInv /\ [Next]_vars => RequestInv'
<1> SUFFICES ASSUME BaseInv, [Next]_vars PROVE RequestInv'
  OBVIOUS
<1> USE DEF BaseInv
<1>1. CASE UNCHANGED vars
  BY <1>1 DEF vars, RequestInv, Fits, Doc
<1>2. CASE AtOnceRequest
  BY <1>2, AtOnceFacts
<1>3. ASSUME NEW r \in Requests, NEW request, NEW first, Checked(r, request, first)
      PROVE  RequestInv'
  BY <1>3, CheckedKeeps
<1>4. ASSUME NEW r \in Requests, Step(r) PROVE RequestInv'
  <2>1. CASE Move(r) \/ LockJob(r) \/ ReadServices(r)
    BY <2>1, LockSteps
  <2>2. CASE InsertHistory(r) \/ LockCommissions(r) \/ EditService(r) \/ InsertPayment(r)
    <3>1. Answer(r)
      BY <2>2 DEF InsertHistory, LockCommissions, EditService, InsertPayment
    <3> QED BY <3>1, AnswerFacts
  <2>3. CASE TakeBack(r)
    <3>1. Answer(r)
      BY <2>3 DEF TakeBack, Abandon
    <3> QED BY <3>1, AnswerFacts
  <2> QED BY <1>4, <2>1, <2>2, <2>3 DEF Step
<1>5. ASSUME NEW r \in Requests, Abandon(r) PROVE RequestInv'
  BY <1>5, AnswerFacts DEF Abandon
<1> QED BY <1>1, <1>2, <1>3, <1>4, <1>5, NextActs

LEMMA StepData == BaseInv /\ [Next]_vars => Data'
<1> SUFFICES ASSUME BaseInv, [Next]_vars PROVE Data'
  OBVIOUS
<1> USE DEF BaseInv
<1>0. ASSUME UNCHANGED <<jobVars, reportVars, serviceVars, moneyVars>> PROVE Data'
  BY <1>0 DEF Data, jobVars, reportVars, serviceVars, moneyVars
<1>1. CASE UNCHANGED vars
  BY <1>0, <1>1 DEF vars
<1>2. CASE AtOnceRequest
  <2>1. ASSUME NEW j \in Jobs, WriteReport(j) PROVE Data'
    BY <2>1 DEF WriteReport, Data, jobVars, serviceVars, moneyVars
  <2>2. ASSUME NEW j \in Jobs, DeleteReport(j) PROVE Data'
    BY <2>2 DEF DeleteReport, Data, jobVars, serviceVars, moneyVars
  <2>3. ASSUME NEW j \in Jobs, SettleShipping(j) PROVE Data'
    BY <2>3 DEF SettleShipping, Data, reportVars, serviceVars, moneyVars
  <2>4. ASSUME NEW v \in Services, NEW price \in Fees, AddService(v, price) PROVE Data'
    BY <2>4 DEF AddService, Data, jobVars, reportVars, moneyVars
  <2>5. ASSUME NEW j \in Jobs, NEW amount \in 1..Price[j], NEW ofSafe \in 0..Price[j],
               DeletePayment(j, amount, ofSafe)
        PROVE  Data'
    <3>1. reports' \in [Jobs -> Int]
      BY <2>5, RowFacts DEF DeletePayment, Data
    <3>2. amount \in Nat /\ paid[j] - amount \in Int
      BY RepairAssumption DEF Data
    <3>3. /\ paid' = [paid EXCEPT ![j] = paid[j] - amount]
          /\ deposit' = [deposit EXCEPT ![j] = paid[j] - amount]
          /\ UNCHANGED <<jobVars, written, serviceVars, cost, atGate>>
      BY <2>5 DEF DeletePayment
    <3> QED BY <3>1, <3>2, <3>3 DEF Data, jobVars, serviceVars
  <2>6. ASSUME NEW j \in Jobs, NEW amount \in 0..Price[j], NEW inCash \in 0..amount,
               Review(j, amount, inCash)
        PROVE  Data'
    BY <2>6, RepairAssumption DEF Review, Data, reportVars, serviceVars
  <2>7. ASSUME NEW j \in Jobs, NEW price \in 0..Price[j], NEW received \in 0..Price[j],
               Correct(j, price, received)
        PROVE  Data'
    BY <2>7, RepairAssumption DEF Correct, Data, jobVars, reportVars, serviceVars
  <2> QED BY <1>2, <2>1, <2>2, <2>3, <2>4, <2>5, <2>6, <2>7 DEF AtOnceRequest
<1>3. ASSUME NEW r \in Requests, NEW request, NEW first, Checked(r, request, first) PROVE Data'
  BY <1>0, <1>3, CheckedFacts
<1>4. ASSUME NEW r \in Requests, Step(r) PROVE Data'
  <2>0. Fits(r)
    BY DEF RequestInv
  <2>1. CASE Move(r)
    <3>1. DOMAIN status' = Jobs
      BY <2>1 DEF Move, Data
    <3>2. CASE job[r].to = "in_repair"
      <4>1. written' = [written EXCEPT ![Doc(r)] = FALSE]
        BY <2>1, <3>2 DEF Move
      <4> QED BY <2>1, <3>1, <4>1 DEF Move, Data, serviceVars, moneyVars
    <3>3. CASE job[r].to # "in_repair"
      <4>1. written' = written
        BY <2>1, <3>3 DEF Move
      <4> QED BY <2>1, <3>1, <4>1 DEF Move, Data, serviceVars, moneyVars
    <3> QED BY <3>2, <3>3
  <2>2. CASE InsertHistory(r)
    <3>1. reports' \in [Jobs -> Int]
      <4>1. CASE job[r].to = "in_repair"
        <5>1. reports' = [reports EXCEPT ![Doc(r)] = 0]
          BY <2>2, <4>1 DEF InsertHistory
        <5>2. Doc(r) \in Jobs
          BY <2>0, <2>2 DEF InsertHistory, Fits
        <5> QED BY <5>1, <5>2 DEF Data
      <4>2. CASE job[r].to # "in_repair"
        BY <2>2, <4>2 DEF InsertHistory, Data
      <4> QED BY <4>1, <4>2
    <3> QED BY <2>2, <3>1 DEF InsertHistory, Data, jobVars, serviceVars, moneyVars
  <2>3. CASE LockJob(r) \/ ReadServices(r)
    BY <1>0, <2>3 DEF LockJob, ReadServices
  <2>4. CASE LockCommissions(r)
    BY <2>4 DEF LockCommissions, Data, reportVars, moneyVars
  <2>5. CASE EditService(r)
    BY <2>0, <2>5 DEF EditService, Fits, Data, jobVars, reportVars, moneyVars
  <2>6. CASE InsertPayment(r)
    <3>1. job[r].amount \in Nat /\ Doc(r) \in Jobs
      BY <2>0, <2>6 DEF InsertPayment, Fits
    <3>2. paid' \in [Jobs -> Int]
      BY <2>6, <3>1 DEF InsertPayment, Data
    <3>3. job[r].total + job[r].amount \in Int
      BY <2>0, <2>6, <3>1 DEF InsertPayment, Fits
    <3>4. reports' \in [Jobs -> Int]
      BY <2>6, <3>1, RowFacts DEF InsertPayment, Data
    <3> QED BY <2>6, <3>1, <3>2, <3>3, <3>4 DEF InsertPayment, Data, jobVars, serviceVars
  <2>7. CASE TakeBack(r)
    BY <1>0, <2>7 DEF TakeBack, Abandon, Data, reportVars
  <2> QED BY <1>4, <2>1, <2>2, <2>3, <2>4, <2>5, <2>6, <2>7 DEF Step
<1>5. ASSUME NEW r \in Requests, Abandon(r) PROVE Data'
  BY <1>0, <1>5 DEF Abandon
<1> QED BY <1>1, <1>2, <1>3, <1>4, <1>5, NextActs

LEMMA InitBaseInv == Init => BaseInv
<1> SUFFICES ASSUME Init PROVE BaseInv
  OBVIOUS
<1>1. Data
  BY RepairAssumption DEF Init, Data
<1>2. DOMAIN Rest = Fields
  BY DEF Rest, Ask, Fields
<1>3. RequestInv
  BY <1>2 DEF Init, RequestInv, Places, Fits
<1> QED BY <1>1, <1>3 DEF BaseInv

LEMMA StepBaseInv == BaseInv /\ [Next]_vars => BaseInv'
BY StepRequestInv, StepData DEF BaseInv

-----------------------------------------------------------------------------
(* Type correctness *)

Requested ==
  [kind : {"move", "edit", "pay", "note", "return"}, doc : Jobs, to : Statuses, service : Services,
   amount : Nat, total : Nat, seen : SUBSET (Services \X Fees)]

Typing == BaseInv /\ TypeOK

LEMMA AskType ==
  ASSUME NEW kind \in {"move", "edit", "pay", "note", "return"}, NEW j \in Jobs
  PROVE  Ask(kind, j) \in Requested
BY RepairAssumption DEF Ask, Requested, Statuses

LEMMA AmountType ==
  ASSUME NEW q \in Requested, NEW n \in Nat
  PROVE  /\ [q EXCEPT !.amount = n] \in Requested
         /\ \A v \in Services : [q EXCEPT !.service = v, !.amount = n] \in Requested
         /\ \A t \in Nat : [q EXCEPT !.amount = n, !.total = t] \in Requested
BY DEF Requested

LEMMA SeenType ==
  ASSUME NEW q \in Requested, NEW seen \in SUBSET (Services \X Fees)
  PROVE  [q EXCEPT !.seen = seen] \in Requested
BY DEF Requested

LEMMA RestType == Rest \in Requested
BY AskType, RepairAssumption DEF Rest

\* A request goes on and changes nothing that is stored.
LEMMA StoredStays ==
  ASSUME TypeOK, UNCHANGED <<jobVars, reportVars, serviceVars, moneyVars>>,
         job' \in [Requests -> Requested], pc' \in [Requests -> Places], sent' \in 0..MaxSent
  PROVE  TypeOK'
BY DEF TypeOK, Requested, Places, jobVars, reportVars, serviceVars, moneyVars

LEMMA AnswerType ==
  ASSUME TypeOK, NEW r \in Requests, Answer(r)
  PROVE  /\ job' \in [Requests -> Requested] /\ pc' \in [Requests -> Places]
         /\ sent' \in 0..MaxSent
BY RestType DEF TypeOK, Requested, Places, Answer, Goto

LEMMA SendType ==
  ASSUME TypeOK, NEW r \in Requests, NEW request \in Requested,
         NEW first \in Places, Send(r, request, first)
  PROVE  TypeOK'
<1>1. job' \in [Requests -> Requested] /\ pc' \in [Requests -> Places]
  BY DEF TypeOK, Requested, Places, Send, Goto
<1>2. sent' \in 0..MaxSent
  BY RepairAssumption DEF TypeOK, Send
<1> QED BY <1>1, <1>2, StoredStays DEF Send

LEMMA ReceiveType ==
  ASSUME TypeOK, NEW r \in Requests, Receive(r)
  PROVE  TypeOK'
<1>1. ASSUME NEW j \in Jobs, NEW to \in Statuses, ReceiveMove(r, j, to) PROVE TypeOK'
  <2>1. [Ask("move", j) EXCEPT !.to = to] \in Requested
    BY AskType DEF Requested
  <2> QED BY <1>1, <2>1, SendType DEF ReceiveMove, Places
<1>2. ASSUME NEW v \in Services, NEW price \in Fees \cup {0}, ReceiveEdit(r, v, price)
      PROVE  TypeOK'
  <2>1. For[v] \in Jobs /\ price \in Nat
    BY RepairAssumption
  <2>2. Ask("edit", For[v]) \in Requested
    BY <2>1, AskType
  <2>3. [Ask("edit", For[v]) EXCEPT !.service = v, !.amount = price] \in Requested
    BY <2>1, <2>2, AmountType
  <2> QED BY <1>2, <2>3, SendType DEF ReceiveEdit, Places
<1>3. ASSUME NEW j \in Jobs, NEW amount \in 1..Price[j], ReceivePayment(r, j, amount)
      PROVE  TypeOK'
  <2>0. PICK kind \in {"pay", "note"} : Send(r, Asked(kind, j, amount), "pay")
    BY <1>3 DEF ReceivePayment
  <2>1. /\ paid[j] \in Nat /\ amount \in Nat /\ status[j] \in Statuses
        /\ Ask(kind, j) \in Requested
    <3>1. Price[j] \in Nat
      BY RepairAssumption
    <3> QED BY <3>1, AskType DEF TypeOK
  <2>2. Asked(kind, j, amount) \in Requested
    BY <2>1 DEF Asked, Requested
  <2> QED BY <2>0, <2>2, SendType DEF Places
<1>4. ASSUME NEW j \in Jobs, NEW refund \in 0..Price[j] + 1, ReceiveReturn(r, j, refund)
      PROVE  TypeOK'
  <2>1. refund \in Nat /\ cost[j] \in Nat /\ Ask("return", j) \in Requested
    <3>1. Price[j] \in Nat
      BY RepairAssumption
    <3> QED BY <3>1, AskType DEF TypeOK
  <2>2. [Ask("return", j) EXCEPT !.amount = refund, !.total = cost[j]] \in Requested
    BY <2>1, AmountType
  <2> QED BY <1>4, <2>2, SendType DEF ReceiveReturn, Places
<1>5. ASSUME NEW j \in Jobs, ReceiveDeliveryAgain(r, j) PROVE TypeOK'
  <2>1. [Ask("move", j) EXCEPT !.to = "delivered"] \in Requested
    BY AskType DEF Requested, Statuses, Terminal
  <2> QED BY <1>5, <2>1, SendType DEF ReceiveDeliveryAgain, Places
<1> QED BY <1>1, <1>2, <1>3, <1>4, <1>5 DEF Receive

\* The credit of a service is one of the fees that were read, or nothing.
LEMMA CreditType ==
  ASSUME NEW seen \in SUBSET (Services \X Fees), NEW v \in Services
  PROVE  Credit(seen, v) \in Nat
<1>1. CASE \E x \in seen : x[1] = v
  <2>1. (CHOOSE x \in seen : x[1] = v) \in Services \X Fees
    BY <1>1
  <2> QED BY <1>1, <2>1, RepairAssumption DEF Credit
<1>2. CASE ~ \E x \in seen : x[1] = v
  BY <1>2 DEF Credit
<1> QED BY <1>1, <1>2

LEMMA ShareType ==
  ASSUME TypeOK, NEW price \in Nat, NEW refund \in Nat, NEW v \in Services
  PROVE  Share(price, refund, v) \in Nat
<1>0. CASE price = 0
  BY <1>0 DEF Share
<1> SUFFICES ASSUME price # 0 PROVE Share(price, refund, v) \in Nat
  BY <1>0
<1> DEFINE part == IF refund < price THEN refund ELSE price
<1>1. part \in Nat /\ price \in Nat \ {0} /\ earned[v] \in Nat
  BY DEF TypeOK
<1>2. earned[v] * part \in Nat
  BY <1>1
<1> DEFINE product == earned[v] * part
<1>3. Share(price, refund, v) = (2 * earned[v] * part + price) \div (2 * price)
  BY DEF Share
<1>4. 2 * earned[v] * part = 2 * product
  BY <1>1
<1> HIDE DEF part, product
<1>5. \A n \in Nat, d \in Nat \ {0} : n \div d \in Nat
  OBVIOUS
<1>6. product \in Nat
  BY <1>2 DEF product
<1>7. 2 * product + price \in Nat /\ 2 * price \in Nat \ {0}
  BY <1>1, <1>6
<1>8. (2 * product + price) \div (2 * price) \in Nat
  BY <1>5, <1>7
<1> QED BY <1>3, <1>4, <1>8

\* The history of a payment leaves the counts of the reports counts.
LEMMA RowType ==
  ASSUME reports \in [Jobs -> Nat], NEW k \in Jobs, NEW stage, RowOf(k, stage)
  PROVE  reports' \in [Jobs -> Nat]
<1>1. CASE stage = "in_repair"
  BY <1>1 DEF RowOf
<1>2. CASE stage # "in_repair"
  BY <1>2 DEF RowOf
<1> QED BY <1>1, <1>2

LEMMA AtOnceType ==
  ASSUME TypeOK, AtOnceRequest
  PROVE  TypeOK'
<1> USE DEF TypeOK
<1>1. ASSUME NEW j \in Jobs, WriteReport(j) PROVE TypeOK'
  BY <1>1, RepairAssumption DEF WriteReport, jobVars, serviceVars, moneyVars
<1>2. ASSUME NEW j \in Jobs, DeleteReport(j) PROVE TypeOK'
  BY <1>2, RepairAssumption DEF DeleteReport, jobVars, serviceVars, moneyVars
<1>3. ASSUME NEW j \in Jobs, SettleShipping(j) PROVE TypeOK'
  BY <1>3, RepairAssumption DEF SettleShipping, AtOnce, reportVars, serviceVars
<1>4. ASSUME NEW v \in Services, NEW price \in Fees, AddService(v, price) PROVE TypeOK'
  BY <1>4, RepairAssumption DEF AddService, jobVars, reportVars, moneyVars
<1>5. ASSUME NEW j \in Jobs, NEW amount \in 1..Price[j], NEW ofSafe \in 0..Price[j],
             DeletePayment(j, amount, ofSafe)
      PROVE  TypeOK'
  <2>1. /\ amount \in Nat /\ ofSafe \in Nat /\ paid[j] \in Nat /\ banked[j] \in Nat
        /\ banked[j] <= paid[j] /\ cash \in Int
        /\ ofSafe <= banked[j] /\ amount - ofSafe <= paid[j] - banked[j]
    BY <1>5, RepairAssumption DEF DeletePayment
  <2>2. /\ paid[j] - amount \in Nat /\ banked[j] - ofSafe \in Nat /\ cash - ofSafe \in Int
        /\ banked[j] - ofSafe <= paid[j] - amount
    BY <2>1
  <2>3. reports' \in [Jobs -> Nat]
    BY <1>5, RowType DEF DeletePayment
  <2>4. /\ paid' = [paid EXCEPT ![j] = paid[j] - amount]
        /\ banked' = [banked EXCEPT ![j] = banked[j] - ofSafe]
        /\ deposit' = [deposit EXCEPT ![j] = paid[j] - amount] /\ cash' = cash - ofSafe
        /\ UNCHANGED <<jobVars, written, serviceVars, cost, atGate, job, pc>> /\ sent' \in 0..MaxSent
    BY <1>5, RepairAssumption DEF DeletePayment, AtOnce
  <2>5. /\ paid' \in [Jobs -> Nat] /\ banked' \in [Jobs -> Nat] /\ deposit' \in [Jobs -> Nat]
        /\ \A k \in Jobs : banked'[k] <= paid'[k]
    BY <2>2, <2>4
  <2>6. cash' \in Int
    BY <2>2, <2>4
  <2> QED BY <2>3, <2>4, <2>5, <2>6 DEF jobVars, serviceVars
<1>6. ASSUME NEW j \in Jobs, NEW amount \in 0..Price[j], NEW inCash \in 0..amount,
             Review(j, amount, inCash)
      PROVE  TypeOK'
  <2>1. /\ amount \in Nat /\ inCash \in Nat /\ inCash <= amount
        /\ paid[j] \in Nat /\ banked[j] \in Nat /\ banked[j] <= paid[j] /\ cash \in Int
        /\ atGate[j] \in Nat
    BY RepairAssumption
  <2>2. /\ reviewed' = [reviewed EXCEPT ![j] = TRUE]
        /\ atGate' = [atGate EXCEPT ![j] = atGate[j] + amount]
        /\ paid' = [paid EXCEPT ![j] = paid[j] + amount]
        /\ banked' = [banked EXCEPT ![j] = banked[j] + inCash]
        /\ cash' = cash + inCash
        /\ UNCHANGED <<status, returned, settled, reportVars, serviceVars, cost, deposit, job, pc>>
        /\ sent' \in 0..MaxSent
    BY <1>6, RepairAssumption DEF Review, AtOnce
  <2>3. /\ paid[j] + amount \in Nat /\ banked[j] + inCash \in Nat /\ atGate[j] + amount \in Nat
        /\ banked[j] + inCash <= paid[j] + amount /\ cash + inCash \in Int
    BY <2>1
  <2>4. /\ paid' \in [Jobs -> Nat] /\ banked' \in [Jobs -> Nat] /\ atGate' \in [Jobs -> Nat]
        /\ \A k \in Jobs : banked'[k] <= paid'[k]
    BY <2>2, <2>3
  <2>5. cash' \in Int
    BY <2>2, <2>3
  <2> QED BY <2>2, <2>4, <2>5 DEF reportVars, serviceVars
<1>7. ASSUME NEW j \in Jobs, NEW price \in 0..Price[j], NEW received \in 0..Price[j],
             Correct(j, price, received)
      PROVE  TypeOK'
  <2>1. price \in Nat /\ received \in Nat
    BY RepairAssumption
  <2> QED BY <1>7, <2>1, RepairAssumption DEF Correct, AtOnce, jobVars, reportVars, serviceVars
<1> QED BY <1>1, <1>2, <1>3, <1>4, <1>5, <1>6, <1>7 DEF AtOnceRequest

LEMMA StepType ==
  ASSUME Typing, NEW r \in Requests, Step(r)
  PROVE  TypeOK'
<1> USE DEF Typing
<1>0. /\ job[r] \in Requested /\ Doc(r) \in Jobs
      /\ pc' \in [Requests -> Places] /\ sent' \in 0..MaxSent
  <2>1. job[r] \in Requested
    BY DEF TypeOK, Requested
  <2>2. pc' \in [Requests -> Places] /\ sent' = sent
    BY DEF TypeOK, Places, Step, Move, InsertHistory, LockJob, ReadServices, LockCommissions,
           EditService, InsertPayment, TakeBack, Abandon, Answer, Goto
  <2> QED BY <2>1, <2>2 DEF Requested, Doc, TypeOK
<1>1. CASE Move(r)
  <2>1. status' \in [Jobs -> Statuses] /\ written' \in [Jobs -> BOOLEAN]
    BY <1>0, <1>1 DEF Move, TypeOK, Requested
  <2> QED BY <1>0, <1>1, <2>1 DEF Move, TypeOK, Places, serviceVars, moneyVars
<1>2. CASE InsertHistory(r)
  <2>1. reports' \in [Jobs -> Nat]
    BY <1>0, <1>2 DEF InsertHistory, TypeOK
  <2>2. job' \in [Requests -> Requested]
    BY <1>2, AnswerType DEF InsertHistory
  <2> QED BY <1>0, <1>2, <2>1, <2>2 DEF InsertHistory, TypeOK, Requested, Places, jobVars,
             serviceVars, moneyVars
<1>3. CASE LockJob(r)
  <2>1. job' \in [Requests -> Requested]
    BY <1>3 DEF LockJob, TypeOK, Requested
  <2> QED BY <1>0, <1>3, <2>1, StoredStays DEF LockJob
<1>4. CASE ReadServices(r)
  <2> DEFINE read == {<<v, fee[v]>> : v \in {w \in ServicesOf(Doc(r)) : ~ locked[w]}}
  <2>1. read \in SUBSET (Services \X Fees)
    BY DEF ServicesOf, TypeOK
  <2>2. job' = [job EXCEPT ![r].seen = read]
    BY <1>4 DEF ReadServices
  <2> HIDE DEF read
  <2>3. [job[r] EXCEPT !.seen = read] \in Requested
    BY <1>0, <2>1, SeenType
  <2>4. job \in [Requests -> Requested]
    BY DEF TypeOK, Requested
  <2>5. job' \in [Requests -> Requested]
    BY <2>2, <2>3, <2>4
  <2> QED BY <1>0, <1>4, <2>5, StoredStays DEF ReadServices
<1>5. CASE LockCommissions(r)
  <2> DEFINE seen == job[r].seen
  <2>1. seen \in SUBSET (Services \X Fees)
    BY <1>0 DEF Requested
  <2>2. /\ status' = [status EXCEPT ![Doc(r)] = "delivered"]
        /\ locked' = [v \in Services |-> locked[v] \/ (fee[v] > 0 /\ \E x \in seen : x[1] = v)]
        /\ earned' = [v \in Services |-> earned[v] + Credit(seen, v)]
        /\ Answer(r)
        /\ UNCHANGED <<returned, reviewed, settled, reportVars, fee, clawed, moneyVars>>
    BY <1>5 DEF LockCommissions
  <2> HIDE DEF seen
  <2>3. earned' \in [Services -> Nat]
    BY <2>1, <2>2, CreditType DEF TypeOK
  <2>4. status' \in [Jobs -> Statuses] /\ locked' \in [Services -> BOOLEAN]
    BY <2>2 DEF TypeOK, Statuses, Terminal
  <2>5. job' \in [Requests -> Requested]
    BY <2>2, AnswerType
  <2> QED BY <1>0, <2>2, <2>3, <2>4, <2>5 DEF TypeOK, Requested, Places, reportVars, moneyVars
<1>6. CASE EditService(r)
  <2>1. fee' \in [Services -> Fees \cup {0}]
    BY <1>6 DEF EditService, BaseInv, RequestInv, Fits, TypeOK
  <2>2. job' \in [Requests -> Requested]
    BY <1>6, AnswerType DEF EditService
  <2> QED BY <1>0, <1>6, <2>1, <2>2 DEF EditService, TypeOK, Requested, Places, jobVars,
             reportVars, moneyVars
<1>7. CASE InsertPayment(r)
  <2> DEFINE amount == job[r].amount
             toSafe == IF job[r].kind = "pay" THEN job[r].amount ELSE 0
             j == Doc(r)
  <2>0. /\ paid' = [paid EXCEPT ![j] = paid[j] + amount]
        /\ banked' = [banked EXCEPT ![j] = banked[j] + toSafe]
        /\ deposit' = [deposit EXCEPT ![j] = job[r].total + amount]
        /\ cash' = cash + toSafe /\ RowOf(j, job[r].to)
        /\ UNCHANGED <<jobVars, written, serviceVars, cost, atGate>>
    BY <1>7 DEF InsertPayment
  <2>1. /\ paid' \in [Jobs -> Nat] /\ deposit' \in [Jobs -> Nat] /\ cash' \in Int
        /\ banked' \in [Jobs -> Nat] /\ \A k \in Jobs : banked'[k] <= paid'[k]
    <3>1. /\ amount \in Nat /\ toSafe \in Nat /\ toSafe <= amount /\ job[r].total \in Nat
          /\ j \in Jobs
      BY <1>0 DEF Requested
    <3> HIDE DEF amount, toSafe, j
    <3>2. /\ paid[j] \in Nat /\ banked[j] \in Nat /\ banked[j] <= paid[j] /\ cash \in Int
      BY <3>1 DEF TypeOK
    <3>3. /\ paid[j] + amount \in Nat /\ banked[j] + toSafe \in Nat /\ cash + toSafe \in Int
          /\ banked[j] + toSafe <= paid[j] + amount /\ job[r].total + amount \in Nat
      BY <3>1, <3>2
    <3>4. cash' \in Int
      BY <2>0, <3>3
    <3> QED BY <2>0, <3>1, <3>3, <3>4 DEF TypeOK
  <2>3. reports' \in [Jobs -> Nat]
    BY <1>0, <2>0, RowType DEF TypeOK
  <2> HIDE DEF amount, toSafe, j
  <2>2. job' \in [Requests -> Requested]
    BY <1>7, AnswerType DEF InsertPayment
  <2> QED BY <1>0, <2>0, <2>1, <2>2, <2>3 DEF TypeOK, Requested, Places, jobVars, serviceVars
<1>8. CASE TakeBack(r)
  <2>0. Answer(r)
    BY <1>8 DEF TakeBack, Abandon
  <2>1. job' \in [Requests -> Requested]
    BY <2>0, AnswerType
  <2>2. CASE cash < job[r].amount
    BY <1>0, <1>8, <2>1, <2>2, StoredStays DEF TakeBack, Abandon
  <2>3. CASE ~ cash < job[r].amount
    <3>0. job[r].amount \in Nat
      BY <1>0 DEF Requested
    <3>1. returned' \in [Jobs -> BOOLEAN] /\ cash' \in Int
      <4>1. /\ returned' = [returned EXCEPT ![Doc(r)] = TRUE]
            /\ cash' = cash - job[r].amount
        BY <1>8, <2>3 DEF TakeBack
      <4>2. returned' \in [Jobs -> BOOLEAN]
        BY <4>1 DEF TypeOK
      <4>3. \A a \in Nat : cash - a \in Int
        BY DEF TypeOK
      <4> QED BY <3>0, <4>1, <4>2, <4>3
    <3>2. clawed' = [v \in Services |->
                       IF For[v] = Doc(r) THEN clawed[v] + Share(job[r].total, job[r].amount, v)
                       ELSE clawed[v]]
      BY <1>8, <2>3 DEF TakeBack
    <3>3. \A v \in Services : Share(job[r].total, job[r].amount, v) \in Nat
      BY <1>0, ShareType DEF Requested
    <3>4. clawed' \in [Services -> Nat]
      BY <3>2, <3>3 DEF TypeOK
    <3> QED BY <1>0, <1>8, <2>1, <2>3, <3>1, <3>4
            DEF TakeBack, TypeOK, Requested, Places, reportVars
  <2> QED BY <2>2, <2>3
<1> QED BY <1>1, <1>2, <1>3, <1>4, <1>5, <1>6, <1>7, <1>8 DEF Step

LEMMA InitType == Init => TypeOK
BY RestType, RepairAssumption DEF Init, TypeOK, Requested, Statuses, Terminal

LEMMA StepTyping == Typing /\ [Next]_vars => Typing'
<1> SUFFICES ASSUME Typing, [Next]_vars PROVE TypeOK'
  BY StepBaseInv DEF Typing
<1>1. ASSUME NEW r \in Requests, Fail(r) PROVE TypeOK'
  BY <1>1, AnswerType, StoredStays DEF Fail, Abandon, Typing
<1>2. CASE UNCHANGED vars
  <2>1. job' \in [Requests -> Requested] /\ pc' \in [Requests -> Places]
        /\ sent' \in 0..MaxSent
    BY <1>2 DEF vars, Typing, TypeOK, Requested, Places
  <2> QED BY <1>2, <2>1, StoredStays DEF vars, Typing
<1> QED BY <1>1, <1>2, ReceiveType, StepType, AtOnceType DEF Next, Quiescent, Typing

\* Every reachable state is well formed; nobody has paid less than nothing, and no
\* commission is taken back below zero.
THEOREM TypeCorrect == Spec => []TypeOK
<1>1. Init => Typing
  BY InitType, InitBaseInv DEF Typing
<1>2. Typing => TypeOK
  BY DEF Typing
<1> QED BY <1>1, <1>2, StepTyping, PTL DEF Spec

-----------------------------------------------------------------------------
(* The inspection needs a report of the present repair *)

\* Request r is about to write the entry into the repair of job j in the history.
Entering(r, j) == pc[r] = "history" /\ Doc(r) = j /\ job[r].to = "in_repair"

ReportInv(j) ==
  /\ ReportedRepair(j)
  /\ (\A r \in Requests : ~ Entering(r, j)) => (reports[j] > 0 => written[j])
  /\ \A r \in Requests : pc[r] = "move" /\ Doc(r) = j /\ job[r].to = "final_quality_check"
                         => written[j]

LEMMA StepReportInv ==
  ASSUME BaseInv, [Next]_vars, NEW j \in Jobs \ (Shared \cup Flaky), ReportInv(j)
  PROVE  ReportInv(j)'
<1> USE DEF BaseInv
<1>1. CASE UNCHANGED vars
  BY <1>1 DEF vars, jobVars, reportVars, ReportInv, Entering, ReportedRepair, Doc
<1>2. CASE AtOnceRequest
  <2>1. pc' = pc /\ job' = job
    BY <1>2, AtOnceFacts
  <2>2. \A r \in Requests : Entering(r, j)' = Entering(r, j)
    BY <2>1 DEF Entering, Doc
  <2> DEFINE Reported == /\ status' = status /\ (written[j] => written'[j])
                         /\ (reports'[j] > 0 => reports[j] > 0 \/ written'[j])
  <2>3. Reported
    <3>1. ASSUME NEW k \in Jobs, WriteReport(k) PROVE Reported
      BY <3>1 DEF WriteReport, Data, jobVars
    <3>2. ASSUME NEW k \in Jobs, DeleteReport(k) PROVE Reported
      BY <3>2 DEF DeleteReport, Data, jobVars
    <3>3. CASE UNCHANGED <<status, reportVars>>
      BY <3>3 DEF reportVars
    <3>4. ASSUME NEW k \in Jobs, NEW amount, NEW ofSafe, DeletePayment(k, amount, ofSafe)
          PROVE  Reported
      <4>1. UNCHANGED <<status, written>> /\ reports'[j] \in {reports[j], 0}
        BY <3>4, RowFacts DEF DeletePayment, Data, jobVars
      <4> QED BY <4>1
    <3> HIDE DEF Reported
    <3> QED BY <1>2, <3>1, <3>2, <3>3, <3>4 DEF AtOnceRequest, SettleShipping, AddService,
              Review, Correct, jobVars
  <2> QED BY <2>1, <2>2, <2>3 DEF ReportInv, ReportedRepair, Doc
<1>3. ASSUME NEW r \in Requests, NEW request, NEW first, Checked(r, request, first)
      PROVE  ReportInv(j)'
  <2>1. /\ pc[r] = "idle" /\ pc'[r] = first /\ job'[r] = request /\ Doc(r)' = request.doc
        /\ OthersStay(r) /\ UNCHANGED <<status, reports, written>>
        /\ \A q \in Requests : pc[q] # "idle" /\ request.doc = j => Doc(q) # j
    BY <1>3, CheckedFacts DEF jobVars, reportVars
  <2>2. \A q \in Requests : Entering(q, j) => Entering(q, j)'
    BY <2>1 DEF Entering, OthersStay, Doc
  <2>3. request.doc = j => \A q \in Requests : ~ Entering(q, j)
    BY <2>1 DEF Entering
  <2>4. first = "move" /\ request.to = "final_quality_check" => reports[request.doc] > 0
    BY <1>3 DEF Checked
  <2>5. ASSUME NEW q \in Requests, pc'[q] = "move", Doc(q)' = j,
               job'[q].to = "final_quality_check"
        PROVE  written[j]
    BY <2>1, <2>3, <2>4, <2>5 DEF ReportInv, OthersStay, Doc
  <2> QED BY <2>1, <2>2, <2>5 DEF ReportInv, ReportedRepair
<1>4. ASSUME NEW r \in Requests, Step(r) PROVE ReportInv(j)'
  <2>0. Fits(r)
    BY DEF RequestInv
  <2>1. CASE Move(r)
    <3>1. /\ pc[r] = "move" /\ OthersStay(r) /\ pc'[r] = "history" /\ job' = job
          /\ status' = [status EXCEPT ![Doc(r)] = job[r].to] /\ reports' = reports
      BY <2>1, LockSteps DEF Move, Goto, RequestInv
    <3>2. Doc(r) = j => \A q \in Requests \ {r} : pc[q] = "idle" \/ Doc(q) # j
      BY <3>1 DEF RequestInv
    <3>3. CASE Doc(r) # j
      <4>1. status'[j] = status[j] /\ written'[j] = written[j]
        BY <2>1, <3>1, <3>3 DEF Move, Data
      <4>2. \A q \in Requests : Entering(q, j)' = Entering(q, j)
        BY <3>1, <3>3 DEF Entering, OthersStay, Doc
      <4> QED BY <3>1, <3>3, <4>1, <4>2 DEF ReportInv, ReportedRepair, OthersStay, Doc
    <3>4. CASE Doc(r) = j /\ job[r].to = "in_repair"
      <4>1. status'[j] = "in_repair" /\ Entering(r, j)'
        BY <3>1, <3>4 DEF Entering, Doc, Data
      <4>2. \A q \in Requests : ~ (pc'[q] = "move" /\ Doc(q)' = j)
        BY <3>1, <3>2, <3>4 DEF OthersStay, Doc
      <4> QED BY <4>1, <4>2 DEF ReportInv, ReportedRepair
    <3>5. CASE Doc(r) = j /\ job[r].to # "in_repair"
      <4>1. status'[j] = job[r].to /\ written' = written
        BY <2>1, <3>1, <3>5 DEF Move, Data
      <4>2. \A q \in Requests : ~ (pc'[q] = "move" /\ Doc(q)' = j)
        BY <3>1, <3>2, <3>5 DEF OthersStay, Doc
      <4>3. \A q \in Requests : ~ Entering(q, j)
        BY <3>1, <3>2, <3>5 DEF Entering
      <4> QED BY <3>1, <3>5, <4>1, <4>2, <4>3 DEF ReportInv, ReportedRepair
    <3> QED BY <3>3, <3>4, <3>5
  <2>2. CASE InsertHistory(r)
    <3>1. /\ pc[r] = "history" /\ pc'[r] = "idle" /\ OthersStay(r)
          /\ UNCHANGED <<status, written>>
      BY <2>2, AnswerFacts DEF InsertHistory, jobVars
    <3>2. \A q \in Requests : Entering(q, j) => Entering(q, j)' \/ q = r
      BY <3>1 DEF Entering, OthersStay, Doc
    <3>3. Entering(r, j) => reports'[j] = 0
      BY <2>2 DEF InsertHistory, Entering, Data
    <3>4. ~ Entering(r, j) => reports'[j] = reports[j]
      BY <2>2 DEF InsertHistory, Entering, Data
    <3>5. \A q \in Requests : pc'[q] = "move" => q # r /\ pc[q] = "move" /\ job'[q] = job[q]
      BY <3>1 DEF OthersStay
    <3> QED BY <3>1, <3>2, <3>3, <3>4, <3>5 DEF ReportInv, ReportedRepair, Doc
  <2>3. ASSUME OthersStay(r), pc[r] # "history", pc'[r] \notin {"move", "history"},
               written' = written, reports'[j] \in {reports[j], 0},
               status'[j] \in {status[j], "delivered"}
        PROVE  ReportInv(j)'
    <3>1. \A q \in Requests : Entering(q, j)' = Entering(q, j)
      BY <2>3 DEF Entering, OthersStay, Doc
    <3>2. \A q \in Requests : pc'[q] = "move" => q # r /\ pc[q] = "move" /\ job'[q] = job[q]
      BY <2>3 DEF OthersStay
    <3>3. reports'[j] > 0 => reports[j] > 0
      BY <2>3
    <3> QED BY <2>3, <3>1, <3>2, <3>3 DEF ReportInv, ReportedRepair, Doc
  <2>4. CASE LockJob(r) \/ ReadServices(r)
    <3>1. OthersStay(r) /\ pc[r] # "history" /\ pc'[r] \notin {"move", "history"}
      BY <2>4, LockSteps DEF LockJob, ReadServices, Goto, RequestInv
    <3> QED BY <2>3, <2>4, <3>1 DEF LockJob, ReadServices, jobVars, reportVars
  <2>5. CASE LockCommissions(r) \/ EditService(r) \/ InsertPayment(r)
    <3>1. Answer(r) /\ pc[r] # "history" /\ written' = written
      BY <2>5 DEF LockCommissions, EditService, InsertPayment, reportVars
    <3>2. status'[j] \in {status[j], "delivered"}
      BY <2>5 DEF LockCommissions, EditService, InsertPayment, jobVars, Data
    <3>3. reports'[j] \in {reports[j], 0}
      <4>1. CASE InsertPayment(r)
        <5>1. Doc(r) \in Jobs /\ RowOf(Doc(r), job[r].to)
          BY <2>0, <4>1 DEF InsertPayment, Fits
        <5> QED BY <5>1, RowFacts DEF Data
      <4>2. CASE LockCommissions(r) \/ EditService(r)
        BY <4>2 DEF LockCommissions, EditService, reportVars
      <4> QED BY <2>5, <4>1, <4>2
    <3> QED BY <2>3, <3>1, <3>2, <3>3, AnswerFacts
  <2>6. CASE TakeBack(r)
    <3>1. Answer(r) /\ pc[r] # "history" /\ UNCHANGED <<status, reports, written>>
      BY <2>6 DEF TakeBack, Abandon, jobVars, reportVars
    <3> QED BY <2>3, <3>1, AnswerFacts
  <2> QED BY <1>4, <2>1, <2>2, <2>4, <2>5, <2>6 DEF Step
<1>5. ASSUME NEW r \in Requests, Abandon(r), pc[r] # "idle",
             pc[r] = "history" => Doc(r) \in Flaky
      PROVE  ReportInv(j)'
  <2>1. pc'[r] = "idle" /\ OthersStay(r) /\ UNCHANGED <<status, reports, written>>
    BY <1>5, AnswerFacts DEF Abandon, jobVars, reportVars
  <2>2. \A q \in Requests : Entering(q, j) => Entering(q, j)'
    BY <1>5, <2>1 DEF Entering, OthersStay, Doc
  <2>3. \A q \in Requests : pc'[q] = "move" => q # r /\ pc[q] = "move" /\ job'[q] = job[q]
    BY <2>1 DEF OthersStay
  <2> QED BY <2>1, <2>2, <2>3 DEF ReportInv, ReportedRepair, Doc
<1> QED BY <1>1, <1>2, <1>3, <1>4, <1>5, NextActs

\* A job that one person works on at a time, and whose changes of status do not stop
\* half-way, is inspected only after a report on the present repair.
THEOREM InspectedAfterReport == Spec => []ReportOfThisRepair
<1> DEFINE Inv == BaseInv /\ \A j \in Jobs \ (Shared \cup Flaky) : ReportInv(j)
<1>1. Init => Inv
  <2> SUFFICES ASSUME Init PROVE \A j \in Jobs \ (Shared \cup Flaky) : ReportInv(j)
    BY InitBaseInv
  <2> QED BY DEF Init, ReportInv, ReportedRepair
<1>2. Inv /\ [Next]_vars => Inv'
  BY StepBaseInv, StepReportInv
<1>3. Inv => ReportOfThisRepair
  BY DEF ReportInv, ReportOfThisRepair
<1> QED BY <1>1, <1>2, <1>3, PTL DEF Spec

-----------------------------------------------------------------------------
(* The payments *)

\* What a payment was checked against still holds where no other request works on its
\* job and the price stays as it is.
PayInv(j) ==
  /\ cost[j] = Price[j]
  /\ atGate[j] >= 0
  /\ paid[j] <= Price[j] + atGate[j]
  /\ deposit[j] <= paid[j] /\ paid[j] <= deposit[j] + atGate[j]
  /\ \A r \in Requests : pc[r] = "pay" /\ Doc(r) = j =>
       job[r].total = paid[j] /\ job[r].amount <= Price[j] - paid[j]

LEMMA StepPayInv ==
  ASSUME BaseInv, [Next]_vars, NEW j \in Jobs \ (Shared \cup Corrected), PayInv(j)
  PROVE  PayInv(j)'
<1> USE DEF BaseInv
<1>0. /\ cost[j] \in Int /\ paid[j] \in Int /\ atGate[j] \in Int /\ deposit[j] \in Int
      /\ Price[j] \in Int
  BY RepairAssumption DEF Data
<1>1. CASE UNCHANGED vars
  BY <1>1 DEF vars, moneyVars, PayInv, Doc
<1>2. CASE AtOnceRequest
  <2>1. pc' = pc /\ job' = job
    BY <1>2, AtOnceFacts
  <2>2. ASSUME UNCHANGED <<cost[j], paid[j], atGate[j], deposit[j]>> PROVE PayInv(j)'
    BY <2>1, <2>2 DEF PayInv, Doc
  <2>3. ASSUME NEW k \in Jobs, NEW amount \in 1..Price[k], NEW ofSafe \in 0..Price[k],
               DeletePayment(k, amount, ofSafe)
        PROVE  PayInv(j)'
    <3>1. CASE k # j
      BY <2>2, <2>3, <3>1 DEF DeletePayment, Data
    <3>2. CASE k = j
      <4>1. /\ paid'[j] = paid[j] - amount /\ deposit'[j] = paid[j] - amount
            /\ UNCHANGED <<cost, atGate>>
        BY <2>3, <3>2 DEF DeletePayment, Data
      <4>2. amount \in Nat
        BY <2>3, <3>2, RepairAssumption
      <4>3. \A q \in Requests : pc[q] # "idle" => Doc(q) # j
        BY <2>3, <3>2 DEF DeletePayment, AtOnce, Alone, Idle
      <4> QED BY <1>0, <2>1, <4>1, <4>2, <4>3 DEF PayInv, Doc
    <3> QED BY <3>1, <3>2
  <2>4. ASSUME NEW k \in Jobs, NEW amount \in 0..Price[k], NEW inCash \in 0..amount,
               Review(k, amount, inCash)
        PROVE  PayInv(j)'
    <3>1. CASE k # j
      BY <2>2, <2>4, <3>1 DEF Review, Data
    <3>2. CASE k = j
      <4>1. /\ paid'[j] = paid[j] + amount /\ deposit' = deposit
            /\ atGate'[j] = atGate[j] + amount /\ cost' = cost
        BY <2>4, <3>2 DEF Review, Data
      <4>2. amount \in Nat
        BY <2>4, <3>2, RepairAssumption
      <4>3. \A q \in Requests : pc[q] # "idle" => Doc(q) # j
        BY <2>4, <3>2 DEF Review, AtOnce, Alone, Idle
      <4> QED BY <1>0, <2>1, <4>1, <4>2, <4>3 DEF PayInv, Doc
    <3> QED BY <3>1, <3>2
  <2>5. CASE UNCHANGED <<cost, paid, atGate, deposit>>
    BY <2>2, <2>5
  <2>6. ASSUME NEW k \in Jobs, WriteReport(k) \/ DeleteReport(k) \/ SettleShipping(k)
        PROVE  UNCHANGED <<cost, paid, atGate, deposit>>
    BY <2>6 DEF WriteReport, DeleteReport, SettleShipping, moneyVars
  <2>7. ASSUME NEW v \in Services, NEW price \in Fees, AddService(v, price)
        PROVE  UNCHANGED <<cost, paid, atGate, deposit>>
    BY <2>7 DEF AddService, moneyVars
  <2>8. ASSUME NEW k \in Jobs, NEW price, NEW received, Correct(k, price, received)
        PROVE  PayInv(j)'
    BY <2>2, <2>8 DEF Correct, Data
  <2> QED BY <1>2, <2>3, <2>4, <2>5, <2>6, <2>7, <2>8 DEF AtOnceRequest
<1>3. ASSUME NEW r \in Requests, NEW request, NEW first, Checked(r, request, first)
      PROVE  PayInv(j)'
  <2>1. /\ pc'[r] = first /\ job'[r] = request /\ Doc(r)' = request.doc
        /\ OthersStay(r) /\ UNCHANGED <<cost, paid, atGate, deposit>>
    BY <1>3, CheckedFacts DEF moneyVars
  <2>2. first = "pay" => /\ request.amount <= cost[request.doc] - paid[request.doc]
                         /\ request.total = paid[request.doc]
    BY <1>3 DEF Checked
  <2>3. ASSUME NEW q \in Requests, pc'[q] = "pay", Doc(q)' = j
        PROVE  job'[q].total = paid[j] /\ job'[q].amount <= Price[j] - paid[j]
    BY <2>1, <2>2, <2>3 DEF PayInv, OthersStay, Doc
  <2> QED BY <2>1, <2>3 DEF PayInv
<1>4. ASSUME NEW r \in Requests, Step(r) \/ Abandon(r) PROVE PayInv(j)'
  <2>0. Fits(r)
    BY DEF RequestInv
  <2>1. ASSUME OthersStay(r), pc'[r] # "pay",
               UNCHANGED <<cost[j], paid[j], atGate[j], deposit[j]>>
        PROVE  PayInv(j)'
    BY <2>1 DEF PayInv, OthersStay, Doc
  <2>2. CASE Move(r) \/ LockJob(r) \/ ReadServices(r)
    <3>1. OthersStay(r) /\ pc'[r] # "pay"
      BY <2>2, LockSteps DEF Move, LockJob, ReadServices, Goto, RequestInv
    <3> QED BY <2>1, <2>2, <3>1 DEF Move, LockJob, ReadServices, moneyVars
  <2>3. CASE InsertHistory(r) \/ LockCommissions(r) \/ EditService(r)
    <3>1. Answer(r)
      BY <2>3 DEF InsertHistory, LockCommissions, EditService
    <3> QED BY <2>1, <2>3, <3>1, AnswerFacts
            DEF InsertHistory, LockCommissions, EditService, moneyVars
  <2>4. CASE InsertPayment(r)
    <3>1. Answer(r) /\ OthersStay(r) /\ pc[r] = "pay" /\ pc'[r] = "idle"
          /\ UNCHANGED <<cost, atGate>>
      BY <2>4, AnswerFacts DEF InsertPayment
    <3>2. CASE Doc(r) # j
      BY <2>1, <2>4, <3>1, <3>2 DEF InsertPayment, Data
    <3>3. CASE Doc(r) = j
      <4> DEFINE amount == job[r].amount
      <4>1. amount \in Nat /\ amount <= Price[j] - paid[j] /\ job[r].total = paid[j]
        BY <2>0, <3>1, <3>3 DEF PayInv, Fits
      <4>2. paid'[j] = paid[j] + amount /\ deposit'[j] = paid[j] + amount
        BY <2>4, <3>3, <4>1 DEF InsertPayment, Data
      <4>4. ASSUME NEW q \in Requests, pc'[q] = "pay", Doc(q)' = j PROVE FALSE
        BY <3>1, <3>3, <4>4 DEF RequestInv, OthersStay, Doc
      <4> HIDE DEF amount
      <4> QED BY <1>0, <3>1, <4>1, <4>2, <4>4 DEF PayInv
    <3> QED BY <3>2, <3>3
  <2>5. CASE TakeBack(r) \/ Abandon(r)
    <3>1. Answer(r) /\ UNCHANGED <<cost, paid, atGate, deposit>>
      BY <2>5 DEF TakeBack, Abandon, moneyVars
    <3> QED BY <2>1, <3>1, AnswerFacts
  <2> QED BY <1>4, <2>2, <2>3, <2>4, <2>5 DEF Step
<1> QED BY <1>1, <1>2, <1>3, <1>4, NextActs

\* What the customer of a job has paid beyond its price was taken at the delivery gate,
\* and deposit_paid is short of the payments by what the gate took at most; for a job that
\* one person works on at a time and whose price and deposit nobody writes by hand.
THEOREM PaidWithinRest == Spec => []PaymentsAddUp
<1> DEFINE Inv == BaseInv /\ \A j \in Jobs \ (Shared \cup Corrected) : PayInv(j)
<1>1. Init => Inv
  <2> SUFFICES ASSUME Init PROVE \A j \in Jobs \ (Shared \cup Corrected) : PayInv(j)
    BY InitBaseInv
  <2> QED BY RepairAssumption DEF Init, PayInv
<1>2. Inv /\ [Next]_vars => Inv'
  BY StepBaseInv, StepPayInv
<1>3. Inv => PaymentsAddUp
  BY DEF PayInv, PaymentsAddUp
<1> QED BY <1>1, <1>2, <1>3, PTL DEF Spec

-----------------------------------------------------------------------------
(* One commission for a service *)

\* A service whose commission is not locked has earned nothing, and neither has one that
\* a delivery has read as not locked.
EarnInv ==
  /\ CommissionEarnedOnce
  /\ \A v \in Services : fee[v] > 0 /\ ~ locked[v] => earned[v] = 0
  /\ \A r \in Requests : pc[r] = "commissions" => \A x \in job[r].seen : earned[x[1]] = 0

\* What a request has read of a service still holds where no other works on its job.
PricedInv ==
  /\ CommissionAsPriced
  /\ \A r \in Requests : pc[r] = "commissions" /\ Doc(r) \notin Shared =>
       \A x \in job[r].seen : ~ locked[x[1]] /\ fee[x[1]] = x[2]
  /\ \A r \in Requests : pc[r] = "edit" /\ Doc(r) \notin Shared => ~ locked[job[r].service]

ServiceInv == EarnInv /\ PricedInv

\* The service is credited with what was read of it.
LEMMA CreditFacts ==
  ASSUME NEW r \in Requests, pc[r] = "commissions", Fits(r), NEW v \in Services
  PROVE  /\ \A x \in job[r].seen : x[1] = v => Credit(job[r].seen, v) = x[2] /\ x[2] \in Fees
         /\ (\A x \in job[r].seen : x[1] # v) => Credit(job[r].seen, v) = 0
<1> DEFINE seen == job[r].seen
<1>1. /\ \A x \in seen : x[2] \in Fees
      /\ \A x, y \in seen : x[1] = y[1] => x = y
  BY DEF Fits
<1> HIDE DEF seen
<1>2. ASSUME NEW x \in seen, x[1] = v PROVE Credit(seen, v) = x[2]
  <2>1. (CHOOSE y \in seen : y[1] = v) \in seen /\ (CHOOSE y \in seen : y[1] = v)[1] = v
    BY <1>2
  <2>2. (CHOOSE y \in seen : y[1] = v) = x
    BY <1>1, <1>2, <2>1
  <2> QED BY <1>2, <2>2 DEF Credit
<1>3. (\A x \in seen : x[1] # v) => Credit(seen, v) = 0
  BY DEF Credit
<1> QED BY <1>1, <1>2, <1>3 DEF seen

LEMMA StaysService ==
  ASSUME BaseInv, ServiceInv, NEW r \in Requests, OthersStay(r),
         pc'[r] \notin {"commissions", "edit"}, UNCHANGED <<fee, locked, earned>>
  PROVE  ServiceInv'
<1>1. \A q \in Requests : pc'[q] \in {"commissions", "edit"} =>
        q # r /\ pc[q] = pc'[q] /\ job'[q] = job[q] /\ Doc(q)' = Doc(q)
  BY DEF OthersStay, Doc
<1>2. EarnInv'
  BY <1>1 DEF ServiceInv, EarnInv, CommissionEarnedOnce
<1>3. PricedInv'
  BY <1>1 DEF ServiceInv, PricedInv, CommissionAsPriced
<1> QED BY <1>2, <1>3 DEF ServiceInv

\* A service is added.
LEMMA AddServiceKeeps ==
  ASSUME BaseInv, ServiceInv, NEW v \in Services, NEW price \in Fees, AddService(v, price)
  PROVE  ServiceInv'
<1>1. /\ ~ locked[v] /\ earned[v] = 0 /\ fee' = [fee EXCEPT ![v] = price]
      /\ UNCHANGED <<locked, earned, job, pc>>
      /\ For[v] \notin Shared => \A q \in Requests : pc[q] # "idle" => Doc(q) # For[v]
  BY DEF AddService, Alone, Idle
<1>2. \A w \in Services \ {v} : fee'[w] = fee[w]
  BY <1>1 DEF BaseInv, Data
<1>3. EarnInv'
  BY <1>1, <1>2 DEF ServiceInv, EarnInv, CommissionEarnedOnce
<1>4. CommissionAsPriced'
  BY <1>1, <1>2 DEF ServiceInv, PricedInv, CommissionAsPriced
<1>5. ASSUME NEW q \in Requests, pc[q] = "commissions", Doc(q) \notin Shared, NEW x \in job[q].seen
      PROVE  ~ locked[x[1]] /\ fee'[x[1]] = x[2]
  <2>1. x[1] \in Services /\ For[x[1]] = Doc(q)
    BY <1>5 DEF BaseInv, RequestInv, Fits
  <2>2. x[1] # v
    BY <1>1, <1>5, <2>1
  <2> QED BY <1>2, <1>5, <2>1, <2>2 DEF ServiceInv, PricedInv
<1>6. \A q \in Requests : Doc(q)' = Doc(q)
  BY <1>1 DEF Doc
<1>7. PricedInv'
  BY <1>1, <1>4, <1>5, <1>6 DEF ServiceInv, PricedInv
<1> QED BY <1>3, <1>7 DEF ServiceInv

\* A service is priced again, or removed.
LEMMA EditServiceKeeps ==
  ASSUME BaseInv, ServiceInv, NEW r \in Requests, EditService(r)
  PROVE  ServiceInv'
<1> DEFINE v == job[r].service
<1>1. /\ pc[r] = "edit" /\ pc'[r] = "idle" /\ OthersStay(r)
      /\ UNCHANGED <<locked, earned>> /\ v \in Services /\ For[v] = Doc(r)
  BY AnswerFacts DEF EditService, BaseInv, RequestInv, Fits
<1>2. fee' = [fee EXCEPT ![v] = IF fee[v] = 0 THEN 0 ELSE job[r].amount]
  BY DEF EditService
<1>3. Doc(r) \notin Shared => ~ locked[v]
  BY <1>1 DEF ServiceInv, PricedInv
<1> HIDE DEF v
<1>4. (\A w \in Services \ {v} : fee'[w] = fee[w]) /\ (fee[v] = 0 => fee'[v] = 0)
  BY <1>1, <1>2 DEF BaseInv, Data
<1>5. fee[v] # 0 => fee[v] > 0
  <2>1. fee[v] \in Fees \cup {0}
    BY <1>1 DEF BaseInv, Data
  <2>2. \A p \in Fees : p > 0
    BY RepairAssumption
  <2> QED BY <2>1, <2>2
<1>6. \A q \in Requests : pc'[q] \in {"commissions", "edit"} =>
        q # r /\ pc[q] = pc'[q] /\ job'[q] = job[q] /\ Doc(q)' = Doc(q)
  BY <1>1 DEF OthersStay, Doc
<1>7. EarnInv'
  <2>1. \A w \in Services : fee'[w] > 0 /\ ~ locked[w] => earned[w] = 0
    BY <1>4, <1>5 DEF ServiceInv, EarnInv
  <2> QED BY <1>1, <1>6, <2>1 DEF ServiceInv, EarnInv, CommissionEarnedOnce
<1>8. CommissionAsPriced'
  BY <1>1, <1>3, <1>4 DEF ServiceInv, PricedInv, CommissionAsPriced
<1>9. ASSUME NEW q \in Requests, pc'[q] = "commissions", Doc(q)' \notin Shared,
             NEW x \in job'[q].seen
      PROVE  ~ locked[x[1]] /\ fee'[x[1]] = x[2]
  <2>1. q # r /\ pc[q] = "commissions" /\ job'[q] = job[q] /\ Doc(q) \notin Shared
    BY <1>6, <1>9
  <2>2. x[1] \in Services /\ For[x[1]] = Doc(q)
    BY <1>9, <2>1 DEF BaseInv, RequestInv, Fits
  <2>3. Doc(q) # Doc(r)
    BY <1>1, <2>1 DEF BaseInv, RequestInv
  <2>4. x[1] # v
    BY <1>1, <2>2, <2>3
  <2> QED BY <1>4, <1>9, <2>1, <2>2, <2>4 DEF ServiceInv, PricedInv
<1>10. PricedInv'
  BY <1>1, <1>6, <1>8, <1>9 DEF ServiceInv, PricedInv
<1> QED BY <1>7, <1>10 DEF ServiceInv

\* The services of a job are read for its delivery.
LEMMA ReadServicesKeeps ==
  ASSUME BaseInv, ServiceInv, NEW r \in Requests, ReadServices(r)
  PROVE  ServiceInv'
<1> DEFINE read == {<<v, fee[v]>> : v \in {w \in ServicesOf(Doc(r)) : ~ locked[w]}}
<1>1. OthersStay(r) /\ pc[r] = "services" /\ UNCHANGED <<fee, locked, earned>>
  BY LockSteps DEF ReadServices, serviceVars
<1>2. pc'[r] = "commissions" /\ job'[r].seen = read /\ Doc(r)' = Doc(r)
  <2>1. pc' = [pc EXCEPT ![r] = "commissions"] /\ job' = [job EXCEPT ![r].seen = read]
    BY DEF ReadServices, Goto
  <2> HIDE DEF read
  <2> QED BY <2>1 DEF BaseInv, RequestInv, Fields, Doc
<1>3. \A x \in read : earned[x[1]] = 0 /\ ~ locked[x[1]] /\ fee[x[1]] = x[2]
  BY DEF ServicesOf, ServiceInv, EarnInv
<1> HIDE DEF read
<1>4. \A q \in Requests \ {r} : pc[q] = pc'[q] /\ job'[q] = job[q] /\ Doc(q)' = Doc(q)
  BY <1>1 DEF OthersStay, Doc
<1>5. EarnInv'
  BY <1>1, <1>2, <1>3, <1>4 DEF ServiceInv, EarnInv, CommissionEarnedOnce
<1>6. PricedInv'
  BY <1>1, <1>2, <1>3, <1>4 DEF ServiceInv, PricedInv, CommissionAsPriced
<1> QED BY <1>5, <1>6 DEF ServiceInv

\* The commissions of a job are locked: of the services the delivery holds, and of no
\* other, since no other delivery holds the same job.
LEMMA LockCommissionsKeeps ==
  ASSUME BaseInv, ServiceInv, NEW r \in Requests, LockCommissions(r)
  PROVE  ServiceInv'
<1> DEFINE seen == job[r].seen
           Seen(v) == \E x \in seen : x[1] = v
<1>0. \A price \in Fees : price \in Int /\ price > 0
  BY RepairAssumption
<1>1. /\ pc[r] = "commissions" /\ pc'[r] = "idle" /\ OthersStay(r) /\ Fits(r)
      /\ UNCHANGED fee
  BY AnswerFacts DEF LockCommissions, BaseInv, RequestInv
<1>2. \A v \in Services : /\ locked'[v] = (locked[v] \/ (fee[v] > 0 /\ Seen(v)))
                         /\ earned'[v] = earned[v] + Credit(seen, v)
  BY DEF LockCommissions
<1>3. \A v \in Services : For[v] # Doc(r) => ~ Seen(v)
  BY <1>1 DEF Fits
<1>4. ASSUME NEW v \in Services, ~ Seen(v) PROVE earned'[v] = earned[v] /\ locked'[v] = locked[v]
  <2>1. Credit(seen, v) = 0
    BY <1>1, <1>4, CreditFacts
  <2>2. earned[v] \in Int
    BY <1>0 DEF ServiceInv, EarnInv, CommissionEarnedOnce
  <2>3. locked[v] \in BOOLEAN /\ locked'[v] = locked[v]
    BY <1>2, <1>4 DEF BaseInv, Data
  <2>4. earned'[v] = earned[v] + 0
    BY <1>2, <2>1
  <2> QED BY <2>2, <2>3, <2>4
<1>5. ASSUME NEW v \in Services, NEW x \in seen, x[1] = v
      PROVE  /\ earned'[v] = x[2] /\ x[2] \in Fees /\ locked'[v] = (locked[v] \/ fee[v] > 0)
             /\ Doc(r) \notin Shared => ~ locked[v] /\ fee[v] = x[2]
  <2>1. Credit(seen, v) = x[2] /\ x[2] \in Fees
    BY <1>1, <1>5, CreditFacts
  <2>2. earned[v] = 0
    BY <1>1, <1>5 DEF ServiceInv, EarnInv
  <2>3. x[2] \in Int
    BY <1>0, <2>1
  <2>4. earned'[v] = 0 + x[2]
    BY <1>2, <2>1, <2>2
  <2>5. Doc(r) \notin Shared => ~ locked[v] /\ fee[v] = x[2]
    BY <1>1, <1>5 DEF ServiceInv, PricedInv
  <2>6. locked'[v] = (locked[v] \/ fee[v] > 0)
    BY <1>2, <1>5
  <2> QED BY <2>1, <2>3, <2>4, <2>5, <2>6
<1>6. \A q \in Requests : pc'[q] \in {"commissions", "edit"} =>
        q # r /\ pc[q] = pc'[q] /\ job'[q] = job[q] /\ Doc(q)' = Doc(q)
  BY <1>1 DEF OthersStay, Doc
<1>7. ASSUME NEW q \in Requests, pc'[q] = "commissions", NEW x \in job'[q].seen
      PROVE  x[1] \in Services /\ ~ Seen(x[1])
  <2>1. q # r /\ pc[q] = "commissions" /\ job'[q] = job[q]
    BY <1>6, <1>7
  <2>2. x[1] \in Services /\ For[x[1]] = Doc(q)
    BY <1>7, <2>1 DEF BaseInv, RequestInv, Fits
  <2>3. Doc(q) # Doc(r)
    BY <1>1, <2>1 DEF BaseInv, RequestInv
  <2> QED BY <1>3, <2>2, <2>3
<1>8. \A v \in Services : locked'[v] \/ ~ locked[v]
  BY <1>2
<1>9. EarnInv'
  <2>1. CommissionEarnedOnce'
    BY <1>4, <1>5 DEF ServiceInv, EarnInv, CommissionEarnedOnce
  <2>2. ASSUME NEW v \in Services, fee'[v] > 0, ~ locked'[v] PROVE earned'[v] = 0
    <3>1. ~ Seen(v)
      BY <1>1, <1>2, <2>2
    <3> QED BY <1>1, <1>4, <2>2, <3>1 DEF ServiceInv, EarnInv
  <2>3. ASSUME NEW q \in Requests, pc'[q] = "commissions", NEW x \in job'[q].seen
        PROVE  earned'[x[1]] = 0
    BY <1>4, <1>6, <1>7, <2>3 DEF ServiceInv, EarnInv
  <2> QED BY <2>1, <2>2, <2>3 DEF EarnInv
<1>10. PricedInv'
  <2>1. ASSUME NEW v \in Services, For[v] \notin Shared
        PROVE  earned'[v] = IF locked'[v] THEN fee'[v] ELSE 0
    <3>1. earned[v] = IF locked[v] THEN fee[v] ELSE 0
      BY <2>1 DEF ServiceInv, PricedInv, CommissionAsPriced
    <3>2. CASE ~ Seen(v)
      BY <1>1, <1>4, <3>1, <3>2
    <3>3. CASE Seen(v)
      <4>1. PICK x \in seen : x[1] = v
        BY <3>3
      <4>2. For[v] = Doc(r)
        BY <1>3, <3>3
      <4>3. /\ earned'[v] = x[2] /\ x[2] \in Fees /\ locked'[v] = (locked[v] \/ fee[v] > 0)
            /\ fee[v] = x[2]
        BY <1>5, <2>1, <4>1, <4>2
      <4>4. fee[v] > 0
        BY <1>0, <4>3
      <4> QED BY <1>1, <4>3, <4>4
    <3> QED BY <3>2, <3>3
  <2>2. ASSUME NEW q \in Requests, pc'[q] = "commissions", Doc(q)' \notin Shared,
               NEW x \in job'[q].seen
        PROVE  ~ locked'[x[1]] /\ fee'[x[1]] = x[2]
    <3>1. pc[q] = "commissions" /\ Doc(q) \notin Shared /\ x \in job[q].seen
      BY <1>6, <2>2
    <3>2. ~ locked[x[1]] /\ fee[x[1]] = x[2]
      BY <3>1 DEF ServiceInv, PricedInv
    <3>3. locked'[x[1]] = locked[x[1]]
      BY <1>4, <1>7, <2>2
    <3> QED BY <1>1, <3>2, <3>3
  <2>3. ASSUME NEW q \in Requests, pc'[q] = "edit", Doc(q)' \notin Shared
        PROVE  ~ locked'[job'[q].service]
    <3>1. q # r /\ pc[q] = "edit" /\ job'[q] = job[q] /\ Doc(q) \notin Shared
      BY <1>6, <2>3
    <3>2. job[q].service \in Services /\ For[job[q].service] = Doc(q)
      BY <3>1 DEF BaseInv, RequestInv, Fits
    <3>3. Doc(q) # Doc(r)
      BY <1>1, <3>1 DEF BaseInv, RequestInv
    <3>4. ~ Seen(job[q].service) /\ ~ locked[job[q].service]
      BY <1>3, <3>1, <3>2, <3>3 DEF ServiceInv, PricedInv
    <3>5. locked'[job[q].service] = locked[job[q].service]
      BY <1>4, <3>2, <3>4
    <3> QED BY <3>1, <3>4, <3>5
  <2> QED BY <2>1, <2>2, <2>3 DEF PricedInv, CommissionAsPriced
<1> QED BY <1>9, <1>10 DEF ServiceInv

LEMMA StepServiceInv == BaseInv /\ ServiceInv /\ [Next]_vars => ServiceInv'
<1> SUFFICES ASSUME BaseInv, ServiceInv, [Next]_vars PROVE ServiceInv'
  OBVIOUS
<1>0. ASSUME UNCHANGED <<fee, locked, earned, pc, job>> PROVE ServiceInv'
  BY <1>0 DEF ServiceInv, EarnInv, PricedInv, CommissionEarnedOnce, CommissionAsPriced, Doc
<1>1. CASE UNCHANGED vars
  BY <1>0, <1>1 DEF vars, serviceVars
<1>2. CASE AtOnceRequest
  <2>1. pc' = pc /\ job' = job
    BY <1>2, AtOnceFacts DEF BaseInv
  <2>2. ASSUME NEW v \in Services, NEW price \in Fees, AddService(v, price) PROVE ServiceInv'
    BY <2>2, AddServiceKeeps
  <2>3. (\E v \in Services, price \in Fees : AddService(v, price)) \/ UNCHANGED serviceVars
    BY <1>2 DEF AtOnceRequest, WriteReport, DeleteReport, SettleShipping, DeletePayment, Review,
            Correct
  <2> QED BY <1>0, <2>1, <2>2, <2>3 DEF serviceVars
<1>3. ASSUME NEW r \in Requests, NEW request, NEW first, Checked(r, request, first)
      PROVE  ServiceInv'
  <2>1. /\ pc'[r] = first /\ job'[r] = request /\ OthersStay(r)
        /\ UNCHANGED <<fee, locked, earned>>
    BY <1>3, CheckedFacts DEF BaseInv, serviceVars
  <2>2. first # "commissions" /\ (first = "edit" => ~ locked[request.service])
    BY <1>3 DEF Checked
  <2>3. \A q \in Requests \ {r} : pc[q] = pc'[q] /\ job'[q] = job[q] /\ Doc(q)' = Doc(q)
    BY <2>1 DEF OthersStay, Doc
  <2>4. EarnInv'
    BY <2>1, <2>2, <2>3 DEF ServiceInv, EarnInv, CommissionEarnedOnce
  <2>5. PricedInv'
    BY <2>1, <2>2, <2>3 DEF ServiceInv, PricedInv, CommissionAsPriced
  <2> QED BY <2>4, <2>5 DEF ServiceInv
<1>4. ASSUME NEW r \in Requests, Step(r) \/ Abandon(r) PROVE ServiceInv'
  <2>1. CASE Move(r) \/ LockJob(r)
    <3>1. OthersStay(r) /\ pc'[r] \notin {"commissions", "edit"}
      BY <2>1, LockSteps DEF Move, LockJob, Goto, BaseInv, RequestInv
    <3> QED BY <2>1, <3>1, StaysService DEF Move, LockJob, serviceVars
  <2>2. CASE InsertHistory(r) \/ InsertPayment(r) \/ TakeBack(r) \/ Abandon(r)
    <3>1. Answer(r) /\ UNCHANGED <<fee, locked, earned>>
      BY <2>2 DEF InsertHistory, InsertPayment, TakeBack, Abandon, serviceVars
    <3>2. pc'[r] = "idle" /\ OthersStay(r)
      BY <3>1, AnswerFacts DEF BaseInv
    <3> QED BY <3>1, <3>2, StaysService
  <2>3. CASE EditService(r)
    BY <2>3, EditServiceKeeps
  <2>4. CASE ReadServices(r)
    BY <2>4, ReadServicesKeeps
  <2>5. CASE LockCommissions(r)
    BY <2>5, LockCommissionsKeeps
  <2> QED BY <1>4, <2>1, <2>2, <2>3, <2>4, <2>5 DEF Step
<1> QED BY <1>1, <1>2, <1>3, <1>4, NextActs

LEMMA AlwaysServiceInv == Spec => [](BaseInv /\ ServiceInv)
<1>1. Init => BaseInv /\ ServiceInv
  BY InitBaseInv
     DEF Init, ServiceInv, EarnInv, PricedInv, CommissionEarnedOnce, CommissionAsPriced
<1>2. BaseInv /\ ServiceInv /\ [Next]_vars => (BaseInv /\ ServiceInv)'
  BY StepBaseInv, StepServiceInv
<1> QED BY <1>1, <1>2, PTL DEF Spec

\* A service earns one commission at one of its prices, however many people deliver the
\* job at the same time and edit the service meanwhile.
THEOREM EarnedOnce == Spec => []CommissionEarnedOnce
<1>1. ServiceInv => CommissionEarnedOnce
  BY DEF ServiceInv, EarnInv
<1> QED BY <1>1, AlwaysServiceInv, PTL

\* The commission of a job that one person works on at a time is what its service is
\* worth, and nothing before the delivery.
THEOREM EarnedAsPriced == Spec => []CommissionAsPriced
<1>1. ServiceInv => CommissionAsPriced
  BY DEF ServiceInv, PricedInv
<1> QED BY <1>1, AlwaysServiceInv, PTL

-----------------------------------------------------------------------------
(* The book of deliveries and returns *)

\* A return comes after the delivery, and nothing is taken back before it.
StageInv(j) ==
  /\ returned[j] => status[j] = "delivered"
  /\ ~ returned[j] => \A v \in Own(j) : clawed[v] = 0

\* What request r has read of the status of its job still holds where no other works on it.
Undecided(r) ==
  /\ pc[r] = "move" => status[Doc(r)] \notin Terminal /\ job[r].to # "delivered"
  /\ pc[r] \in {"deliver", "services", "commissions"} => status[Doc(r)] # "cancelled"
  /\ pc[r] = "return" => status[Doc(r)] = "delivered" /\ ~ returned[Doc(r)]

JobInv ==
  /\ \A j \in Orderly : StageInv(j)
  /\ \A r \in Requests : Doc(r) \in Orderly => Undecided(r)

\* A request that stands nowhere is undecided about nothing.
LEMMA IdleUndecided == ASSUME NEW r \in Requests, pc[r] = "idle" PROVE Undecided(r)
BY DEF Undecided

\* The other requests stay undecided when the job they work on stays as it is.
LEMMA OthersUndecided ==
  ASSUME BaseInv, JobInv, NEW r \in Requests, OthersStay(r),
         \A j \in Jobs : j # Doc(r) => status'[j] = status[j] /\ returned'[j] = returned[j],
         pc[r] # "idle"
  PROVE  \A q \in Requests \ {r} : Doc(q)' \in Orderly => Undecided(q)'
<1> SUFFICES ASSUME NEW q \in Requests \ {r}, Doc(q)' \in Orderly PROVE Undecided(q)'
  OBVIOUS
<1>1. pc'[q] = pc[q] /\ job'[q] = job[q] /\ Doc(q)' = Doc(q)
  BY DEF OthersStay, Doc
<1>2. CASE pc[q] = "idle"
  BY <1>1, <1>2 DEF Undecided
<1>3. CASE pc[q] # "idle"
  <2>1. Doc(q) # Doc(r) /\ Doc(q) \in Jobs
    BY <1>1, <1>3 DEF BaseInv, RequestInv, Fits, Orderly
  <2>2. Undecided(q)
    BY <1>1 DEF JobInv
  <2> QED BY <1>1, <2>1, <2>2 DEF Undecided
<1> QED BY <1>2, <1>3

\* A request goes on, and the status and the commissions stay.
LEMMA JobStays ==
  ASSUME BaseInv, JobInv, NEW r \in Requests, OthersStay(r),
         UNCHANGED <<status, returned, clawed>>,
         Doc(r)' \in Orderly => Undecided(r)'
  PROVE  JobInv'
<1>1. \A j \in Orderly : StageInv(j)'
  BY DEF JobInv, StageInv
<1>2. ASSUME NEW q \in Requests \ {r}, Doc(q)' \in Orderly PROVE Undecided(q)'
  <2>1. pc'[q] = pc[q] /\ job'[q] = job[q] /\ Doc(q)' = Doc(q)
    BY DEF OthersStay, Doc
  <2>2. Undecided(q)
    BY <1>2, <2>1 DEF JobInv
  <2> QED BY <2>1, <2>2 DEF Undecided
<1> QED BY <1>1, <1>2 DEF JobInv

LEMMA CheckedJob ==
  ASSUME BaseInv, JobInv, NEW r \in Requests, NEW request, NEW first, Checked(r, request, first)
  PROVE  JobInv'
<1>1. /\ pc'[r] = first /\ job'[r] = request /\ Doc(r)' = request.doc /\ OthersStay(r)
      /\ UNCHANGED <<status, returned, clawed>>
  BY CheckedFacts DEF BaseInv, jobVars, serviceVars
<1>2. Undecided(r)'
  BY <1>1 DEF Checked, Undecided
<1> QED BY <1>1, <1>2, JobStays

\* The status of a job changes, or it is returned, and the request is no longer undecided.
LEMMA JobMoves ==
  ASSUME BaseInv, JobInv, NEW r \in Requests, OthersStay(r), pc[r] # "idle",
         pc'[r] \in {"idle", "history"},
         \A j \in Jobs : j # Doc(r) => status'[j] = status[j] /\ returned'[j] = returned[j],
         \A v \in Services : For[v] # Doc(r) => clawed'[v] = clawed[v],
         \A j \in Orderly : j = Doc(r) => StageInv(j)'
  PROVE  JobInv'
<1>1. ASSUME NEW j \in Orderly, j # Doc(r) PROVE StageInv(j)'
  BY <1>1 DEF JobInv, StageInv, Own, Orderly
<1>2. \A j \in Orderly : StageInv(j)'
  BY <1>1
<1>3. \A q \in Requests \ {r} : Doc(q)' \in Orderly => Undecided(q)'
  BY OthersUndecided
<1>4. Undecided(r)'
  BY DEF Undecided
<1> QED BY <1>2, <1>3, <1>4 DEF JobInv

LEMMA StepJobInv ==
  ASSUME Typing, ServiceInv, JobInv, NEW r \in Requests, Step(r)
  PROVE  JobInv'
<1> USE DEF Typing
<1>1. CASE Move(r)
  <2>1. /\ pc[r] = "move" /\ pc'[r] = "history" /\ OthersStay(r) /\ UNCHANGED <<returned, clawed>>
        /\ status' = [status EXCEPT ![Doc(r)] = job[r].to]
    BY <1>1, LockSteps DEF Move, Goto, BaseInv, RequestInv, serviceVars
  <2>2. \A j \in Jobs : j # Doc(r) => status'[j] = status[j] /\ returned'[j] = returned[j]
    BY <2>1 DEF TypeOK
  <2>3. ASSUME NEW j \in Orderly, j = Doc(r) PROVE StageInv(j)'
    <3>1. status[j] \notin Terminal
      BY <2>1, <2>3 DEF JobInv, Undecided
    <3>2. StageInv(j) /\ ~ returned[j]
      <4>1. StageInv(j)
        BY DEF JobInv
      <4> QED BY <3>1, <4>1 DEF StageInv, Terminal
    <3> QED BY <2>1, <3>2 DEF StageInv
  <2> QED BY <2>1, <2>2, <2>3, JobMoves
<1>2. CASE InsertHistory(r) \/ EditService(r) \/ InsertPayment(r)
  <2>1. Answer(r) /\ UNCHANGED <<status, returned, clawed>>
    BY <1>2 DEF InsertHistory, EditService, InsertPayment, jobVars, serviceVars
  <2>2. pc'[r] = "idle" /\ OthersStay(r)
    BY <2>1, AnswerFacts DEF BaseInv
  <2> QED BY <2>1, <2>2, JobStays DEF Undecided
<1>3. CASE LockJob(r) \/ ReadServices(r)
  <2>1. OthersStay(r) /\ UNCHANGED <<status, returned, clawed>>
    BY <1>3, LockSteps DEF LockJob, ReadServices, jobVars, serviceVars
  <2>2. /\ pc[r] \in {"deliver", "services"} /\ pc'[r] \in {"services", "commissions"}
        /\ Doc(r)' = Doc(r)
    BY <1>3 DEF LockJob, ReadServices, Goto, BaseInv, RequestInv, Fields, Doc
  <2>3. Doc(r)' \in Orderly => Undecided(r)'
    BY <2>1, <2>2 DEF JobInv, Undecided
  <2> QED BY <2>1, <2>3, JobStays
<1>4. CASE LockCommissions(r)
  <2>1. /\ pc[r] = "commissions" /\ Answer(r) /\ UNCHANGED <<returned, clawed>>
        /\ status' = [status EXCEPT ![Doc(r)] = "delivered"]
    BY <1>4 DEF LockCommissions
  <2>2. pc'[r] = "idle" /\ OthersStay(r)
    BY <2>1, AnswerFacts DEF BaseInv
  <2>3. \A j \in Jobs : j # Doc(r) => status'[j] = status[j] /\ returned'[j] = returned[j]
    BY <2>1 DEF TypeOK
  <2>4. ASSUME NEW j \in Orderly, j = Doc(r) PROVE StageInv(j)'
    <3>1. StageInv(j) /\ status'[j] = "delivered"
      BY <2>1, <2>4 DEF JobInv, TypeOK, Orderly
    <3> QED BY <2>1, <3>1 DEF StageInv
  <2> QED BY <2>1, <2>2, <2>3, <2>4, JobMoves
<1>5. CASE TakeBack(r)
  <2>1. pc[r] = "return" /\ Answer(r)
    BY <1>5 DEF TakeBack, Abandon
  <2>2. pc'[r] = "idle" /\ OthersStay(r)
    BY <2>1, AnswerFacts DEF BaseInv
  <2>3. CASE cash < job[r].amount
    <3>1. UNCHANGED <<status, returned, clawed>>
      BY <1>5, <2>3 DEF TakeBack, Abandon, jobVars, serviceVars
    <3> QED BY <2>2, <3>1, JobStays DEF Undecided
  <2>4. CASE ~ (cash < job[r].amount)
    <3>1. /\ returned' = [returned EXCEPT ![Doc(r)] = TRUE] /\ UNCHANGED status
          /\ clawed' = [v \in Services |->
                          IF For[v] = Doc(r) THEN clawed[v] + Share(job[r].total, job[r].amount, v)
                          ELSE clawed[v]]
      BY <1>5, <2>4 DEF TakeBack
    <3>2. \A j \in Jobs : j # Doc(r) => status'[j] = status[j] /\ returned'[j] = returned[j]
      BY <3>1 DEF TypeOK
    <3>3. \A v \in Services : For[v] # Doc(r) => clawed'[v] = clawed[v]
      BY <3>1
    <3>4. ASSUME NEW j \in Orderly, j = Doc(r) PROVE StageInv(j)'
      <4>1. status'[j] = "delivered" /\ returned'[j] = TRUE
        BY <2>1, <3>1, <3>4 DEF JobInv, Undecided, TypeOK, Orderly
      <4> QED BY <4>1 DEF StageInv
    <3> QED BY <2>1, <2>2, <3>2, <3>3, <3>4, JobMoves
  <2> QED BY <2>3, <2>4
<1> QED BY <1>1, <1>2, <1>3, <1>4, <1>5 DEF Step

\* What the implementation rests on.
BookInv == Typing /\ ServiceInv /\ JobInv

LEMMA InitBookInv == Init => BookInv
<1> SUFFICES ASSUME Init PROVE BookInv
  OBVIOUS
<1>1. Typing
  BY InitType, InitBaseInv DEF Typing
<1>2. ServiceInv
  BY DEF Init, ServiceInv, EarnInv, PricedInv, CommissionEarnedOnce, CommissionAsPriced
<1>3. JobInv
  BY DEF Init, JobInv, StageInv, Undecided, Own, Orderly
<1> QED BY <1>1, <1>2, <1>3 DEF BookInv

LEMMA StepBookInv == BookInv /\ [Next]_vars => BookInv'
<1> SUFFICES ASSUME BookInv, [Next]_vars PROVE BookInv'
  OBVIOUS
<1>1. Typing /\ ServiceInv /\ JobInv /\ BaseInv
  BY DEF BookInv, Typing
<1>2. Typing' /\ ServiceInv'
  BY <1>1, StepTyping, StepServiceInv
<1>3. JobInv'
  <2>1. ASSUME UNCHANGED <<status, returned, clawed, pc, job>> PROVE JobInv'
    BY <1>1, <2>1 DEF JobInv, StageInv, Undecided, Doc
  <2>2. CASE UNCHANGED vars
    BY <2>1, <2>2 DEF vars, jobVars, serviceVars
  <2>3. CASE AtOnceRequest
    <3>1. pc' = pc /\ job' = job
      BY <1>1, <2>3, AtOnceFacts DEF BaseInv
    <3>2. UNCHANGED <<status, returned, clawed>>
      BY <2>3 DEF AtOnceRequest, WriteReport, DeleteReport, SettleShipping, AddService,
                  DeletePayment, Review, Correct, jobVars, serviceVars
    <3> QED BY <2>1, <3>1, <3>2
  <2>4. ASSUME NEW r \in Requests, NEW request, NEW first, Checked(r, request, first)
        PROVE  JobInv'
    BY <1>1, <2>4, CheckedJob
  <2>5. ASSUME NEW r \in Requests, Abandon(r) PROVE JobInv'
    <3>1. pc'[r] = "idle" /\ OthersStay(r) /\ UNCHANGED <<status, returned, clawed>>
      BY <1>1, <2>5, AnswerFacts DEF Abandon, BaseInv, jobVars, serviceVars
    <3> QED BY <1>1, <3>1, JobStays DEF Undecided
  <2> QED BY <1>1, <2>2, <2>3, <2>4, <2>5, StepJobInv, NextActs
<1> QED BY <1>2, <1>3 DEF BookInv

\* The technicians of a job are finitely many.
LEMMA OwnFinite == ASSUME NEW j PROVE Own(j) \subseteq Services /\ IsFiniteSet(Own(j))
<1>1. Own(j) \subseteq Services
  BY DEF Own
<1> QED BY <1>1, FS_Subset, RepairAssumption

\* Nothing but the status, the return and the commissions is in the book.
LEMMA BookStays ==
  ASSUME UNCHANGED <<status, returned, earned, clawed>>
  PROVE  UNCHANGED <<Stages, Credits>>
BY DEF Stages, Credits

\* What a job's technicians are credited stays when their commissions do.
LEMMA CreditStays ==
  ASSUME NEW j \in Orderly, \A v \in Own(j) : earned'[v] = earned[v] /\ clawed'[v] = clawed[v]
  PROVE  Credits'[j] = Credits[j]
<1>1. SumFunctionOnSet(earned', Own(j)) = SumFunctionOnSet(earned, Own(j))
  BY OwnFinite, SumSame
<1>2. SumFunctionOnSet(clawed', Own(j)) = SumFunctionOnSet(clawed, Own(j))
  BY OwnFinite, SumSame
<1> QED BY <1>1, <1>2 DEF Credits

\* At most the whole commission is taken back.
LEMMA ShareBound ==
  ASSUME TypeOK, NEW price \in Nat, NEW refund \in Nat, NEW v \in Services
  PROVE  Share(price, refund, v) <= earned[v]
<1>0. CASE price = 0
  BY <1>0 DEF Share, TypeOK
<1> SUFFICES ASSUME price # 0 PROVE Share(price, refund, v) <= earned[v]
  BY <1>0
<1> DEFINE part == IF refund < price THEN refund ELSE price
           e == earned[v]
           p == price
<1>1. p \in Nat \ {0} /\ e \in Nat
  BY DEF TypeOK
<1>2. Share(price, refund, v) = (2 * e * part + p) \div (2 * p)
  BY DEF Share
<1>3. part \in Nat /\ part <= p
  BY <1>1
<1> HIDE DEF part, e, p
<1>4. e * part \in Nat /\ e * p \in Nat /\ e * (p - part) \in Nat
  BY <1>1, <1>3
<1>5. e * p = e * part + e * (p - part)
  BY <1>1, <1>3
<1> DEFINE a == e * part
           b == e * p
           n == 2 * a + p
           d == 2 * p
<1>6. a \in Nat /\ b \in Nat /\ a <= b
  BY <1>4, <1>5
<1>7. 2 * e * part = 2 * a
  BY <1>1, <1>3
<1>8. e * d = 2 * b
  BY <1>1
<1> HIDE DEF a, b
<1>9. n \in Nat /\ d \in Nat \ {0} /\ n < e * d + d
  BY <1>1, <1>6, <1>8
<1>10. Share(price, refund, v) = n \div d
  BY <1>2, <1>7
<1> HIDE DEF n, d
<1>11. n \div d <= e
  <2> DEFINE q == n \div d
  <2>1. q \in Nat /\ q * d <= n
    BY <1>9
  <2> HIDE DEF q
  <2>2. ASSUME q >= e + 1 PROVE FALSE
    <3>1. (q - e - 1) * d \in Nat
      BY <1>1, <1>9, <2>1, <2>2
    <3>2. q * d = (q - e - 1) * d + e * d + d
      BY <1>1, <1>9, <2>1
    <3>3. q * d \in Nat /\ e * d \in Nat
      BY <1>1, <1>9, <2>1
    <3> QED BY <1>9, <2>1, <3>1, <3>2, <3>3
  <2>3. q <= e
    BY <1>1, <2>1, <2>2
  <2> QED BY <2>3 DEF q
<1> QED BY <1>10, <1>11 DEF e

\* Where nothing was taken back the technicians have all they earned.
LEMMA FullCredit ==
  ASSUME TypeOK, NEW j \in Orderly, \A v \in Own(j) : clawed[v] = 0
  PROVE  Credits[j] = SumFunctionOnSet(earned, Own(j)) /\ Credits[j] \in Nat
<1>1. IsFiniteSet(Own(j)) /\ Own(j) \subseteq Services
  BY OwnFinite
<1>3. SumFunctionOnSet(clawed, Own(j)) <= Cardinality(Own(j)) * 0
  BY <1>1, SumBound
<1>4. SumFunctionOnSet(clawed, Own(j)) \in Nat /\ SumFunctionOnSet(earned, Own(j)) \in Nat
  <2>1. \A v \in Own(j) : clawed[v] \in Nat /\ earned[v] \in Nat
    BY <1>1 DEF TypeOK
  <2> QED BY <1>1, <2>1, SumNat
<1>5. Cardinality(Own(j)) * 0 = 0
  BY <1>1, FS_CardinalityType
<1>6. SumFunctionOnSet(clawed, Own(j)) = 0
  BY <1>3, <1>4, <1>5
<1>7. Credits[j] = SumFunctionOnSet(earned, Own(j)) - SumFunctionOnSet(clawed, Own(j))
  BY DEF Credits
<1> QED BY <1>4, <1>6, <1>7

\* A change of status closes the job or leaves it open.
LEMMA MoveBook ==
  ASSUME BookInv, NEW r \in Requests, Move(r)
  PROVE  [Book!Next]_<<Stages, Credits>>
<1> DEFINE j == Doc(r)
           to == job[r].to
<1>1. /\ pc[r] = "move" /\ status' = [status EXCEPT ![j] = to]
      /\ UNCHANGED <<returned, earned, clawed>>
  BY DEF Move, serviceVars
<1>2. \A i \in Jobs : status'[i] = IF i = j THEN to ELSE status[i]
  BY <1>1 DEF BookInv, Typing, TypeOK
<1>3. Credits' = Credits
  BY <1>1 DEF Credits
<1>4. CASE j \notin Orderly
  <2>1. Stages' = Stages
    BY <1>1, <1>2, <1>4 DEF Stages, Orderly
  <2> QED BY <1>3, <2>1
<1>5. CASE j \in Orderly
  <2>1. status[j] \notin Terminal /\ to # "delivered" /\ StageInv(j)
    BY <1>1, <1>5 DEF BookInv, JobInv, Undecided
  <2>2. ~ returned[j] /\ status[j] # "delivered" /\ status[j] # "cancelled"
    BY <2>1 DEF StageInv, Terminal
  <2>3. PICK i \in Orderly : i = j
    BY <1>5
  <2> HIDE DEF j, to
  <2>4. Stages[i] = "open"
    BY <2>2, <2>3 DEF Stages
  <2>5. Stages' = [Stages EXCEPT ![i] = IF to = "cancelled" THEN "closed" ELSE "open"]
    <3>1. \A k \in Orderly : Stages'[k] = IF k = i THEN IF to = "cancelled" THEN "closed"
                                                        ELSE "open"
                                          ELSE Stages[k]
      BY <1>1, <1>2, <2>1, <2>2, <2>3 DEF Stages, Orderly
    <3> QED BY <3>1 DEF Stages
  <2>6. CASE to = "cancelled"
    <3>1. Book!Close(i)
      BY <1>3, <2>4, <2>5, <2>6 DEF Book!Close
    <3> QED BY <3>1 DEF Book!Next
  <2>7. CASE to # "cancelled"
    <3>1. Stages' = Stages
      BY <2>4, <2>5, <2>7 DEF Stages
    <3> QED BY <1>3, <3>1
  <2> QED BY <2>6, <2>7
<1> QED BY <1>4, <1>5

\* The commissions of a job are those of its own services.
LEMMA OtherCredits ==
  ASSUME NEW j, NEW i \in Orderly, i # j,
         \A v \in Services : For[v] # j => earned'[v] = earned[v] /\ clawed'[v] = clawed[v]
  PROVE  Credits'[i] = Credits[i]
BY CreditStays DEF Own

\* The delivery credits each service with at most one price.
LEMMA DeliverBook ==
  ASSUME BookInv, BookInv', NEW r \in Requests, LockCommissions(r)
  PROVE  [Book!Next]_<<Stages, Credits>>
<1> DEFINE j == Doc(r)
<1>1. /\ pc[r] = "commissions" /\ status' = [status EXCEPT ![j] = "delivered"]
      /\ UNCHANGED <<returned, clawed>>
      /\ \A v \in Services : earned'[v] = earned[v] + Credit(job[r].seen, v)
  BY DEF LockCommissions
<1>2. \A i \in Jobs : status'[i] = IF i = j THEN "delivered" ELSE status[i]
  BY <1>1 DEF BookInv, Typing, TypeOK
<1>3. ASSUME NEW v \in Services, For[v] # j
      PROVE  earned'[v] = earned[v] /\ clawed'[v] = clawed[v]
  <2>1. Fits(r)
    BY DEF BookInv, Typing, BaseInv, RequestInv
  <2>2. \A x \in job[r].seen : x[1] # v
    BY <1>1, <1>3, <2>1 DEF Fits
  <2>3. Credit(job[r].seen, v) = 0
    BY <1>1, <2>1, <2>2, CreditFacts
  <2>4. earned[v] \in Nat
    BY DEF BookInv, Typing, TypeOK
  <2> QED BY <1>1, <2>3, <2>4
<1>4. \A i \in Orderly : i # j => Credits'[i] = Credits[i]
  BY <1>3, OtherCredits
<1>5. CASE j \notin Orderly
  <2>1. Stages' = Stages
    BY <1>1, <1>2, <1>5 DEF Stages, Orderly
  <2>2. Credits' = Credits
    BY <1>4, <1>5 DEF Credits
  <2> QED BY <2>1, <2>2
<1>6. CASE j \in Orderly
  <2>1. status[j] # "cancelled" /\ StageInv(j)
    BY <1>1, <1>6 DEF BookInv, JobInv, Undecided
  <2>2. PICK i \in Orderly : i = j
    BY <1>6
  <2> HIDE DEF j
  <2>3. /\ Credits[i] \in Int /\ MostCredits[i] \in Int
        /\ Credits'[i] \in Credits[i]..MostCredits[i]
    <3>1. TypeOK /\ TypeOK' /\ CommissionEarnedOnce'
      BY DEF BookInv, Typing, ServiceInv, EarnInv
    <3>2. \A v \in Own(i) : /\ v \in Services /\ earned[v] \in Nat /\ clawed[v] \in Nat
                            /\ earned'[v] \in Nat /\ clawed'[v] \in Nat
      BY <3>1, OwnFinite DEF TypeOK
    <3>3. IsFiniteSet(Own(i)) /\ Cardinality(Own(i)) \in Nat
      BY OwnFinite, FS_CardinalityType
    <3>4. \A v \in Own(i) : earned[v] <= earned'[v]
      <4> SUFFICES ASSUME NEW v \in Own(i) PROVE earned[v] <= earned'[v]
        OBVIOUS
      <4>1. Credit(job[r].seen, v) \in Nat
        <5>1. job[r].seen \in SUBSET (Services \X Fees)
          BY <3>1 DEF TypeOK
        <5> QED BY <3>2, <5>1, CreditType
      <4>2. earned'[v] = earned[v] + Credit(job[r].seen, v) /\ earned[v] \in Nat
        BY <1>1, <3>2
      <4> QED BY <4>1, <4>2
    <3>5. Max(Fees) \in Fees /\ \A fees \in Fees : fees <= Max(Fees)
      <4>1. Fees \subseteq Int /\ Fees # {} /\ IsFiniteSet(Fees)
        BY RepairAssumption
      <4> QED BY <4>1, Greatest
    <3>6. Max(Fees) \in Nat
      BY <3>5, RepairAssumption
    <3>7. \A v \in Own(i) : earned'[v] <= Max(Fees)
      BY <3>1, <3>2, <3>5, <3>6 DEF CommissionEarnedOnce
    <3>8. SumFunctionOnSet(earned', Own(i)) <= Cardinality(Own(i)) * Max(Fees)
      BY <3>2, <3>3, <3>6, <3>7, SumBound
    <3>9. SumFunctionOnSet(earned, Own(i)) <= SumFunctionOnSet(earned', Own(i))
      BY <3>2, <3>3, <3>4, SumNoGreater
    <3>10. /\ SumFunctionOnSet(clawed, Own(i)) \in Nat /\ SumFunctionOnSet(earned, Own(i)) \in Nat
           /\ SumFunctionOnSet(earned', Own(i)) \in Nat
      BY <3>2, <3>3, SumNat
    <3>11. SumFunctionOnSet(clawed', Own(i)) = SumFunctionOnSet(clawed, Own(i))
      BY <1>1
    <3>12. /\ Credits[i] = SumFunctionOnSet(earned, Own(i)) - SumFunctionOnSet(clawed, Own(i))
           /\ Credits'[i] = SumFunctionOnSet(earned', Own(i)) - SumFunctionOnSet(clawed', Own(i))
      BY DEF Credits
    <3>13. MostCredits[i] = Cardinality(Own(i)) * Max(Fees) /\ MostCredits[i] \in Nat
      BY <3>3, <3>6 DEF MostCredits
    <3> DEFINE before == SumFunctionOnSet(earned, Own(i))
               after == SumFunctionOnSet(earned', Own(i))
               c == SumFunctionOnSet(clawed, Own(i))
    <3>14. /\ c \in Nat /\ before \in Nat /\ after \in Nat /\ before <= after
           /\ after <= MostCredits[i] /\ Credits[i] = before - c /\ Credits'[i] = after - c
      BY <3>8, <3>9, <3>10, <3>11, <3>12, <3>13
    <3> HIDE DEF before, after, c
    <3> QED BY <3>13, <3>14
  <2>4. PICK all \in Credits[i]..MostCredits[i] : Credits'[i] = all
    BY <2>3
  <2>5. Credits' = [Credits EXCEPT ![i] = all]
    <3>1. \A k \in Orderly : Credits'[k] = IF k = i THEN all ELSE Credits[k]
      BY <1>4, <2>2, <2>4
    <3> QED BY <3>1 DEF Credits
  <2>6. CASE status[j] = "delivered"
    <3>1. Stages' = Stages
      BY <1>1, <1>2, <2>2, <2>6 DEF Stages, Orderly
    <3>2. Stages[i] \in {"delivered", "returned"}
      BY <2>2, <2>6 DEF Stages
    <3>3. Book!DeliverAgain(i)
      BY <2>4, <2>5, <3>1, <3>2 DEF Book!DeliverAgain
    <3> QED BY <3>3 DEF Book!Next
  <2>7. CASE status[j] # "delivered"
    <3>1. ~ returned[j] /\ \A v \in Own(j) : clawed[v] = 0
      BY <2>1, <2>7 DEF StageInv
    <3>2. Stages[i] = "open"
      BY <2>1, <2>2, <2>7, <3>1 DEF Stages
    <3>3. Stages' = [Stages EXCEPT ![i] = "delivered"]
      <4>1. \A k \in Orderly : Stages'[k] = IF k = i THEN "delivered" ELSE Stages[k]
        BY <1>1, <1>2, <2>2, <3>1 DEF Stages, Orderly
      <4> QED BY <4>1 DEF Stages
    <3>4. Credits[i] \in Nat
      <4>1. TypeOK
        BY DEF BookInv, Typing
      <4> QED BY <2>2, <3>1, <4>1, FullCredit
    <3>5. all \in 0..MostCredits[i]
      BY <2>3, <2>4, <3>4
    <3>6. Book!Deliver(i)
      BY <2>5, <3>2, <3>3, <3>5 DEF Book!Deliver
    <3> QED BY <3>6 DEF Book!Next
  <2> QED BY <2>6, <2>7
<1> QED BY <1>5, <1>6

\* The return takes back at most what was credited.
LEMMA TakeBackBook ==
  ASSUME BookInv, BookInv', NEW r \in Requests, TakeBack(r)
  PROVE  [Book!Next]_<<Stages, Credits>>
<1> DEFINE j == Doc(r)
           refund == job[r].amount
           price == job[r].total
<1>1. CASE cash < refund
  <2>1. UNCHANGED <<status, returned, earned, clawed>>
    BY <1>1 DEF TakeBack, Abandon, jobVars, serviceVars
  <2> QED BY <2>1, BookStays
<1>2. CASE ~ (cash < refund)
  <2>1. /\ pc[r] = "return" /\ returned' = [returned EXCEPT ![j] = TRUE]
        /\ UNCHANGED <<status, earned>>
        /\ \A v \in Services : clawed'[v] = IF For[v] = j THEN clawed[v] + Share(price, refund, v)
                                            ELSE clawed[v]
    BY <1>2 DEF TakeBack
  <2>2. \A i \in Jobs : returned'[i] = IF i = j THEN TRUE ELSE returned[i]
    BY <2>1 DEF BookInv, Typing, TypeOK
  <2>3. refund \in Nat /\ price \in Nat
    BY DEF BookInv, Typing, TypeOK
  <2> HIDE DEF refund, price
  <2>4. \A i \in Orderly : i # j => Credits'[i] = Credits[i]
    BY <2>1, OtherCredits
  <2>5. CASE j \notin Orderly
    <3>1. Stages' = Stages
      BY <2>1, <2>2, <2>5 DEF Stages, Orderly
    <3>2. Credits' = Credits
      BY <2>4, <2>5 DEF Credits
    <3> QED BY <3>1, <3>2
  <2>6. CASE j \in Orderly
    <3>1. status[j] = "delivered" /\ ~ returned[j] /\ StageInv(j)
      BY <2>1, <2>6 DEF BookInv, JobInv, Undecided
    <3>2. \A v \in Own(j) : clawed[v] = 0
      BY <3>1 DEF StageInv
    <3>3. PICK i \in Orderly : i = j
      BY <2>6
    <3> HIDE DEF j
    <3>4. Stages[i] = "delivered"
      BY <3>1, <3>3 DEF Stages
    <3>5. Stages' = [Stages EXCEPT ![i] = "returned"]
      <4>1. \A k \in Orderly : Stages'[k] = IF k = i THEN "returned" ELSE Stages[k]
        BY <2>1, <2>2, <3>3 DEF Stages, Orderly
      <4> QED BY <4>1 DEF Stages
    <3>6. Credits'[i] \in 0..Credits[i]
      <4>1. TypeOK /\ TypeOK'
        BY DEF BookInv, Typing
      <4>2. Credits[i] = SumFunctionOnSet(earned, Own(i)) /\ Credits[i] \in Nat
        BY <3>2, <3>3, <4>1, FullCredit
      <4>3. \A v \in Own(i) : /\ v \in Services /\ For[v] = i /\ clawed[v] = 0
                              /\ earned[v] \in Nat /\ clawed'[v] \in Nat
        BY <3>2, <3>3, <4>1 DEF Own, TypeOK
      <4>4. \A v \in Own(i) : clawed'[v] <= earned[v]
        <5> SUFFICES ASSUME NEW v \in Own(i) PROVE clawed'[v] <= earned[v]
          OBVIOUS
        <5>1. clawed'[v] = 0 + Share(price, refund, v)
          BY <2>1, <3>3, <4>3
        <5>2. Share(price, refund, v) <= earned[v] /\ Share(price, refund, v) \in Nat
          BY <2>3, <4>1, <4>3, ShareBound, ShareType DEF Orderly
        <5>3. clawed'[v] = Share(price, refund, v)
          BY <3>3, <5>1, <5>2
        <5> QED BY <5>2, <5>3
      <4>5. IsFiniteSet(Own(i))
        BY OwnFinite
      <4>6. SumFunctionOnSet(clawed', Own(i)) <= SumFunctionOnSet(earned, Own(i))
        BY <4>3, <4>4, <4>5, SumNoGreater
      <4>7. SumFunctionOnSet(clawed', Own(i)) \in Nat
        BY <4>3, <4>5, SumNat
      <4>8. SumFunctionOnSet(earned', Own(i)) = SumFunctionOnSet(earned, Own(i))
        BY <2>1
      <4>9. Credits'[i] = SumFunctionOnSet(earned', Own(i)) - SumFunctionOnSet(clawed', Own(i))
        BY DEF Credits
      <4> DEFINE c == SumFunctionOnSet(clawed', Own(i))
      <4>10. c \in Nat /\ c <= Credits[i] /\ Credits'[i] = Credits[i] - c
        BY <4>2, <4>6, <4>7, <4>8, <4>9
      <4> HIDE DEF c
      <4> QED BY <4>2, <4>10
    <3>7. PICK kept \in 0..Credits[i] : Credits'[i] = kept
      BY <3>6
    <3>8. Credits' = [Credits EXCEPT ![i] = kept]
      <4>1. \A k \in Orderly : Credits'[k] = IF k = i THEN kept ELSE Credits[k]
        BY <2>4, <3>3, <3>7
      <4> QED BY <4>1 DEF Credits
    <3>9. Book!TakeBack(i)
      BY <3>4, <3>5, <3>7, <3>8 DEF Book!TakeBack
    <3> QED BY <3>9 DEF Book!Next
  <2> QED BY <2>5, <2>6
<1> QED BY <1>1, <1>2

LEMMA StepBook ==
  BookInv /\ BookInv' /\ [Next]_vars => [Book!Next]_<<Stages, Credits>>
<1> SUFFICES ASSUME BookInv, BookInv', [Next]_vars PROVE [Book!Next]_<<Stages, Credits>>
  OBVIOUS
<1>1. CASE UNCHANGED vars
  BY <1>1, BookStays DEF vars, jobVars, serviceVars
<1>2. CASE AtOnceRequest
  <2>1. UNCHANGED <<status, returned, earned, clawed>>
    BY <1>2 DEF AtOnceRequest, WriteReport, DeleteReport, SettleShipping, AddService,
                DeletePayment, Review, Correct, jobVars, serviceVars
  <2> QED BY <2>1, BookStays
<1>3. ASSUME NEW r \in Requests, NEW request, NEW first, Checked(r, request, first)
      PROVE  [Book!Next]_<<Stages, Credits>>
  <2>1. UNCHANGED <<status, returned, earned, clawed>>
    BY <1>3 DEF Checked, Send, jobVars, serviceVars
  <2> QED BY <2>1, BookStays
<1>4. ASSUME NEW r \in Requests,
             \/ InsertHistory(r) \/ LockJob(r) \/ ReadServices(r) \/ EditService(r)
             \/ InsertPayment(r) \/ Abandon(r)
      PROVE  [Book!Next]_<<Stages, Credits>>
  <2>1. UNCHANGED <<status, returned, earned, clawed>>
    BY <1>4 DEF InsertHistory, LockJob, ReadServices, EditService, InsertPayment, Abandon,
                jobVars, serviceVars
  <2> QED BY <2>1, BookStays
<1>5. ASSUME NEW r \in Requests, Step(r) PROVE [Book!Next]_<<Stages, Credits>>
  BY <1>4, <1>5, MoveBook, DeliverBook, TakeBackBook DEF Step
<1>6. BaseInv
  BY DEF BookInv, Typing
<1> QED BY <1>1, <1>2, <1>3, <1>4, <1>5, <1>6, NextActs

LEMMA InitBook == Init => Book!Init
<1> SUFFICES ASSUME Init PROVE Book!Init
  OBVIOUS
<1>1. Stages = [j \in Orderly |-> "open"]
  BY DEF Init, Stages, Orderly
<1>2. \A j \in Orderly : Credits[j] = 0
  <2> SUFFICES ASSUME NEW j \in Orderly PROVE Credits[j] = 0
    OBVIOUS
  <2>1. \A v \in Own(j) : clawed[v] = 0 /\ earned[v] = 0
    BY OwnFinite DEF Init
  <2>2. SumFunctionOnSet(earned, Own(j)) = SumFunctionOnSet(clawed, Own(j))
    BY <2>1, OwnFinite, SumSame
  <2>3. SumFunctionOnSet(clawed, Own(j)) \in Int
    BY <2>1, OwnFinite, SumSplit
  <2> QED BY <2>2, <2>3 DEF Credits
<1>3. Credits = [j \in Orderly |-> 0]
  BY <1>2 DEF Credits
<1> QED BY <1>1, <1>3 DEF Book!Init

\* A job that one person works on at a time is closed once, its commissions are credited
\* when it is delivered, and its return, which comes once and after the delivery, takes
\* back at most what was credited.
THEOREM JobsImplementBook == Spec => ImplementsRepairBook
<1>1. Spec => []BookInv
  BY InitBookInv, StepBookInv, PTL DEF Spec
<1> QED BY <1>1, InitBook, StepBook, PTL DEF Spec, ImplementsRepairBook, Book!Spec

=============================================================================
