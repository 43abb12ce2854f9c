--------------------------- MODULE StaffCashProofs ---------------------------
(***************************************************************************)
(* Proofs about the advances, the payroll and the custodies of StaffCash,  *)
(* for any employees, periods, safes, documents and requests.              *)
(***************************************************************************)
EXTENDS StaffCash, Sums, TLAPS

\* The advances that one person decides upon at a time.
Orderly == Advances \ Shared

\* Request r has read the status of an advance and is about to change it.
InFlight(r) ==
  \/ pc[r] \in {"insert", "approve", "reject"}
  \/ pc[r] = "readSafe" /\ job[r].kind = "approve"

Decided == {"approved", "active", "completed", "rejected", "cancelled"}
Places == {"idle", "insert", "readSafe", "approve", "reject", "settle", "delete", "look",
           "slip", "approveSlips", "payAll", "payOne", "count", "finish"}

Typing ==
  /\ advance \in [Advances -> Decided \cup {"none", "pending"}]
  /\ approved \in [Advances -> Int]
  /\ remaining \in [Advances -> Int]
  /\ repaid \in [Advances -> Int]
  /\ pc \in [Requests -> Places]
  /\ DOMAIN job = Requests
  /\ \A r \in Requests : pc[r] = "readSafe" => job[r].kind \in {"approve", "payAll", "payOne"}

\* Nothing was granted or paid back before the decision.
Accounted ==
  \A a \in Orderly :
    /\ remaining[a] + repaid[a] = approved[a]
    /\ advance[a] \in {"none", "pending"} => remaining[a] = 0 /\ repaid[a] = 0

\* The status a request has read is still the status of the advance.
StatusStands ==
  \A r \in Requests :
    InFlight(r) /\ Doc(r) \in Orderly
    => advance[Doc(r)] = IF pc[r] = "insert" THEN "none" ELSE "pending"

OneDecides ==
  \A r, q \in Requests :
    InFlight(r) /\ InFlight(q) /\ Doc(r) = Doc(q) /\ Doc(r) \in Orderly => r = q

AdvanceInv == Typing /\ Accounted /\ StatusStands /\ OneDecides

-----------------------------------------------------------------------------
(* Steps of one request that leave the advances alone *)

\* Request r goes on to something that is not about an advance.
LEMMA Elsewhere ==
  ASSUME AdvanceInv, UNCHANGED advanceVars, NEW r \in Requests, NEW next \in Places,
         pc' = [pc EXCEPT ![r] = next], DOMAIN job' = Requests,
         \A q \in Requests \ {r} : job'[q] = job[q],
         next \notin {"insert", "approve", "reject"},
         next = "readSafe" => job'[r].kind \in {"payAll", "payOne"}
  PROVE  AdvanceInv'
<1> USE DEF AdvanceInv, advanceVars
<1>1. Typing'
  BY DEF Decided, Places, Typing
<1>2. Accounted'
  BY DEF Accounted
<1>3. ~ InFlight(r)'
  BY DEF Decided, Places, Typing, InFlight
<1>4. \A q \in Requests \ {r} : InFlight(q)' = InFlight(q) /\ Doc(q)' = Doc(q) /\ pc'[q] = pc[q]
  BY DEF Decided, Places, Typing, InFlight, Doc
<1>5. StatusStands'
  BY <1>3, <1>4 DEF StatusStands
<1>6. OneDecides'
  BY <1>3, <1>4 DEF OneDecides
<1> QED BY <1>1, <1>2, <1>5, <1>6

\* Nothing of the requests or the advances changes.
LEMMA Unmoved ==
  ASSUME AdvanceInv, UNCHANGED <<advanceVars, job, pc>>
  PROVE  AdvanceInv'
BY DEF AdvanceInv, advanceVars, Typing, Accounted, StatusStands, OneDecides, InFlight, Doc

LEMMA AbandonKeeps ==
  ASSUME AdvanceInv, NEW r \in Requests, Abandon(r)
  PROVE  AdvanceInv'
<1>1. DOMAIN job' = Requests
  BY DEF Abandon, AdvanceInv, Typing
<1> QED BY <1>1, Elsewhere DEF Places, Abandon, Goto

-----------------------------------------------------------------------------
(* Requests *)

\* A request about an advance is received when nobody else works on the advance.
LEMMA AdvanceRequestKeeps ==
  ASSUME AdvanceInv, NEW r \in Requests, NEW a \in Advances, AdvanceRequest(r, a)
  PROVE  AdvanceInv'
<1> USE DEF AdvanceInv
<1>1. PICK request, first :
        /\ Send(r, request, first)
        /\ request.doc = a
        /\ \/ request.kind = "request" /\ first = "insert" /\ advance[a] = "none"
           \/ request.kind = "reject" /\ first = "reject" /\ advance[a] = "pending"
           \/ request.kind = "approve" /\ first = "readSafe" /\ advance[a] = "pending"
  <2>1. CASE ReceiveAdvance(r, a) BY <2>1 DEF ReceiveAdvance, Ask
  <2>2. CASE ReceiveRejection(r, a) BY <2>2 DEF ReceiveRejection, Ask
  <2>3. ASSUME NEW s \in Desks[a], ReceiveApproval(r, a, s)
        PROVE  \E request, first :
                 /\ Send(r, request, first) /\ request.doc = a /\ request.kind = "approve"
                 /\ first = "readSafe" /\ advance[a] = "pending"
    <3> DEFINE request == [Ask("approve", a) EXCEPT !.safe = s]
    <3>1. request.doc = a /\ request.kind = "approve"
      BY DEF Ask
    <3>2. Send(r, request, "readSafe") /\ advance[a] = "pending"
      BY <2>3 DEF ReceiveApproval
    <3> HIDE DEF request
    <3> QED BY <3>1, <3>2
  <2> QED BY <2>1, <2>2, <2>3 DEF AdvanceRequest
<1>2. /\ pc[r] = "idle"
      /\ UNCHANGED advanceVars
      /\ job' = [job EXCEPT ![r] = request]
      /\ pc' = [pc EXCEPT ![r] = first]
      /\ first \in Places
      /\ \A q \in Requests : pc[q] # "idle" /\ Doc(q) = a /\ Doc(q) \notin Shared
                             => Agree(request, job[q])
  BY <1>1 DEF Send, Start, Idle, Goto, Places
<1>3. \A q \in Requests : pc[q] # "idle" /\ Doc(q) \notin Shared => Doc(q) # a
  BY <1>1, <1>2 DEF Agree
<1>4. Typing'
  BY <1>1, <1>2 DEF Decided, Places, Typing, advanceVars
<1>5. Accounted'
  BY <1>2 DEF Accounted, advanceVars
<1>6. \A q \in Requests \ {r} : InFlight(q)' = InFlight(q) /\ Doc(q)' = Doc(q) /\ pc'[q] = pc[q]
  BY <1>2 DEF Decided, Places, Typing, InFlight, Doc
<1>7. Doc(r)' = a /\ pc'[r] = first
  BY <1>1, <1>2 DEF Decided, Places, Typing, Doc
<1>8. \A q \in Requests \ {r} : InFlight(q)' /\ a \in Orderly => Doc(q)' # a
  BY <1>3, <1>6 DEF InFlight, Orderly
<1>9. StatusStands'
  BY <1>1, <1>2, <1>6, <1>7 DEF StatusStands, advanceVars
<1>10. OneDecides'
  BY <1>6, <1>7, <1>8 DEF OneDecides
<1> QED BY <1>4, <1>5, <1>9, <1>10

LEMMA ReceiveKeeps ==
  ASSUME AdvanceInv, NEW r \in Requests, Receive(r)
  PROVE  AdvanceInv'
<1>1. CASE \E a \in Advances : AdvanceRequest(r, a)
  BY <1>1, AdvanceRequestKeeps
<1>2. ASSUME NEW request, NEW first \in Places, Start(r, request, first), UNCHANGED advanceVars,
             first \notin {"insert", "approve", "reject"},
             first = "readSafe" => request.kind \in {"payAll", "payOne"}
      PROVE  AdvanceInv'
  <2>1. /\ pc' = [pc EXCEPT ![r] = first]
        /\ job' = [job EXCEPT ![r] = request]
    BY <1>2 DEF Start, Goto
  <2>2. /\ DOMAIN job' = Requests /\ job'[r] = request
        /\ \A q \in Requests \ {r} : job'[q] = job[q]
    BY <2>1 DEF AdvanceInv, Typing, Places, Decided
  <2> QED BY <1>2, <2>1, <2>2, Elsewhere
<1>3. CASE \E c \in Custodies : CustodyRequest(r, c)
  <2> PICK c \in Custodies : CustodyRequest(r, c)
    BY <1>3
  <2>1. CASE ReceiveDeletion(r, c)
    BY <2>1, <1>2 DEF Places, ReceiveDeletion, Send
  <2>2. CASE \E back \in 0..Worth[c], more \in 0..Excess : ReceiveSettlement(r, c, back, more)
    BY <2>2, <1>2 DEF Places, ReceiveSettlement, Send
  <2> QED BY <2>1, <2>2 DEF CustodyRequest
<1>4. CASE \E p \in Periods : PayrollRequest(r, p)
  <2> PICK p \in Periods : PayrollRequest(r, p)
    BY <1>4
  <2>1. CASE ReceiveProcess(r, p)
    BY <2>1, <1>2 DEF Places, ReceiveProcess
  <2>2. CASE ApprovePeriod(r, p)
    BY <2>2, <1>2 DEF Places, ApprovePeriod
  <2>3. ASSUME NEW s \in Desks[p], ReceivePayPeriod(r, p, s) PROVE AdvanceInv'
    BY <2>3, <1>2 DEF Places, ReceivePayPeriod, Ask
  <2>4. ASSUME NEW s \in Desks[p], NEW x \in RowsOf(p), ReceivePayment(r, x, s) PROVE AdvanceInv'
    BY <2>4, <1>2 DEF Places, ReceivePayment, Send, Ask
  <2> QED BY <2>1, <2>2, <2>3, <2>4 DEF PayrollRequest
<1> QED BY <1>1, <1>3, <1>4 DEF Receive

-----------------------------------------------------------------------------
(* Decisions and repayments *)

\* A decision: r changes its advance from the status it has read.
LEMMA DecisionKeeps ==
  ASSUME AdvanceInv, NEW r \in Requests, InFlight(r),
         NEW status \in Decided, 
         NEW granted, Doc(r) \in Advances => granted \in Nat,
         \/ /\ advance' = [advance EXCEPT ![Doc(r)] = status]
            /\ approved' = [approved EXCEPT ![Doc(r)] = granted]
            /\ remaining' = [remaining EXCEPT ![Doc(r)] = granted]
         \/ /\ advance' = [advance EXCEPT ![Doc(r)] = status]
            /\ UNCHANGED <<approved, remaining>>
         \/ /\ advance' = [advance EXCEPT ![Doc(r)] = "pending"]
            /\ UNCHANGED <<approved, remaining>>,
         UNCHANGED repaid,
         Answer(r)
  PROVE  AdvanceInv'
<1> USE DEF AdvanceInv
<1>1. pc' = [pc EXCEPT ![r] = "idle"] /\ job' = job
  BY DEF Answer, Goto
<1>2. Typing'
  BY <1>1 DEF Decided, Places, Typing
<1>3. Doc(r) \in Orderly => repaid[Doc(r)] = 0 /\ remaining[Doc(r)] = 0 /\ approved[Doc(r)] = 0
  BY DEF StatusStands, Accounted, Typing, Decided, Orderly
<1>4. Accounted'
  <2>1. \A a \in Orderly : a # Doc(r) => /\ remaining'[a] = remaining[a]
                                        /\ approved'[a] = approved[a]
                                        /\ advance'[a] = advance[a]
    BY DEF Typing, Orderly
  <2>2. Doc(r) \in Orderly => /\ remaining'[Doc(r)] = approved'[Doc(r)]
                              /\ approved'[Doc(r)] \in Nat
                              /\ \/ advance'[Doc(r)] \in Decided
                                 \/ advance'[Doc(r)] = "pending" /\ remaining'[Doc(r)] = 0
    BY <1>3 DEF Typing, Orderly
  <2> QED BY <1>3, <2>1, <2>2 DEF Accounted, Decided
<1>5. ~ InFlight(r)'
  BY <1>1 DEF Decided, Places, Typing, InFlight
<1>6. \A q \in Requests \ {r} : InFlight(q)' = InFlight(q) /\ Doc(q)' = Doc(q) /\ pc'[q] = pc[q]
  BY <1>1 DEF Decided, Places, Typing, InFlight, Doc
<1>7. \A q \in Requests \ {r} : InFlight(q) /\ Doc(q) \in Orderly => Doc(q) # Doc(r)
  BY DEF OneDecides
<1>8. \A a \in Orderly : a # Doc(r) => advance'[a] = advance[a]
  BY DEF Decided, Places, Typing, Orderly
<1>9. StatusStands'
  BY <1>5, <1>6, <1>7, <1>8 DEF StatusStands
<1>10. OneDecides'
  BY <1>5, <1>6 DEF OneDecides
<1> QED BY <1>2, <1>4, <1>9, <1>10

\* The request of an advance whose owner asks for it is in the table.
LEMMA StepKeeps ==
  ASSUME AdvanceInv, NEW r \in Requests, Step(r)
  PROVE  AdvanceInv'
<1>0. DOMAIN job = Requests
  BY DEF AdvanceInv, Typing, Places, Decided
<1>1. CASE ReadSafe(r)
  <2>1. CASE Abandon(r) BY <2>1, AbandonKeeps
  <2>2. CASE ~ Abandon(r)
    <3>1. /\ pc[r] = "readSafe" /\ pc' = [pc EXCEPT ![r] = job[r].kind]
          /\ UNCHANGED <<advanceVars, job>>
      BY <1>1, <2>2 DEF ReadSafe, Goto
    <3>2. job[r].kind \in {"approve", "payAll", "payOne"}
      BY <3>1 DEF AdvanceInv, Typing, Places, Decided
    <3>3. CASE job[r].kind = "approve"
      <4>1. /\ pc' = [pc EXCEPT ![r] = "approve"] /\ pc[r] = "readSafe"
            /\ pc \in [Requests -> Places]
        BY <3>1, <3>3 DEF AdvanceInv, Typing, Places, Decided
      <4>2. \A q \in Requests : /\ InFlight(q)' = InFlight(q) /\ Doc(q)' = Doc(q)
                                /\ (pc'[q] = "insert") = (pc[q] = "insert")
        BY <4>1, <3>1, <3>3 DEF InFlight, Doc
      <4>3. Typing' /\ Accounted'
        BY <4>1, <3>1, <3>3 DEF AdvanceInv, Places, Typing, Accounted, advanceVars
      <4>4. StatusStands' /\ OneDecides'
        BY <4>2, <3>1 DEF AdvanceInv, StatusStands, OneDecides, advanceVars
      <4> QED BY <4>3, <4>4 DEF AdvanceInv
    <3>4. CASE job[r].kind # "approve"
      BY <3>1, <3>2, <3>4, <1>0, Elsewhere DEF Places
    <3> QED BY <3>3, <3>4
  <2> QED BY <2>1, <2>2
<1>2. CASE InsertAdvance(r)
  <2>1. InFlight(r)
    BY <1>2 DEF InsertAdvance, InFlight
  <2>2. Doc(r) \in Trusted => Doc(r) \in Advances /\ AdvanceSize[Doc(r)] \in Nat
    BY StaffAssumption
  <2>3. CASE Doc(r) \in Trusted
    BY <1>2, <2>1, <2>2, <2>3, DecisionKeeps DEF InsertAdvance, Decided
  <2>4. CASE Doc(r) \notin Trusted
    <3>1. "approved" \in Decided /\ 0 \in Nat
      BY DEF Decided
    <3> QED BY <1>2, <2>1, <2>4, <3>1, DecisionKeeps DEF InsertAdvance, Decided
  <2> QED BY <2>3, <2>4
<1>3. CASE GrantAdvance(r)
  <2>1. InFlight(r)
    BY <1>3 DEF GrantAdvance, InFlight
  <2>2. "active" \in Decided /\ (Doc(r) \in Advances => AdvanceSize[Doc(r)] \in Nat)
    BY StaffAssumption DEF Decided
  <2> QED BY <1>3, <2>1, <2>2, DecisionKeeps DEF GrantAdvance
<1>4. CASE RejectAdvance(r)
  <2>1. InFlight(r)
    BY <1>4 DEF RejectAdvance, InFlight
  <2>2. "rejected" \in Decided /\ 0 \in Nat
    BY DEF Decided
  <2> QED BY <1>4, <2>1, <2>2, DecisionKeeps DEF RejectAdvance
<1>5. CASE Settle(r)
  BY <1>5, <1>0, Elsewhere, AbandonKeeps DEF Places, Settle, Answer, Goto
<1>6. CASE DeleteCustody(r)
  BY <1>6, <1>0, Elsewhere DEF Places, DeleteCustody, Answer, Goto
<1>7. ASSUME NEW e \in Staff, Look(r, e) PROVE AdvanceInv'
  <2>1. pc[r] = "look" /\ UNCHANGED advanceVars
    BY <1>7 DEF Look
  <2>2. CASE \E x \in Slips(Doc(r)) : x[2] = e
    BY <1>7, <2>2, Unmoved DEF Look
  <2>3. CASE ~ \E x \in Slips(Doc(r)) : x[2] = e
    <3>1. pc' = [pc EXCEPT ![r] = "slip"] /\ job' = [job EXCEPT ![r].row = <<Doc(r), e, r>>]
      BY <1>7, <2>3 DEF Look, Goto
    <3>2. DOMAIN job' = Requests /\ \A q \in Requests \ {r} : job'[q] = job[q]
      BY <1>0, <3>1
    <3> QED BY <2>1, <3>1, <3>2, Elsewhere DEF Places
  <2> QED BY <2>2, <2>3
<1>8. CASE InsertSlip(r)
  BY <1>8, <1>0, Elsewhere DEF Places, InsertSlip, Goto
<1>9. CASE Processed(r)
  BY <1>9, <1>0, Elsewhere DEF Places, Processed, Answer, Goto
<1>10. CASE ApproveSlips(r)
  BY <1>10, <1>0, Elsewhere DEF Places, ApproveSlips, Answer, Goto
<1>11. CASE PayPeriod(r)
  BY <1>11, <1>0, Elsewhere DEF Places, PayPeriod, Answer, Goto
<1>12. CASE DebitSalary(r)
  BY <1>12, <1>0, Elsewhere DEF Places, DebitSalary, Goto
<1>13. CASE CountUnpaid(r)
  BY <1>13, <1>0, Elsewhere DEF Places, CountUnpaid, Goto
<1>14. CASE CommitPayment(r)
  BY <1>14, <1>0, Elsewhere DEF Places, CommitPayment, Answer, Goto
<1> QED BY <1>1, <1>2, <1>3, <1>4, <1>5, <1>6, <1>7, <1>8, <1>9, <1>10, <1>11, <1>12,
           <1>13, <1>14 DEF Step

\* A repayment or a cancellation happens at once.
LEMMA AtOnceKeeps ==
  ASSUME AdvanceInv, AtOnceRequest
  PROVE  AdvanceInv'
<1> USE DEF AdvanceInv
<1>1. ASSUME NEW a \in Advances, CancelAdvance(a) PROVE AdvanceInv'
  <2>1. /\ advance' = [advance EXCEPT ![a] = "cancelled"]
        /\ UNCHANGED <<approved, remaining, repaid, job, pc>>
        /\ a \in Shared \/ \A q \in Requests : pc[q] # "idle" => Doc(q) # a
    BY <1>1 DEF CancelAdvance, AtOnce, Alone, Idle
  <2>2. Typing' /\ Accounted'
    BY <2>1 DEF Decided, Places, Typing, Accounted, Orderly
  <2>3. \A q \in Requests : /\ InFlight(q)' = InFlight(q) /\ Doc(q)' = Doc(q)
                            /\ InFlight(q) /\ Doc(q) \in Orderly => Doc(q) # a
    BY <2>1 DEF InFlight, Doc, Orderly
  <2>4. StatusStands'
    BY <2>1, <2>3 DEF StatusStands, Typing, Decided, Orderly
  <2>5. OneDecides'
    BY <2>3 DEF OneDecides
  <2> QED BY <2>2, <2>4, <2>5
<1>2. ASSUME NEW a \in Advances, NEW amount \in 1..AdvanceSize[a], ManualPayment(a, amount)
      PROVE  AdvanceInv'
  <2>1. /\ amount \in Int /\ amount > 0 /\ amount <= remaining[a]
        /\ remaining' = [remaining EXCEPT ![a] = @ - amount]
        /\ repaid' = [repaid EXCEPT ![a] = @ + amount]
        /\ advance' = [advance EXCEPT ![a] = IF remaining[a] = amount THEN "completed" ELSE "active"]
        /\ UNCHANGED <<approved, job, pc>>
    BY <1>2, StaffAssumption DEF ManualPayment, AtOnce
  <2>2. Typing'
    BY <2>1 DEF Decided, Places, Typing
  <2>3. a \in Orderly => advance[a] \notin {"none", "pending"}
    BY <2>1 DEF Accounted
  <2>4. Accounted'
    BY <2>1, <2>3 DEF Accounted, Typing, Decided, Orderly
  <2>5. \A q \in Requests : InFlight(q)' = InFlight(q) /\ Doc(q)' = Doc(q)
    BY <2>1 DEF InFlight, Doc
  <2>6. \A q \in Requests : InFlight(q) /\ Doc(q) \in Orderly => Doc(q) # a
    BY <2>3 DEF StatusStands
  <2>7. StatusStands'
    BY <2>1, <2>5, <2>6 DEF StatusStands, Typing, Decided, Orderly
  <2>8. OneDecides'
    BY <2>5 DEF OneDecides
  <2> QED BY <2>2, <2>4, <2>7, <2>8
<1>3. ASSUME NEW c \in Custodies,
             GrantCustody(c) \/ \E s \in Desks[c] : Reimburse(c, s)
      PROVE  AdvanceInv'
  BY <1>3, Unmoved DEF GrantCustody, Reimburse, AtOnce
<1>4. ASSUME NEW x \in Rows, NEW verdict, ReviewSlip(x, verdict) PROVE AdvanceInv'
  BY <1>4, Unmoved DEF ReviewSlip, AtOnce
<1> QED BY <1>1, <1>2, <1>3, <1>4 DEF AtOnceRequest

-----------------------------------------------------------------------------
(* The theorem *)

LEMMA InitAdvanceInv == Init => AdvanceInv
<1> SUFFICES ASSUME Init PROVE AdvanceInv
  OBVIOUS
<1>1. Typing
  BY DEF Init, Typing, Places, Decided
<1>2. Accounted
  BY DEF Init, Accounted, Orderly
<1>3. \A r \in Requests : ~ InFlight(r)
  BY DEF Init, InFlight
<1> QED BY <1>1, <1>2, <1>3 DEF AdvanceInv, StatusStands, OneDecides

LEMMA StepAdvanceInv == AdvanceInv /\ [Next]_vars => AdvanceInv'
<1> SUFFICES ASSUME AdvanceInv, [Next]_vars PROVE AdvanceInv'
  OBVIOUS
<1>1. CASE UNCHANGED vars
  BY <1>1, Unmoved DEF vars
<1>2. ASSUME NEW r \in Requests, Receive(r) PROVE AdvanceInv'
  BY <1>2, ReceiveKeeps
<1>3. ASSUME NEW r \in Requests, Step(r) PROVE AdvanceInv'
  BY <1>3, StepKeeps
<1>4. ASSUME NEW r \in Requests, Fail(r) PROVE AdvanceInv'
  BY <1>4, AbandonKeeps DEF Fail
<1>5. CASE AtOnceRequest
  BY <1>5, AtOnceKeeps
<1> QED BY <1>1, <1>2, <1>3, <1>4, <1>5 DEF Next, Quiescent

\* Whatever overlaps or stops, what was repaid and what remains of an advance that
\* one person decides upon at a time make up what was granted: repayments need no
\* other protection than the lock of their own row.
THEOREM AdvancesAccounted == Spec => []AdvanceAccounted
<1>1. AdvanceInv => AdvanceAccounted
  BY DEF AdvanceInv, Accounted, AdvanceAccounted, Orderly
<1> QED BY <1>1, InitAdvanceInv, StepAdvanceInv, PTL DEF Spec

-----------------------------------------------------------------------------
(* The payroll: what the requests about a period know *)

\* The periods of which one person asks at a time, and whose paid records are let be.
Calm == Periods \ (Shared \cup Reviewed)

\* Request r is about document p.
About(r, p) == pc[r] # "idle" /\ Doc(r) = p

\* A request stands at a statement of its kind, and its rows are of its period.
Fits(r) ==
  /\ pc[r] \in {"look", "slip"} => job[r].kind = "process" /\ Doc(r) \in Periods
  /\ pc[r] = "approveSlips" => job[r].kind = "approvePeriod"
  /\ pc[r] = "payAll" => job[r].kind = "payAll"
  /\ pc[r] \in {"payOne", "count", "finish"} => job[r].kind = "payOne"
  /\ pc[r] # "idle" /\ job[r].kind = "payOne" => Row(r) \in RowsOf(Doc(r))
  /\ pc[r] # "idle" /\ job[r].kind = "payAll" => seen[r].rows \subseteq RowsOf(Doc(r))
  /\ pc[r] = "slip" => Row(r) \in RowsOf(Doc(r))

PayTyping ==
  /\ DOMAIN seen = Requests
  /\ \A r \in Requests : DOMAIN job[r] = {"kind", "doc", "safe", "row", "back", "more"}
  /\ slip \in [Rows -> {"none", "draft", "approved", "rejected", "paid"}]
  /\ paidOut \in [Rows -> Nat]
  /\ DOMAIN period = Periods
  /\ \A r \in Requests : Fits(r)

\* What a request about p has checked still holds.
Stage(r, p) ==
  /\ job[r].kind = "process" => period[p] = "draft"
  /\ job[r].kind = "approvePeriod" => /\ period[p] = "approved"
                                      /\ \A x \in RowsOf(p) : slip[x] # "paid"
  /\ job[r].kind = "payAll" => /\ period[p] = "approved"
                               /\ \A x \in seen[r].rows : slip[x] \notin {"none", "paid"}
  /\ job[r].kind = "payOne" => /\ period[p] \in {"approved", "paid"}
                               /\ slip[Row(r)] \notin {"none", "paid"}
  /\ pc[r] = "slip" => \A x \in Slips(p) : x[2] # Row(r)[2]

\* An employee has one record at most, it counts as paid when it was paid once, and
\* no record is paid before the period is approved.
Records(p) ==
  /\ period[p] \in {"draft", "processing"} => \A x \in RowsOf(p) : slip[x] # "paid"
  /\ \A x, y \in Slips(p) : x[2] = y[2] => x = y
  /\ \A x \in RowsOf(p) : paidOut[x] = IF slip[x] = "paid" THEN 1 ELSE 0

PeriodInv(p) ==
  /\ \A r, q \in Requests : About(r, p) /\ About(q, p) /\ r # q => Agree(job[r], job[q])
  /\ \A r \in Requests : About(r, p) => Stage(r, p)
  /\ Records(p)

PayrollInv == PayTyping /\ \A p \in Calm : PeriodInv(p)

\* Only two kinds of request share a document.
LEMMA AloneThen ==
  ASSUME PayrollInv, NEW p \in Calm, NEW r \in Requests, About(r, p),
         job[r].kind \notin {"payOne", "settle"}
  PROVE  \A q \in Requests \ {r} : ~ About(q, p)
BY DEF PayrollInv, PeriodInv, Agree

\* The requests other than r stay where they are.
OthersStay(r) ==
  \A q \in Requests \ {r} : pc'[q] = pc[q] /\ job'[q] = job[q] /\ seen'[q] = seen[q]

LEMMA OthersFit ==
  ASSUME PayrollInv, NEW r \in Requests, OthersStay(r)
  PROVE  \A q \in Requests \ {r} : /\ Fits(q)' /\ DOMAIN job'[q] = DOMAIN job[q]
                                   /\ \A p : About(q, p)' = About(q, p)
BY DEF PayrollInv, PayTyping, Fits, OthersStay, Doc, Row, About

\* A period that r is not about.
LEMMA OtherPeriod ==
  ASSUME PayrollInv, NEW p \in Calm, NEW r \in Requests, OthersStay(r),
         ~ About(r, p)', period'[p] = period[p],
         \A x \in RowsOf(p) : slip'[x] = slip[x] /\ paidOut'[x] = paidOut[x]
  PROVE  PeriodInv(p)'
<1> USE DEF OthersStay
<1>1. \A q \in Requests : About(q, p)' => q # r /\ About(q, p)
  BY DEF About, Doc
<1>2. Slips(p)' = Slips(p)
  BY DEF Slips, Exists
<1>3. ASSUME NEW q \in Requests \ {r}, About(q, p)
      PROVE  /\ Stage(q, p)
             /\ Row(q)' = Row(q)
             /\ job[q].kind = "payOne" => Row(q) \in RowsOf(p)
             /\ job[q].kind = "payAll" => seen[q].rows \subseteq RowsOf(p)
  BY <1>3 DEF PayrollInv, PayTyping, PeriodInv, Fits, About, Row
<1>4. ASSUME NEW q \in Requests \ {r}, About(q, p) PROVE Stage(q, p)'
  <2>1. /\ pc'[q] = pc[q] /\ job'[q] = job[q] /\ seen'[q] = seen[q]
        /\ Stage(q, p) /\ Row(q)' = Row(q)
    BY <1>3, <1>4
  <2>2. job[q].kind = "payAll" => \A x \in seen[q].rows : slip'[x] = slip[x]
    BY <1>3, <1>4
  <2>3. job[q].kind = "payOne" => slip'[Row(q)] = slip[Row(q)]
    BY <1>3, <1>4
  <2>4. job[q].kind = "approvePeriod" => \A x \in RowsOf(p) : slip'[x] # "paid"
    BY <2>1 DEF Stage
  <2> QED BY <1>2, <2>1, <2>2, <2>3, <2>4 DEF Stage
<1>5. \A t, q \in Requests : About(t, p)' /\ About(q, p)' /\ t # q => Agree(job[t], job[q])'
  BY <1>1 DEF PayrollInv, PeriodInv, Agree
<1>6. Records(p)'
  BY <1>2 DEF PayrollInv, PeriodInv, Records
<1> QED BY <1>1, <1>4, <1>5, <1>6 DEF PeriodInv

\* The records stand, and r ends or goes on to a next statement.
LEMMA RecordsStand ==
  ASSUME Typing, PayrollInv, UNCHANGED payrollVars, NEW r \in Requests, OthersStay(r),
         job'[r] = job[r], DOMAIN seen' = Requests,
         \/ pc'[r] = "idle"
         \/ pc[r] # "idle" /\ pc'[r] # "slip" /\ Fits(r)'
            /\ (job[r].kind = "payAll" => seen'[r] = seen[r])
  PROVE  PayrollInv'
<1>1. Fits(r)'
  BY DEF Fits
<1>2. PayTyping'
  BY <1>1, OthersFit DEF PayrollInv, PayTyping, payrollVars
<1>3. ASSUME NEW p \in Calm PROVE PeriodInv(p)'
  <2>1. CASE ~ About(r, p)'
    BY <2>1, OtherPeriod DEF payrollVars
  <2>2. CASE About(r, p)'
    <3>1. /\ About(r, p) /\ \A q \in Requests : About(q, p)' = About(q, p)
          /\ \A q \in Requests : job'[q] = job[q] /\ Row(q)' = Row(q)
          /\ \A q \in Requests : job[q].kind = "payAll" => seen'[q] = seen[q]
          /\ pc'[r] # "slip"
      BY <2>2, OthersFit DEF About, Doc, Row, OthersStay
    <3>2. \A x \in Rows : slip'[x] = slip[x] /\ paidOut'[x] = paidOut[x]
      BY DEF payrollVars
    <3>3. Slips(p)' = Slips(p) /\ period'[p] = period[p]
      BY DEF Slips, Exists, payrollVars
    <3>4. ASSUME NEW q \in Requests, About(q, p) PROVE Stage(q, p)'
      <4>1. Stage(q, p)
        BY <3>4 DEF PayrollInv, PeriodInv
      <4>2. pc'[q] = "slip" => pc[q] = "slip"
        BY <3>1 DEF OthersStay
      <4>3. slip' = slip
        BY DEF payrollVars
      <4> QED BY <3>1, <3>3, <4>1, <4>2, <4>3 DEF Stage
    <3>5. slip' = slip /\ paidOut' = paidOut
      BY DEF payrollVars
    <3> QED BY <3>1, <3>3, <3>4, <3>5 DEF PayrollInv, PeriodInv, Records, Agree
  <2> QED BY <2>1, <2>2
<1> QED BY <1>2, <1>3 DEF PayrollInv

\* A request is received whose checks have just been made.
LEMMA ReceivedPayroll ==
  ASSUME Typing, PayrollInv, NEW r \in Requests, NEW request, NEW first,
         Start(r, request, first),
         DOMAIN request = {"kind", "doc", "safe", "row", "back", "more"},
         DOMAIN seen' = Requests, \A q \in Requests \ {r} : seen'[q] = seen[q],
         UNCHANGED <<slip, paidOut>>,
         \/ UNCHANGED period
         \/ /\ request.kind = "approvePeriod"
            /\ period' = [period EXCEPT ![request.doc] = "approved"],
         Fits(r)', request.doc \in Calm => Stage(r, request.doc)'
  PROVE  PayrollInv'
<1>1. /\ job' = [job EXCEPT ![r] = request] /\ job'[r] = request
      /\ OthersStay(r)
      /\ \A q \in Requests : pc[q] # "idle" /\ Doc(q) = request.doc /\ Doc(q) \notin Shared
                             => Agree(request, job[q])
  BY DEF Start, Goto, Idle, OthersStay, Typing
<1>2. DOMAIN period' = Periods
  BY DEF PayrollInv, PayTyping
<1>3. PayTyping'
  BY <1>1, <1>2, OthersFit DEF PayrollInv, PayTyping
<1>4. Doc(r)' = request.doc
  BY <1>1 DEF Doc
<1>5. ASSUME NEW p \in Calm PROVE PeriodInv(p)'
  <2>1. CASE p # request.doc
    <3>1. ~ About(r, p)' /\ period'[p] = period[p]
      BY <1>4, <2>1 DEF About, PayrollInv, PayTyping, Calm
    <3> QED BY <1>1, <3>1, OtherPeriod
  <2>2. CASE p = request.doc
    <3>1. \A q \in Requests \ {r} : About(q, p) => Agree(request, job[q])
      BY <1>1, <2>2 DEF About, Calm
    <3>2. \A q \in Requests \ {r} : About(q, p)' = About(q, p) /\ job'[q] = job[q]
      BY <1>1, OthersFit DEF OthersStay
    <3>3. \A t, q \in Requests : About(t, p)' /\ About(q, p)' /\ t # q => Agree(job[t], job[q])'
      BY <1>1, <3>1, <3>2 DEF PayrollInv, PeriodInv, Agree
    <3>4. ASSUME NEW q \in Requests \ {r}, About(q, p)' PROVE Stage(q, p)'
      <4>1. Stage(q, p)
        BY <3>2, <3>4 DEF PayrollInv, PeriodInv
      <4>2. UNCHANGED period
        BY <3>1, <3>2, <3>4 DEF Agree
      <4> QED BY <1>1, <4>1, <4>2 DEF Stage, OthersStay, Slips, Exists, Row
    <3>5. Stage(r, p)'
      BY <2>2
    <3>6. Records(p)'
      <4>1. period'[p] \in {"draft", "processing"} => period'[p] = period[p]
        BY <2>2 DEF PayrollInv, PayTyping, Calm
      <4>2. Slips(p)' = Slips(p)
        BY DEF Slips, Exists
      <4> QED BY <4>1, <4>2 DEF PayrollInv, PeriodInv, Records
    <3> QED BY <3>3, <3>4, <3>5, <3>6 DEF PeriodInv
  <2> QED BY <2>1, <2>2
<1> QED BY <1>3, <1>5 DEF PayrollInv

LEMMA PayrollRequestKeeps ==
  ASSUME Typing, PayrollInv, NEW r \in Requests, Receive(r)
  PROVE  PayrollInv'
<1>0. DOMAIN seen = Requests
  BY DEF PayrollInv, PayTyping
<1>1. \A kind, d : /\ DOMAIN Ask(kind, d) = {"kind", "doc", "safe", "row", "back", "more"}
                   /\ Ask(kind, d).kind = kind /\ Ask(kind, d).doc = d
  BY DEF Ask
\* A request that is not about the payroll.
<1>2. ASSUME NEW request, NEW first, Send(r, request, first),
             DOMAIN request = {"kind", "doc", "safe", "row", "back", "more"},
             request.kind \in {"request", "approve", "reject", "settle", "delete"},
             first \in {"insert", "readSafe", "reject", "settle", "delete"}
      PROVE  PayrollInv'
  <2>1. pc'[r] = first /\ job'[r] = request
    BY <1>2 DEF Send, Start, Goto, Typing
  <2>2. Fits(r)'
    BY <1>2, <2>1 DEF Fits
  <2>3. request.doc \in Calm => Stage(r, request.doc)'
    BY <1>2, <2>1 DEF Stage
  <2> QED BY <1>0, <1>2, <2>2, <2>3, ReceivedPayroll DEF Send, payrollVars
<1>3. ASSUME NEW a \in Advances, AdvanceRequest(r, a) PROVE PayrollInv'
  <2>1. CASE ReceiveAdvance(r, a)
    BY <1>1, <1>2, <2>1 DEF ReceiveAdvance
  <2>2. CASE ReceiveRejection(r, a)
    BY <1>1, <1>2, <2>2 DEF ReceiveRejection
  <2>3. ASSUME NEW s \in Desks[a], ReceiveApproval(r, a, s) PROVE PayrollInv'
    <3> DEFINE request == [Ask("approve", a) EXCEPT !.safe = s]
    <3>1. /\ DOMAIN request = {"kind", "doc", "safe", "row", "back", "more"}
          /\ request.kind = "approve"
      BY DEF Ask
    <3>2. Send(r, request, "readSafe")
      BY <2>3 DEF ReceiveApproval
    <3> HIDE DEF request
    <3> QED BY <1>2, <3>1, <3>2
  <2> QED BY <1>3, <2>1, <2>2, <2>3 DEF AdvanceRequest
<1>4. ASSUME NEW c \in Custodies, CustodyRequest(r, c) PROVE PayrollInv'
  <2>1. CASE ReceiveDeletion(r, c)
    BY <1>1, <1>2, <2>1 DEF ReceiveDeletion
  <2>2. ASSUME NEW back \in 0..Worth[c], NEW more \in 0..Excess, ReceiveSettlement(r, c, back, more)
        PROVE  PayrollInv'
    <3> DEFINE request == [Ask("settle", c) EXCEPT !.back = back, !.more = more]
    <3>1. /\ DOMAIN request = {"kind", "doc", "safe", "row", "back", "more"}
          /\ request.kind = "settle"
      BY DEF Ask
    <3>2. Send(r, request, "settle")
      BY <2>2 DEF ReceiveSettlement
    <3> HIDE DEF request
    <3> QED BY <1>2, <3>1, <3>2
  <2> QED BY <1>4, <2>1, <2>2 DEF CustodyRequest
<1>5. ASSUME NEW p \in Periods, PayrollRequest(r, p) PROVE PayrollInv'
  <2>0. ASSUME NEW request, NEW first, Start(r, request, first)
        PROVE  pc'[r] = first /\ job'[r] = request /\ Doc(r)' = request.doc
    BY <2>0 DEF Start, Goto, Typing, Doc
  <2>1. CASE ReceiveProcess(r, p)
    <3>1. /\ Start(r, Ask("process", p), "look") /\ UNCHANGED <<period, slip, paidOut>>
          /\ DOMAIN seen' = Requests /\ \A q \in Requests \ {r} : seen'[q] = seen[q]
          /\ period[p] = "draft"
      BY <1>0, <2>1 DEF ReceiveProcess, payrollVars
    <3>2. Fits(r)'
      BY <1>1, <2>0, <3>1 DEF Fits, Doc
    <3>3. Stage(r, p)'
      BY <1>1, <2>0, <3>1 DEF Stage
    <3> QED BY <1>1, <3>1, <3>2, <3>3, ReceivedPayroll
  <2>2. CASE ApprovePeriod(r, p)
    <3>1. /\ Start(r, Ask("approvePeriod", p), "approveSlips") /\ UNCHANGED <<slip, paidOut, seen>>
          /\ period' = [period EXCEPT ![p] = "approved"] /\ period[p] = "processing"
      BY <2>2 DEF ApprovePeriod
    <3>2. Fits(r)'
      BY <1>1, <2>0, <3>1 DEF Fits
    <3>3. ASSUME p \in Calm PROVE Stage(r, p)'
      <4>1. period'[p] = "approved"
        BY <3>1 DEF PayrollInv, PayTyping
      <4>2. \A x \in RowsOf(p) : slip'[x] # "paid"
        BY <3>1, <3>3 DEF PayrollInv, PeriodInv, Records
      <4>3. job'[r].kind = "approvePeriod" /\ pc'[r] = "approveSlips"
        BY <1>1, <2>0, <3>1
      <4> QED BY <4>1, <4>2, <4>3 DEF Stage
    <3> DEFINE request == Ask("approvePeriod", p)
    <3>4. /\ DOMAIN request = {"kind", "doc", "safe", "row", "back", "more"}
          /\ request.kind = "approvePeriod" /\ request.doc = p
          /\ Start(r, request, "approveSlips")
      BY <1>1, <3>1
    <3>5. DOMAIN seen' = Requests /\ \A q \in Requests \ {r} : seen'[q] = seen[q]
      BY <1>0, <3>1
    <3> HIDE DEF request
    <3> QED BY <3>1, <3>2, <3>3, <3>4, <3>5, ReceivedPayroll
  <2>3. ASSUME NEW s \in Desks[p], ReceivePayPeriod(r, p, s) PROVE PayrollInv'
    <3> DEFINE request == [Ask("payAll", p) EXCEPT !.safe = s]
               unpaid == {x \in Slips(p) : slip[x] # "paid"}
    <3>1. /\ DOMAIN request = {"kind", "doc", "safe", "row", "back", "more"}
          /\ request.kind = "payAll" /\ request.doc = p
      BY DEF Ask
    <3>2. /\ Start(r, request, "readSafe") /\ UNCHANGED <<period, slip, paidOut>>
          /\ seen' = [seen EXCEPT ![r] = [Nothing EXCEPT !.rows = unpaid]]
          /\ period[p] = "approved"
      BY <2>3 DEF ReceivePayPeriod, payrollVars
    <3>3. /\ DOMAIN seen' = Requests /\ \A q \in Requests \ {r} : seen'[q] = seen[q]
          /\ seen'[r].rows = unpaid
      BY <1>0, <3>2 DEF Nothing
    <3>4. unpaid \subseteq RowsOf(p) /\ \A x \in unpaid : slip[x] \notin {"none", "paid"}
      BY DEF Slips, Exists
    <3> HIDE DEF request, unpaid
    <3>5. Fits(r)'
      BY <2>0, <3>1, <3>2, <3>3, <3>4 DEF Fits
    <3>6. Stage(r, p)'
      BY <2>0, <3>1, <3>2, <3>3, <3>4 DEF Stage
    <3> QED BY <3>1, <3>2, <3>3, <3>5, <3>6, ReceivedPayroll
  <2>4. ASSUME NEW s \in Desks[p], NEW x \in RowsOf(p), ReceivePayment(r, x, s) PROVE PayrollInv'
    <3> DEFINE request == [Ask("payOne", x[1]) EXCEPT !.safe = s, !.row = x]
    <3>0. x[1] = p
      BY DEF RowsOf
    <3>1. /\ DOMAIN request = {"kind", "doc", "safe", "row", "back", "more"}
          /\ request.kind = "payOne" /\ request.doc = p /\ request.row = x
      BY <3>0 DEF Ask
    <3>2. /\ Start(r, request, "readSafe") /\ UNCHANGED <<period, slip, paidOut, seen>>
          /\ period[p] = "approved" /\ slip[x] \notin {"none", "paid"}
      BY <2>4, <3>0 DEF ReceivePayment, Send, payrollVars, Exists
    <3> HIDE DEF request
    <3>3. Fits(r)'
      BY <2>0, <3>1, <3>2 DEF Fits, Row
    <3>4. Stage(r, p)'
      BY <2>0, <3>1, <3>2 DEF Stage, Row
    <3> QED BY <1>0, <3>1, <3>2, <3>3, <3>4, ReceivedPayroll
  <2> QED BY <1>5, <2>1, <2>2, <2>3, <2>4 DEF PayrollRequest
<1> QED BY <1>3, <1>4, <1>5 DEF Receive

\* A step of the request that is alone with its period.
LEMMA StepAlone ==
  ASSUME Typing, Typing', PayrollInv, NEW r \in Requests, pc[r] # "idle", OthersStay(r),
         job[r].kind \notin {"payOne", "settle"}, job'[r].kind = job[r].kind, Doc(r)' = Doc(r),
         DOMAIN job'[r] = {"kind", "doc", "safe", "row", "back", "more"},
         DOMAIN seen' = Requests, DOMAIN period' = Periods, Fits(r)',
         slip' \in [Rows -> {"none", "draft", "approved", "rejected", "paid"}],
         paidOut' \in [Rows -> Nat],
         \A p \in Calm \ {Doc(r)} :
           /\ period'[p] = period[p]
           /\ \A x \in RowsOf(p) : slip'[x] = slip[x] /\ paidOut'[x] = paidOut[x],
         Doc(r) \in Calm => /\ Records(Doc(r))'
                            /\ pc'[r] # "idle" => Stage(r, Doc(r))'
  PROVE  PayrollInv'
<1>1. PayTyping'
  BY OthersFit DEF PayrollInv, PayTyping, OthersStay
<1>2. ASSUME NEW p \in Calm PROVE PeriodInv(p)'
  <2>1. CASE p # Doc(r)
    <3>1. ~ About(r, p)'
      BY <2>1 DEF About
    <3> QED BY <2>1, <3>1, OtherPeriod
  <2>2. CASE p = Doc(r)
    <3>1. About(r, p)
      BY <2>2 DEF About
    <3>2. \A q \in Requests \ {r} : ~ About(q, p)'
      BY <3>1, AloneThen, OthersFit
    <3>3. Records(p)' /\ (About(r, p)' => Stage(r, p)')
      BY <2>2 DEF About
    <3> QED BY <3>2, <3>3 DEF PeriodInv
  <2> QED BY <2>1, <2>2
<1> QED BY <1>1, <1>2 DEF PayrollInv

LEMMA PayrollAbandon ==
  ASSUME Typing, PayrollInv, NEW r \in Requests, Abandon(r)
  PROVE  PayrollInv'
<1>1. /\ pc' = [pc EXCEPT ![r] = "idle"] /\ job' = job /\ UNCHANGED payrollVars
      /\ seen' = [seen EXCEPT ![r] = Nothing]
  BY DEF Abandon, Goto
<1>2. OthersStay(r) /\ pc'[r] = "idle" /\ DOMAIN seen' = Requests
  BY <1>1 DEF OthersStay, Typing, PayrollInv, PayTyping
<1> QED BY <1>1, <1>2, RecordsStand

\* The same of an answer that changes no record.
LEMMA PayrollAnswer ==
  ASSUME Typing, PayrollInv, NEW r \in Requests, Answer(r), UNCHANGED payrollVars
  PROVE  PayrollInv'
<1>1. /\ pc' = [pc EXCEPT ![r] = "idle"] /\ job' = job
      /\ seen' = [seen EXCEPT ![r] = Nothing]
  BY DEF Answer, Goto
<1>2. OthersStay(r) /\ pc'[r] = "idle" /\ DOMAIN seen' = Requests
  BY <1>1 DEF OthersStay, Typing, PayrollInv, PayTyping
<1> QED BY <1>1, <1>2, RecordsStand

\* A request that goes on with what it knows.
LEMMA PayrollGoesOn ==
  ASSUME Typing, PayrollInv, NEW r \in Requests, NEW next,
         pc' = [pc EXCEPT ![r] = next], job' = job, UNCHANGED payrollVars,
         DOMAIN seen' = Requests, \A q \in Requests \ {r} : seen'[q] = seen[q],
         job[r].kind = "payAll" => seen'[r] = seen[r],
         \/ pc[r] = "readSafe" /\ next = job[r].kind
         \/ pc[r] \in {"payOne", "count"} /\ next \in {"count", "finish"}
         \/ pc[r] = "look" /\ next = "look"
  PROVE  PayrollInv'
<1>1. OthersStay(r) /\ pc'[r] = next
  BY DEF OthersStay, Typing
<1>2. Fits(r) /\ pc[r] # "idle" /\ next # "slip"
      /\ (pc[r] = "readSafe" => next \in {"approve", "payAll", "payOne"})
  BY DEF PayrollInv, PayTyping, Typing
<1>3. Fits(r)'
  BY <1>1, <1>2 DEF Fits, Doc, Row
<1> QED BY <1>1, <1>2, <1>3, RecordsStand

\* A record is inserted for an employee who has none.
LEMMA LookKeeps ==
  ASSUME Typing, Typing', PayrollInv, NEW r \in Requests, NEW e \in Staff, Look(r, e)
  PROVE  PayrollInv'
<1>0. /\ DOMAIN seen = Requests /\ Fits(r) /\ pc[r] = "look"
      /\ job[r].kind = "process" /\ Doc(r) \in Periods
      /\ DOMAIN job[r] = {"kind", "doc", "safe", "row", "back", "more"}
  BY DEF PayrollInv, PayTyping, Look, Fits
<1>1. UNCHANGED payrollVars /\ DOMAIN seen' = Requests
      /\ \A q \in Requests \ {r} : seen'[q] = seen[q]
  BY <1>0 DEF Look
<1>2. CASE \E x \in Slips(Doc(r)) : x[2] = e
  <2>1. job' = job /\ pc' = [pc EXCEPT ![r] = "look"]
    BY <1>0, <1>2 DEF Look, Typing
  <2> QED BY <1>0, <1>1, <2>1, PayrollGoesOn
<1>3. CASE ~ \E x \in Slips(Doc(r)) : x[2] = e
  <2> DEFINE row == <<Doc(r), e, r>>
  <2>1. pc' = [pc EXCEPT ![r] = "slip"] /\ job' = [job EXCEPT ![r].row = row]
    BY <1>3 DEF Look, Goto
  <2>2. /\ DOMAIN job'[r] = {"kind", "doc", "safe", "row", "back", "more"}
        /\ job'[r].kind = job[r].kind /\ job'[r].doc = job[r].doc /\ job'[r].row = row
    BY <1>0, <2>1 DEF Typing
  <2>3. OthersStay(r) /\ pc'[r] = "slip"
    BY <1>1, <2>1 DEF OthersStay, Typing
  <2>4. row \in RowsOf(Doc(r)) /\ row[2] = e
    BY <1>0 DEF RowsOf, Rows
  <2>5. Fits(r)'
    BY <1>0, <2>2, <2>3, <2>4 DEF Fits, Doc, Row
  <2>6. Doc(r) \in Calm => Records(Doc(r))' /\ Stage(r, Doc(r))'
    <3> SUFFICES ASSUME Doc(r) \in Calm PROVE Records(Doc(r))' /\ Stage(r, Doc(r))'
      OBVIOUS
    <3>1. Records(Doc(r)) /\ Stage(r, Doc(r)) /\ period' = period /\ slip' = slip
          /\ paidOut' = paidOut /\ Doc(r)' = Doc(r) /\ Slips(Doc(r))' = Slips(Doc(r))
      BY <1>0, <1>1, <2>2 DEF PayrollInv, PeriodInv, About, payrollVars, Doc, Slips, Exists
    <3>2. Records(Doc(r))'
      BY <3>1 DEF Records
    <3>3. \A x \in Slips(Doc(r)) : x[2] # row[2]
      BY <1>3, <2>4
    <3>4. Stage(r, Doc(r))'
      BY <1>0, <2>2, <3>1, <3>3 DEF Stage, Row
    <3> QED BY <3>2, <3>4
  <2> QED BY <1>0, <1>1, <2>2, <2>3, <2>5, <2>6, StepAlone DEF Doc, payrollVars, PayrollInv, PayTyping
<1> QED BY <1>2, <1>3

\* What a step of a request alone with its period has in common.
LEMMA AnswersAlone ==
  ASSUME Typing, Typing', PayrollInv, NEW r \in Requests, pc[r] # "idle", Answer(r),
         job[r].kind \notin {"payOne", "settle"}, DOMAIN period' = Periods,
         slip' \in [Rows -> {"none", "draft", "approved", "rejected", "paid"}],
         paidOut' \in [Rows -> Nat],
         \A p \in Calm \ {Doc(r)} :
           /\ period'[p] = period[p]
           /\ \A x \in RowsOf(p) : slip'[x] = slip[x] /\ paidOut'[x] = paidOut[x],
         Doc(r) \in Calm => Records(Doc(r))'
  PROVE  PayrollInv'
<1>1. /\ pc' = [pc EXCEPT ![r] = "idle"] /\ job' = job
      /\ seen' = [seen EXCEPT ![r] = Nothing]
  BY DEF Answer, Goto
<1>2. OthersStay(r) /\ pc'[r] = "idle" /\ DOMAIN seen' = Requests
  BY <1>1 DEF OthersStay, Typing, PayrollInv, PayTyping
<1>3. Fits(r)' /\ Doc(r)' = Doc(r)
  BY <1>1, <1>2 DEF Fits, Doc
<1>4. DOMAIN job'[r] = {"kind", "doc", "safe", "row", "back", "more"}
  BY <1>1 DEF PayrollInv, PayTyping
<1> QED BY <1>1, <1>2, <1>3, <1>4, StepAlone

\* The rows of different periods are different.
LEMMA RowsApart == \A p, d : \A x \in RowsOf(d) : x \in Rows /\ (p # d => x \notin RowsOf(p))
BY DEF RowsOf

LEMMA InsertSlipKeeps ==
  ASSUME Typing, Typing', PayrollInv, NEW r \in Requests, InsertSlip(r)
  PROVE  PayrollInv'
<1>0. /\ DOMAIN seen = Requests /\ Fits(r) /\ pc[r] = "slip" /\ job[r].kind = "process"
      /\ Row(r) \in RowsOf(Doc(r)) /\ Doc(r) \in Periods
      /\ DOMAIN job[r] = {"kind", "doc", "safe", "row", "back", "more"}
      /\ slip \in [Rows -> {"none", "draft", "approved", "rejected", "paid"}]
  BY DEF PayrollInv, PayTyping, InsertSlip, Fits
<1>1. /\ slip' = [slip EXCEPT ![Row(r)] = "draft"] /\ UNCHANGED <<period, paidOut, job, seen>>
      /\ pc' = [pc EXCEPT ![r] = "look"]
  BY DEF InsertSlip, Goto
<1>2. OthersStay(r) /\ pc'[r] = "look" /\ Fits(r)' /\ Doc(r)' = Doc(r)
  BY <1>0, <1>1 DEF OthersStay, Typing, Fits, Doc
<1>3. \A x \in Rows : slip'[x] = IF x = Row(r) THEN "draft" ELSE slip[x]
  BY <1>0, <1>1
<1>4. \A p \in Calm \ {Doc(r)} : \A x \in RowsOf(p) : slip'[x] = slip[x]
  BY <1>0, <1>3, RowsApart
<1>5. ASSUME Doc(r) \in Calm PROVE Records(Doc(r))' /\ Stage(r, Doc(r))'
  <2>1. PeriodInv(Doc(r)) /\ Stage(r, Doc(r))
    BY <1>0, <1>5 DEF PayrollInv, PeriodInv, About
  <2>2. slip[Row(r)] = "none" /\ period[Doc(r)] = "draft"
        /\ \A x \in Slips(Doc(r)) : x[2] # Row(r)[2]
    BY <1>0, <2>1, RowsApart DEF Stage, Slips, Exists
  <2>3. Slips(Doc(r))' = Slips(Doc(r)) \cup {Row(r)}
    BY <1>0, <1>2, <1>3, RowsApart DEF Slips, Exists
  <2>4. \A x, y \in Slips(Doc(r))' : x[2] = y[2] => x = y
    BY <2>1, <2>2, <2>3 DEF PeriodInv, Records
  <2>5. \A x \in RowsOf(Doc(r)) : /\ slip'[x] # "paid"
                                  /\ paidOut'[x] = IF slip'[x] = "paid" THEN 1 ELSE 0
    BY <1>1, <1>3, <2>1, <2>2, RowsApart DEF PeriodInv, Records
  <2>6. Records(Doc(r))'
    BY <1>2, <2>4, <2>5 DEF Records
  <2>7. Stage(r, Doc(r))'
    BY <1>0, <1>1, <1>2, <2>2 DEF Stage
  <2> QED BY <2>6, <2>7
<1>6. Doc(r) \in Calm => Records(Doc(r))' /\ Stage(r, Doc(r))'
  BY <1>5
<1>7. /\ DOMAIN period' = Periods /\ paidOut' \in [Rows -> Nat]
      /\ slip' \in [Rows -> {"none", "draft", "approved", "rejected", "paid"}]
  BY <1>0, <1>1 DEF PayrollInv, PayTyping
<1> QED BY <1>0, <1>1, <1>2, <1>4, <1>6, <1>7, StepAlone

LEMMA ProcessedKeeps ==
  ASSUME Typing, Typing', PayrollInv, NEW r \in Requests, Processed(r)
  PROVE  PayrollInv'
<1>0. /\ pc[r] = "look" /\ job[r].kind = "process" /\ DOMAIN period = Periods
      /\ slip \in [Rows -> {"none", "draft", "approved", "rejected", "paid"}]
      /\ paidOut \in [Rows -> Nat]
  BY DEF PayrollInv, PayTyping, Processed, Fits
<1>1. /\ period' = [period EXCEPT ![Doc(r)] = "processing"] /\ UNCHANGED <<slip, paidOut>>
      /\ Answer(r)
  BY DEF Processed
<1>2. ASSUME Doc(r) \in Calm PROVE Records(Doc(r))'
  <2>1. PeriodInv(Doc(r)) /\ Stage(r, Doc(r))
    BY <1>0, <1>2 DEF PayrollInv, PeriodInv, About
  <2>2. period[Doc(r)] = "draft"
    BY <1>0, <2>1 DEF Stage
  <2>3. Slips(Doc(r))' = Slips(Doc(r)) /\ Doc(r)' = Doc(r)
    BY <1>1 DEF Slips, Exists, Answer, Doc
  <2> QED BY <1>1, <2>1, <2>2, <2>3 DEF PeriodInv, Records
<1>3. Doc(r) \in Calm => Records(Doc(r))'
  BY <1>2
<1> QED BY <1>0, <1>1, <1>3, AnswersAlone

LEMMA ApproveSlipsKeeps ==
  ASSUME Typing, Typing', PayrollInv, NEW r \in Requests, ApproveSlips(r)
  PROVE  PayrollInv'
<1>0. /\ pc[r] = "approveSlips" /\ job[r].kind = "approvePeriod" /\ DOMAIN period = Periods
      /\ slip \in [Rows -> {"none", "draft", "approved", "rejected", "paid"}]
      /\ paidOut \in [Rows -> Nat]
  BY DEF PayrollInv, PayTyping, ApproveSlips, Fits
<1>1. /\ slip' = [x \in Rows |-> IF x \in Slips(Doc(r)) THEN "approved" ELSE slip[x]]
      /\ UNCHANGED <<period, paidOut>> /\ Answer(r)
  BY DEF ApproveSlips
<1>2. \A p \in Calm \ {Doc(r)} : \A x \in RowsOf(p) : slip'[x] = slip[x]
  BY <1>1, RowsApart DEF Slips
<1>3. ASSUME Doc(r) \in Calm PROVE Records(Doc(r))'
  <2>1. PeriodInv(Doc(r)) /\ Stage(r, Doc(r))
    BY <1>0, <1>3 DEF PayrollInv, PeriodInv, About
  <2>2. period[Doc(r)] = "approved" /\ \A x \in RowsOf(Doc(r)) : slip[x] # "paid"
    BY <1>0, <2>1 DEF Stage
  <2>3. \A x \in RowsOf(Doc(r)) : /\ slip'[x] # "paid"
                                  /\ (slip'[x] = "none") = (slip[x] = "none")
    BY <1>1, <2>2, RowsApart DEF Slips, Exists
  <2>4. Slips(Doc(r))' = Slips(Doc(r)) /\ Doc(r)' = Doc(r)
    BY <1>1, <2>3 DEF Slips, Exists, Answer, Doc
  <2> QED BY <1>1, <2>1, <2>2, <2>3, <2>4 DEF PeriodInv, Records
<1>4. Doc(r) \in Calm => Records(Doc(r))'
  BY <1>3
<1>5. slip' \in [Rows -> {"none", "draft", "approved", "rejected", "paid"}]
  BY <1>0, <1>1
<1> QED BY <1>0, <1>1, <1>2, <1>4, <1>5, AnswersAlone

LEMMA PayPeriodKeeps ==
  ASSUME Typing, Typing', PayrollInv, NEW r \in Requests, PayPeriod(r)
  PROVE  PayrollInv'
<1>0. /\ pc[r] = "payAll" /\ job[r].kind = "payAll" /\ DOMAIN period = Periods
      /\ seen[r].rows \subseteq RowsOf(Doc(r))
      /\ slip \in [Rows -> {"none", "draft", "approved", "rejected", "paid"}]
      /\ paidOut \in [Rows -> Nat]
  BY DEF PayrollInv, PayTyping, PayPeriod, Fits
<1> DEFINE rows == seen[r].rows
<1>1. /\ slip' = [x \in Rows |-> IF x \in rows THEN "paid" ELSE slip[x]]
      /\ paidOut' = [x \in Rows |-> IF x \in rows THEN paidOut[x] + 1 ELSE paidOut[x]]
      /\ period' = [period EXCEPT ![Doc(r)] = "paid"] /\ Answer(r)
  BY DEF PayPeriod
<1>2. rows \subseteq RowsOf(Doc(r))
  BY <1>0
<1> HIDE DEF rows
<1>3. \A p \in Calm \ {Doc(r)} :
        \A x \in RowsOf(p) : slip'[x] = slip[x] /\ paidOut'[x] = paidOut[x]
  BY <1>1, <1>2, RowsApart
<1>4. ASSUME Doc(r) \in Calm PROVE Records(Doc(r))'
  <2>1. PeriodInv(Doc(r)) /\ Stage(r, Doc(r))
    BY <1>0, <1>4 DEF PayrollInv, PeriodInv, About
  <2>2. \A x \in rows : slip[x] \notin {"none", "paid"}
    BY <1>0, <2>1 DEF Stage, rows
  <2>3. \A x \in RowsOf(Doc(r)) : (slip'[x] = "none") = (slip[x] = "none")
    BY <1>1, <2>2, RowsApart
  <2>4. \A x \in RowsOf(Doc(r)) : paidOut'[x] = IF slip'[x] = "paid" THEN 1 ELSE 0
    BY <1>1, <2>1, <2>2, RowsApart DEF PeriodInv, Records
  <2>5. Slips(Doc(r))' = Slips(Doc(r)) /\ Doc(r)' = Doc(r)
    BY <1>1, <2>3 DEF Slips, Exists, Answer, Doc
  <2>6. period'[Doc(r)] = "paid"
    BY <1>0, <1>1, <1>4 DEF Calm
  <2> QED BY <2>1, <2>4, <2>5, <2>6 DEF PeriodInv, Records
<1>5. Doc(r) \in Calm => Records(Doc(r))'
  BY <1>4
<1>6. /\ slip' \in [Rows -> {"none", "draft", "approved", "rejected", "paid"}]
      /\ paidOut' \in [Rows -> Nat]
  BY <1>0, <1>1
<1>7. \A p \in Calm \ {Doc(r)} : period'[p] = period[p]
  BY <1>0, <1>1 DEF Calm
<1> QED BY <1>0, <1>1, <1>3, <1>5, <1>6, <1>7, AnswersAlone

\* The payment of one record, while others of the period may be paid.
LEMMA CommitPaymentKeeps ==
  ASSUME Typing, Typing', PayrollInv, NEW r \in Requests, CommitPayment(r)
  PROVE  PayrollInv'
<1>0. /\ pc[r] = "finish" /\ job[r].kind = "payOne" /\ DOMAIN period = Periods
      /\ Row(r) \in RowsOf(Doc(r))
      /\ slip \in [Rows -> {"none", "draft", "approved", "rejected", "paid"}]
      /\ paidOut \in [Rows -> Nat]
  BY DEF PayrollInv, PayTyping, CommitPayment, Fits
<1>1. /\ slip' = [slip EXCEPT ![Row(r)] = "paid"]
      /\ paidOut' = [paidOut EXCEPT ![Row(r)] = @ + 1]
      /\ period' = [period EXCEPT ![Doc(r)] = IF seen[r].last THEN "paid" ELSE @]
      /\ pc' = [pc EXCEPT ![r] = "idle"] /\ job' = job /\ seen' = [seen EXCEPT ![r] = Nothing]
  BY DEF CommitPayment, Answer, Goto
<1>2. OthersStay(r) /\ pc'[r] = "idle" /\ DOMAIN seen' = Requests
  BY <1>1 DEF OthersStay, Typing, PayrollInv, PayTyping
<1>3. Fits(r)'
  BY <1>2 DEF Fits
<1>4. \A x \in Rows : /\ slip'[x] = IF x = Row(r) THEN "paid" ELSE slip[x]
                      /\ paidOut'[x] = IF x = Row(r) THEN paidOut[x] + 1 ELSE paidOut[x]
  BY <1>0, <1>1
<1>5. PayTyping'
  <2>1. slip' \in [Rows -> {"none", "draft", "approved", "rejected", "paid"}]
    BY <1>0, <1>1
  <2>2. paidOut' \in [Rows -> Nat]
    <3>1. paidOut[Row(r)] + 1 \in Nat
      BY <1>0, RowsApart
    <3> DEFINE more == paidOut[Row(r)] + 1
    <3>2. paidOut' = [paidOut EXCEPT ![Row(r)] = more]
      BY <1>1
    <3> HIDE DEF more
    <3>3. more \in Nat
      BY <3>1 DEF more
    <3> QED BY <1>0, <3>2, <3>3
  <2>3. DOMAIN period' = Periods
    BY <1>0, <1>1
  <2> QED BY <1>1, <1>2, <1>3, <2>1, <2>2, <2>3, OthersFit DEF PayrollInv, PayTyping
<1>6. ASSUME NEW p \in Calm PROVE PeriodInv(p)'
  <2>1. CASE p # Doc(r)
    <3>1. ~ About(r, p)' /\ period'[p] = period[p]
      BY <1>0, <1>1, <1>2, <2>1 DEF About, Calm
    <3>2. \A x \in RowsOf(p) : slip'[x] = slip[x] /\ paidOut'[x] = paidOut[x]
      BY <1>0, <1>4, <2>1, RowsApart
    <3> QED BY <1>2, <3>1, <3>2, OtherPeriod
  <2>2. CASE p = Doc(r)
    <3>1. About(r, p) /\ PeriodInv(p) /\ Stage(r, p)
      BY <1>0, <2>2 DEF About, PayrollInv, PeriodInv
    <3>2. /\ period[p] \in {"approved", "paid"} /\ slip[Row(r)] \notin {"none", "paid"}
          /\ period'[p] \in {"approved", "paid"}
      BY <1>0, <1>1, <2>2, <3>1 DEF Stage, Calm
    <3>3. \A q \in Requests : About(q, p)' => q # r /\ About(q, p)
      BY <1>2 DEF About, OthersStay, Doc
    <3>4. ASSUME NEW q \in Requests \ {r}, About(q, p) PROVE Stage(q, p)'
      <4>1. job[q].kind = "payOne" /\ Row(q) # Row(r)
        BY <1>0, <3>1, <3>4 DEF PeriodInv, Agree, Row
      <4>2. /\ Stage(q, p) /\ Row(q) \in RowsOf(p) /\ pc[q] # "slip"
        BY <3>1, <3>4, <4>1 DEF PeriodInv, PayrollInv, PayTyping, Fits, About
      <4>3. pc'[q] = pc[q] /\ job'[q] = job[q] /\ Row(q)' = Row(q)
        BY <1>2, <3>4 DEF OthersStay, Row
      <4>4. slip'[Row(q)] = slip[Row(q)]
        BY <1>4, <4>1, <4>2, RowsApart
      <4> QED BY <3>2, <4>1, <4>2, <4>3, <4>4 DEF Stage
    <3>5. Slips(p)' = Slips(p)
      BY <1>4, <3>2, RowsApart DEF Slips, Exists
    <3>6. \A x \in RowsOf(p) : paidOut'[x] = IF slip'[x] = "paid" THEN 1 ELSE 0
      BY <1>0, <1>4, <3>1, <3>2, RowsApart DEF PeriodInv, Records
    <3>7. Records(p)'
      BY <3>1, <3>2, <3>5, <3>6 DEF PeriodInv, Records
    <3>8. \A t, q \in Requests : About(t, p)' /\ About(q, p)' /\ t # q => Agree(job[t], job[q])'
      BY <1>1, <3>1, <3>3 DEF PeriodInv, Agree
    <3> QED BY <3>3, <3>4, <3>7, <3>8 DEF PeriodInv
  <2> QED BY <2>1, <2>2
<1> QED BY <1>5, <1>6 DEF PayrollInv

LEMMA PayrollStepKeeps ==
  ASSUME Typing, Typing', PayrollInv, NEW r \in Requests, Step(r)
  PROVE  PayrollInv'
<1>0. DOMAIN seen = Requests
  BY DEF PayrollInv, PayTyping
<1>1. CASE ReadSafe(r)
  BY <1>0, <1>1, PayrollAbandon, PayrollGoesOn DEF ReadSafe, Goto
<1>2. CASE InsertAdvance(r)
  BY <1>2, PayrollAnswer DEF InsertAdvance
<1>3. CASE GrantAdvance(r)
  BY <1>3, PayrollAnswer DEF GrantAdvance
<1>4. CASE RejectAdvance(r)
  BY <1>4, PayrollAnswer DEF RejectAdvance
<1>5. CASE Settle(r)
  BY <1>5, PayrollAbandon, PayrollAnswer DEF Settle
<1>6. CASE DeleteCustody(r)
  BY <1>6, PayrollAnswer DEF DeleteCustody
<1>7. CASE \E e \in Staff : Look(r, e)
  BY <1>7, LookKeeps
<1>8. CASE InsertSlip(r)
  BY <1>8, InsertSlipKeeps
<1>9. CASE Processed(r)
  BY <1>9, ProcessedKeeps
<1>10. CASE ApproveSlips(r)
  BY <1>10, ApproveSlipsKeeps
<1>11. CASE PayPeriod(r)
  BY <1>11, PayPeriodKeeps
<1>12. CASE DebitSalary(r)
  BY <1>0, <1>12, PayrollGoesOn DEF DebitSalary, Goto, payrollVars
<1>13. CASE CountUnpaid(r)
  <2>1. /\ job[r].kind = "payOne" /\ DOMAIN seen' = Requests
        /\ \A q \in Requests \ {r} : seen'[q] = seen[q]
    BY <1>0, <1>13 DEF CountUnpaid, PayrollInv, PayTyping, Fits
  <2> QED BY <1>13, <2>1, PayrollGoesOn DEF CountUnpaid, Goto
<1>14. CASE CommitPayment(r)
  BY <1>14, CommitPaymentKeeps
<1> QED BY <1>1, <1>2, <1>3, <1>4, <1>5, <1>6, <1>7, <1>8, <1>9, <1>10, <1>11, <1>12,
           <1>13, <1>14 DEF Step

\* Nothing of the requests or the payroll changes.
LEMMA PayrollUnmoved ==
  ASSUME PayrollInv, UNCHANGED <<payrollVars, job, pc, seen>>
  PROVE  PayrollInv'
BY DEF PayrollInv, payrollVars, PayTyping, Fits, PeriodInv, Records, Stage, About, Slips, Exists,
       Doc, Row, Agree

LEMMA ReviewKeeps ==
  ASSUME PayrollInv, NEW x \in Rows, NEW verdict \in {"approved", "rejected"}, ReviewSlip(x, verdict)
  PROVE  PayrollInv'
<1>0. /\ slip \in [Rows -> {"none", "draft", "approved", "rejected", "paid"}]
      /\ x[1] \in Periods
  BY DEF PayrollInv, PayTyping, Rows
<1>1. /\ slip' = [slip EXCEPT ![x] = verdict] /\ UNCHANGED <<period, paidOut, job, pc, seen>>
      /\ slip[x] # "none" /\ (slip[x] # "paid" \/ x[1] \in Reviewed)
      /\ x[1] \in Shared \/ \A q \in Requests : ~ About(q, x[1])
  BY DEF ReviewSlip, Exists, AtOnce, Alone, Idle, About
<1>2. PayTyping'
  <2>1. slip' \in [Rows -> {"none", "draft", "approved", "rejected", "paid"}]
    BY <1>0, <1>1
  <2> QED BY <1>1, <2>1 DEF PayrollInv, PayTyping, Fits, Doc, Row
<1>3. ASSUME NEW p \in Calm PROVE PeriodInv(p)'
  <2>1. /\ PeriodInv(p)
        /\ \A q \in Requests : About(q, p)' = About(q, p)
    BY <1>1 DEF PayrollInv, About, Doc
  <2>2. \A y \in Rows : slip'[y] = IF y = x THEN verdict ELSE slip[y]
    BY <1>0, <1>1
  <2>3. Slips(p)' = Slips(p)
    BY <1>1, <2>2, RowsApart DEF Slips, Exists
  <2>4. \A y \in RowsOf(p) : (slip'[y] = "paid") = (slip[y] = "paid")
    BY <1>1, <2>2, RowsApart DEF Calm, RowsOf
  <2>5. Records(p)'
    BY <1>1, <2>1, <2>3, <2>4 DEF PeriodInv, Records
  <2>6. CASE x[1] = p
    <3>1. \A q \in Requests : ~ About(q, p)'
      BY <1>1, <2>1, <2>6 DEF Calm
    <3> QED BY <2>5, <3>1 DEF PeriodInv
  <2>7. CASE x[1] # p
    <3>1. \A y \in RowsOf(p) : slip'[y] = slip[y]
      BY <2>2, <2>7, RowsApart DEF RowsOf
    <3>2. ASSUME NEW q \in Requests, About(q, p) PROVE Stage(q, p)'
      <4>1. /\ Stage(q, p)
            /\ job[q].kind = "payOne" => Row(q) \in RowsOf(p)
            /\ job[q].kind = "payAll" => seen[q].rows \subseteq RowsOf(p)
        BY <2>1, <3>2 DEF PayrollInv, PayTyping, PeriodInv, Fits, About
      <4>2. Row(q)' = Row(q) /\ job' = job /\ pc' = pc /\ seen' = seen /\ period' = period
        BY <1>1 DEF Row
      <4>3. job[q].kind = "payAll" => \A y \in seen[q].rows : slip'[y] = slip[y]
        BY <3>1, <4>1
      <4>4. job[q].kind = "payOne" => slip'[Row(q)] = slip[Row(q)]
        BY <3>1, <4>1
      <4> QED BY <2>3, <3>1, <4>1, <4>2, <4>3, <4>4 DEF Stage
    <3> QED BY <1>1, <2>1, <2>5, <3>2 DEF PeriodInv, Agree
  <2> QED BY <2>6, <2>7
<1> QED BY <1>2, <1>3 DEF PayrollInv

LEMMA InitPayrollInv == Init => PayrollInv
<1> SUFFICES ASSUME Init PROVE PayrollInv
  OBVIOUS
<1>1. \A r \in Requests : DOMAIN job[r] = {"kind", "doc", "safe", "row", "back", "more"}
  BY DEF Init, Ask
<1>2. \A r \in Requests : pc[r] = "idle" /\ Fits(r)
  BY DEF Init, Fits
<1>3. PayTyping
  BY <1>1, <1>2 DEF Init, PayTyping
<1>4. ASSUME NEW p \in Calm PROVE PeriodInv(p)
  <2>1. \A x \in RowsOf(p) : x \in Rows
    BY DEF RowsOf
  <2>2. Slips(p) = {}
    BY <2>1 DEF Init, Slips, Exists
  <2>3. Records(p)
    BY <2>1, <2>2 DEF Init, Records
  <2> QED BY <1>2, <2>3 DEF PeriodInv, About
<1> QED BY <1>3, <1>4 DEF PayrollInv

LEMMA StepPayrollInv == Typing /\ Typing' /\ PayrollInv /\ [Next]_vars => PayrollInv'
<1> SUFFICES ASSUME Typing, Typing', PayrollInv, [Next]_vars PROVE PayrollInv'
  OBVIOUS
<1>1. CASE UNCHANGED vars
  BY <1>1, PayrollUnmoved DEF vars
<1>2. ASSUME NEW r \in Requests, Receive(r) PROVE PayrollInv'
  BY <1>2, PayrollRequestKeeps
<1>3. ASSUME NEW r \in Requests, Step(r) PROVE PayrollInv'
  BY <1>3, PayrollStepKeeps
<1>4. ASSUME NEW r \in Requests, Fail(r) PROVE PayrollInv'
  BY <1>4, PayrollAbandon DEF Fail
<1>5. ASSUME NEW x \in Rows, NEW verdict \in {"approved", "rejected"}, ReviewSlip(x, verdict)
      PROVE  PayrollInv'
  BY <1>5, ReviewKeeps
<1>6. ASSUME NEW a \in Advances,
             CancelAdvance(a) \/ \E amount \in 1..AdvanceSize[a] : ManualPayment(a, amount)
      PROVE  PayrollInv'
  BY <1>6, PayrollUnmoved DEF CancelAdvance, ManualPayment, AtOnce
<1>7. ASSUME NEW c \in Custodies, GrantCustody(c) \/ \E s \in Desks[c] : Reimburse(c, s)
      PROVE  PayrollInv'
  BY <1>7, PayrollUnmoved DEF GrantCustody, Reimburse, AtOnce
<1> QED BY <1>1, <1>2, <1>3, <1>4, <1>5, <1>6, <1>7 DEF Next, Quiescent, AtOnceRequest

\* Nobody is paid twice for a period of which one person asks at a time and whose
\* paid records are let be, though its processing stops half-way and is repeated,
\* and records are paid one by one by any number of cashiers.
THEOREM NobodyPaidTwice == Spec => []SalaryPaidOnce
<1>1. PayrollInv => SalaryPaidOnce
  <2> SUFFICES ASSUME PayrollInv, NEW p \in Calm, NEW x \in RowsOf(p), NEW y \in RowsOf(p),
                      x[2] = y[2], paidOut[x] > 0, paidOut[y] > 0
               PROVE  x = y /\ paidOut[x] = 1
    BY DEF SalaryPaidOnce, PaidOnce, Calm
  <2>1. Records(p)
    BY DEF PayrollInv, PeriodInv
  <2>2. slip[x] = "paid" /\ slip[y] = "paid" /\ paidOut[x] = 1
    BY <2>1 DEF Records
  <2>3. x \in Slips(p) /\ y \in Slips(p)
    BY <2>2 DEF Slips, Exists
  <2> QED BY <2>1, <2>2, <2>3 DEF Records
<1>2. AdvanceInv => Typing
  BY DEF AdvanceInv
<1> QED BY <1>1, <1>2, InitAdvanceInv, StepAdvanceInv, InitPayrollInv, StepPayrollInv, PTL DEF Spec

-----------------------------------------------------------------------------
(* Types *)

\* A record's net pay and what a set of records comes to.
LEMMA NetNat ==
  ASSUME cut \in [Rows -> [Advances -> Nat]], NEW x \in Rows
  PROVE  Net(x) \in Nat
<1>1. cut[x] \in [Advances -> Nat] /\ IsFiniteSet(Advances)
  BY StaffAssumption
<1>2. SumFunction(cut[x]) \in Int
  <2>1. DOMAIN cut[x] = Advances /\ \A a \in Advances : cut[x][a] \in Int
    BY <1>1
  <2>2. SumFunctionOnSet(cut[x], Advances) \in Int
    BY <1>1, <2>1, SumSplit
  <2> QED BY <2>1, <2>2 DEF SumFunction
<1>3. Salary[x[2]] \in Int
  BY StaffAssumption DEF Rows
<1> QED BY <1>2, <1>3 DEF Net

LEMMA TotalNat ==
  ASSUME cut \in [Rows -> [Advances -> Nat]], NEW S, S \subseteq Rows
  PROVE  Total(S) \in Nat
<1> DEFINE pay == [x \in S |-> Net(x)]
<1>1. IsFiniteSet(S)
  BY StaffAssumption, FS_Subset
<1>2. \A x \in S : pay[x] \in Nat
  BY NetNat
<1>3. Total(S) = SumFunctionOnSet(pay, S)
  BY DEF Total, MapThenSumSet, SumFunctionOnSet, FoldFunctionOnSet, MapThenFoldSet
<1> HIDE DEF pay
<1> QED BY <1>1, <1>2, <1>3, SumNat

Kinds == {"request", "approve", "reject", "settle", "delete", "process", "approvePeriod",
          "payAll", "payOne"}
Job == [kind : Kinds, doc : Docs, safe : Safes, row : Rows, back : Nat, more : Nat]
View == [rows : SUBSET Rows, staff : SUBSET Staff, cuts : [Advances -> Nat], last : BOOLEAN]

CashType == balance \in [Safes -> Int]
AdvanceTypes ==
  /\ advance \in [Advances -> Decided \cup {"none", "pending"}]
  /\ approved \in [Advances -> Nat]
  /\ remaining \in [Advances -> Nat]
  /\ repaid \in [Advances -> Nat]
CustodyTypes ==
  /\ custody \in [Custodies -> {"none", "open", "settled", "deleted"}]
  /\ due \in [Custodies -> Nat]
PayrollTypes ==
  /\ period \in [Periods -> {"draft", "processing", "approved", "paid"}]
  /\ slip \in [Rows -> {"none", "draft", "approved", "rejected", "paid"}]
  /\ cut \in [Rows -> [Advances -> Nat]]
  /\ paidOut \in [Rows -> Nat]
RequestTypes ==
  /\ job \in [Requests -> Job]
  /\ pc \in [Requests -> Places]
  /\ seen \in [Requests -> View]
  /\ sent \in 0..MaxSent

\* The statement a request stands at is one of its kind, about a document of its kind.
Stands(r) ==
  /\ pc[r] \in {"insert", "approve", "reject"} => Doc(r) \in Advances
  /\ pc[r] = "readSafe" => /\ job[r].kind \in {"approve", "payAll", "payOne"}
                           /\ job[r].kind = "approve" => Doc(r) \in Advances
  /\ pc[r] \in {"settle", "delete"} => Doc(r) \in Custodies
  /\ pc[r] \in {"look", "slip"} => Doc(r) \in Periods

TypesInv ==
  /\ CashType /\ AdvanceTypes /\ CustodyTypes /\ PayrollTypes /\ RequestTypes
  /\ \A r \in Requests : Stands(r)

LEMMA TypesGiveTypeOK == TypesInv => TypeOK
BY DEF TypesInv, CashType, AdvanceTypes, CustodyTypes, PayrollTypes, RequestTypes, TypeOK,
       Decided, Places, Job, Kinds, View

\* A request that is received, or goes on.
LEMMA NothingType == Nothing \in View
BY DEF Nothing, View, NoCuts

LEMMA Moves ==
  ASSUME TypesInv, NEW r \in Requests, NEW next \in Places, Goto(r, next),
         \/ UNCHANGED job
         \/ job' \in [Requests -> Job] /\ \A q \in Requests \ {r} : job'[q] = job[q],
         seen' \in [Requests -> View], sent' \in 0..MaxSent, Stands(r)'
  PROVE  RequestTypes' /\ \A q \in Requests : Stands(q)'
<1>1. RequestTypes'
  BY DEF TypesInv, RequestTypes, Goto
<1>2. ASSUME NEW q \in Requests \ {r} PROVE Stands(q)'
  <2>1. Stands(q) /\ pc'[q] = pc[q] /\ job'[q] = job[q]
    BY DEF TypesInv, RequestTypes, Goto
  <2> QED BY <2>1 DEF Stands, Doc
<1> QED BY <1>1, <1>2

LEMMA Ends ==
  ASSUME TypesInv, NEW r \in Requests, Answer(r) \/ Abandon(r)
  PROVE  RequestTypes' /\ \A q \in Requests : Stands(q)'
<1>1. Goto(r, "idle") /\ UNCHANGED <<job, sent>> /\ "idle" \in Places
  BY DEF Answer, Abandon, Places
<1>2. seen' \in [Requests -> View]
  BY NothingType DEF Answer, Abandon, TypesInv, RequestTypes
<1>3. pc'[r] = "idle"
  BY <1>1 DEF Goto, TypesInv, RequestTypes
<1>4. Stands(r)'
  BY <1>3 DEF Stands
<1> QED BY <1>1, <1>2, <1>4, Moves DEF TypesInv, RequestTypes

LEMMA AskType ==
  ASSUME NEW r \in Requests, NEW kind \in Kinds, NEW d \in Docs
  PROVE  Ask(kind, d) \in Job
<1>1. PICK e \in Staff, p \in Periods : TRUE
  BY StaffAssumption
<1>2. <<p, e, r>> \in Rows
  BY DEF Rows
<1>3. Petty \in Safes /\ (CHOOSE x \in Rows : TRUE) \in Rows
  BY <1>2, StaffAssumption
<1> QED BY <1>3 DEF Ask, Job

LEMMA Received ==
  ASSUME TypesInv, NEW r \in Requests, NEW request \in Job, NEW first \in Places,
         Start(r, request, first), seen' \in [Requests -> View],
         first \in {"insert", "reject"} => request.doc \in Advances,
         first # "approve",
         first = "readSafe" => /\ request.kind \in {"approve", "payAll", "payOne"}
                               /\ request.kind = "approve" => request.doc \in Advances,
         first \in {"settle", "delete"} => request.doc \in Custodies,
         first \in {"look", "slip"} => request.doc \in Periods
  PROVE  RequestTypes' /\ \A q \in Requests : Stands(q)'
<1>1. /\ job' = [job EXCEPT ![r] = request] /\ Goto(r, first) /\ sent < MaxSent /\ sent' = sent + 1
      /\ job \in [Requests -> Job] /\ pc \in [Requests -> Places] /\ sent \in 0..MaxSent
  BY DEF Start, TypesInv, RequestTypes
<1>2. job' \in [Requests -> Job] /\ job'[r] = request /\ \A q \in Requests \ {r} : job'[q] = job[q]
  BY <1>1
<1>3. sent' \in 0..MaxSent
  <2>1. MaxSent \in Nat BY StaffAssumption
  <2> QED BY <1>1, <2>1
<1>4. Stands(r)'
  BY <1>1, <1>2 DEF Goto, Stands, Doc
<1> QED BY <1>1, <1>2, <1>3, <1>4, Moves

LEMMA ReceiveTypes ==
  ASSUME TypesInv, NEW r \in Requests, Receive(r)
  PROVE  TypesInv'
<1>0. /\ seen \in [Requests -> View] /\ DOMAIN period = Periods
      /\ \A d \in Advances \cup Custodies \cup Periods : d \in Docs
  BY DEF TypesInv, RequestTypes, PayrollTypes, Docs
<1>1. /\ UNCHANGED <<balance, advanceVars, custodyVars, slip, cut, paidOut>>
      /\ \/ UNCHANGED period
         \/ \E p \in Periods : period' = [period EXCEPT ![p] = "approved"]
  BY DEF Receive, AdvanceRequest, CustodyRequest, PayrollRequest, ReceiveAdvance, ReceiveRejection,
         ReceiveApproval, ReceiveDeletion, ReceiveSettlement, ReceiveProcess, ApprovePeriod,
         ReceivePayPeriod, ReceivePayment, Send, payrollVars
<1>2. RequestTypes' /\ \A q \in Requests : Stands(q)'
  <2>1. ASSUME NEW a \in Advances, ReceiveAdvance(r, a) \/ ReceiveRejection(r, a)
        PROVE  RequestTypes' /\ \A q \in Requests : Stands(q)'
    <3>1. PICK request, first :
            /\ Start(r, request, first) /\ UNCHANGED seen
            /\ \/ request = Ask("request", a) /\ first = "insert"
               \/ request = Ask("reject", a) /\ first = "reject"
      BY <2>1 DEF ReceiveAdvance, ReceiveRejection, Send
    <3>2. request \in Job /\ first \in Places /\ request.doc = a
      BY <1>0, <3>1, AskType DEF Kinds, Places, Ask
    <3> QED BY <1>0, <3>1, <3>2, Received
  <2>2. ASSUME NEW a \in Advances, NEW s \in Desks[a], ReceiveApproval(r, a, s)
        PROVE  RequestTypes' /\ \A q \in Requests : Stands(q)'
    <3> DEFINE request == [Ask("approve", a) EXCEPT !.safe = s]
    <3>1. s \in Safes /\ Ask("approve", a) \in Job
      BY <1>0, AskType, StaffAssumption DEF Kinds
    <3>2. request \in Job /\ request.doc = a /\ request.kind = "approve" /\ "readSafe" \in Places
      BY <3>1 DEF Job, Ask, Places
    <3>3. Start(r, request, "readSafe") /\ UNCHANGED seen
      BY <2>2 DEF ReceiveApproval, Send
    <3> HIDE DEF request
    <3> QED BY <1>0, <3>2, <3>3, Received
  <2>3. ASSUME NEW c \in Custodies, ReceiveDeletion(r, c)
        PROVE  RequestTypes' /\ \A q \in Requests : Stands(q)'
    <3>1. PICK request : Start(r, request, "delete") /\ UNCHANGED seen /\ request = Ask("delete", c)
      BY <2>3 DEF ReceiveDeletion, Send
    <3>2. request \in Job /\ "delete" \in Places /\ request.doc = c
      BY <1>0, <3>1, AskType DEF Kinds, Places, Ask
    <3> QED BY <1>0, <3>1, <3>2, Received
  <2>4. ASSUME NEW c \in Custodies, NEW back \in 0..Worth[c], NEW more \in 0..Excess,
               ReceiveSettlement(r, c, back, more)
        PROVE  RequestTypes' /\ \A q \in Requests : Stands(q)'
    <3> DEFINE request == [Ask("settle", c) EXCEPT !.back = back, !.more = more]
    <3>1. back \in Nat /\ more \in Nat /\ Ask("settle", c) \in Job
      BY <1>0, AskType, StaffAssumption DEF Kinds
    <3>2. request \in Job /\ request.doc = c /\ "settle" \in Places
      BY <3>1 DEF Job, Ask, Places
    <3>3. Start(r, request, "settle") /\ UNCHANGED seen
      BY <2>4 DEF ReceiveSettlement, Send
    <3> HIDE DEF request
    <3> QED BY <1>0, <3>2, <3>3, Received
  <2>5. ASSUME NEW p \in Periods, ReceiveProcess(r, p) \/ ApprovePeriod(r, p)
        PROVE  RequestTypes' /\ \A q \in Requests : Stands(q)'
    <3>1. PICK request, first :
            /\ Start(r, request, first)
            /\ \/ request = Ask("process", p) /\ first = "look"
               \/ request = Ask("approvePeriod", p) /\ first = "approveSlips"
      BY <2>5 DEF ReceiveProcess, ApprovePeriod
    <3>2. request \in Job /\ first \in Places /\ request.doc = p
      BY <1>0, <3>1, AskType DEF Kinds, Places, Ask
    <3>3. [Nothing EXCEPT !.staff = Staff] \in View
      BY NothingType DEF View
    <3>4. seen' \in [Requests -> View]
      BY <1>0, <2>5, <3>3 DEF ReceiveProcess, ApprovePeriod
    <3> QED BY <3>1, <3>2, <3>4, Received
  <2>6. ASSUME NEW p \in Periods, NEW s \in Desks[p], ReceivePayPeriod(r, p, s)
        PROVE  RequestTypes' /\ \A q \in Requests : Stands(q)'
    <3> DEFINE request == [Ask("payAll", p) EXCEPT !.safe = s]
               unpaid == {x \in Slips(p) : slip[x] # "paid"}
    <3>1. s \in Safes /\ Ask("payAll", p) \in Job
      BY <1>0, AskType, StaffAssumption DEF Kinds
    <3>2. request \in Job /\ request.kind = "payAll" /\ "readSafe" \in Places
      BY <3>1 DEF Job, Ask, Places
    <3>3. [Nothing EXCEPT !.rows = unpaid] \in View
      <4>1. unpaid \in SUBSET Rows BY DEF Slips, RowsOf
      <4> QED BY <4>1, NothingType DEF View
    <3>4. Start(r, request, "readSafe") /\ seen' = [seen EXCEPT ![r] = [Nothing EXCEPT !.rows = unpaid]]
      BY <2>6 DEF ReceivePayPeriod
    <3> HIDE DEF request, unpaid
    <3>5. seen' \in [Requests -> View]
      BY <1>0, <3>3, <3>4
    <3> QED BY <3>2, <3>4, <3>5, Received
  <2>7. ASSUME NEW p \in Periods, NEW s \in Desks[p], NEW x \in RowsOf(p), ReceivePayment(r, x, s)
        PROVE  RequestTypes' /\ \A q \in Requests : Stands(q)'
    <3> DEFINE request == [Ask("payOne", x[1]) EXCEPT !.safe = s, !.row = x]
    <3>1. s \in Safes /\ x \in Rows /\ x[1] = p /\ Ask("payOne", x[1]) \in Job
      BY <1>0, AskType, StaffAssumption DEF Kinds, RowsOf
    <3>2. request \in Job /\ request.kind = "payOne" /\ "readSafe" \in Places
      BY <3>1 DEF Job, Ask, Places
    <3>3. Start(r, request, "readSafe") /\ UNCHANGED seen
      BY <2>7 DEF ReceivePayment, Send
    <3> HIDE DEF request
    <3> QED BY <1>0, <3>2, <3>3, Received
  <2> QED BY <2>1, <2>2, <2>3, <2>4, <2>5, <2>6, <2>7
          DEF Receive, AdvanceRequest, CustodyRequest, PayrollRequest
<1>3. CashType' /\ AdvanceTypes' /\ CustodyTypes'
  BY <1>1 DEF TypesInv, CashType, AdvanceTypes, CustodyTypes, advanceVars, custodyVars
<1>4. PayrollTypes'
  BY <1>1 DEF TypesInv, PayrollTypes
<1> QED BY <1>2, <1>3, <1>4 DEF TypesInv

LEMMA CashIn ==
  ASSUME TypesInv, NEW s \in Safes, NEW n \in Nat, balance' = [balance EXCEPT ![s] = @ + n]
  PROVE  CashType'
BY DEF TypesInv, CashType

LEMMA CashOut ==
  ASSUME TypesInv, NEW s \in Safes, NEW n \in Nat, balance' = [balance EXCEPT ![s] = @ - n]
  PROVE  CashType'
BY DEF TypesInv, CashType

LEMMA AtOnceTypes ==
  ASSUME TypesInv, AtOnceRequest
  PROVE  TypesInv'
<1>1. AtOnce
  BY DEF AtOnceRequest, CancelAdvance, ManualPayment, GrantCustody, Reimburse, ReviewSlip
<1>2. RequestTypes' /\ \A q \in Requests : Stands(q)'
  <2>1. MaxSent \in Nat BY StaffAssumption
  <2> QED BY <1>1, <2>1 DEF TypesInv, RequestTypes, AtOnce, Stands, Doc
<1>3. ASSUME NEW a \in Advances, CancelAdvance(a) PROVE TypesInv'
  BY <1>2, <1>3 DEF CancelAdvance, TypesInv, CashType, AdvanceTypes, CustodyTypes, PayrollTypes,
                    custodyVars, payrollVars, Decided
<1>4. ASSUME NEW a \in Advances, NEW amount \in 1..AdvanceSize[a], ManualPayment(a, amount)
      PROVE  TypesInv'
  <2>1. amount \in Nat
    BY StaffAssumption
  <2>2. AdvanceTypes'
    BY <1>4, <2>1 DEF ManualPayment, TypesInv, AdvanceTypes, Decided
  <2> QED BY <1>2, <1>4, <2>2 DEF ManualPayment, TypesInv, CashType, CustodyTypes, PayrollTypes,
                                   custodyVars, payrollVars
<1>5. ASSUME NEW c \in Custodies, GrantCustody(c) PROVE TypesInv'
  <2>1. Worth[c] \in Nat /\ GivenFrom[c] \in Safes BY StaffAssumption
  <2>2. CashType'
    <3>1. balance' = [balance EXCEPT ![GivenFrom[c]] = @ - Worth[c]]
      BY <1>5 DEF GrantCustody
    <3> QED BY <2>1, <3>1, CashOut
  <2>3. CustodyTypes'
    BY <1>5 DEF GrantCustody, TypesInv, CustodyTypes
  <2> QED BY <1>2, <1>5, <2>2, <2>3 DEF GrantCustody, TypesInv, AdvanceTypes, PayrollTypes, advanceVars,
                                   payrollVars
<1>6. ASSUME NEW c \in Custodies, NEW s \in Desks[c], Reimburse(c, s) PROVE TypesInv'
  <2>0. due[c] \in Nat /\ s \in Safes
    BY StaffAssumption DEF TypesInv, CustodyTypes, Docs
  <2>1. CashType'
    <3>1. balance' = [balance EXCEPT ![s] = @ - due[c]]
      BY <1>6 DEF Reimburse
    <3> QED BY <2>0, <3>1, CashOut
  <2>2. CustodyTypes'
    BY <1>6 DEF Reimburse, TypesInv, CustodyTypes
  <2> QED BY <1>2, <1>6, <2>1, <2>2 DEF Reimburse, TypesInv, AdvanceTypes, PayrollTypes, advanceVars,
                                   payrollVars
<1>7. ASSUME NEW x \in Rows, NEW verdict \in {"approved", "rejected"}, ReviewSlip(x, verdict)
      PROVE  TypesInv'
  <2>1. PayrollTypes'
    BY <1>7 DEF ReviewSlip, TypesInv, PayrollTypes
  <2> QED BY <1>2, <1>7, <2>1 DEF ReviewSlip, TypesInv, CashType, AdvanceTypes, CustodyTypes,
                                   advanceVars, custodyVars
<1> QED BY <1>3, <1>4, <1>5, <1>6, <1>7 DEF AtOnceRequest

\* A statement of a request.
LEMMA GoesOnTypes ==
  ASSUME TypesInv, NEW r \in Requests, NEW next \in Places, Goto(r, next), UNCHANGED <<job, sent>>,
         seen' \in [Requests -> View], next = "idle" \/ Stands(r)'
  PROVE  RequestTypes' /\ \A q \in Requests : Stands(q)'
<1>1. Stands(r)'
  BY DEF Goto, Stands, TypesInv, RequestTypes
<1>2. sent' \in 0..MaxSent
  BY DEF TypesInv, RequestTypes
<1> QED BY <1>1, <1>2, Moves

LEMMA LookTypes ==
  ASSUME TypesInv, NEW r \in Requests, NEW e \in Staff, Look(r, e)
  PROVE  TypesInv'
<1> DEFINE cuts == [a \in Advances |-> IF Owner[a] = e /\ advance[a] = "active" THEN remaining[a] ELSE 0]
<1>0. /\ seen \in [Requests -> View] /\ job \in [Requests -> Job] /\ pc[r] = "look" /\ sent' = sent
      /\ pc \in [Requests -> Places] /\ sent \in 0..MaxSent /\ Doc(r) \in Periods
  BY DEF Look, TypesInv, RequestTypes, Stands
<1>1. cuts \in [Advances -> Nat]
  BY DEF TypesInv, AdvanceTypes
<1>2. \/ seen' = [seen EXCEPT ![r].staff = @ \ {e}] /\ UNCHANGED <<job, pc>>
      \/ /\ seen' = [seen EXCEPT ![r].staff = @ \ {e}, ![r].cuts = cuts]
         /\ job' = [job EXCEPT ![r].row = <<Doc(r), e, r>>]
         /\ Goto(r, "slip")
  BY DEF Look
<1> HIDE DEF cuts
<1>3. seen[r] \in View
  BY <1>0
<1>4. seen' \in [Requests -> View]
  <2>1. PICK view \in View : seen' = [seen EXCEPT ![r] = view]
    <3>1. [seen[r] EXCEPT !.staff = @ \ {e}] \in View
      BY <1>3 DEF View
    <3>2. [seen[r] EXCEPT !.staff = @ \ {e}, !.cuts = cuts] \in View
      BY <1>1, <1>3 DEF View
    <3>3. \/ seen' = [seen EXCEPT ![r] = [seen[r] EXCEPT !.staff = @ \ {e}]]
          \/ seen' = [seen EXCEPT ![r] = [seen[r] EXCEPT !.staff = @ \ {e}, !.cuts = cuts]]
      BY <1>0, <1>2, <1>3 DEF View
    <3> QED BY <3>1, <3>2, <3>3
  <2> QED BY <1>0, <2>1
<1>5. <<Doc(r), e, r>> \in Rows
  BY <1>0 DEF Rows
<1>6. ASSUME UNCHANGED <<job, pc>> PROVE RequestTypes' /\ \A q \in Requests : Stands(q)'
  <2>1. \A q \in Requests : Stands(q)'
    BY <1>6 DEF TypesInv, Stands, Doc
  <2> QED BY <1>0, <1>4, <1>6, <2>1 DEF RequestTypes
<1>7. ASSUME job' = [job EXCEPT ![r].row = <<Doc(r), e, r>>], Goto(r, "slip")
      PROVE  RequestTypes' /\ \A q \in Requests : Stands(q)'
  <2>1. /\ job' \in [Requests -> Job] /\ job'[r].doc = job[r].doc
        /\ \A q \in Requests \ {r} : job'[q] = job[q]
    BY <1>0, <1>5, <1>7 DEF Job
  <2>2. pc'[r] = "slip" /\ "slip" \in Places
    BY <1>0, <1>7 DEF Goto, Places
  <2>3. Stands(r)'
    BY <1>0, <2>1, <2>2 DEF Stands, Doc
  <2>4. sent' \in 0..MaxSent /\ Goto(r, "slip")
    BY <1>0, <1>7
  <2> QED BY <1>4, <2>1, <2>2, <2>3, <2>4, Moves
<1>8. RequestTypes' /\ \A q \in Requests : Stands(q)'
  BY <1>2, <1>6, <1>7
<1> QED BY <1>8 DEF Look, TypesInv, CashType, AdvanceTypes, CustodyTypes, PayrollTypes,
                    advanceVars, custodyVars, payrollVars

LEMMA StepTypes ==
  ASSUME TypesInv, NEW r \in Requests, Step(r)
  PROVE  TypesInv'
<1>0. /\ seen \in [Requests -> View] /\ job \in [Requests -> Job] /\ pc \in [Requests -> Places]
      /\ Stands(r) /\ seen[r] \in View /\ job[r] \in Job /\ Safe(r) \in Safes
  BY DEF TypesInv, RequestTypes, Job, Safe
<1>a. ASSUME Answer(r) \/ Abandon(r) PROVE RequestTypes' /\ \A q \in Requests : Stands(q)'
  BY <1>a, Ends
<1>b. ASSUME Abandon(r) PROVE TypesInv'
  BY <1>a, <1>b DEF Abandon, TypesInv, CashType, AdvanceTypes, CustodyTypes, PayrollTypes,
                    advanceVars, custodyVars, payrollVars
<1>1. CASE ReadSafe(r)
  <2>1. CASE ~ Abandon(r)
    <3>1. /\ pc[r] = "readSafe" /\ Goto(r, job[r].kind)
          /\ UNCHANGED <<balance, advanceVars, custodyVars, payrollVars, job, seen, sent>>
      BY <1>1, <2>1 DEF ReadSafe
    <3>2. job[r].kind \in {"approve", "payAll", "payOne"} /\ job[r].kind \in Places
      BY <1>0, <3>1 DEF Stands, Places
    <3>3. pc'[r] = job[r].kind /\ Doc(r)' = Doc(r)
      BY <1>0, <3>1 DEF Goto, Doc
    <3>4. Stands(r)'
      BY <1>0, <3>1, <3>2, <3>3 DEF Stands
    <3>5. RequestTypes' /\ \A q \in Requests : Stands(q)'
      BY <1>0, <3>1, <3>2, <3>4, GoesOnTypes
    <3> QED BY <3>1, <3>5 DEF TypesInv, CashType, AdvanceTypes, CustodyTypes, PayrollTypes,
                              advanceVars, custodyVars, payrollVars
  <2> QED BY <1>b, <2>1
<1>2. CASE InsertAdvance(r)
  <2>1. Doc(r) \in Advances /\ AdvanceSize[Doc(r)] \in Nat
    BY <1>0, <1>2, StaffAssumption DEF InsertAdvance, Stands
  <2>2. AdvanceTypes'
    BY <1>2, <2>1 DEF InsertAdvance, TypesInv, AdvanceTypes, Decided
  <2> QED BY <1>a, <1>2, <2>2 DEF InsertAdvance, TypesInv, CashType, CustodyTypes, PayrollTypes,
                                   custodyVars, payrollVars
<1>3. CASE GrantAdvance(r)
  <2>1. Doc(r) \in Advances /\ AdvanceSize[Doc(r)] \in Nat
    BY <1>0, <1>3, StaffAssumption DEF GrantAdvance, Stands
  <2>2. AdvanceTypes'
    BY <1>3, <2>1 DEF GrantAdvance, TypesInv, AdvanceTypes, Decided
  <2>3. CashType'
    <3>1. balance' = [balance EXCEPT ![Safe(r)] = @ - AdvanceSize[Doc(r)]]
      BY <1>3 DEF GrantAdvance
    <3> QED BY <1>0, <2>1, <3>1, CashOut
  <2> QED BY <1>a, <1>3, <2>2, <2>3 DEF GrantAdvance, TypesInv, CustodyTypes, PayrollTypes,
                                         custodyVars, payrollVars
<1>4. CASE RejectAdvance(r)
  <2>1. AdvanceTypes'
    BY <1>4 DEF RejectAdvance, TypesInv, AdvanceTypes, Decided
  <2> QED BY <1>a, <1>4, <2>1 DEF RejectAdvance, TypesInv, CashType, CustodyTypes, PayrollTypes,
                                   custodyVars, payrollVars
<1>5. CASE Settle(r) /\ ~ Abandon(r)
  <2>1. job[r].back \in Nat /\ job[r].more \in Nat
    BY <1>0 DEF Job
  <2>2. CashType'
    <3>1. GivenFrom[Doc(r)] \in Safes
      BY <1>0, <1>5, StaffAssumption DEF Settle, Stands
    <3>2. balance' = [balance EXCEPT ![GivenFrom[Doc(r)]] = @ + job[r].back]
      BY <1>5 DEF Settle
    <3> QED BY <2>1, <3>1, <3>2, CashIn
  <2>3. CustodyTypes'
    BY <1>5, <2>1 DEF Settle, TypesInv, CustodyTypes
  <2> QED BY <1>a, <1>5, <2>2, <2>3 DEF Settle, TypesInv, AdvanceTypes, PayrollTypes, advanceVars,
                                         payrollVars
<1>6. CASE DeleteCustody(r)
  <2>1. Worth[Doc(r)] \in Nat /\ GivenFrom[Doc(r)] \in Safes
    BY <1>0, <1>6, StaffAssumption DEF DeleteCustody, Stands
  <2>2. CashType'
    <3>1. balance' = [balance EXCEPT ![GivenFrom[Doc(r)]] = @ + Worth[Doc(r)]]
      BY <1>6 DEF DeleteCustody
    <3> QED BY <2>1, <3>1, CashIn
  <2>3. CustodyTypes'
    BY <1>6 DEF DeleteCustody, TypesInv, CustodyTypes
  <2> QED BY <1>a, <1>6, <2>2, <2>3 DEF DeleteCustody, TypesInv, AdvanceTypes, PayrollTypes,
                                         advanceVars, payrollVars
<1>7. ASSUME NEW e \in Staff, Look(r, e) PROVE TypesInv'
  BY <1>7, LookTypes
<1>8. CASE InsertSlip(r)
  <2>1. PayrollTypes'
    <3>1. seen[r].cuts \in [Advances -> Nat]
      BY <1>0 DEF View
    <3> QED BY <1>8, <3>1 DEF InsertSlip, TypesInv, PayrollTypes
  <2>2. RequestTypes' /\ \A q \in Requests : Stands(q)'
    <3>1. pc'[r] = "look" /\ "look" \in Places /\ Doc(r)' = Doc(r) /\ Doc(r) \in Periods
      BY <1>0, <1>8 DEF InsertSlip, Goto, Places, Doc, Stands
    <3>2. Stands(r)'
      BY <3>1 DEF Stands
    <3> QED BY <1>0, <1>8, <3>1, <3>2, GoesOnTypes DEF InsertSlip
  <2> QED BY <1>8, <2>1, <2>2 DEF InsertSlip, TypesInv, CashType, AdvanceTypes, CustodyTypes,
                                   advanceVars, custodyVars
<1>9. CASE Processed(r)
  <2>1. PayrollTypes'
    BY <1>9 DEF Processed, TypesInv, PayrollTypes
  <2> QED BY <1>a, <1>9, <2>1 DEF Processed, TypesInv, CashType, AdvanceTypes, CustodyTypes,
                                   advanceVars, custodyVars
<1>10. CASE ApproveSlips(r)
  <2>1. PayrollTypes'
    BY <1>10 DEF ApproveSlips, TypesInv, PayrollTypes
  <2> QED BY <1>a, <1>10, <2>1 DEF ApproveSlips, TypesInv, CashType, AdvanceTypes, CustodyTypes,
                                    advanceVars, custodyVars
<1>11. CASE PayPeriod(r)
  <2>1. seen[r].rows \subseteq Rows /\ cut \in [Rows -> [Advances -> Nat]]
    BY <1>0 DEF View, TypesInv, PayrollTypes
  <2>2. Total(seen[r].rows) \in Nat
    BY <2>1, TotalNat
  <2>3. CashType'
    <3>1. balance' = [balance EXCEPT ![Safe(r)] = @ - Total(seen[r].rows)]
      BY <1>11 DEF PayPeriod
    <3> QED BY <1>0, <2>2, <3>1, CashOut
  <2>4. PayrollTypes'
    <3>1. /\ slip' = [x \in Rows |-> IF x \in seen[r].rows THEN "paid" ELSE slip[x]]
          /\ paidOut' = [x \in Rows |-> IF x \in seen[r].rows THEN paidOut[x] + 1 ELSE paidOut[x]]
          /\ period' = [period EXCEPT ![Doc(r)] = "paid"]
          /\ cut' = cut
      BY <1>11 DEF PayPeriod
    <3>2. \A x \in Rows : paidOut[x] \in Nat /\ paidOut[x] + 1 \in Nat
      BY DEF TypesInv, PayrollTypes
    <3> QED BY <3>1, <3>2 DEF TypesInv, PayrollTypes
  <2> QED BY <1>a, <1>11, <2>3, <2>4 DEF PayPeriod, TypesInv, AdvanceTypes, CustodyTypes,
                                          advanceVars, custodyVars
<1>12. CASE DebitSalary(r) \/ CountUnpaid(r)
  <2>1. seen' \in [Requests -> View]
    <3>1. (\A x \in Slips(Doc(r)) : x = Row(r) \/ slip[x] = "paid") \in BOOLEAN
      OBVIOUS
    <3>2. CASE UNCHANGED seen BY <1>0, <3>2
    <3>3. CASE CountUnpaid(r) BY <1>0, <3>1, <3>3 DEF CountUnpaid, View
    <3> QED BY <1>12, <3>2, <3>3 DEF DebitSalary
  <2>2. PICK next \in {"count", "finish"} : Goto(r, next)
    BY <1>12 DEF DebitSalary, CountUnpaid
  <2>3. pc'[r] = next /\ next \in Places
    BY <1>0, <2>2 DEF Goto, Places
  <2>4. Stands(r)'
    BY <2>2, <2>3 DEF Stands
  <2>5. UNCHANGED <<balance, advanceVars, custodyVars, payrollVars, job, sent>>
    BY <1>12 DEF DebitSalary, CountUnpaid
  <2>6. RequestTypes' /\ \A q \in Requests : Stands(q)'
    BY <2>1, <2>2, <2>3, <2>4, <2>5, GoesOnTypes
  <2> QED BY <2>5, <2>6 DEF TypesInv, CashType, AdvanceTypes, CustodyTypes, PayrollTypes,
                            advanceVars, custodyVars, payrollVars
<1>13. CASE CommitPayment(r)
  <2>1. Row(r) \in Rows /\ cut \in [Rows -> [Advances -> Nat]]
    BY <1>0 DEF Job, Row, TypesInv, PayrollTypes
  <2>2. Net(Row(r)) \in Nat
    BY <2>1, NetNat
  <2>3. CashType'
    <3>1. balance' = [balance EXCEPT ![Safe(r)] = @ - Net(Row(r))]
      BY <1>13 DEF CommitPayment
    <3> QED BY <1>0, <2>2, <3>1, CashOut
  <2>4. PayrollTypes'
    <3>1. /\ slip' = [slip EXCEPT ![Row(r)] = "paid"]
          /\ paidOut' = [paidOut EXCEPT ![Row(r)] = @ + 1]
          /\ period' = [period EXCEPT ![Doc(r)] = IF seen[r].last THEN "paid" ELSE @]
          /\ cut' = cut
      BY <1>13 DEF CommitPayment
    <3>2. paidOut[Row(r)] + 1 \in Nat
      BY <2>1 DEF TypesInv, PayrollTypes
    <3> QED BY <2>1, <3>1, <3>2 DEF TypesInv, PayrollTypes
  <2> QED BY <1>a, <1>13, <2>3, <2>4 DEF CommitPayment, TypesInv, AdvanceTypes, CustodyTypes,
                                          advanceVars, custodyVars
<1> QED BY <1>b, <1>1, <1>2, <1>3, <1>4, <1>5, <1>6, <1>7, <1>8, <1>9, <1>10, <1>11, <1>12, <1>13
        DEF Step

LEMMA InitTypes == Init => TypesInv
<1> SUFFICES ASSUME Init PROVE TypesInv
  OBVIOUS
<1>1. CashType /\ AdvanceTypes /\ CustodyTypes /\ PayrollTypes
  BY StaffAssumption DEF Init, CashType, AdvanceTypes, CustodyTypes, PayrollTypes, NoCuts
<1>2. job \in [Requests -> Job]
  <2>1. (CHOOSE p \in Periods : TRUE) \in Docs /\ "process" \in Kinds
    BY StaffAssumption DEF Docs, Kinds
  <2> QED BY <2>1, AskType DEF Init
<1>3. MaxSent \in Nat
  BY StaffAssumption
<1>4. RequestTypes
  BY <1>2, <1>3, NothingType DEF Init, RequestTypes, Places
<1>5. \A r \in Requests : Stands(r)
  BY DEF Init, Stands
<1> QED BY <1>1, <1>4, <1>5 DEF TypesInv

LEMMA NextTypes == TypesInv /\ [Next]_vars => TypesInv'
<1> SUFFICES ASSUME TypesInv, [Next]_vars PROVE TypesInv'
  OBVIOUS
<1>1. CASE UNCHANGED vars
  BY <1>1 DEF vars, TypesInv, CashType, AdvanceTypes, CustodyTypes, PayrollTypes, RequestTypes,
              advanceVars, custodyVars, payrollVars, Stands, Doc
<1>2. ASSUME NEW r \in Requests, Fail(r) PROVE TypesInv'
  <2>1. Abandon(r)
    BY <1>2 DEF Fail
  <2> QED BY <2>1, Ends DEF Abandon, TypesInv, CashType, AdvanceTypes, CustodyTypes, PayrollTypes,
                            advanceVars, custodyVars, payrollVars
<1> QED BY <1>1, <1>2, ReceiveTypes, StepTypes, AtOnceTypes DEF Next, Quiescent

LEMMA TypesAlways == Spec => []TypesInv
BY InitTypes, NextTypes, PTL DEF Spec

\* Every reachable state is well formed: a request is at a statement its kind has,
\* about a document of that kind, and what remains of an advance is never negative.
THEOREM TypeCorrect == Spec => []TypeOK
BY TypesGiveTypeOK, TypesAlways, PTL

-----------------------------------------------------------------------------
(* The period of which every salary is paid *)

\* Those who pay single salaries from one safe take turns.
TakeTurns ==
  \A r, q \in Requests : Paying(r) /\ Paying(q) /\ Safe(r) = Safe(q) => r = q

\* What a request about p knows of its records: a single payment comes from a desk of
\* p, it has seen whether its own is the last one, and the payment of the whole
\* period has seen all the others.
Knows(r, p) ==
  /\ job[r].kind = "payOne" => Safe(r) \in Desks[p]
  /\ pc[r] = "finish" =>
       (seen[r].last <=> \A x \in Slips(p) : x = Row(r) \/ slip[x] = "paid")
  /\ job[r].kind = "payAll" => \A x \in Slips(p) : slip[x] = "paid" \/ x \in seen[r].rows

Follows(p) ==
  /\ period[p] = "paid" => \A x \in Slips(p) : slip[x] = "paid"
  /\ (\E x \in Slips(p) : slip[x] = "paid") /\ (\A x \in Slips(p) : slip[x] = "paid")
     => period[p] = "paid"

OneDesk == {p \in Calm : \E s \in Safes : Desks[p] = {s}}

DeskInv(p) ==
  /\ \A r \in Requests : About(r, p) => Knows(r, p)
  /\ Follows(p)

\* Nothing of period p changes, and r knows what it has to.
LEMMA PeriodStands ==
  ASSUME PayrollInv, NEW p \in OneDesk, DeskInv(p), NEW r \in Requests, OthersStay(r),
         period'[p] = period[p], \A x \in RowsOf(p) : slip'[x] = slip[x],
         About(r, p)' => Knows(r, p)'
  PROVE  DeskInv(p)'
<1>1. Slips(p)' = Slips(p) /\ Slips(p) \subseteq RowsOf(p)
  BY DEF Slips, Exists
<1>2. Follows(p)'
  BY <1>1 DEF DeskInv, Follows
<1>3. ASSUME NEW q \in Requests \ {r}, About(q, p)' PROVE Knows(q, p)'
  <2>1. pc'[q] = pc[q] /\ job'[q] = job[q] /\ seen'[q] = seen[q]
    BY DEF OthersStay
  <2>2. About(q, p) /\ Safe(q)' = Safe(q) /\ Row(q)' = Row(q)
    BY <1>3, <2>1 DEF About, Doc, Safe, Row
  <2>3. Knows(q, p)
    BY <2>2 DEF DeskInv
  <2> QED BY <1>1, <2>1, <2>2, <2>3 DEF Knows
<1> QED BY <1>2, <1>3 DEF DeskInv

\* The request that is alone with period p changes it.
LEMMA PeriodChanges ==
  ASSUME PayrollInv, NEW p \in OneDesk, NEW r \in Requests, OthersStay(r),
         About(r, p), job[r].kind \notin {"payOne", "settle"},
         About(r, p)' => Knows(r, p)', Follows(p)'
  PROVE  DeskInv(p)'
<1>1. \A q \in Requests \ {r} : ~ About(q, p)'
  BY AloneThen, OthersFit DEF OneDesk
<1> QED BY <1>1 DEF DeskInv

\* A request that goes on as it was.
LEMMA StillKnows ==
  ASSUME NEW p, NEW r \in Requests, Knows(r, p), job'[r] = job[r], pc'[r] # "finish",
         job[r].kind = "payAll" => seen'[r] = seen[r],
         \A x \in RowsOf(p) : slip'[x] = slip[x]
  PROVE  Knows(r, p)'
<1>1. Slips(p)' = Slips(p) /\ Slips(p) \subseteq RowsOf(p)
  BY DEF Slips, Exists
<1> QED BY <1>1 DEF Knows, Safe, Row

LEMMA ReceiveFollows ==
  ASSUME TypesInv, PayrollInv, NEW p \in OneDesk, DeskInv(p), NEW r \in Requests, Receive(r)
  PROVE  DeskInv(p)'
<1>0. /\ pc \in [Requests -> Places] /\ job \in [Requests -> Job] /\ seen \in [Requests -> View]
      /\ DOMAIN period = Periods /\ p \in Periods /\ p \notin Shared
  BY DEF TypesInv, RequestTypes, PayrollTypes, OneDesk, Calm
<1>1. ASSUME NEW request, NEW first, Start(r, request, first)
      PROVE  /\ job'[r] = request /\ pc'[r] = first /\ Doc(r)' = request.doc
             /\ \A q \in Requests \ {r} : pc'[q] = pc[q] /\ job'[q] = job[q]
  BY <1>0, <1>1 DEF Start, Goto, Doc
<1>2. \A kind, d : Ask(kind, d).kind = kind /\ Ask(kind, d).doc = d
  BY DEF Ask
<1>3. ASSUME NEW request, NEW first, Start(r, request, first), request.kind \notin {"payOne", "payAll"},
             first # "finish", UNCHANGED <<period, slip>>,
             \A q \in Requests \ {r} : seen'[q] = seen[q]
      PROVE  DeskInv(p)'
  <2>1. Knows(r, p)'
    BY <1>1, <1>3 DEF Knows
  <2> QED BY <1>1, <1>3, <2>1, PeriodStands DEF OthersStay
<1>4. ASSUME NEW a \in Advances, AdvanceRequest(r, a) PROVE DeskInv(p)'
  <2>1. PICK request, first :
          /\ Start(r, request, first) /\ request.kind \notin {"payOne", "payAll"} /\ first # "finish"
          /\ UNCHANGED <<period, slip, seen>>
    <3>1. CASE ReceiveAdvance(r, a) \/ ReceiveRejection(r, a)
      BY <1>2, <3>1 DEF ReceiveAdvance, ReceiveRejection, Send, payrollVars
    <3>2. ASSUME NEW s \in Desks[a], ReceiveApproval(r, a, s)
          PROVE  \E request, first :
                   /\ Start(r, request, first) /\ request.kind \notin {"payOne", "payAll"}
                   /\ first # "finish" /\ UNCHANGED <<period, slip, seen>>
      <4> DEFINE request == [Ask("approve", a) EXCEPT !.safe = s]
      <4>1. request.kind = "approve"
        BY DEF Ask
      <4>2. Start(r, request, "readSafe") /\ UNCHANGED <<period, slip, seen>>
        BY <3>2 DEF ReceiveApproval, Send, payrollVars
      <4> HIDE DEF request
      <4> QED BY <4>1, <4>2
    <3> QED BY <1>4, <3>1, <3>2 DEF AdvanceRequest
  <2> QED BY <1>3, <2>1
<1>5. ASSUME NEW c \in Custodies, CustodyRequest(r, c) PROVE DeskInv(p)'
  <2>1. CASE ReceiveDeletion(r, c)
    <3>1. Start(r, Ask("delete", c), "delete") /\ UNCHANGED <<period, slip, seen>>
      BY <2>1 DEF ReceiveDeletion, Send, payrollVars
    <3> QED BY <1>2, <1>3, <3>1
  <2>2. ASSUME NEW back \in 0..Worth[c], NEW more \in 0..Excess, ReceiveSettlement(r, c, back, more)
        PROVE  DeskInv(p)'
    <3> DEFINE request == [Ask("settle", c) EXCEPT !.back = back, !.more = more]
    <3>1. request.kind = "settle"
      BY DEF Ask
    <3>2. Start(r, request, "settle") /\ UNCHANGED <<period, slip, seen>>
      BY <2>2 DEF ReceiveSettlement, Send, payrollVars
    <3> HIDE DEF request
    <3> QED BY <1>3, <3>1, <3>2
  <2> QED BY <1>5, <2>1, <2>2 DEF CustodyRequest
<1>6. ASSUME NEW d \in Periods, ReceiveProcess(r, d) PROVE DeskInv(p)'
  <2>1. /\ Start(r, Ask("process", d), "look") /\ UNCHANGED <<period, slip>>
        /\ \A q \in Requests \ {r} : seen'[q] = seen[q]
    BY <1>0, <1>6 DEF ReceiveProcess, payrollVars
  <2> QED BY <1>2, <1>3, <2>1
<1>7. ASSUME NEW d \in Periods, ApprovePeriod(r, d) PROVE DeskInv(p)'
  <2>1. /\ Start(r, Ask("approvePeriod", d), "approveSlips") /\ UNCHANGED <<slip, seen>>
        /\ period' = [period EXCEPT ![d] = "approved"] /\ period[d] = "processing"
    BY <1>7 DEF ApprovePeriod
  <2>2. /\ job'[r].kind = "approvePeriod" /\ pc'[r] = "approveSlips" /\ Doc(r)' = d
        /\ OthersStay(r)
    BY <1>1, <1>2, <2>1 DEF OthersStay
  <2>3. CASE d # p
    BY <1>0, <2>1, <2>2, <2>3, PeriodStands DEF About
  <2>4. CASE d = p
    <3>1. \A q \in Requests \ {r} : ~ About(q, p)'
      <4>1. \A q \in Requests \ {r} : About(q, p) => Agree(Ask("approvePeriod", d), job[q])
        BY <1>0, <1>2, <2>1, <2>4 DEF Start, Idle, About
      <4> QED BY <1>2, <2>2, <4>1 DEF Agree, OthersStay, About, Doc
    <3>2. \A x \in RowsOf(p) : slip[x] # "paid"
      BY <2>1, <2>4 DEF PayrollInv, PeriodInv, Records, OneDesk
    <3>3. period'[p] = "approved" /\ \A x \in Slips(p)' : slip'[x] # "paid"
      BY <1>0, <2>1, <2>4, <3>2 DEF Slips
    <3>4. Follows(p)'
      BY <3>3 DEF Follows
    <3>5. Knows(r, p)'
      BY <2>2 DEF Knows
    <3> QED BY <3>1, <3>4, <3>5 DEF DeskInv
  <2> QED BY <2>3, <2>4
<1>8. ASSUME NEW d \in Periods, NEW s \in Desks[d], ReceivePayPeriod(r, d, s) PROVE DeskInv(p)'
  <2> DEFINE request == [Ask("payAll", d) EXCEPT !.safe = s]
             unpaid == {x \in Slips(d) : slip[x] # "paid"}
  <2>1. request.kind = "payAll" /\ request.doc = d
    BY DEF Ask
  <2>2. /\ Start(r, request, "readSafe") /\ UNCHANGED <<period, slip>>
        /\ seen' = [seen EXCEPT ![r] = [Nothing EXCEPT !.rows = unpaid]]
    BY <1>8 DEF ReceivePayPeriod, payrollVars
  <2>3. seen'[r].rows = unpaid /\ \A q \in Requests \ {r} : seen'[q] = seen[q]
    BY <1>0, <2>2 DEF Nothing
  <2>4. unpaid = {x \in Slips(d) : slip[x] # "paid"}
    OBVIOUS
  <2> HIDE DEF request, unpaid
  <2>5. About(r, p)' => Knows(r, p)'
    <3>1. CASE d = p
      <4>1. \A x \in Slips(p)' : slip'[x] = "paid" \/ x \in seen'[r].rows
        BY <2>2, <2>3, <2>4, <3>1 DEF Slips, Exists
      <4> QED BY <1>1, <2>1, <2>2, <4>1 DEF Knows
    <3> QED BY <1>1, <2>1, <2>2, <3>1 DEF About
  <2> QED BY <1>1, <2>2, <2>3, <2>5, PeriodStands DEF OthersStay
<1>9. ASSUME NEW d \in Periods, NEW s \in Desks[d], NEW x \in RowsOf(d), ReceivePayment(r, x, s)
      PROVE  DeskInv(p)'
  <2> DEFINE request == [Ask("payOne", x[1]) EXCEPT !.safe = s, !.row = x]
  <2>1. request.kind = "payOne" /\ request.doc = d /\ request.safe = s
    BY DEF Ask, RowsOf
  <2>2. Start(r, request, "readSafe") /\ UNCHANGED <<period, slip, seen>>
    BY <1>9 DEF ReceivePayment, Send, payrollVars
  <2> HIDE DEF request
  <2>3. About(r, p)' => Knows(r, p)'
    BY <1>1, <2>1, <2>2 DEF About, Knows, Safe
  <2> QED BY <1>1, <2>2, <2>3, PeriodStands DEF OthersStay
<1> QED BY <1>4, <1>5, <1>6, <1>7, <1>8, <1>9 DEF Receive, PayrollRequest

\* A step of r that ends it, or takes it on without a change of a period or a record.
LEMMA PlainStepFollows ==
  ASSUME TypesInv, PayrollInv, NEW p \in OneDesk, DeskInv(p), NEW r \in Requests,
         \/ ReadSafe(r) \/ InsertAdvance(r) \/ GrantAdvance(r) \/ RejectAdvance(r) \/ Settle(r)
         \/ DeleteCustody(r) \/ (\E e \in Staff : Look(r, e)) \/ DebitSalary(r) \/ Fail(r)
  PROVE  DeskInv(p)'
<1>0. pc \in [Requests -> Places] /\ job \in [Requests -> Job] /\ seen \in [Requests -> View]
  BY DEF TypesInv, RequestTypes
<1>1. UNCHANGED <<period, slip>> /\ OthersStay(r)
  BY <1>0 DEF ReadSafe, InsertAdvance, GrantAdvance, RejectAdvance, Settle, DeleteCustody, Look,
              DebitSalary, Fail, Abandon, Answer, Goto, OthersStay, payrollVars
<1>2. \/ pc'[r] = "idle"
      \/ /\ pc[r] # "idle" /\ pc'[r] \notin {"finish", "idle"} /\ UNCHANGED <<job, seen>>
      \/ \E e \in Staff : Look(r, e)
  <2>1. CASE ReadSafe(r)
    <3>1. pc[r] = "readSafe" /\ job[r].kind \in {"approve", "payAll", "payOne"}
      BY <2>1 DEF ReadSafe, TypesInv, Stands
    <3> QED BY <1>0, <2>1, <3>1 DEF ReadSafe, Abandon, Goto
  <2>2. CASE InsertAdvance(r) \/ GrantAdvance(r) \/ RejectAdvance(r) \/ DeleteCustody(r)
    BY <1>0, <2>2 DEF InsertAdvance, GrantAdvance, RejectAdvance, DeleteCustody, Answer, Goto
  <2>3. CASE Settle(r)
    BY <1>0, <2>3 DEF Settle, Abandon, Answer, Goto
  <2>4. CASE DebitSalary(r)
    BY <1>0, <2>4 DEF DebitSalary, Goto
  <2>5. CASE Fail(r)
    BY <1>0, <2>5 DEF Fail, Abandon, Goto
  <2> QED BY <2>1, <2>2, <2>3, <2>4, <2>5
<1>3. ASSUME About(r, p)' PROVE Knows(r, p)'
  <2>1. CASE pc[r] # "idle" /\ pc'[r] \notin {"finish", "idle"} /\ UNCHANGED <<job, seen>>
    <3>1. Knows(r, p)
      BY <1>3, <2>1 DEF DeskInv, About, Doc
    <3> QED BY <1>1, <2>1, <3>1, StillKnows
  <2>2. ASSUME NEW e \in Staff, Look(r, e) PROVE Knows(r, p)'
    <3>1. pc[r] = "look" /\ (UNCHANGED <<job, pc>> \/ Goto(r, "slip"))
      BY <2>2 DEF Look
    <3>2. job[r].kind = "process"
      BY <3>1 DEF PayrollInv, PayTyping, Fits
    <3>3. job'[r].kind = "process" /\ pc'[r] # "finish"
      BY <1>0, <2>2, <3>1, <3>2 DEF Look, Goto, Job
    <3> QED BY <3>3 DEF Knows
  <2> QED BY <1>2, <1>3, <2>1, <2>2 DEF About
<1> QED BY <1>1, <1>3, PeriodStands

\* Two steps of a period that one request is alone with.
LEMMA AloneStepFollows ==
  ASSUME TypesInv, TypesInv', PayrollInv, PayrollInv', NEW p \in OneDesk, DeskInv(p), NEW r \in Requests,
         InsertSlip(r) \/ Processed(r) \/ ApproveSlips(r) \/ PayPeriod(r)
  PROVE  DeskInv(p)'
<1>0. /\ pc \in [Requests -> Places] /\ job \in [Requests -> Job] /\ seen \in [Requests -> View]
      /\ DOMAIN period = Periods /\ DOMAIN slip = Rows /\ p \in Calm /\ p \in Periods
  BY DEF TypesInv, RequestTypes, PayrollTypes, OneDesk, Calm
<1>1. /\ pc[r] # "idle" /\ job'[r] = job[r] /\ OthersStay(r)
      /\ job[r].kind \in {"process", "approvePeriod", "payAll"}
      /\ pc'[r] # "finish" /\ (job[r].kind # "process" => pc'[r] = "idle")
  <2>1. Fits(r)
    BY DEF PayrollInv, PayTyping
  <2> QED BY <1>0, <2>1 DEF InsertSlip, Processed, ApproveSlips, PayPeriod, Answer, Goto, OthersStay, Fits
<1>2. ASSUME ~ About(r, p) PROVE DeskInv(p)'
  <2>1. Doc(r) # p
    BY <1>1, <1>2 DEF About
  <2>2. period'[p] = period[p]
    BY <1>0, <2>1 DEF InsertSlip, Processed, ApproveSlips, PayPeriod
  <2>3. \A x \in RowsOf(p) : x \in Rows /\ x \notin RowsOf(Doc(r))
    BY <2>1, RowsApart DEF RowsOf
  <2>4. \A x \in RowsOf(p) : slip'[x] = slip[x]
    <3>1. Fits(r)
      BY DEF PayrollInv, PayTyping
    <3>2. CASE InsertSlip(r)
      BY <1>0, <2>3, <3>1, <3>2 DEF InsertSlip, Fits
    <3>3. CASE Processed(r)
      BY <3>3 DEF Processed
    <3>4. CASE ApproveSlips(r)
      BY <2>3, <3>4 DEF ApproveSlips, Slips
    <3>5. CASE PayPeriod(r)
      BY <1>1, <2>3, <3>1, <3>5 DEF PayPeriod, Fits
    <3> QED BY <3>2, <3>3, <3>4, <3>5
  <2>5. ~ About(r, p)'
    BY <1>1, <2>1 DEF About, Doc
  <2> QED BY <1>1, <2>2, <2>4, <2>5, PeriodStands
<1>3. ASSUME About(r, p) PROVE DeskInv(p)'
  <2>1. Stage(r, p) /\ Records(p) /\ Records(p)' /\ Doc(r) = p /\ Knows(r, p)
    BY <1>0, <1>3 DEF PayrollInv, PeriodInv, About, DeskInv
  <2>2. About(r, p)' => Knows(r, p)'
    BY <1>1 DEF Knows, About
  <2>3. Slips(p)' \subseteq RowsOf(p) /\ Slips(p) \subseteq RowsOf(p) /\ RowsOf(p) \subseteq Rows
    BY DEF Slips, RowsOf
  <2>4. CASE InsertSlip(r) \/ Processed(r)
    <3>1. period'[p] \in {"draft", "processing"}
      <4>1. Fits(r)
        BY DEF PayrollInv, PayTyping
      <4> QED BY <1>0, <2>1, <2>4, <4>1 DEF InsertSlip, Processed, Fits, Stage
    <3>2. \A x \in RowsOf(p) : slip'[x] # "paid"
      BY <2>1, <3>1 DEF Records
    <3>3. Follows(p)'
      BY <2>3, <3>1, <3>2 DEF Follows
    <3> QED BY <1>1, <1>3, <2>2, <3>3, PeriodChanges
  <2>5. CASE ApproveSlips(r)
    <3>1. job[r].kind = "approvePeriod"
      BY <2>5 DEF ApproveSlips, PayrollInv, PayTyping, Fits
    <3>2. period[p] = "approved" /\ \A x \in RowsOf(p) : slip[x] # "paid"
      BY <2>1, <3>1 DEF Stage
    <3>3. period'[p] = "approved" /\ \A x \in RowsOf(p) : slip'[x] # "paid"
      BY <2>3, <2>5, <3>2 DEF ApproveSlips
    <3>4. Follows(p)'
      BY <2>3, <3>3 DEF Follows
    <3> QED BY <1>1, <1>3, <2>2, <3>4, PeriodChanges
  <2>6. CASE PayPeriod(r)
    <3>1. job[r].kind = "payAll"
      BY <2>6 DEF PayPeriod, PayrollInv, PayTyping, Fits
    <3>2. \A x \in Slips(p) : slip[x] = "paid" \/ x \in seen[r].rows
      BY <2>1, <3>1 DEF Knows
    <3>3. \A x \in seen[r].rows : slip[x] # "none"
      BY <2>1, <3>1 DEF Stage
    <3>4. slip' = [x \in Rows |-> IF x \in seen[r].rows THEN "paid" ELSE slip[x]] /\ period'[p] = "paid"
      BY <1>0, <2>1, <2>6 DEF PayPeriod
    <3>5. \A x \in Slips(p)' : slip'[x] = "paid"
      BY <2>3, <3>2, <3>3, <3>4 DEF Slips, Exists
    <3>6. Follows(p)'
      BY <3>4, <3>5 DEF Follows
    <3> QED BY <1>1, <1>3, <2>2, <3>6, PeriodChanges
  <2> QED BY <2>4, <2>5, <2>6
<1> QED BY <1>2, <1>3

\* What is read just before the COMMIT is whether this is the last salary ...
LEMMA CountFollows ==
  ASSUME TypesInv, PayrollInv, NEW p \in OneDesk, DeskInv(p), NEW r \in Requests, CountUnpaid(r)
  PROVE  DeskInv(p)'
<1>0. pc \in [Requests -> Places] /\ job \in [Requests -> Job] /\ seen \in [Requests -> View]
  BY DEF TypesInv, RequestTypes
<1>1. /\ UNCHANGED <<period, slip, job>> /\ OthersStay(r) /\ pc[r] = "count" /\ pc'[r] = "finish"
  BY <1>0 DEF CountUnpaid, OthersStay, Goto, payrollVars
<1>2. job[r].kind = "payOne"
  BY <1>1 DEF PayrollInv, PayTyping, Fits
<1>3. seen'[r].last = (\A x \in Slips(Doc(r)) : x = Row(r) \/ slip[x] = "paid")
  <2> DEFINE lastOne == \A x \in Slips(Doc(r)) : x = Row(r) \/ slip[x] = "paid"
  <2>1. seen' = [seen EXCEPT ![r].last = lastOne]
    BY DEF CountUnpaid
  <2>2. seen[r] \in View
    BY <1>0
  <2> HIDE DEF lastOne
  <2>3. seen'[r].last = lastOne
    BY <1>0, <2>1, <2>2 DEF View
  <2> QED BY <2>3 DEF lastOne
<1>4. ASSUME About(r, p)' PROVE Knows(r, p)'
  <2>1. About(r, p) /\ Doc(r) = p /\ Safe(r)' = Safe(r) /\ Row(r)' = Row(r)
    BY <1>1, <1>4 DEF About, Doc, Safe, Row
  <2>2. Slips(p)' = Slips(p)
    BY <1>1 DEF Slips, Exists
  <2>3. Knows(r, p)
    BY <2>1 DEF DeskInv
  <2> QED BY <1>1, <1>2, <1>3, <2>1, <2>2, <2>3 DEF Knows
<1> QED BY <1>1, <1>4, PeriodStands

\* ... and nobody else pays a salary of the period in between: he would need the
\* same safe.
LEMMA CommitFollows ==
  ASSUME TypesInv, PayrollInv, TakeTurns, NEW p \in OneDesk, DeskInv(p), NEW r \in Requests,
         CommitPayment(r)
  PROVE  DeskInv(p)'
<1>0. /\ pc \in [Requests -> Places] /\ job \in [Requests -> Job]
      /\ DOMAIN period = Periods /\ DOMAIN slip = Rows /\ p \in Calm /\ p \in Periods
      /\ DOMAIN seen = Requests
  BY DEF TypesInv, RequestTypes, PayrollTypes, OneDesk, Calm
<1>1. /\ OthersStay(r) /\ pc[r] = "finish" /\ pc'[r] = "idle"
      /\ slip' = [slip EXCEPT ![Row(r)] = "paid"]
      /\ period' = [period EXCEPT ![Doc(r)] = IF seen[r].last THEN "paid" ELSE @]
  BY <1>0 DEF CommitPayment, OthersStay, Goto, Answer
<1>2. job[r].kind = "payOne" /\ Row(r) \in RowsOf(Doc(r))
  BY <1>1 DEF PayrollInv, PayTyping, Fits
<1>3. ~ About(r, p)'
  BY <1>1 DEF About
<1>4. CASE Doc(r) # p
  <2>1. \A x \in RowsOf(p) : x # Row(r) /\ x \in Rows
    BY <1>2, <1>4, RowsApart
  <2>2. period'[p] = period[p] /\ \A x \in RowsOf(p) : slip'[x] = slip[x]
    BY <1>0, <1>1, <1>4, <2>1
  <2> QED BY <1>1, <1>3, <2>2, PeriodStands
<1>5. CASE Doc(r) = p
  <2>1. About(r, p) /\ Stage(r, p) /\ Knows(r, p) /\ Follows(p)
    BY <1>0, <1>1, <1>5 DEF About, PayrollInv, PeriodInv, DeskInv
  <2>2. slip[Row(r)] \notin {"none", "paid"} /\ Row(r) \in Slips(p)
    BY <1>2, <1>5, <2>1 DEF Stage, Slips, Exists
  <2>3. Slips(p)' = Slips(p) /\ Slips(p) \subseteq Rows
    BY <1>0, <1>1, <2>2 DEF Slips, Exists, RowsOf
  <2>4. \A x \in Slips(p) : slip'[x] = IF x = Row(r) THEN "paid" ELSE slip[x]
    BY <1>0, <1>1, <2>3
  <2>5. seen[r].last <=> \A x \in Slips(p) : slip'[x] = "paid"
    BY <1>1, <2>1, <2>4 DEF Knows
  <2>6. period[p] # "paid"
    BY <2>1, <2>2 DEF Follows
  <2>7. period'[p] = "paid" <=> seen[r].last
    BY <1>0, <1>1, <1>5, <2>6
  <2>8. Follows(p)'
    BY <2>3, <2>5, <2>7 DEF Follows
  <2>9. ASSUME NEW q \in Requests, About(q, p)' PROVE Knows(q, p)'
    <3>1. q # r /\ pc'[q] = pc[q] /\ job'[q] = job[q] /\ seen'[q] = seen[q]
      BY <1>1, <1>3, <2>9 DEF OthersStay
    <3>2. About(q, p) /\ Safe(q)' = Safe(q)
      BY <2>9, <3>1 DEF About, Doc, Safe
    <3>3. Agree(job[r], job[q])
      BY <1>0, <2>1, <3>1, <3>2 DEF PayrollInv, PeriodInv
    <3>4. job[q].kind = "payOne" /\ Knows(q, p)
      BY <1>2, <3>2, <3>3 DEF Agree, DeskInv
    <3>5. Safe(q) = Safe(r)
      BY <1>2, <2>1, <3>4 DEF Knows, OneDesk
    <3>6. pc[q] # "finish"
      BY <1>1, <3>1, <3>5 DEF TakeTurns, Paying
    <3> QED BY <3>1, <3>2, <3>4, <3>6 DEF Knows
  <2> QED BY <2>8, <2>9 DEF DeskInv
<1> QED BY <1>4, <1>5

LEMMA AtOnceFollows ==
  ASSUME TypesInv, PayrollInv, NEW p \in OneDesk, DeskInv(p), AtOnceRequest \/ UNCHANGED vars
  PROVE  DeskInv(p)'
<1>1. UNCHANGED <<period, job, pc, seen>>
  BY DEF AtOnceRequest, CancelAdvance, ManualPayment, GrantCustody, Reimburse, ReviewSlip, AtOnce,
         vars, payrollVars
<1>2. \A q \in Requests : About(q, p)' = About(q, p) /\ Safe(q)' = Safe(q) /\ Row(q)' = Row(q)
  BY <1>1 DEF About, Doc, Safe, Row
<1>3. CASE \A x \in RowsOf(p) : slip'[x] = slip[x]
  <2>1. Slips(p)' = Slips(p) /\ Slips(p) \subseteq RowsOf(p)
    BY <1>3 DEF Slips, Exists
  <2> QED BY <1>1, <1>2, <1>3, <2>1 DEF DeskInv, Follows, Knows
<1>4. ASSUME NEW x \in Rows, NEW verdict \in {"approved", "rejected"}, ReviewSlip(x, verdict)
      PROVE  DeskInv(p)'
  <2>1. /\ slip' = [slip EXCEPT ![x] = verdict] /\ slip[x] # "none" /\ DOMAIN slip = Rows
        /\ slip[x] # "paid" \/ x[1] \in Reviewed
        /\ x[1] \in Shared \/ \A q \in Requests : ~ About(q, x[1])
    BY <1>4 DEF ReviewSlip, Exists, Alone, Idle, About, TypesInv, PayrollTypes
  <2>2. CASE x \notin RowsOf(p)
    BY <1>3, <2>1, <2>2, RowsApart
  <2>3. CASE x \in RowsOf(p)
    <3>1. x[1] = p /\ p \notin Shared /\ p \notin Reviewed
      BY <2>3 DEF RowsOf, OneDesk, Calm
    <3>2. slip[x] # "paid" /\ \A q \in Requests : ~ About(q, p)'
      BY <1>2, <2>1, <3>1
    <3>3. Slips(p)' = Slips(p) /\ x \in Slips(p) /\ slip'[x] # "paid" /\ period' = period
      BY <1>1, <2>1, <2>3 DEF Slips, Exists, RowsOf
    <3>4. Follows(p)'
      BY <3>2, <3>3 DEF DeskInv, Follows
    <3> QED BY <3>2, <3>4 DEF DeskInv
  <2> QED BY <2>2, <2>3
<1>5. UNCHANGED slip \/ \E x \in Rows, verdict \in {"approved", "rejected"} : ReviewSlip(x, verdict)
  BY DEF AtOnceRequest, CancelAdvance, ManualPayment, GrantCustody, Reimburse, vars, payrollVars
<1> QED BY <1>3, <1>4, <1>5

\* Whoever begins to pay a salary finds its safe free.
LEMMA TurnsStep == TypesInv /\ TakeTurns /\ [Next]_vars => TakeTurns'
<1> SUFFICES ASSUME TypesInv, TakeTurns, [Next]_vars PROVE TakeTurns'
  OBVIOUS
<1>0. pc \in [Requests -> Places] /\ job \in [Requests -> Job]
  BY DEF TypesInv, RequestTypes
<1>1. ASSUME NEW r \in Requests, \A q \in Requests \ {r} : pc'[q] = pc[q] /\ job'[q] = job[q],
             \/ pc'[r] \notin {"count", "finish"}
             \/ job'[r] = job[r] /\ (pc[r] \in {"count", "finish"} \/ SafeFree(Safe(r)))
      PROVE  TakeTurns'
  <2>1. \A q \in Requests \ {r} : Paying(q)' = Paying(q) /\ Safe(q)' = Safe(q)
    BY <1>1 DEF Paying, Safe
  <2>2. CASE ~ Paying(r)'
    BY <2>1, <2>2 DEF TakeTurns
  <2>3. CASE Paying(r)'
    <3>1. Safe(r)' = Safe(r) /\ (Paying(r) \/ SafeFree(Safe(r)))
      BY <1>1, <2>3 DEF Paying, Safe
    <3>2. \A q \in Requests \ {r} : ~ (Paying(q) /\ Safe(q) = Safe(r))
      BY <3>1 DEF TakeTurns, SafeFree
    <3> QED BY <2>1, <3>1, <3>2 DEF TakeTurns
  <2> QED BY <2>2, <2>3
<1>2. CASE UNCHANGED <<job, pc>>
  BY <1>2 DEF TakeTurns, Paying, Safe
<1>3. CASE AtOnceRequest \/ UNCHANGED vars
  BY <1>2, <1>3 DEF AtOnceRequest, CancelAdvance, ManualPayment, GrantCustody, Reimburse, ReviewSlip,
                    AtOnce, vars
<1>4. ASSUME NEW r \in Requests, Receive(r) PROVE TakeTurns'
  <2>1. PICK first \in {"insert", "reject", "readSafe", "delete", "settle", "look", "approveSlips"} :
          Goto(r, first)
    BY <1>4 DEF Receive, AdvanceRequest, CustodyRequest, PayrollRequest, ReceiveAdvance,
                ReceiveRejection, ReceiveApproval, ReceiveDeletion, ReceiveSettlement,
                ReceiveProcess, ApprovePeriod, ReceivePayPeriod, ReceivePayment, Send, Start
  <2>2. \A q \in Requests \ {r} : job'[q] = job[q]
    BY <1>0, <1>4 DEF Receive, AdvanceRequest, CustodyRequest, PayrollRequest, ReceiveAdvance,
                ReceiveRejection, ReceiveApproval, ReceiveDeletion, ReceiveSettlement,
                ReceiveProcess, ApprovePeriod, ReceivePayPeriod, ReceivePayment, Send, Start
  <2> QED BY <1>0, <1>1, <2>1, <2>2 DEF Goto
<1>5. ASSUME NEW r \in Requests, Step(r) \/ Fail(r) PROVE TakeTurns'
  <2>1. \A q \in Requests \ {r} : pc'[q] = pc[q] /\ job'[q] = job[q]
    BY <1>0, <1>5 DEF Step, ReadSafe, InsertAdvance, GrantAdvance, RejectAdvance, Settle, DeleteCustody,
                      Look, InsertSlip, Processed, ApproveSlips, PayPeriod, DebitSalary, CountUnpaid,
                      CommitPayment, Fail, Abandon, Answer, Goto
  <2>2. CASE ReadSafe(r)
    <3>1. pc[r] = "readSafe" /\ job[r].kind \in {"approve", "payAll", "payOne"}
      BY <2>2 DEF ReadSafe, TypesInv, Stands
    <3> QED BY <1>0, <1>1, <2>1, <2>2, <3>1 DEF ReadSafe, Abandon, Goto
  <2>3. CASE DebitSalary(r) \/ CountUnpaid(r)
    BY <1>0, <1>1, <2>1, <2>3 DEF DebitSalary, CountUnpaid, Goto
  <2>4. CASE \E e \in Staff : Look(r, e)
    BY <1>0, <1>1, <2>1, <2>4 DEF Look, Goto
  <2>5. CASE \/ InsertAdvance(r) \/ GrantAdvance(r) \/ RejectAdvance(r) \/ Settle(r)
             \/ DeleteCustody(r) \/ InsertSlip(r) \/ Processed(r) \/ ApproveSlips(r)
             \/ PayPeriod(r) \/ CommitPayment(r) \/ Fail(r)
    BY <1>0, <1>1, <2>1, <2>5
       DEF InsertAdvance, GrantAdvance, RejectAdvance, Settle, DeleteCustody, InsertSlip, Processed,
           ApproveSlips, PayPeriod, CommitPayment, Fail, Abandon, Answer, Goto
  <2> QED BY <1>5, <2>2, <2>3, <2>4, <2>5 DEF Step
<1> QED BY <1>3, <1>4, <1>5 DEF Next, Quiescent

FollowInv == TakeTurns /\ \A p \in OneDesk : DeskInv(p)

LEMMA StepFollows ==
  TypesInv /\ TypesInv' /\ PayrollInv /\ PayrollInv' /\ FollowInv /\ [Next]_vars => FollowInv'
<1> SUFFICES ASSUME TypesInv, TypesInv', PayrollInv, PayrollInv', FollowInv, [Next]_vars,
                    NEW p \in OneDesk
             PROVE  DeskInv(p)'
  BY TurnsStep DEF FollowInv
<1>1. DeskInv(p) /\ TakeTurns
  BY DEF FollowInv
<1>2. CASE AtOnceRequest \/ UNCHANGED vars
  BY <1>1, <1>2, AtOnceFollows
<1>3. ASSUME NEW r \in Requests, Receive(r) PROVE DeskInv(p)'
  BY <1>1, <1>3, ReceiveFollows
<1>4. ASSUME NEW r \in Requests, Step(r) \/ Fail(r) PROVE DeskInv(p)'
  BY <1>1, <1>4, PlainStepFollows, AloneStepFollows, CountFollows, CommitFollows DEF Step
<1> QED BY <1>2, <1>3, <1>4 DEF Next, Quiescent

\* A period of which one person asks at a time and that is paid from one safe is paid
\* when all its salaries are, and not before, however many cashiers pay them.
THEOREM PeriodAlwaysFollows == Spec => []PeriodFollowsSalaries
<1>1. Init => FollowInv
  <2> SUFFICES ASSUME Init PROVE FollowInv
    OBVIOUS
  <2>1. \A r \in Requests : ~ Paying(r) /\ \A p : ~ About(r, p)
    BY DEF Init, Paying, About
  <2>2. \A p \in OneDesk : Slips(p) = {} /\ period[p] # "paid"
    BY DEF Init, Slips, RowsOf, Exists, OneDesk, Calm
  <2>3. \A p \in OneDesk : DeskInv(p)
    BY <2>1, <2>2 DEF DeskInv, Follows
  <2> QED BY <2>1, <2>3 DEF FollowInv, TakeTurns
<1>2. PayrollInv /\ FollowInv => PeriodFollowsSalaries
  <2> SUFFICES ASSUME PayrollInv, FollowInv, NEW p \in OneDesk, NEW x \in Slips(p), paidOut[x] > 0
               PROVE  period[p] = "paid" <=> \A y \in Slips(p) : slip[y] = "paid"
    BY DEF PeriodFollowsSalaries, OneDesk, Calm
  <2>1. slip[x] = "paid"
    BY DEF PayrollInv, PeriodInv, Records, OneDesk, Slips
  <2> QED BY <2>1 DEF FollowInv, DeskInv, Follows
<1>3. AdvanceInv => Typing
  BY DEF AdvanceInv
<1> QED BY <1>1, <1>2, <1>3, StepFollows, TypesAlways, InitAdvanceInv, StepAdvanceInv, InitPayrollInv,
           StepPayrollInv, PTL DEF Spec

-----------------------------------------------------------------------------
(* The book of the petty cash *)

\* The petty cash pays for its own custodies, of which one person asks at a time, and
\* for nothing else.
PettyApart ==
  /\ PettyCustodies \cap Shared = {}
  /\ \A d \in Docs : IF d \in PettyCustodies THEN Desks[d] \subseteq {Petty} ELSE Petty \notin Desks[d]

AtTheSafe == {"readSafe", "approve", "payAll", "payOne", "count", "finish"}

\* Request r takes cash from elsewhere; what it accounts for makes up the custody; the
\* custody it deletes is still open.
Handles(r) ==
  /\ pc[r] \in AtTheSafe => Safe(r) # Petty
  /\ pc[r] = "settle" => /\ job[r].kind = "settle"
                         /\ job[r].back <= Worth[Doc(r)]
                         /\ job[r].back = 0 \/ job[r].more = 0
  /\ pc[r] = "delete" => /\ job[r].kind = "delete"
                         /\ Doc(r) \in PettyCustodies => custody[Doc(r)] = "open"

\* Whoever deletes a custody is alone with it.
DeletesAlone ==
  \A r, q \in Requests :
    /\ pc[r] = "delete" /\ pc[q] \in {"delete", "settle"}
    /\ Doc(r) = Doc(q) /\ Doc(r) \in PettyCustodies
    => r = q

CustodyInv == DeletesAlone /\ \A r \in Requests : Handles(r)

\* No custody that is open changes, and r goes on to something it can handle.
LEMMA CustodyStands ==
  ASSUME TypesInv, CustodyInv, NEW r \in Requests,
         \A q \in Requests \ {r} : pc'[q] = pc[q] /\ job'[q] = job[q],
         pc'[r] \notin {"settle", "delete"},
         pc'[r] \in AtTheSafe => Safe(r)' # Petty,
         \A c \in PettyCustodies :
           custody'[c] = custody[c] \/ custody[c] # "open"
           \/ \A q \in Requests \ {r} : pc[q] = "delete" => Doc(q) # c
  PROVE  CustodyInv'
<1>1. \A q \in Requests \ {r} : Doc(q)' = Doc(q) /\ Safe(q)' = Safe(q)
  BY DEF Doc, Safe
<1>2. DeletesAlone'
  BY <1>1 DEF CustodyInv, DeletesAlone
<1>3. Handles(r)'
  BY DEF Handles
<1>4. ASSUME NEW q \in Requests \ {r} PROVE Handles(q)'
  BY <1>1 DEF CustodyInv, Handles
<1> QED BY <1>2, <1>3, <1>4 DEF CustodyInv

LEMMA ReceiveHandles ==
  ASSUME PettyApart, TypesInv, CustodyInv, NEW r \in Requests, Receive(r)
  PROVE  CustodyInv'
<1>0. /\ pc \in [Requests -> Places] /\ job \in [Requests -> Job]
      /\ \A c \in Custodies : c \notin Advances /\ c \notin Periods
      /\ \A d \in Advances \cup Periods : d \in Docs /\ d \notin PettyCustodies /\ Petty \notin Desks[d]
  BY StaffAssumption DEF TypesInv, RequestTypes, PettyApart, Docs, PettyCustodies
<1>1. ASSUME NEW request, NEW first, Start(r, request, first)
      PROVE  /\ job'[r] = request /\ pc'[r] = first /\ Doc(r)' = request.doc /\ Safe(r)' = request.safe
             /\ \A q \in Requests \ {r} : pc'[q] = pc[q] /\ job'[q] = job[q]
             /\ \A q \in Requests : pc[q] # "idle" /\ Doc(q) = request.doc /\ Doc(q) \notin Shared
                                    => Agree(request, job[q])
  BY <1>0, <1>1 DEF Start, Goto, Doc, Safe, Idle
<1>2. \A kind, d : Ask(kind, d).kind = kind /\ Ask(kind, d).doc = d
  BY DEF Ask
<1>3. UNCHANGED custody
  BY DEF Receive, AdvanceRequest, CustodyRequest, PayrollRequest, ReceiveAdvance, ReceiveRejection,
         ReceiveApproval, ReceiveDeletion, ReceiveSettlement, ReceiveProcess, ApprovePeriod,
         ReceivePayPeriod, ReceivePayment, Send, custodyVars
<1>4. ASSUME NEW request, NEW first, Start(r, request, first),
             first \notin {"settle", "delete"}, first \in AtTheSafe => request.safe # Petty
      PROVE  CustodyInv'
  BY <1>1, <1>3, <1>4, CustodyStands
<1>5. ASSUME NEW a \in Advances, AdvanceRequest(r, a) PROVE CustodyInv'
  <2>1. CASE ReceiveAdvance(r, a)
    BY <1>4, <2>1 DEF ReceiveAdvance, Send, AtTheSafe
  <2>2. CASE ReceiveRejection(r, a)
    BY <1>4, <2>2 DEF ReceiveRejection, Send, AtTheSafe
  <2>3. ASSUME NEW s \in Desks[a], ReceiveApproval(r, a, s) PROVE CustodyInv'
    <3> DEFINE request == [Ask("approve", a) EXCEPT !.safe = s]
    <3>1. request.safe = s /\ s # Petty
      BY <1>0 DEF Ask
    <3>2. Start(r, request, "readSafe")
      BY <2>3 DEF ReceiveApproval, Send
    <3> HIDE DEF request
    <3> QED BY <1>4, <3>1, <3>2
  <2> QED BY <1>5, <2>1, <2>2, <2>3 DEF AdvanceRequest
<1>6. ASSUME NEW p \in Periods, PayrollRequest(r, p) PROVE CustodyInv'
  <2>1. CASE ReceiveProcess(r, p)
    BY <1>4, <2>1 DEF ReceiveProcess, AtTheSafe
  <2>2. CASE ApprovePeriod(r, p)
    BY <1>4, <2>2 DEF ApprovePeriod, AtTheSafe
  <2>3. ASSUME NEW s \in Desks[p], ReceivePayPeriod(r, p, s) PROVE CustodyInv'
    <3> DEFINE request == [Ask("payAll", p) EXCEPT !.safe = s]
    <3>1. request.safe = s /\ s # Petty
      BY <1>0 DEF Ask
    <3>2. Start(r, request, "readSafe")
      BY <2>3 DEF ReceivePayPeriod
    <3> HIDE DEF request
    <3> QED BY <1>4, <3>1, <3>2
  <2>4. ASSUME NEW s \in Desks[p], NEW x \in RowsOf(p), ReceivePayment(r, x, s) PROVE CustodyInv'
    <3> DEFINE request == [Ask("payOne", x[1]) EXCEPT !.safe = s, !.row = x]
    <3>1. request.safe = s /\ s # Petty
      BY <1>0 DEF Ask
    <3>2. Start(r, request, "readSafe")
      BY <2>4 DEF ReceivePayment, Send
    <3> HIDE DEF request
    <3> QED BY <1>4, <3>1, <3>2
  <2> QED BY <1>6, <2>1, <2>2, <2>3, <2>4 DEF PayrollRequest
<1>7. ASSUME NEW c \in Custodies, CustodyRequest(r, c) PROVE CustodyInv'
  <2>1. PICK request, first :
          /\ Start(r, request, first) /\ request.doc = c /\ custody[c] = "open"
          /\ request.kind = first /\ first \in {"settle", "delete"}
          /\ first = "settle" => request.back <= Worth[c] /\ (request.back = 0 \/ request.more = 0)
    <3>1. CASE ReceiveDeletion(r, c)
      BY <1>2, <3>1 DEF ReceiveDeletion, Send
    <3>2. ASSUME NEW back \in 0..Worth[c], NEW more \in 0..Excess, ReceiveSettlement(r, c, back, more)
          PROVE  \E request, first :
                   /\ Start(r, request, first) /\ request.doc = c /\ custody[c] = "open"
                   /\ request.kind = first /\ first \in {"settle", "delete"}
                   /\ first = "settle" => request.back <= Worth[c] /\ (request.back = 0 \/ request.more = 0)
      <4> DEFINE request == [Ask("settle", c) EXCEPT !.back = back, !.more = more]
      <4>1. request.kind = "settle" /\ request.doc = c /\ request.back = back /\ request.more = more
        BY DEF Ask
      <4>2. Start(r, request, "settle") /\ custody[c] = "open" /\ (back = 0 \/ more = 0)
        BY <3>2 DEF ReceiveSettlement, Send
      <4>3. back <= Worth[c]
        BY StaffAssumption
      <4> HIDE DEF request
      <4> QED BY <4>1, <4>2, <4>3
    <3> QED BY <1>7, <3>1, <3>2 DEF CustodyRequest
  <2>2. /\ job'[r] = request /\ pc'[r] = first /\ Doc(r)' = c
        /\ \A q \in Requests \ {r} : pc'[q] = pc[q] /\ job'[q] = job[q] /\ Doc(q)' = Doc(q)
                                      /\ Safe(q)' = Safe(q)
    BY <1>1, <2>1 DEF Doc, Safe
  <2>3. ASSUME NEW q \in Requests \ {r}, c \in PettyCustodies, Doc(q) = c,
               pc[q] \in {"settle", "delete"}
        PROVE  job[q].kind = "settle" /\ request.kind = "settle"
    <3>1. Doc(q) \notin Shared /\ pc[q] # "idle"
      BY <2>3 DEF PettyApart
    <3>2. Agree(request, job[q])
      BY <1>1, <2>1, <2>3, <3>1
    <3> QED BY <2>1, <3>2 DEF Agree
  <2>4. \A q \in Requests : pc[q] = "delete" => job[q].kind = "delete"
    BY DEF CustodyInv, Handles
  <2>5. DeletesAlone'
    BY <2>1, <2>2, <2>3, <2>4 DEF CustodyInv, DeletesAlone
  <2>6. Handles(r)'
    BY <1>3, <2>1, <2>2 DEF Handles, AtTheSafe
  <2>7. ASSUME NEW q \in Requests \ {r} PROVE Handles(q)'
    BY <1>3, <2>2 DEF CustodyInv, Handles
  <2> QED BY <2>5, <2>6, <2>7 DEF CustodyInv
<1> QED BY <1>5, <1>6, <1>7 DEF Receive

LEMMA StepHandles ==
  ASSUME TypesInv, CustodyInv, NEW r \in Requests, Step(r) \/ Fail(r)
  PROVE  CustodyInv'
<1>0. pc \in [Requests -> Places] /\ job \in [Requests -> Job] /\ DOMAIN custody = Custodies
  BY DEF TypesInv, RequestTypes, CustodyTypes
<1>1. \A q \in Requests \ {r} : pc'[q] = pc[q] /\ job'[q] = job[q]
  BY <1>0 DEF Step, ReadSafe, InsertAdvance, GrantAdvance, RejectAdvance, Settle, DeleteCustody,
              Look, InsertSlip, Processed, ApproveSlips, PayPeriod, DebitSalary, CountUnpaid,
              CommitPayment, Fail, Abandon, Answer, Goto
<1>2. CASE ReadSafe(r)
  <2>1. /\ pc[r] = "readSafe" /\ job[r].kind \in {"approve", "payAll", "payOne"}
        /\ Safe(r) # Petty
    BY <1>2 DEF ReadSafe, TypesInv, Stands, CustodyInv, Handles, AtTheSafe
  <2>2. pc'[r] \in {"idle", "approve", "payAll", "payOne"} /\ UNCHANGED <<job, custodyVars>>
    BY <1>0, <1>2, <2>1 DEF ReadSafe, Abandon, Goto
  <2> QED BY <1>1, <2>1, <2>2, CustodyStands DEF Safe, custodyVars
<1>3. CASE DebitSalary(r) \/ CountUnpaid(r)
  <2>1. /\ Safe(r) # Petty /\ pc'[r] \in {"count", "finish"} /\ UNCHANGED <<job, custodyVars>>
    BY <1>0, <1>3 DEF DebitSalary, CountUnpaid, Goto, CustodyInv, Handles, AtTheSafe
  <2> QED BY <1>1, <2>1, CustodyStands DEF Safe, custodyVars
<1>4. CASE \/ InsertAdvance(r) \/ GrantAdvance(r) \/ RejectAdvance(r) \/ InsertSlip(r) \/ Processed(r)
           \/ ApproveSlips(r) \/ PayPeriod(r) \/ CommitPayment(r) \/ Fail(r)
           \/ \E e \in Staff : Look(r, e)
  <2>1. UNCHANGED custody
    BY <1>4 DEF InsertAdvance, GrantAdvance, RejectAdvance, InsertSlip, Processed, ApproveSlips,
                PayPeriod, CommitPayment, Fail, Abandon, Look, custodyVars
  <2>2. pc'[r] \in {"idle", "look", "slip"}
    BY <1>0, <1>4 DEF InsertAdvance, GrantAdvance, RejectAdvance, InsertSlip, Processed, ApproveSlips,
                PayPeriod, CommitPayment, Fail, Abandon, Look, Answer, Goto
  <2> QED BY <1>1, <2>1, <2>2, CustodyStands DEF AtTheSafe
<1>5. CASE Settle(r) \/ DeleteCustody(r)
  <2>1. pc'[r] = "idle" /\ pc[r] \in {"settle", "delete"}
    BY <1>0, <1>5 DEF Settle, DeleteCustody, Abandon, Answer, Goto
  <2>2. \A c \in Custodies : c # Doc(r) => custody'[c] = custody[c]
    BY <1>0, <1>5 DEF Settle, DeleteCustody, Abandon, custodyVars
  <2>3. \A q \in Requests \ {r} : pc[q] = "delete" /\ Doc(r) \in PettyCustodies => Doc(q) # Doc(r)
    BY <2>1 DEF CustodyInv, DeletesAlone
  <2> QED BY <1>1, <2>1, <2>2, <2>3, CustodyStands DEF PettyCustodies, AtTheSafe
<1> QED BY <1>2, <1>3, <1>4, <1>5 DEF Step

LEMMA AtOnceHandles ==
  ASSUME TypesInv, CustodyInv, AtOnceRequest \/ UNCHANGED vars
  PROVE  CustodyInv'
<1>1. UNCHANGED <<job, pc>>
  BY DEF AtOnceRequest, CancelAdvance, ManualPayment, GrantCustody, Reimburse, ReviewSlip, AtOnce, vars
<1>2. \A c \in Custodies : custody[c] = "open" => custody'[c] = "open"
  BY DEF AtOnceRequest, CancelAdvance, ManualPayment, GrantCustody, Reimburse, ReviewSlip, vars,
         custodyVars, TypesInv, CustodyTypes
<1>3. \A r \in Requests : Handles(r)'
  BY <1>1, <1>2 DEF CustodyInv, Handles, Doc, Safe, PettyCustodies
<1> QED BY <1>1, <1>3 DEF CustodyInv, DeletesAlone, Doc

\* Nothing is owed before a custody is accounted for.
Unowed == \A c \in Custodies : custody[c] \in {"none", "open"} => due[c] = 0

LEMMA NothingOwedYet == TypesInv /\ Unowed /\ [Next]_vars => Unowed'
<1> SUFFICES ASSUME TypesInv, Unowed, [Next]_vars PROVE Unowed'
  OBVIOUS
<1>0. DOMAIN custody = Custodies /\ DOMAIN due = Custodies
  BY DEF TypesInv, CustodyTypes
<1>1. CASE UNCHANGED custodyVars
  BY <1>1 DEF custodyVars, Unowed
<1>2. ASSUME NEW c \in Custodies, GrantCustody(c) PROVE Unowed'
  BY <1>0, <1>2 DEF GrantCustody, Unowed
<1>3. ASSUME NEW c \in Custodies, NEW s \in Desks[c], Reimburse(c, s) PROVE Unowed'
  BY <1>0, <1>3 DEF Reimburse, Unowed
<1>4. ASSUME NEW r \in Requests, Settle(r) \/ DeleteCustody(r) PROVE Unowed'
  <2>1. CASE Abandon(r) BY <1>1, <2>1 DEF Abandon
  <2>2. CASE ~ Abandon(r) BY <1>0, <1>4, <2>2 DEF Settle, DeleteCustody, Unowed
  <2> QED BY <2>1, <2>2
<1>5. ASSUME NEW r \in Requests, Receive(r) PROVE UNCHANGED custodyVars
  BY <1>5 DEF Receive, AdvanceRequest, CustodyRequest, PayrollRequest, ReceiveAdvance,
         ReceiveRejection, ReceiveApproval, ReceiveDeletion, ReceiveSettlement, ReceiveProcess,
         ApprovePeriod, ReceivePayPeriod, ReceivePayment, Send
<1>6. ASSUME NEW r \in Requests, Step(r) \/ Fail(r), ~ Settle(r), ~ DeleteCustody(r)
      PROVE  UNCHANGED custodyVars
  BY <1>6 DEF Step, Fail, ReadSafe, InsertAdvance, GrantAdvance, RejectAdvance, Abandon, Look,
         InsertSlip, Processed, ApproveSlips, PayPeriod, DebitSalary, CountUnpaid, CommitPayment
<1>7. CASE AtOnceRequest
  BY <1>1, <1>2, <1>3, <1>7 DEF AtOnceRequest, CancelAdvance, ManualPayment, ReviewSlip
<1>8. CASE UNCHANGED vars
  BY <1>1, <1>8 DEF vars
<1> QED BY <1>1, <1>4, <1>5, <1>6, <1>7, <1>8 DEF Next, Quiescent

\* The custodies of a petty cash that pays for nothing else keep its book, though two
\* people may account for one of them at the same time and requests fail anywhere.
THEOREM CustodiesImplementBook == ASSUME PettyApart PROVE Spec => ImplementsCustodyBook
<1> USE DEF PettyCustodies
<1>1. Init => Book!Init /\ CustodyInv /\ Unowed
  <2> SUFFICES ASSUME Init PROVE Book!Init /\ CustodyInv /\ Unowed
    OBVIOUS
  <2>1. Book!Init
    BY StaffAssumption DEF Init, Book!Init
  <2>2. CustodyInv
    BY DEF Init, CustodyInv, DeletesAlone, Handles, AtTheSafe
  <2>3. Unowed
    BY DEF Init, Unowed
  <2> QED BY <2>1, <2>2, <2>3
<1>2. TypesInv /\ CustodyInv /\ [Next]_vars => CustodyInv'
  BY ReceiveHandles, StepHandles, AtOnceHandles DEF Next, Quiescent
<1>3. TypesInv /\ CustodyInv /\ Unowed /\ [Next]_vars => [Book!Next]_(Book!vars)
  <2> SUFFICES ASSUME TypesInv, CustodyInv, Unowed, [Next]_vars PROVE [Book!Next]_(Book!vars)
    OBVIOUS
  <2>0. /\ balance \in [Safes -> Int] /\ Petty \in Safes
        /\ custody \in [Custodies -> {"none", "open", "settled", "deleted"}]
        /\ due \in [Custodies -> Nat] /\ Worth \in [Custodies -> Nat \ {0}]
        /\ job \in [Requests -> Job]
    BY StaffAssumption DEF TypesInv, CashType, CustodyTypes, RequestTypes
  <2>1. ASSUME balance'[Petty] = balance[Petty],
               \A c \in PettyCustodies : custody'[c] = custody[c] /\ due'[c] = due[c]
        PROVE  UNCHANGED Book!vars
    BY <2>1 DEF Book!vars
  <2>2. ASSUME NEW s \in Safes, s # Petty, NEW n, UNCHANGED custodyVars,
               balance' = [balance EXCEPT ![s] = n]
        PROVE  UNCHANGED Book!vars
    BY <2>0, <2>1, <2>2 DEF custodyVars
  <2>3. ASSUME UNCHANGED <<balance, custodyVars>> PROVE UNCHANGED Book!vars
    BY <2>1, <2>3 DEF custodyVars
  <2>4. ASSUME NEW c \in Custodies, c \notin PettyCustodies, NEW s \in Safes, s # Petty, NEW n,
               balance' = [balance EXCEPT ![s] = n],
               \A d \in Custodies \ {c} : custody'[d] = custody[d] /\ due'[d] = due[d]
        PROVE  UNCHANGED Book!vars
    BY <2>0, <2>1, <2>4
  \* A row of table employee_custody is written, and the safe.
  <2>5. ASSUME NEW c \in PettyCustodies, NEW n,
               balance' = [balance EXCEPT ![Petty] = n],
               \A d \in Custodies \ {c} : custody'[d] = custody[d] /\ due'[d] = due[d]
        PROVE  /\ balance'[Petty] = n
               /\ [d \in PettyCustodies |-> custody[d]]' =
                    [[d \in PettyCustodies |-> custody[d]] EXCEPT ![c] = custody'[c]]
               /\ [d \in PettyCustodies |-> due[d]]' =
                    [[d \in PettyCustodies |-> due[d]] EXCEPT ![c] = due'[c]]
    BY <2>0, <2>5
  <2>6. ASSUME NEW r \in Requests, GrantAdvance(r) \/ PayPeriod(r) \/ CommitPayment(r)
        PROVE  UNCHANGED Book!vars
    <3>1. Safe(r) # Petty /\ Safe(r) \in Safes
      BY <2>0, <2>6 DEF GrantAdvance, PayPeriod, CommitPayment, CustodyInv, Handles, AtTheSafe, Safe, Job
    <3> QED BY <2>2, <2>6, <3>1 DEF GrantAdvance, PayPeriod, CommitPayment
  <2>7. ASSUME NEW c \in Custodies, GrantCustody(c) PROVE [Book!Next]_(Book!vars)
    <3>1. /\ custody[c] = "none" /\ custody' = [custody EXCEPT ![c] = "open"] /\ UNCHANGED due
          /\ balance[GivenFrom[c]] >= Worth[c]
          /\ balance' = [balance EXCEPT ![GivenFrom[c]] = balance[GivenFrom[c]] - Worth[c]]
      BY <2>7 DEF GrantCustody
    <3>2. CASE c \notin PettyCustodies
      BY <2>0, <2>4, <3>1, <3>2, StaffAssumption
    <3>3. CASE c \in PettyCustodies
      <4>1. balance' = [balance EXCEPT ![Petty] = balance[Petty] - Worth[c]] /\ balance[Petty] >= Worth[c]
        BY <3>1, <3>3
      <4>2. \A d \in Custodies \ {c} : custody'[d] = custody[d] /\ due'[d] = due[d]
        BY <2>0, <3>1
      <4>3. custody'[c] = "open" /\ due' = due
        BY <2>0, <3>1
      <4>4. Book!Grant(c)
        BY <2>5, <3>1, <3>3, <4>1, <4>2, <4>3 DEF Book!Grant
      <4> QED BY <3>3, <4>4 DEF Book!Next
    <3> QED BY <3>2, <3>3
  <2>8. ASSUME NEW c \in Custodies, NEW s \in Desks[c], Reimburse(c, s) PROVE [Book!Next]_(Book!vars)
    <3>1. /\ custody[c] = "settled" /\ due[c] > 0 /\ balance[s] >= due[c]
          /\ due' = [due EXCEPT ![c] = 0] /\ UNCHANGED custody
          /\ balance' = [balance EXCEPT ![s] = balance[s] - due[c]]
      BY <2>8 DEF Reimburse
    <3>2. \A d \in Custodies \ {c} : custody'[d] = custody[d] /\ due'[d] = due[d]
      BY <2>0, <3>1
    <3>3. CASE c \notin PettyCustodies
      <4>1. s \in Safes /\ s # Petty
        BY <3>3, StaffAssumption DEF PettyApart, Docs
      <4> QED BY <2>4, <3>1, <3>2, <3>3, <4>1
    <3>4. CASE c \in PettyCustodies
      <4>1. s = Petty
        BY <3>4 DEF PettyApart, Docs
      <4>2. due'[c] = 0
        BY <2>0, <3>1
      <4>3. Book!PayOwed(c)
        BY <2>5, <3>1, <3>2, <3>4, <4>1, <4>2 DEF Book!PayOwed
      <4> QED BY <3>4, <4>3 DEF Book!Next
    <3> QED BY <3>3, <3>4
  <2>9. ASSUME NEW r \in Requests, Settle(r), ~ Abandon(r) PROVE [Book!Next]_(Book!vars)
    <3>0. PICK c \in Custodies : c = Doc(r)
      BY <2>9 DEF Settle, TypesInv, Stands
    <3>1. /\ custody[c] = "open" /\ custody' = [custody EXCEPT ![c] = "settled"]
          /\ due' = [due EXCEPT ![c] = job[r].more]
          /\ balance' = [balance EXCEPT ![GivenFrom[c]] = balance[GivenFrom[c]] + job[r].back]
      BY <2>9, <3>0 DEF Settle
    <3>2. \A d \in Custodies \ {c} : custody'[d] = custody[d] /\ due'[d] = due[d]
      BY <2>0, <3>1
    <3>3. CASE c \notin PettyCustodies
      BY <2>4, <3>1, <3>2, <3>3, StaffAssumption
    <3>4. CASE c \in PettyCustodies
      <4>0. PICK back \in Nat : back = job[r].back
        BY <2>0 DEF Job
      <4>1. /\ job[r].back \in 0..Worth[c] /\ job[r].more \in Nat
            /\ job[r].back = 0 \/ job[r].more = 0
        BY <2>0, <2>9, <3>0 DEF CustodyInv, Handles, Settle, Job
      <4>2. due'[c] = job[r].more /\ custody'[c] = "settled" /\ GivenFrom[c] = Petty
        BY <2>0, <3>1, <3>4
      <4> DEFINE owed == [d \in PettyCustodies |-> due[d]]
      <4>3. owed' = [owed EXCEPT ![c] = owed'[c]] /\ owed'[c] = job[r].more
        BY <2>5, <3>1, <3>2, <3>4, <4>2
      <4>4. Book!Account(c, back)
        <5>1. custody[c] = "open" /\ balance'[Petty] = balance[Petty] + back
          BY <2>5, <3>1, <3>2, <3>4, <4>0, <4>2
        <5>2. [d \in PettyCustodies |-> custody[d]]' =
                [[d \in PettyCustodies |-> custody[d]] EXCEPT ![c] = "settled"]
          BY <2>5, <3>1, <3>2, <3>4, <4>2
        <5>3. owed'[c] \in Nat /\ (back = 0 \/ owed'[c] = 0)
          BY <4>0, <4>1, <4>3
        <5> QED BY <3>4, <4>3, <5>1, <5>2, <5>3 DEF Book!Account
      <4>5. back \in 0..[d \in PettyCustodies |-> Worth[d]][c]
        BY <3>4, <4>0, <4>1
      <4> QED BY <3>4, <4>4, <4>5 DEF Book!Next
    <3> QED BY <3>3, <3>4
  <2>10. ASSUME NEW r \in Requests, DeleteCustody(r) PROVE [Book!Next]_(Book!vars)
    <3>0. PICK c \in Custodies : c = Doc(r)
      BY <2>10 DEF DeleteCustody, TypesInv, Stands
    <3>1. /\ custody' = [custody EXCEPT ![c] = "deleted"] /\ due' = [due EXCEPT ![c] = 0]
          /\ balance' = [balance EXCEPT ![GivenFrom[c]] = balance[GivenFrom[c]] + Worth[c]]
      BY <2>10, <3>0 DEF DeleteCustody
    <3>2. \A d \in Custodies \ {c} : custody'[d] = custody[d] /\ due'[d] = due[d]
      BY <2>0, <3>1
    <3>3. CASE c \notin PettyCustodies
      BY <2>4, <3>1, <3>2, <3>3, StaffAssumption
    <3>4. CASE c \in PettyCustodies
      <4>1. custody[c] = "open" /\ GivenFrom[c] = Petty /\ custody'[c] = "deleted" /\ due'[c] = 0
        BY <2>0, <2>10, <3>0, <3>1, <3>4 DEF CustodyInv, Handles, DeleteCustody
      <4>2. due[c] = 0 /\ due' = due
        BY <2>0, <3>1, <4>1 DEF Unowed
      <4>3. Book!CallOff(c)
        BY <2>5, <3>1, <3>2, <3>4, <4>1, <4>2 DEF Book!CallOff
      <4> QED BY <3>4, <4>3 DEF Book!Next
    <3> QED BY <3>3, <3>4
  <2>11. CASE UNCHANGED vars
    BY <2>3, <2>11 DEF vars
  <2>12. ASSUME NEW r \in Requests,
                \/ Receive(r) \/ ReadSafe(r) \/ InsertAdvance(r) \/ RejectAdvance(r) \/ Abandon(r)
                \/ (\E e \in Staff : Look(r, e)) \/ InsertSlip(r) \/ Processed(r) \/ ApproveSlips(r)
                \/ DebitSalary(r) \/ CountUnpaid(r)
         PROVE  UNCHANGED Book!vars
    <3>1. UNCHANGED <<balance, custodyVars>>
      BY <2>12 DEF Receive, AdvanceRequest, CustodyRequest, PayrollRequest, ReceiveAdvance,
         ReceiveRejection, ReceiveApproval, ReceiveDeletion, ReceiveSettlement, ReceiveProcess,
         ApprovePeriod, ReceivePayPeriod, ReceivePayment, Send, ReadSafe, InsertAdvance,
         RejectAdvance, Abandon, Look, InsertSlip, Processed, ApproveSlips, DebitSalary, CountUnpaid
    <3> QED BY <2>3, <3>1
  <2>13. ASSUME NEW r \in Requests, Step(r) \/ Fail(r) PROVE [Book!Next]_(Book!vars)
    BY <2>6, <2>9, <2>10, <2>12, <2>13 DEF Step, Fail
  <2>14. CASE AtOnceRequest
    <3>1. CASE UNCHANGED <<balance, custodyVars>>
      BY <2>3, <3>1
    <3> QED BY <2>7, <2>8, <2>14, <3>1 DEF AtOnceRequest, CancelAdvance, ManualPayment, ReviewSlip
  <2> QED BY <2>11, <2>12, <2>13, <2>14 DEF Next, Quiescent
<1> QED BY <1>1, <1>2, <1>3, NothingOwedYet, TypesAlways, PTL DEF Spec, ImplementsCustodyBook, Book!Spec

=============================================================================
