------------------------- MODULE SaleLifecycleProofs -------------------------
(***************************************************************************)
(* Proofs about SaleLifecycle for any sales, quantities, requests and      *)
(* number of requests sent.                                                *)
(***************************************************************************)
EXTENDS SaleLifecycle, Sums, TLAPS

-----------------------------------------------------------------------------
(* Programs *)

\* Every program ends in a commit and has its checks where the text has them.
LEMMA ProgramShape ==
  ASSUME NEW j \in Job
  PROVE  /\ Len(Program(j)) \in 1..8
         /\ \A i \in 1..Len(Program(j)) :
              /\ Program(j)[i] = "commit" <=> i = Len(Program(j))
              /\ Program(j)[i] = "noReturns" => j.kind = "cancel"
              /\ Program(j)[i] = "stillThere" => j.kind = "delete"
              /\ j.kind = "delete" => (Program(j)[i] = "stillThere" <=> i = 1)
              /\ j.kind \in {"return", "returnByProduct"} => (Program(j)[i] = "remaining" <=> i = 1)
              /\ j.kind = "cancel" => (Program(j)[i] = "noReturns" <=> i = 1)
              /\ j.kind = "delete" => (Program(j)[i] = "remaining" <=> i = 2)
         /\ j.kind = "return" => Len(Program(j)) = 6
         /\ j.kind = "delete" => Len(Program(j)) = 8
<1>1. CASE j.kind = "create" BY <1>1 DEF Program, Programs
<1>2. CASE j.kind = "post" BY <1>2 DEF Program, Programs
<1>3. CASE j.kind = "autopost" BY <1>3 DEF Program, Programs
<1>4. CASE j.kind = "cancel" /\ j.was = "posted" BY <1>4 DEF Program, Programs
<1>5. CASE j.kind = "cancel" /\ j.was # "posted"
  <2>1. Program(j) = Programs["cancel"] BY <1>5 DEF Program
  <2>2. Program(j) = <<"noReturns", "product", "sale", "commit">> BY <2>1 DEF Programs
  <2> QED BY <1>5, <2>2
<1>6. CASE j.kind = "return" BY <1>6 DEF Program, Programs
<1>7. CASE j.kind = "returnByProduct" BY <1>7 DEF Program, Programs
<1>8. CASE j.kind = "delete" BY <1>8 DEF Program, Programs
<1>9. j.kind \in {"create", "post", "autopost", "cancel", "return", "returnByProduct", "delete"}
  BY DEF Job, AllKinds
<1> QED BY <1>1, <1>2, <1>3, <1>4, <1>5, <1>6, <1>7, <1>8, <1>9

\* No program is empty.
LEMMA ProgramLength == \A j \in Job : Len(Program(j)) \in Nat /\ 1 <= Len(Program(j))
<1> SUFFICES ASSUME NEW j \in Job PROVE Len(Program(j)) \in Nat /\ 1 <= Len(Program(j))
  OBVIOUS
<1>1. Len(Program(j)) \in 1..8
  BY ProgramShape
<1> QED BY <1>1

\* A request at a statement that is not the commit can advance.
LEMMA CanAdvance ==
  ASSUME TypeOK, NEW r \in Requests, NEW statement, At(r, statement), statement # "commit"
  PROVE  at[r] \in Nat /\ at[r] + 1 <= Len(Program(job[r]))
<1>1. job[r] \in Job /\ at[r] \in 1..Len(Program(job[r]))
  BY ProgramShape DEF TypeOK, At, Idle
<1> QED BY <1>1, ProgramShape DEF At

-----------------------------------------------------------------------------
(* Type correctness *)

LEMMA InitTypeOK == Init => TypeOK
<1> SUFFICES ASSUME Init PROVE TypeOK
  OBVIOUS
<1>1. \A r \in Requests : job[r] \in Job /\ job[r].kind = "create"
  BY SalesAssumption DEF Init, Job, AllKinds, Statuses
<1>2. \A r \in Requests : at[r] <= Len(Program(job[r]))
  BY <1>1, ProgramShape DEF Init
<1> QED BY <1>1, <1>2, SalesAssumption DEF Init, TypeOK, Statuses

\* A request that is sent starts its program.
LEMMA SendTypeOK ==
  ASSUME TypeOK, NEW r \in Requests, NEW kind, NEW s \in Sales, NEW qty \in Nat,
         NEW money \in Nat, NEW id \in 0..MaxSent, Send(r, kind, s, qty, money, id),
         kind \in {"return", "returnByProduct"} => id > 0 /\ qty > 0
  PROVE  TypeOK'
<1> DEFINE j == [kind |-> kind, sale |-> s, qty |-> qty, money |-> money, id |-> id,
                was |-> status[s]]
<1>1. j \in Job
  BY SalesAssumption DEF TypeOK, Send, Job
<1>2. job' = [job EXCEPT ![r] = j] /\ at' = [at EXCEPT ![r] = 1]
  BY DEF Send
<1>6. j.kind = kind /\ j.id = id /\ j.qty = qty
  OBVIOUS
<1> HIDE DEF j
<1>3. Len(Program(j)) \in Nat /\ 1 <= Len(Program(j))
  BY <1>1, ProgramLength
<1>4. job' \in [Requests -> Job] /\ at' \in [Requests -> Nat]
  BY <1>1, <1>2 DEF TypeOK
<1>5. \A q \in Requests :
        /\ at'[q] <= Len(Program(job'[q]))
        /\ job'[q].kind \in {"return", "returnByProduct"} => job'[q].id > 0 /\ job'[q].qty > 0
  BY <1>2, <1>3, <1>6 DEF TypeOK
<1>7. UNCHANGED <<status, returned, refunds, entries, cost, lockedBy, seen>>
  BY DEF Send, saleVars
<1>8. answer' \in [Requests -> {"none", "ok", "rejected", "failed"}] /\ sent' \in 0..MaxSent
  BY SalesAssumption DEF TypeOK, Send, MaySend
<1> QED BY <1>4, <1>5, <1>7, <1>8 DEF TypeOK

\* Neither does abandoning a request disturb the types.
LEMMA AbandonTypeOK ==
  ASSUME TypeOK, NEW r \in Requests, NEW a \in {"rejected", "failed"}, Abandon(r, a)
  PROVE  TypeOK'
<1>1. at' \in [Requests -> Nat] /\ \A q \in Requests : at'[q] <= Len(Program(job'[q]))
  <2>1. \A q \in Requests : Len(Program(job[q])) \in Nat
    BY ProgramShape DEF TypeOK
  <2> QED BY <2>1 DEF TypeOK, Abandon, Finish
<1> QED BY <1>1 DEF TypeOK, Abandon, Finish, Release, saleVars

\* Nor does the next statement.
LEMMA AdvanceTypeOK ==
  ASSUME TypeOK, NEW r \in Requests, NEW statement, At(r, statement),
         statement # "commit", Advance(r), UNCHANGED <<saleVars, job, answer, sent>>,
         lockedBy' \in [Rows -> Requests \cup {NoRequest}], seen' \in [Requests -> Nat]
  PROVE  TypeOK'
<1>1. at[r] \in Nat /\ at[r] + 1 <= Len(Program(job[r]))
  BY CanAdvance
<1>2. at' \in [Requests -> Nat] /\ \A q \in Requests : at'[q] <= Len(Program(job'[q]))
  BY <1>1 DEF TypeOK, Advance
<1> QED BY <1>2 DEF TypeOK, saleVars

\* A commit ends the request.
LEMMA FinishTypeOK ==
  ASSUME TypeOK, NEW r \in Requests, Finish(r, "ok"), Release(r),
         UNCHANGED <<job, seen, sent>>
  PROVE  /\ at' \in [Requests -> Nat]
         /\ \A q \in Requests : at'[q] <= Len(Program(job'[q]))
         /\ lockedBy' \in [Rows -> Requests \cup {NoRequest}]
         /\ answer' \in [Requests -> {"none", "ok", "rejected", "failed"}]
         /\ \A q \in Requests : job'[q].kind \in {"return", "returnByProduct"}
                                   => job'[q].id > 0 /\ job'[q].qty > 0
         /\ job' \in [Requests -> Job] /\ seen' \in [Requests -> Nat] /\ sent' \in 0..MaxSent
<1>1. \A q \in Requests : Len(Program(job[q])) \in Nat
  BY ProgramShape DEF TypeOK
<1> QED BY <1>1 DEF TypeOK, Finish, Release

LEMMA NextTypeOK == TypeOK /\ [Next]_vars => TypeOK'
<1> SUFFICES ASSUME TypeOK, [Next]_vars PROVE TypeOK'
  OBVIOUS
<1> USE SalesAssumption
<1>1. ASSUME NEW r \in Requests, NEW s \in Sales,
             ReceiveCreate(r, s) \/ ReceivePost(r, s) \/ ReceiveCancel(r, s)
      PROVE TypeOK'
  BY <1>1, SendTypeOK DEF ReceiveCreate, ReceivePost, ReceiveCancel
<1>2. ASSUME NEW r \in Requests, NEW s \in Sales, ReceiveAgain(r, s) PROVE TypeOK'
  <2> DEFINE j == [kind |-> "create", sale |-> s, qty |-> 0, money |-> 0, id |-> 0,
                  was |-> status[s]]
  <2>1. j \in Job
    BY DEF TypeOK, Job, AllKinds
  <2>2. job' = [job EXCEPT ![r] = j] /\ at' = at /\ at[r] = 0
    BY <1>2 DEF ReceiveAgain, MaySend, Idle
  <2>6. j.kind = "create"
    OBVIOUS
  <2> HIDE DEF j
  <2>3. Len(Program(j)) \in Nat
    BY <2>1, ProgramShape
  <2>4. job' \in [Requests -> Job] /\ \A q \in Requests : at'[q] <= Len(Program(job'[q]))
    BY <2>1, <2>2, <2>3 DEF TypeOK
  <2>5. \A q \in Requests : job'[q].kind \in {"return", "returnByProduct"}
                              => job'[q].id > 0 /\ job'[q].qty > 0
    BY <2>2, <2>6 DEF TypeOK
  <2>7. UNCHANGED <<status, returned, refunds, entries, cost, lockedBy, at, seen>>
    BY <1>2 DEF ReceiveAgain, saleVars
  <2>8. answer' \in [Requests -> {"none", "ok", "rejected", "failed"}] /\ sent' \in 0..MaxSent
    BY <1>2 DEF TypeOK, ReceiveAgain, MaySend
  <2> QED BY <2>4, <2>5, <2>7, <2>8 DEF TypeOK
<1>3. ASSUME NEW r \in Requests, NEW s \in Sales, ReceiveReturn(r, s) PROVE TypeOK'
  <2>1. PICK qty \in 1..Units[s], claim \in 0..Units[s] :
          \/ Send(r, "return", s, qty, qty, sent + 1)
          \/ Send(r, "returnByProduct", s, qty, claim, sent + 1)
    BY <1>3 DEF ReceiveReturn
  <2>2. sent + 1 \in 1..MaxSent /\ qty \in Nat \ {0} /\ claim \in Nat
    BY <2>1 DEF Send, MaySend, TypeOK
  <2> QED BY <2>1, <2>2, SendTypeOK
<1>4. ASSUME NEW r \in Requests, ReceiveDelete(r) PROVE TypeOK'
  <2>1. PICK f \in refunds : Send(r, "delete", f.sale, f.qty, f.money, f.id)
    BY <1>4 DEF ReceiveDelete
  <2>2. f.sale \in Sales /\ f.qty \in Nat /\ f.money \in Nat /\ f.id \in 0..MaxSent
    BY DEF TypeOK, Ids
  <2> QED BY <2>1, <2>2, SendTypeOK
<1>5. ASSUME NEW r \in Requests, CheckNoReturns(r) PROVE TypeOK'
  BY <1>5, AdvanceTypeOK, AbandonTypeOK DEF CheckNoReturns, TypeOK
<1>6. ASSUME NEW r \in Requests, CheckStillThere(r) PROVE TypeOK'
  BY <1>6, AdvanceTypeOK, AbandonTypeOK DEF CheckStillThere, TypeOK
<1>7. ASSUME NEW r \in Requests, ReadItem(r) PROVE TypeOK'
  <2>1. job[r].sale \in Sales
    BY DEF TypeOK, Job
  <2>2. ASSUME seen' = [seen EXCEPT ![r] = returned[job[r].sale]] PROVE seen' \in [Requests -> Nat]
    BY <2>1, <2>2 DEF TypeOK
  <2>3. CASE Abandon(r, "rejected")
    BY <2>3, AbandonTypeOK
  <2>4. CASE ~ Abandon(r, "rejected")
    <3>1. /\ At(r, "remaining") /\ Advance(r)
          /\ seen' = [seen EXCEPT ![r] = returned[job[r].sale]]
          /\ UNCHANGED <<saleVars, lockedBy, job, answer, sent>>
      BY <1>7, <2>4 DEF ReadItem
    <3> QED BY <3>1, <2>2, AdvanceTypeOK DEF TypeOK
  <2> QED BY <2>3, <2>4
<1>8. ASSUME NEW r \in Requests, Lock(r) PROVE TypeOK'
  <2>1. PICK statement \in Locking :
          /\ At(r, statement) /\ Advance(r)
          /\ lockedBy' = [lockedBy EXCEPT ![RowOf(job[r], statement)] = r]
          /\ UNCHANGED <<saleVars, job, seen, answer, sent>>
    BY <1>8 DEF Lock
  <2>2. statement # "commit"
    BY DEF Locking
  <2>3. lockedBy' \in [Rows -> Requests \cup {NoRequest}]
    BY <2>1 DEF TypeOK
  <2> QED BY <2>1, <2>2, <2>3, AdvanceTypeOK DEF TypeOK
<1>9. ASSUME NEW r \in Requests, CommitCreate(r) PROVE TypeOK'
  <2>1. job[r].sale \in Sales
    BY DEF TypeOK, Job
  <2>2. status' \in [Sales -> Statuses]
    BY <1>9, <2>1 DEF CommitCreate, TypeOK, Statuses
  <2>3. CASE Finish(r, "ok") /\ UNCHANGED job
    BY <1>9, <2>2, <2>3, FinishTypeOK DEF CommitCreate, TypeOK
  <2>4. CASE ~ (Finish(r, "ok") /\ UNCHANGED job)
    <3> DEFINE j == [kind |-> "autopost", sale |-> job[r].sale, qty |-> 0,
                     money |-> 0, id |-> 0, was |-> "draft"]
    <3>1. job' = [job EXCEPT ![r] = j] /\ at' = [at EXCEPT ![r] = 1] /\ answer' = answer
      BY <1>9, <2>4 DEF CommitCreate
    <3>2. j \in Job
      BY <2>1 DEF Job, AllKinds, Statuses
    <3>7. j.kind = "autopost"
      OBVIOUS
    <3> HIDE DEF j
    <3>3. Len(Program(j)) \in Nat /\ 1 <= Len(Program(j))
      BY <3>2, ProgramLength
    <3>4. /\ job' \in [Requests -> Job] /\ at' \in [Requests -> Nat]
          /\ \A q \in Requests : at'[q] <= Len(Program(job'[q]))
      BY <3>1, <3>2, <3>3 DEF TypeOK
    <3>6. \A q \in Requests : job'[q].kind \in {"return", "returnByProduct"}
                                => job'[q].id > 0 /\ job'[q].qty > 0
      BY <3>1, <3>7 DEF TypeOK
    <3>5. lockedBy' \in [Rows -> Requests \cup {NoRequest}]
      BY <1>9 DEF CommitCreate, Release, TypeOK
    <3> QED BY <1>9, <2>2, <3>1, <3>4, <3>5, <3>6 DEF CommitCreate, TypeOK
  <2> QED BY <2>3, <2>4
<1>10. ASSUME NEW r \in Requests, CommitPost(r) PROVE TypeOK'
  <2>1. job[r].sale \in Sales
    BY DEF TypeOK, Job
  <2>2. status' \in [Sales -> Statuses]
    BY <1>10, <2>1 DEF CommitPost, TypeOK, Statuses
  <2>3. entries' \in [Sales -> Int]
    BY <1>10, <2>1 DEF CommitPost, TypeOK
  <2>4. cost' \in [Sales -> Int]
    BY <1>10, <2>1 DEF CommitPost, TypeOK
  <2> QED BY <1>10, <2>2, <2>3, <2>4, FinishTypeOK DEF CommitPost, TypeOK
<1>11. ASSUME NEW r \in Requests, CommitCancel(r) PROVE TypeOK'
  <2>1. job[r].sale \in Sales
    BY DEF TypeOK, Job
  <2>2. /\ status' \in [Sales -> Statuses] /\ entries' \in [Sales -> Int]
        /\ cost' \in [Sales -> Int]
    <3> DEFINE reversed == IF job[r].was = "posted" THEN 1 ELSE 0
               reversedCost == reversed * Units[job[r].sale]
    <3>1. /\ status' = [status EXCEPT ![job[r].sale] = "cancelled"]
          /\ entries' = [entries EXCEPT ![job[r].sale] = entries[job[r].sale] - reversed]
          /\ cost' = [cost EXCEPT ![job[r].sale] = cost[job[r].sale] - reversedCost]
      BY <1>11 DEF CommitCancel
    <3>2. reversed \in Nat /\ reversedCost \in Nat
      <4>1. Units[job[r].sale] \in Nat
        BY <2>1, SalesAssumption
      <4>2. reversed = 0 \/ reversed = 1
        OBVIOUS
      <4> QED BY <4>1, <4>2
    <3> HIDE DEF reversed, reversedCost
    <3>3. status' \in [Sales -> Statuses]
      BY <3>1 DEF TypeOK, Statuses
    <3>4. entries' \in [Sales -> Int]
      <4>1. entries[job[r].sale] - reversed \in Int
        BY <2>1, <3>2 DEF TypeOK
      <4> QED BY <3>1, <4>1 DEF TypeOK
    <3>5. cost' \in [Sales -> Int]
      <4>1. cost[job[r].sale] - reversedCost \in Int
        BY <2>1, <3>2 DEF TypeOK
      <4> QED BY <3>1, <4>1 DEF TypeOK
    <3> QED BY <3>3, <3>4, <3>5
  <2> QED BY <1>11, <2>2, FinishTypeOK DEF CommitCancel, TypeOK
<1>12. ASSUME NEW r \in Requests, CommitReturn(r) PROVE TypeOK'
  <2> DEFINE f == [id |-> job[r].id, sale |-> job[r].sale, qty |-> job[r].qty,
                   money |-> job[r].money]
  <2>1. /\ job[r].sale \in Sales /\ job[r].qty \in Nat \ {0} /\ job[r].id \in Ids
        /\ job[r].money \in Nat /\ seen[r] \in Nat
    BY <1>12 DEF TypeOK, Job, Ids, CommitReturn
  <2>2. f \in [id : Ids, sale : Sales, qty : Nat \ {0}, money : Nat]
    BY <2>1
  <2>3. refunds' \subseteq [id : Ids, sale : Sales, qty : Nat \ {0}, money : Nat]
    BY <1>12, <2>2 DEF CommitReturn, TypeOK
  <2>4. returned' \in [Sales -> Nat]
    <3>1. returned' = [returned EXCEPT ![job[r].sale] = seen[r] + job[r].qty]
      BY <1>12 DEF CommitReturn
    <3>2. seen[r] + job[r].qty \in Nat
      BY <2>1
    <3> QED BY <3>1, <3>2 DEF TypeOK
  <2>5. cost' \in [Sales -> Int]
    <3>1. cost' = [cost EXCEPT ![job[r].sale] = cost[job[r].sale] - job[r].qty]
      BY <1>12 DEF CommitReturn
    <3>2. cost[job[r].sale] - job[r].qty \in Int
      BY <2>1 DEF TypeOK
    <3> QED BY <3>1, <3>2 DEF TypeOK
  <2> HIDE DEF f
  <2> QED BY <1>12, <2>3, <2>4, <2>5, FinishTypeOK DEF CommitReturn, TypeOK
<1>13. ASSUME NEW r \in Requests, CommitDelete(r) PROVE TypeOK'
  <2>1. job[r].sale \in Sales /\ job[r].qty \in Nat /\ seen[r] \in Nat
    BY DEF TypeOK, Job
  <2>2. returned' \in [Sales -> Nat]
    BY <1>13, <2>1 DEF CommitDelete, TypeOK
  <2>4. cost' \in [Sales -> Int]
    <3>1. cost' = [cost EXCEPT ![job[r].sale] = cost[job[r].sale] + job[r].qty]
      BY <1>13 DEF CommitDelete
    <3> QED BY <2>1, <3>1 DEF TypeOK
  <2>3. refunds' \subseteq refunds
    BY <1>13 DEF CommitDelete
  <2> QED BY <1>13, <2>2, <2>3, <2>4, FinishTypeOK DEF CommitDelete, TypeOK
<1>14. ASSUME NEW r \in Requests, Fail(r) \/ DeadlockVictim(r) PROVE TypeOK'
  BY <1>14, AbandonTypeOK DEF Fail, DeadlockVictim
<1>15. CASE UNCHANGED vars
  BY <1>15 DEF TypeOK, vars
<1> QED BY <1>1, <1>2, <1>3, <1>4, <1>5, <1>6, <1>7, <1>8, <1>9, <1>10, <1>11, <1>12,
           <1>13, <1>14, <1>15 DEF Next, Receive, Step, Quiescent

\* Every reachable state is well formed, whatever the clients ask for.
THEOREM TypeCorrect == Spec => []TypeOK
  BY InitTypeOK, NextTypeOK, PTL DEF Spec

-----------------------------------------------------------------------------
(* quantity_returned stays within the quantity sold *)

\* Every return of the sale names the sale item it is for.
ReturnsNameItem(s) == "returnByProduct" \notin Kinds[s]

\* What r has read stays within what was sold, and so does what it will write: a
\* return compares before it writes, a deletion takes away.
WithinSold(r) ==
  LET s == job[r].sale
  IN /\ at[r] # 0 => job[r].kind # "returnByProduct"
     /\ job[r].kind = "return" /\ at[r] >= 2 => seen[r] + job[r].qty <= Units[s]
     /\ job[r].kind = "delete" /\ at[r] >= 3 => seen[r] <= Units[s]

ReturnInv ==
  /\ ReturnedWithinSold
  /\ \A r \in Requests : ReturnsNameItem(job[r].sale) => WithinSold(r)

\* Locks, checks before the transaction and new requests touch nothing of it.
LEMMA KeepsReturnInv ==
  ASSUME TypeOK, TypeOK', ReturnInv, NEW r \in Requests, returned' = returned,
         \A q \in Requests \ {r} : at'[q] = at[q] /\ job'[q] = job[q] /\ seen'[q] = seen[q],
         ReturnsNameItem(job'[r].sale) => (at'[r] # 0 => job'[r].kind # "returnByProduct"),
         \/ at'[r] < 2
         \/ job'[r].kind \notin {"return", "delete"}
         \/ job'[r].kind = "delete" /\ at'[r] < 3
         \/ job'[r] = job[r] /\ seen'[r] = seen[r] /\ at[r] > 1
              /\ (job[r].kind = "delete" => at[r] > 2)
  PROVE  ReturnInv'
<1>1. ReturnedWithinSold'
  BY DEF ReturnInv, ReturnedWithinSold
<1>2. ASSUME NEW q \in Requests, q # r, ReturnsNameItem(job'[q].sale)
      PROVE  WithinSold(q)'
  BY <1>2 DEF ReturnInv, WithinSold
<1>3. at[r] \in Nat /\ at'[r] \in Nat
  BY DEF TypeOK
<1>4. ASSUME ReturnsNameItem(job'[r].sale) PROVE WithinSold(r)'
  BY <1>3, <1>4 DEF ReturnInv, WithinSold
<1> QED BY <1>1, <1>2, <1>4 DEF ReturnInv, ReturnsNameItem

LEMMA NextReturnInv ==
  ASSUME TypeOK, TypeOK', ReturnInv, [Next]_vars
  PROVE  ReturnInv'
<1> USE SalesAssumption
<1>1. ASSUME NEW r \in Requests, NEW kind, NEW s \in Sales, NEW qty, NEW money, NEW id,
             Send(r, kind, s, qty, money, id)
      PROVE ReturnInv'
  <2>1. at'[r] = 1 /\ job'[r].kind = kind /\ job'[r].sale = s /\ kind \in Kinds[s]
    BY <1>1 DEF Send, TypeOK
  <2>2. /\ returned' = returned
        /\ \A q \in Requests \ {r} : at'[q] = at[q] /\ job'[q] = job[q] /\ seen'[q] = seen[q]
    BY <1>1 DEF Send, TypeOK, saleVars
  <2> QED BY <2>1, <2>2, KeepsReturnInv DEF ReturnsNameItem
<1>2. ASSUME NEW r \in Requests, NEW s \in Sales, ReceiveAgain(r, s) PROVE ReturnInv'
  <2>1. /\ at'[r] = 0 /\ returned' = returned
        /\ \A q \in Requests \ {r} : at'[q] = at[q] /\ job'[q] = job[q] /\ seen'[q] = seen[q]
    BY <1>2 DEF ReceiveAgain, MaySend, Idle, TypeOK, saleVars
  <2> QED BY <2>1, KeepsReturnInv
<1>3. ASSUME NEW r \in Requests, Receive(r) PROVE ReturnInv'
  <2>1. ASSUME NEW s \in Sales, ReceiveReturn(r, s) PROVE ReturnInv'
    BY <1>1, <2>1 DEF ReceiveReturn
  <2>2. CASE ReceiveDelete(r)
    <3>1. PICK f \in refunds : Send(r, "delete", f.sale, f.qty, f.money, f.id)
      BY <2>2 DEF ReceiveDelete
    <3>2. f.sale \in Sales
      BY DEF TypeOK
    <3> QED BY <1>1, <3>1, <3>2
  <2>3. ASSUME NEW s \in Sales, ReceiveCreate(r, s) \/ ReceivePost(r, s) \/ ReceiveCancel(r, s)
        PROVE ReturnInv'
    BY <1>1, <2>3 DEF ReceiveCreate, ReceivePost, ReceiveCancel
  <2> QED BY <1>2, <1>3, <2>1, <2>2, <2>3 DEF Receive
<1>4. ASSUME NEW r \in Requests, NEW a, Abandon(r, a) PROVE ReturnInv'
  <2>1. /\ at'[r] = 0 /\ returned' = returned
        /\ \A q \in Requests \ {r} : at'[q] = at[q] /\ job'[q] = job[q] /\ seen'[q] = seen[q]
    BY <1>4 DEF Abandon, Finish, TypeOK, saleVars
  <2> QED BY <2>1, KeepsReturnInv
<1>5. ASSUME NEW r \in Requests, NEW statement, At(r, statement), Advance(r),
             UNCHANGED <<returned, job, seen>>,
             statement \in Locking \cup {"noReturns", "stillThere"}
      PROVE ReturnInv'
  <2>1. job[r] \in Job /\ at[r] \in 1..Len(Program(job[r])) /\ at'[r] = at[r] + 1
    BY <1>5, ProgramLength DEF TypeOK, Advance, At, Idle
  <2>2. /\ job[r].kind = "return" => at[r] # 1
        /\ job[r].kind = "delete" => at[r] = 1 \/ at[r] > 2
    <3>1. statement # "remaining"
      BY <1>5 DEF Locking
    <3> QED BY <1>5, <2>1, <3>1, ProgramShape DEF At
  <2>3. \A q \in Requests \ {r} : at'[q] = at[q] /\ job'[q] = job[q] /\ seen'[q] = seen[q]
    BY <1>5 DEF Advance, TypeOK
  <2>4. ReturnsNameItem(job'[r].sale) => (at'[r] # 0 => job'[r].kind # "returnByProduct")
    BY <1>5, <2>1 DEF ReturnInv, WithinSold
  <2> QED BY <1>5, <2>1, <2>2, <2>3, <2>4, KeepsReturnInv
<1>6. ASSUME NEW r \in Requests, CheckNoReturns(r) \/ CheckStillThere(r) \/ Lock(r)
      PROVE ReturnInv'
  BY <1>4, <1>5, <1>6 DEF CheckNoReturns, CheckStillThere, Lock, saleVars, Locking
<1>7. ASSUME NEW r \in Requests, ReadItem(r), ~ Abandon(r, "rejected") PROVE ReturnInv'
  <2> DEFINE s == job[r].sale
  <2>1. /\ At(r, "remaining") /\ Advance(r)
        /\ seen' = [seen EXCEPT ![r] = returned[s]]
        /\ UNCHANGED <<returned, job>>
        /\ ~ (job[r].kind = "return" /\ job[r].qty > Units[s] - returned[s])
    BY <1>7 DEF ReadItem, saleVars
  <2>2. /\ s \in Sales /\ job[r].qty \in Nat /\ returned[s] \in Nat /\ Units[s] \in Nat
        /\ at'[r] = at[r] + 1 /\ at[r] # 0 /\ seen'[r] = returned[s]
    BY <2>1 DEF TypeOK, Job, Advance, At, Idle
  <2>3. job[r].kind = "return" => seen'[r] + job[r].qty <= Units[s]
    BY <2>1, <2>2
  <2>4. ReturnsNameItem(s) => seen'[r] <= Units[s]
    BY <2>2 DEF ReturnInv, ReturnedWithinSold, ReturnsNameItem
  <2>5. ASSUME NEW q \in Requests, q # r, ReturnsNameItem(job'[q].sale) PROVE WithinSold(q)'
    BY <2>1, <2>5 DEF ReturnInv, WithinSold, Advance, TypeOK
  <2>6. ReturnedWithinSold'
    BY <2>1 DEF ReturnInv, ReturnedWithinSold
  <2>7. ASSUME ReturnsNameItem(job'[r].sale) PROVE WithinSold(r)'
    <3>1. job'[r] = job[r] /\ job[r].kind # "returnByProduct"
      BY <2>1, <2>2, <2>7 DEF ReturnInv, WithinSold
    <3> QED BY <2>3, <2>4, <2>7, <3>1 DEF WithinSold
  <2> QED BY <2>5, <2>6, <2>7 DEF ReturnInv, ReturnsNameItem
<1>8. ASSUME NEW r \in Requests, CommitCreate(r) PROVE ReturnInv'
  <2>1. /\ at'[r] < 2 /\ returned' = returned
        /\ \A q \in Requests \ {r} : at'[q] = at[q] /\ job'[q] = job[q] /\ seen'[q] = seen[q]
        /\ at'[r] # 0 => job'[r].kind # "returnByProduct"
    BY <1>8 DEF CommitCreate, Finish, TypeOK
  <2> QED BY <2>1, KeepsReturnInv
<1>9. ASSUME NEW r \in Requests, CommitPost(r) \/ CommitCancel(r) PROVE ReturnInv'
  <2>1. /\ at'[r] = 0 /\ returned' = returned
        /\ \A q \in Requests \ {r} : at'[q] = at[q] /\ job'[q] = job[q] /\ seen'[q] = seen[q]
    BY <1>9 DEF CommitPost, CommitCancel, Finish, TypeOK
  <2> QED BY <2>1, KeepsReturnInv
<1>10. ASSUME NEW r \in Requests, CommitReturn(r) \/ CommitDelete(r) PROVE ReturnInv'
  <2> DEFINE s == job[r].sale
  <2>1. /\ job[r] \in Job /\ at[r] \in 1..Len(Program(job[r]))
        /\ Program(job[r])[at[r]] = "commit"
    BY <1>10, ProgramLength DEF CommitReturn, CommitDelete, At, Idle, TypeOK
  <2>2. at[r] = Len(Program(job[r]))
    BY <2>1, ProgramShape
  <2>3. s \in Sales /\ job[r].qty \in Nat /\ seen[r] \in Nat /\ Units[s] \in Nat
    BY DEF TypeOK, Job
  <2>4. ASSUME ReturnsNameItem(s) PROVE returned'[s] \in 0..Units[s]
    <3>0. WithinSold(r)
      BY <2>4 DEF ReturnInv
    <3>1. CASE CommitReturn(r)
      <4>1. job[r].kind = "return" /\ at[r] = 6
        <5>1. job[r].kind # "returnByProduct"
          BY <2>1, <3>0 DEF WithinSold
        <5> QED BY <2>1, <2>2, <3>1, <5>1, ProgramShape DEF CommitReturn
      <4>2. seen[r] + job[r].qty <= Units[s]
        BY <3>0, <4>1 DEF WithinSold
      <4>3. returned'[s] = seen[r] + job[r].qty
        BY <2>3, <3>1 DEF CommitReturn, TypeOK
      <4> QED BY <2>3, <4>2, <4>3
    <3>2. CASE CommitDelete(r)
      <4>1. job[r].kind = "delete" /\ at[r] = 8
        BY <2>1, <2>2, <3>2, ProgramShape DEF CommitDelete
      <4>2. seen[r] <= Units[s]
        BY <3>0, <4>1 DEF WithinSold
      <4>3. returned'[s] = IF seen[r] - job[r].qty < 0 THEN 0 ELSE seen[r] - job[r].qty
        BY <2>3, <3>2 DEF CommitDelete, TypeOK
      <4> QED BY <2>3, <4>2, <4>3
    <3> QED BY <1>10, <3>1, <3>2
  <2>5. \A t \in Sales : t # s => returned'[t] = returned[t]
    BY <1>10 DEF CommitReturn, CommitDelete, TypeOK
  <2>6. ReturnedWithinSold'
    BY <2>4, <2>5 DEF ReturnInv, ReturnedWithinSold, ReturnsNameItem
  <2>7. /\ at'[r] = 0 /\ UNCHANGED <<job, seen>>
        /\ \A q \in Requests \ {r} : at'[q] = at[q]
    BY <1>10 DEF CommitReturn, CommitDelete, Finish, TypeOK
  <2>8. \A q \in Requests : WithinSold(q) => WithinSold(q)'
    BY <2>7 DEF WithinSold
  <2> QED BY <2>6, <2>7, <2>8 DEF ReturnInv, ReturnsNameItem
<1>11. ASSUME NEW r \in Requests, Fail(r) \/ DeadlockVictim(r) PROVE ReturnInv'
  BY <1>4, <1>11 DEF Fail, DeadlockVictim
<1>12. CASE UNCHANGED vars
  <2>1. \A q \in Requests : WithinSold(q) => WithinSold(q)'
    BY <1>12 DEF vars, WithinSold
  <2> QED BY <1>12, <2>1 DEF vars, ReturnInv, ReturnedWithinSold, ReturnsNameItem
<1> QED BY <1>3, <1>4, <1>6, <1>7, <1>8, <1>9, <1>10, <1>11, <1>12 DEF Next, Step, Quiescent

\* However returns and deletions overlap, quantity_returned never exceeds the
\* quantity sold, for a sale whose returns all name their sale item.
THEOREM ReturnedAlwaysWithinSold == Spec => []ReturnedWithinSold
<1>1. Init => ReturnInv
  BY SalesAssumption DEF Init, ReturnInv, ReturnedWithinSold, WithinSold
<1>2. TypeOK /\ TypeOK' /\ ReturnInv /\ [Next]_vars => ReturnInv'
  BY NextReturnInv
<1>3. ReturnInv => ReturnedWithinSold
  BY DEF ReturnInv
<1> QED BY <1>1, <1>2, <1>3, TypeCorrect, PTL DEF Spec

-----------------------------------------------------------------------------
(* Sales whose requests do not overlap *)

\* Two requests in progress are for different sales, unless the sale is Shared,
\* so what one has read of the status of its sale still holds.
OrderlyInv ==
  /\ EntriesFollowStatus
  /\ \A q, r \in Requests :
       q # r /\ at[q] # 0 /\ at[r] # 0 /\ job[q].sale = job[r].sale => job[r].sale \in Shared
  /\ \A r \in Requests :
       at[r] # 0 /\ job[r].sale \notin Shared =>
         /\ job[r].kind = "create" => status[job[r].sale] = "none"
         /\ job[r].kind \in {"post", "autopost"} => status[job[r].sale] = "draft"
         /\ job[r].kind = "cancel" => /\ status[job[r].sale] = job[r].was
                                      /\ job[r].was \in {"draft", "posted"}

\* A request that arrives is alone with its sale and has just read it.
LEMMA SendOrderlyInv ==
  ASSUME TypeOK, OrderlyInv, NEW r \in Requests, NEW kind, NEW s \in Sales, NEW qty, NEW money,
         NEW id, Send(r, kind, s, qty, money, id),
         kind = "create" => status[s] = "none",
         kind = "post" => status[s] = "draft",
         kind = "cancel" => status[s] \in {"draft", "posted"},
         kind # "autopost"
  PROVE  OrderlyInv'
<1>1. /\ job'[r].sale = s /\ job'[r].kind = kind /\ job'[r].was = status[s]
      /\ UNCHANGED <<status, entries>>
      /\ \A q \in Requests \ {r} : at'[q] = at[q] /\ job'[q] = job[q]
      /\ \A q \in Requests : at[q] # 0 /\ job[q].sale = s => s \in Shared
  BY DEF Send, MaySend, Idle, TypeOK, saleVars
<1>2. EntriesFollowStatus'
  BY <1>1 DEF OrderlyInv, EntriesFollowStatus
<1>3. ASSUME NEW p \in Requests, NEW q \in Requests, p # q, at'[p] # 0, at'[q] # 0,
             job'[p].sale = job'[q].sale
      PROVE  job'[q].sale \in Shared
  BY <1>1, <1>3 DEF OrderlyInv
<1>4. ASSUME NEW q \in Requests, at'[q] # 0, job'[q].sale \notin Shared
      PROVE  /\ job'[q].kind = "create" => status'[job'[q].sale] = "none"
             /\ job'[q].kind \in {"post", "autopost"} => status'[job'[q].sale] = "draft"
             /\ job'[q].kind = "cancel" => /\ status'[job'[q].sale] = job'[q].was
                                           /\ job'[q].was \in {"draft", "posted"}
  BY <1>1, <1>4 DEF OrderlyInv
<1> QED BY <1>2, <1>3, <1>4 DEF OrderlyInv

\* A step that leaves the statuses and the entries alone and keeps or ends a
\* request.
LEMMA KeepsOrderlyInv ==
  ASSUME OrderlyInv, NEW r \in Requests, UNCHANGED <<status, entries>>,
         \A q \in Requests \ {r} : at'[q] = at[q] /\ job'[q] = job[q],
         at'[r] = 0 \/ (at[r] # 0 /\ job'[r] = job[r])
  PROVE  OrderlyInv'
<1>1. EntriesFollowStatus'
  BY DEF OrderlyInv, EntriesFollowStatus
<1>2. ASSUME NEW p \in Requests, NEW q \in Requests, p # q, at'[p] # 0, at'[q] # 0,
             job'[p].sale = job'[q].sale
      PROVE  job'[q].sale \in Shared
  BY <1>2 DEF OrderlyInv
<1>3. ASSUME NEW q \in Requests, at'[q] # 0, job'[q].sale \notin Shared
      PROVE  /\ job'[q].kind = "create" => status'[job'[q].sale] = "none"
             /\ job'[q].kind \in {"post", "autopost"} => status'[job'[q].sale] = "draft"
             /\ job'[q].kind = "cancel" => /\ status'[job'[q].sale] = job'[q].was
                                           /\ job'[q].was \in {"draft", "posted"}
  BY <1>3 DEF OrderlyInv
<1> QED BY <1>1, <1>2, <1>3 DEF OrderlyInv

\* A commit that gives a sale its new status.
LEMMA CommitOrderlyInv ==
  ASSUME TypeOK, OrderlyInv, NEW r \in Requests, NEW new \in Statuses, NEW n \in Int,
         at[r] # 0,
         status' = [status EXCEPT ![job[r].sale] = new],
         entries' = [entries EXCEPT ![job[r].sale] = n],
         job[r].sale \notin Shared => n = IF new = "posted" THEN 1 ELSE 0,
         \A q \in Requests \ {r} : at'[q] = at[q] /\ job'[q] = job[q],
         \/ at'[r] = 0
         \/ job'[r].kind = "autopost" /\ job'[r].sale = job[r].sale /\ new = "draft"
  PROVE  OrderlyInv'
<1>1. job[r].sale \in Sales
  BY DEF TypeOK, Job
<1>2. EntriesFollowStatus'
  BY <1>1 DEF OrderlyInv, EntriesFollowStatus, TypeOK
<1>3. ASSUME NEW p \in Requests, NEW q \in Requests, p # q, at'[p] # 0, at'[q] # 0,
             job'[p].sale = job'[q].sale
      PROVE  job'[q].sale \in Shared
  BY <1>3 DEF OrderlyInv
<1>4. ASSUME NEW q \in Requests, at'[q] # 0, job'[q].sale \notin Shared
      PROVE  /\ job'[q].kind = "create" => status'[job'[q].sale] = "none"
             /\ job'[q].kind \in {"post", "autopost"} => status'[job'[q].sale] = "draft"
             /\ job'[q].kind = "cancel" => /\ status'[job'[q].sale] = job'[q].was
                                           /\ job'[q].was \in {"draft", "posted"}
  <2>1. CASE q = r
    BY <1>1, <1>4, <2>1 DEF TypeOK
  <2>2. CASE q # r
    <3>1. at[q] # 0 /\ job'[q] = job[q] /\ job[q].sale # job[r].sale
      BY <1>4, <2>2 DEF OrderlyInv
    <3>2. job[q].sale \in Sales
      BY DEF TypeOK, Job
    <3>3. status'[job[q].sale] = status[job[q].sale]
      BY <3>1, <3>2 DEF TypeOK
    <3> QED BY <1>4, <3>1, <3>3 DEF OrderlyInv
  <2> QED BY <2>1, <2>2
<1> QED BY <1>2, <1>3, <1>4 DEF OrderlyInv

LEMMA NextOrderlyInv ==
  ASSUME TypeOK, OrderlyInv, [Next]_vars
  PROVE  OrderlyInv'
<1> USE SalesAssumption
<1>1. ASSUME NEW r \in Requests, Receive(r) PROVE OrderlyInv'
  <2>1. ASSUME NEW s \in Sales, ReceiveCreate(r, s) \/ ReceivePost(r, s) \/ ReceiveCancel(r, s)
        PROVE OrderlyInv'
    BY <2>1, SendOrderlyInv DEF ReceiveCreate, ReceivePost, ReceiveCancel
  <2>2. ASSUME NEW s \in Sales, ReceiveAgain(r, s) PROVE OrderlyInv'
    <3>1. /\ at'[r] = 0 /\ UNCHANGED <<status, entries>>
          /\ \A q \in Requests \ {r} : at'[q] = at[q] /\ job'[q] = job[q]
      BY <2>2 DEF ReceiveAgain, MaySend, Idle, TypeOK, saleVars
    <3> QED BY <3>1, KeepsOrderlyInv
  <2>3. ASSUME NEW s \in Sales, ReceiveReturn(r, s) PROVE OrderlyInv'
    BY <2>3, SendOrderlyInv DEF ReceiveReturn
  <2>4. CASE ReceiveDelete(r)
    <3>1. PICK f \in refunds : Send(r, "delete", f.sale, f.qty, f.money, f.id)
      BY <2>4 DEF ReceiveDelete
    <3>2. f.sale \in Sales
      BY DEF TypeOK
    <3> QED BY <3>1, <3>2, SendOrderlyInv
  <2> QED BY <1>1, <2>1, <2>2, <2>3, <2>4 DEF Receive
<1>2. ASSUME NEW r \in Requests, NEW a, Abandon(r, a) PROVE OrderlyInv'
  <2>1. /\ at'[r] = 0 /\ UNCHANGED <<status, entries>>
        /\ \A q \in Requests \ {r} : at'[q] = at[q] /\ job'[q] = job[q]
    BY <1>2 DEF Abandon, Finish, TypeOK, saleVars
  <2> QED BY <2>1, KeepsOrderlyInv
<1>3. ASSUME NEW r \in Requests, at[r] # 0, Advance(r), UNCHANGED <<saleVars, job>>
      PROVE OrderlyInv'
  <2>1. /\ job'[r] = job[r] /\ UNCHANGED <<status, entries>>
        /\ \A q \in Requests \ {r} : at'[q] = at[q] /\ job'[q] = job[q]
    BY <1>3 DEF Advance, TypeOK, saleVars
  <2> QED BY <1>3, <2>1, KeepsOrderlyInv
<1>4. ASSUME NEW r \in Requests,
             CheckNoReturns(r) \/ CheckStillThere(r) \/ ReadItem(r) \/ Lock(r)
      PROVE OrderlyInv'
  BY <1>2, <1>3, <1>4 DEF CheckNoReturns, CheckStillThere, ReadItem, Lock, At, Idle
<1>5. ASSUME NEW r \in Requests, CommitCreate(r) PROVE OrderlyInv'
  <2> DEFINE s == job[r].sale
  <2>1. s \in Sales /\ at[r] # 0 /\ job[r].kind = "create"
    BY <1>5 DEF TypeOK, Job, CommitCreate, At, Idle
  <2>2. s \notin Shared => entries[s] = 0
    BY <2>1 DEF OrderlyInv, EntriesFollowStatus
  <2>3. /\ status' = [status EXCEPT ![s] = "draft"]
        /\ entries' = [entries EXCEPT ![s] = entries[s]] /\ entries[s] \in Int
    BY <1>5, <2>1 DEF CommitCreate, TypeOK
  <2>4. /\ \A q \in Requests \ {r} : at'[q] = at[q] /\ job'[q] = job[q]
        /\ at'[r] = 0 \/ (job'[r].kind = "autopost" /\ job'[r].sale = s)
    BY <1>5 DEF CommitCreate, Finish, TypeOK
  <2>5. "draft" \in Statuses
    BY DEF Statuses
  <2> QED BY <2>1, <2>2, <2>3, <2>4, <2>5, CommitOrderlyInv
<1>6. ASSUME NEW r \in Requests, CommitPost(r) PROVE OrderlyInv'
  <2> DEFINE s == job[r].sale
  <2>1. s \in Sales /\ at[r] # 0 /\ job[r].kind \in {"post", "autopost"}
    BY <1>6 DEF TypeOK, Job, CommitPost, At, Idle
  <2>2. s \notin Shared => entries[s] = 0
    BY <2>1 DEF OrderlyInv, EntriesFollowStatus
  <2>3. /\ status' = [status EXCEPT ![s] = "posted"]
        /\ entries' = [entries EXCEPT ![s] = entries[s] + 1] /\ entries[s] \in Int
    BY <1>6, <2>1 DEF CommitPost, TypeOK
  <2>4. at'[r] = 0 /\ \A q \in Requests \ {r} : at'[q] = at[q] /\ job'[q] = job[q]
    BY <1>6 DEF CommitPost, Finish, TypeOK
  <2>5. "posted" \in Statuses
    BY DEF Statuses
  <2>6. s \notin Shared => entries[s] + 1 = 1
    BY <2>2
  <2>7. entries[s] + 1 \in Int
    BY <2>3
  <2> QED BY <2>1, <2>3, <2>4, <2>5, <2>6, <2>7, CommitOrderlyInv
<1>7. ASSUME NEW r \in Requests, CommitCancel(r) PROVE OrderlyInv'
  <2> DEFINE s == job[r].sale
             n == entries[s] - (IF job[r].was = "posted" THEN 1 ELSE 0)
  <2>1. s \in Sales /\ at[r] # 0 /\ job[r].kind = "cancel"
    BY <1>7 DEF TypeOK, Job, CommitCancel, At, Idle
  <2>2. entries[s] \in Int /\ n \in Int
    BY <2>1 DEF TypeOK
  <2>3. s \notin Shared => n = 0
    BY <2>1, <2>2 DEF OrderlyInv, EntriesFollowStatus
  <2>4. status' = [status EXCEPT ![s] = "cancelled"] /\ entries' = [entries EXCEPT ![s] = n]
    BY <1>7 DEF CommitCancel
  <2>5. at'[r] = 0 /\ \A q \in Requests \ {r} : at'[q] = at[q] /\ job'[q] = job[q]
    BY <1>7 DEF CommitCancel, Finish, TypeOK
  <2>6. "cancelled" \in Statuses
    BY DEF Statuses
  <2> HIDE DEF n
  <2> QED BY <2>1, <2>2, <2>3, <2>4, <2>5, <2>6, CommitOrderlyInv
<1>8. ASSUME NEW r \in Requests, CommitReturn(r) \/ CommitDelete(r) PROVE OrderlyInv'
  <2>1. /\ at'[r] = 0 /\ UNCHANGED <<status, entries>>
        /\ \A q \in Requests \ {r} : at'[q] = at[q] /\ job'[q] = job[q]
    BY <1>8 DEF CommitReturn, CommitDelete, Finish, TypeOK
  <2> QED BY <2>1, KeepsOrderlyInv
<1>9. ASSUME NEW r \in Requests, Fail(r) \/ DeadlockVictim(r) PROVE OrderlyInv'
  BY <1>2, <1>9 DEF Fail, DeadlockVictim
<1>10. CASE UNCHANGED vars
  BY <1>10 DEF vars, OrderlyInv, EntriesFollowStatus
<1> QED BY <1>1, <1>4, <1>5, <1>6, <1>7, <1>8, <1>9, <1>10 DEF Next, Step, Quiescent

LEMMA OrderlyAlways == Spec => []OrderlyInv
<1>1. Init => OrderlyInv
  BY SalesAssumption DEF Init, OrderlyInv, EntriesFollowStatus
<1>2. TypeOK /\ OrderlyInv /\ [Next]_vars => OrderlyInv'
  BY NextOrderlyInv
<1> QED BY <1>1, <1>2, TypeCorrect, PTL DEF Spec

\* The journal holds one entry for each posted sale and none for any other, for
\* every sale whose requests do not overlap.
THEOREM JournalFollowsStatus == Spec => []EntriesFollowStatus
<1>1. OrderlyInv => EntriesFollowStatus
  BY DEF OrderlyInv
<1> QED BY <1>1, OrderlyAlways, PTL

\* "A cancelled invoice cannot be posted" (sales/reports.ts:209): a cancelled sale
\* whose requests do not overlap stays cancelled.
OrderlyCancelledIsFinal ==
  [][\A s \in Sales \ Shared : status[s] = "cancelled" => status'[s] = "cancelled"]_vars

THEOREM CancelledStays == Spec => OrderlyCancelledIsFinal
<1>1. ASSUME TypeOK, OrderlyInv, Next, NEW s \in Sales \ Shared, status[s] = "cancelled"
      PROVE  status'[s] = "cancelled"
  <2>1. ASSUME NEW r \in Requests, CommitCreate(r) \/ CommitPost(r) \/ CommitCancel(r)
        PROVE  status'[s] = "cancelled"
    <3>1. at[r] # 0 /\ job[r].kind \in {"create", "post", "autopost", "cancel"}
      BY <2>1 DEF CommitCreate, CommitPost, CommitCancel, At, Idle
    <3>2. job[r].sale # s
      BY <1>1, <3>1 DEF OrderlyInv
    <3> QED BY <1>1, <2>1, <3>2 DEF CommitCreate, CommitPost, CommitCancel, TypeOK
  <2>2. ASSUME UNCHANGED status PROVE status'[s] = "cancelled"
    BY <1>1, <2>2
  <2>3. ASSUME NEW r \in Requests, Receive(r) PROVE UNCHANGED status
    BY <2>3 DEF Receive, ReceiveCreate, ReceiveAgain, ReceivePost, ReceiveCancel,
                ReceiveReturn, ReceiveDelete, Send, saleVars
  <2>4. ASSUME NEW r \in Requests,
               \/ CheckNoReturns(r) \/ CheckStillThere(r) \/ ReadItem(r) \/ Lock(r)
               \/ CommitReturn(r) \/ CommitDelete(r) \/ Fail(r) \/ DeadlockVictim(r)
        PROVE  UNCHANGED status
    BY <2>4 DEF CheckNoReturns, CheckStillThere, ReadItem, Lock, CommitReturn, CommitDelete,
                Fail, DeadlockVictim, Abandon, saleVars
  <2>5. CASE Quiescent
    BY <1>1, <2>5 DEF Quiescent, vars
  <2> QED BY <1>1, <2>1, <2>2, <2>3, <2>4, <2>5 DEF Next, Step
<1>2. TypeOK /\ OrderlyInv /\ [Next]_vars
        => [\A s \in Sales \ Shared : status[s] = "cancelled" => status'[s] = "cancelled"]_vars
  BY <1>1
<1> QED BY <1>2, TypeCorrect, OrderlyAlways, PTL DEF Spec, OrderlyCancelledIsFinal

-----------------------------------------------------------------------------
(* The rows of sales_returns and their quantities *)

\* The pieces of a row.
Quantity(S) == [f \in S |-> f.qty]

LEMMA PiecesAreSum == \A S : Pieces(S) = SumFunctionOnSet(Quantity(S), S)
BY DEF Pieces, Quantity, MapThenSumSet, SumFunctionOnSet, FoldFunctionOnSet, MapThenFoldSet

LEMMA PiecesOfNone == Pieces({}) = 0
BY PiecesAreSum, SumEmpty

\* They are a number, and no row takes back more.
LEMMA PiecesCount ==
  ASSUME NEW S, IsFiniteSet(S), \A f \in S : f.qty \in Nat
  PROVE  Pieces(S) \in Nat /\ \A f \in S : f.qty <= Pieces(S)
<1>1. \A f \in S : Quantity(S)[f] = f.qty
  BY DEF Quantity
<1>2. \A f \in S : Quantity(S)[f] \in Nat
  BY <1>1
<1> QED BY <1>1, <1>2, PiecesAreSum, SumNat

LEMMA PiecesWithOneMore ==
  ASSUME NEW S, IsFiniteSet(S), NEW f, f \notin S, \A g \in S \cup {f} : g.qty \in Nat
  PROVE  Pieces(S \cup {f}) = Pieces(S) + f.qty
<1> DEFINE T == S \cup {f}
<1>1. \A g \in T : Quantity(T)[g] = g.qty
  BY DEF Quantity
<1>2. \A g \in S : Quantity(S)[g] = g.qty
  BY DEF Quantity
<1>3. SumFunctionOnSet(Quantity(T), S) = SumFunctionOnSet(Quantity(S), S)
  BY <1>1, <1>2, SumSame
<1>4. \A g \in T : Quantity(T)[g] \in Int
  BY <1>1
<1>5. SumFunctionOnSet(Quantity(T), T) = SumFunctionOnSet(Quantity(T), S) + Quantity(T)[f]
  BY <1>4, SumAdd
<1> QED BY <1>1, <1>3, <1>5, PiecesAreSum

LEMMA PiecesWithoutOne ==
  ASSUME NEW S, IsFiniteSet(S), NEW f \in S, \A g \in S : g.qty \in Nat
  PROVE  Pieces(S \ {f}) = Pieces(S) - f.qty
<1>1. IsFiniteSet(S \ {f}) /\ (S \ {f}) \cup {f} = S
  BY FS_RemoveElement
<1>2. Pieces(S) = Pieces(S \ {f}) + f.qty
  BY <1>1, PiecesWithOneMore
<1>3. Pieces(S \ {f}) \in Nat /\ f.qty \in Nat
  BY <1>1, PiecesCount
<1> QED BY <1>2, <1>3

-----------------------------------------------------------------------------
(* The column, the rows of sales_returns and the journal *)

ReturnKinds == {"return", "returnByProduct"}

\* The id of a return is its own: no other row has it, and no request in progress
\* but one that deletes that row.
RefundIds ==
  /\ \A f \in refunds : f.id <= sent
  /\ \A f, g \in refunds : f.id = g.id => f = g
  /\ \A r \in Requests : at[r] # 0 => job[r].id <= sent
  /\ \A r \in Requests, f \in refunds : at[r] # 0 /\ f.id = job[r].id =>
       job[r].kind = "delete" /\ f.sale = job[r].sale /\ f.qty = job[r].qty
  /\ \A q, r \in Requests :
       q # r /\ at[q] # 0 /\ at[r] # 0 /\ job[q].kind \in ReturnKinds => job[q].id # job[r].id

\* Only what was sold comes back.
SalesExist ==
  /\ \A f \in refunds : status[f.sale] # "none"
  /\ \A r \in Requests :
       at[r] # 0 /\ job[r].kind \in ReturnKinds \cup {"delete"} => status[job[r].sale] # "none"

\* r has read quantity_returned.
PastItem(r) == IF job[r].kind = "delete" THEN at[r] > 2
                                         ELSE job[r].kind \in ReturnKinds /\ at[r] > 1

\* What r has checked before its transaction still holds at its COMMIT when nobody
\* else is at work on its sale.
StillHolds(r) ==
  LET s == job[r].sale
  IN /\ job[r].kind = "delete" => \E f \in RefundsOf(s) : f.id = job[r].id
     /\ job[r].kind = "cancel" /\ at[r] > 1 => RefundsOf(s) = {}
     /\ PastItem(r) => seen[r] = returned[s]

BooksAgree(s) ==
  /\ returned[s] = Refunded(s)
  /\ cost[s] = entries[s] * Units[s] - Refunded(s)

DocsInv ==
  /\ IsFiniteSet(refunds)
  /\ RefundIds
  /\ SalesExist
  /\ \A r \in Requests : at[r] # 0 /\ job[r].sale \notin Shared => StillHolds(r)
  /\ \A s \in Sales \ Shared : BooksAgree(s)

\* The other requests stay where they are.
OthersStay(r) ==
  \A q \in Requests \ {r} : at'[q] = at[q] /\ job'[q] = job[q] /\ seen'[q] = seen[q]

LEMMA SentBound == MaxSent \in Nat
BY SalesAssumption

\* The number of pieces a sale got back.
LEMMA RefundedCount ==
  ASSUME TypeOK, IsFiniteSet(refunds), NEW s
  PROVE  /\ IsFiniteSet(RefundsOf(s))
         /\ \A f \in RefundsOf(s) : f.qty \in Nat \ {0}
         /\ Refunded(s) \in Nat
         /\ \A f \in RefundsOf(s) : f.qty <= Refunded(s)
<1>1. IsFiniteSet(RefundsOf(s))
  BY FS_Subset DEF RefundsOf
<1>2. \A f \in RefundsOf(s) : f.qty \in Nat \ {0}
  BY DEF RefundsOf, TypeOK
<1> QED BY <1>1, <1>2, PiecesCount DEF Refunded

\* No id is used twice, as long as rows only disappear and no return is sent.
LEMMA KeepsRefundIds ==
  ASSUME TypeOK, TypeOK', RefundIds, NEW r \in Requests, OthersStay(r),
         refunds' \subseteq refunds, sent' >= sent,
         \/ at'[r] = 0
         \/ at[r] # 0 /\ job'[r] = job[r]
         \/ job'[r].id = 0 /\ job'[r].kind \notin ReturnKinds
  PROVE  RefundIds'
<1>1. sent \in Nat /\ sent' \in Nat
  BY SalesAssumption DEF TypeOK
<1>2. \A f \in refunds : f.id \in Nat \ {0}
  BY SentBound DEF TypeOK, Ids
<1>3. \A q \in Requests : /\ job[q].id \in Nat /\ job'[q].id \in Nat
                          /\ job[q].kind \in ReturnKinds => job[q].id > 0
  <2>1. \A q \in Requests : job[q].id \in 0..MaxSent /\ job'[q].id \in 0..MaxSent
    BY DEF TypeOK, Job
  <2>2. \A q \in Requests : job[q].kind \in ReturnKinds => job[q].id > 0
    BY DEF TypeOK, ReturnKinds
  <2> QED BY <2>1, <2>2, SentBound
<1>4. \A f \in refunds' : f.id <= sent'
  BY <1>1, <1>2 DEF RefundIds
<1>5. \A f, g \in refunds' : f.id = g.id => f = g
  BY DEF RefundIds
<1>6. ASSUME NEW q \in Requests, at'[q] # 0
      PROVE  /\ job'[q].id <= sent'
             /\ \A f \in refunds' : f.id = job'[q].id =>
                  job'[q].kind = "delete" /\ f.sale = job'[q].sale /\ f.qty = job'[q].qty
  BY <1>1, <1>2, <1>3, <1>6 DEF RefundIds, OthersStay
<1>7. ASSUME NEW p \in Requests, NEW q \in Requests, p # q, at'[p] # 0, at'[q] # 0,
             job'[p].kind \in ReturnKinds
      PROVE  job'[p].id # job'[q].id
  BY <1>3, <1>7 DEF RefundIds, OthersStay
<1> QED BY <1>4, <1>5, <1>6, <1>7 DEF RefundIds

\* A sale that exists stays.
LEMMA KeepsSalesExist ==
  ASSUME TypeOK, SalesExist, NEW r \in Requests, OthersStay(r),
         refunds' \subseteq refunds,
         \A s \in Sales : status[s] # "none" => status'[s] # "none",
         \/ at'[r] = 0
         \/ at[r] # 0 /\ job'[r] = job[r]
         \/ job'[r].kind \notin ReturnKinds \cup {"delete"}
         \/ job'[r].sale \in Sales /\ status[job'[r].sale] # "none"
  PROVE  SalesExist'
<1>1. \A q \in Requests : job[q].sale \in Sales
  BY DEF TypeOK, Job
<1>2. \A f \in refunds : f.sale \in Sales
  BY DEF TypeOK
<1>3. \A f \in refunds' : status'[f.sale] # "none"
  BY <1>2 DEF SalesExist
<1>4. ASSUME NEW q \in Requests, at'[q] # 0, job'[q].kind \in ReturnKinds \cup {"delete"}
      PROVE  status'[job'[q].sale] # "none"
  BY <1>1, <1>4 DEF SalesExist, OthersStay
<1> QED BY <1>3, <1>4 DEF SalesExist

\* What holds for a request keeps holding while its sale is left alone.
LEMMA KeepsStillHolds ==
  ASSUME NEW q \in Requests, StillHolds(q),
         at'[q] = at[q], job'[q] = job[q], seen'[q] = seen[q],
         RefundsOf(job[q].sale)' = RefundsOf(job[q].sale),
         returned'[job[q].sale] = returned[job[q].sale]
  PROVE  StillHolds(q)'
<1>1. Refunded(job[q].sale)' = Refunded(job[q].sale)
  BY DEF Refunded
<1> QED BY <1>1 DEF StillHolds, PastItem

\* A step that changes no return, and what it books it books for its sale.
LEMMA KeepsDocsInv ==
  ASSUME TypeOK, TypeOK', DocsInv, NEW r \in Requests, OthersStay(r),
         UNCHANGED <<refunds, returned>>,
         \A s \in Sales \ Shared :
           cost'[s] - entries'[s] * Units[s] = cost[s] - entries[s] * Units[s],
         RefundIds', SalesExist',
         at'[r] # 0 /\ job'[r].sale \notin Shared => StillHolds(r)'
  PROVE  DocsInv'
<1>1. ASSUME NEW q \in Requests, at'[q] # 0, job'[q].sale \notin Shared PROVE StillHolds(q)'
  <2>1. CASE q = r BY <1>1, <2>1
  <2>2. CASE q # r
    <3>1. at'[q] = at[q] /\ job'[q] = job[q] /\ seen'[q] = seen[q]
      BY <2>2 DEF OthersStay
    <3>2. StillHolds(q)
      BY <1>1, <3>1 DEF DocsInv
    <3>3. /\ RefundsOf(job[q].sale)' = RefundsOf(job[q].sale)
          /\ returned'[job[q].sale] = returned[job[q].sale]
      BY <3>1 DEF RefundsOf
    <3> QED BY <3>1, <3>2, <3>3, KeepsStillHolds
  <2> QED BY <2>1, <2>2
<1>2. ASSUME NEW s \in Sales \ Shared PROVE BooksAgree(s)'
  <2>1. Refunded(s)' = Refunded(s)
    BY DEF Refunded, RefundsOf
  <2>2. BooksAgree(s)
    BY DEF DocsInv
  <2>3. Refunded(s) \in Nat
    BY RefundedCount DEF DocsInv
  <2>4. /\ entries[s] * Units[s] \in Int /\ entries'[s] * Units[s] \in Int
        /\ cost[s] \in Int /\ cost'[s] \in Int
    <3>1. Units[s] \in Nat \ {0}
      BY SalesAssumption
    <3>2. entries[s] \in Int /\ entries'[s] \in Int /\ cost[s] \in Int /\ cost'[s] \in Int
      BY DEF TypeOK
    <3> QED BY <3>1, <3>2
  <2> HIDE DEF Refunded
  <2>5. cost'[s] = entries'[s] * Units[s] - Refunded(s)
    BY <2>2, <2>3, <2>4 DEF BooksAgree
  <2> QED BY <2>1, <2>2, <2>5 DEF BooksAgree
<1> QED BY <1>1, <1>2 DEF DocsInv

\* Nothing is booked by a request that arrives, ends without a COMMIT or goes on.
LEMMA QuietDocsInv ==
  ASSUME TypeOK, TypeOK', DocsInv, NEW r \in Requests, OthersStay(r), UNCHANGED saleVars,
         RefundIds', SalesExist',
         at'[r] # 0 /\ job'[r].sale \notin Shared => StillHolds(r)'
  PROVE  DocsInv'
<1>1. UNCHANGED <<refunds, returned, cost, entries>>
  BY DEF saleVars
<1> QED BY <1>1, KeepsDocsInv

LEMMA EndDocsInv ==
  ASSUME TypeOK, TypeOK', DocsInv, NEW r \in Requests, OthersStay(r), UNCHANGED saleVars,
         at'[r] = 0, sent' >= sent
  PROVE  DocsInv'
<1>1. UNCHANGED <<refunds, status>>
  BY DEF saleVars
<1>2. RefundIds'
  BY <1>1, KeepsRefundIds DEF DocsInv
<1>3. SalesExist'
  BY <1>1, KeepsSalesExist DEF DocsInv
<1> QED BY <1>2, <1>3, QuietDocsInv

LEMMA AbandonDocsInv ==
  ASSUME TypeOK, TypeOK', DocsInv, NEW r \in Requests, NEW a, Abandon(r, a)
  PROVE  DocsInv'
<1>1. at'[r] = 0 /\ OthersStay(r) /\ UNCHANGED saleVars
  BY DEF TypeOK, Abandon, Finish, OthersStay
<1>2. sent' >= sent
  BY SentBound DEF TypeOK, Abandon
<1> QED BY <1>1, <1>2, EndDocsInv

\* A request that arrives and is no return and no deletion.
LEMMA SendDocsInv ==
  ASSUME TypeOK, TypeOK', DocsInv, NEW r \in Requests, NEW s \in Sales,
         NEW kind \in {"create", "post", "cancel"}, Send(r, kind, s, 0, 0, 0)
  PROVE  DocsInv'
<1>1. /\ at'[r] = 1 /\ job'[r].id = 0 /\ job'[r].kind = kind /\ job'[r].sale = s
      /\ OthersStay(r) /\ UNCHANGED saleVars
  BY DEF TypeOK, Send, OthersStay
<1>2. sent' >= sent
  BY SentBound DEF TypeOK, Send
<1>3. UNCHANGED <<refunds, status>>
  BY <1>1 DEF saleVars
<1>4. RefundIds'
  BY <1>1, <1>2, <1>3, KeepsRefundIds DEF DocsInv, ReturnKinds
<1>5. SalesExist'
  BY <1>1, <1>3, KeepsSalesExist DEF DocsInv, ReturnKinds
<1>6. StillHolds(r)'
  BY <1>1 DEF StillHolds, PastItem, ReturnKinds
<1> QED BY <1>1, <1>4, <1>5, <1>6, QuietDocsInv

\* A return gets an id nobody had before.
LEMMA SendReturnDocsInv ==
  ASSUME TypeOK, TypeOK', DocsInv, NEW r \in Requests, NEW s \in Sales,
         NEW kind \in ReturnKinds, NEW qty, NEW money,
         status[s] # "none", Send(r, kind, s, qty, money, sent + 1)
  PROVE  DocsInv'
<1>1. /\ at'[r] = 1 /\ job'[r].id = sent + 1 /\ job'[r].kind = kind /\ job'[r].sale = s
      /\ job'[r].qty = qty
      /\ OthersStay(r) /\ UNCHANGED saleVars
  BY DEF TypeOK, Send, OthersStay
<1>2. sent \in Nat /\ sent' = sent + 1
  BY SentBound DEF TypeOK, Send
<1>3. UNCHANGED <<refunds, status>>
  BY <1>1 DEF saleVars
<1>4. RefundIds'
  <2>1. \A f \in refunds' : f.id <= sent'
    <3>1. \A f \in refunds : f.id \in Nat /\ f.id <= sent
      BY SentBound DEF TypeOK, Ids, DocsInv, RefundIds
    <3> QED BY <1>2, <1>3, <3>1
  <2>2. \A f, g \in refunds' : f.id = g.id => f = g
    BY <1>3 DEF DocsInv, RefundIds
  <2>3. \A q \in Requests : job[q].id \in Nat
    <3>1. \A q \in Requests : job[q].id \in 0..MaxSent
      BY DEF TypeOK, Job
    <3> QED BY <3>1, SentBound
  <2>4. \A q \in Requests \ {r} : at'[q] # 0 => job'[q] = job[q] /\ at[q] # 0 /\ job[q].id <= sent
    BY <1>1 DEF OthersStay, DocsInv, RefundIds
  <2>5. \A q \in Requests : at'[q] # 0 => job'[q].id <= sent'
    BY <1>1, <1>2, <2>3, <2>4
  <2>6. \A f \in refunds : f.id \in Nat /\ f.id # sent + 1
    <3>1. \A f \in refunds : f.id \in Nat /\ f.id <= sent
      BY SentBound DEF TypeOK, Ids, DocsInv, RefundIds
    <3> QED BY <1>2, <3>1
  <2>7. \A q \in Requests, f \in refunds' : at'[q] # 0 /\ f.id = job'[q].id =>
          job'[q].kind = "delete" /\ f.sale = job'[q].sale /\ f.qty = job'[q].qty
    BY <1>1, <1>3, <2>4, <2>6 DEF DocsInv, RefundIds
  <2>8. \A q \in Requests \ {r} : at'[q] # 0 => job'[q].id # sent + 1
    BY <1>2, <2>3, <2>4
  <2>9. \A p, q \in Requests :
          p # q /\ at'[p] # 0 /\ at'[q] # 0 /\ job'[p].kind \in ReturnKinds => job'[p].id # job'[q].id
    BY <1>1, <2>4, <2>8 DEF DocsInv, RefundIds
  <2> QED BY <2>1, <2>2, <2>5, <2>7, <2>9 DEF RefundIds
<1>5. SalesExist'
  BY <1>1, <1>3, KeepsSalesExist DEF DocsInv
<1>6. StillHolds(r)'
  BY <1>1 DEF StillHolds, PastItem, ReturnKinds
<1> QED BY <1>1, <1>4, <1>5, <1>6, QuietDocsInv

\* A deletion names a row that is there.
LEMMA SendDeleteDocsInv ==
  ASSUME TypeOK, TypeOK', DocsInv, NEW r \in Requests, NEW f \in refunds,
         Send(r, "delete", f.sale, f.qty, f.money, f.id)
  PROVE  DocsInv'
<1>1. /\ at'[r] = 1 /\ job'[r].id = f.id /\ job'[r].kind = "delete" /\ job'[r].sale = f.sale
      /\ job'[r].qty = f.qty
      /\ OthersStay(r) /\ UNCHANGED saleVars
  BY DEF TypeOK, Send, OthersStay
<1>2. sent \in Nat /\ sent' = sent + 1 /\ f.id \in Nat /\ f.id <= sent
  BY SentBound DEF TypeOK, Send, Ids, DocsInv, RefundIds
<1>3. UNCHANGED <<refunds, status>>
  BY <1>1 DEF saleVars
<1>4. RefundIds'
  <2>1. \A g \in refunds' : g.id <= sent'
    <3>1. \A g \in refunds : g.id \in Nat /\ g.id <= sent
      BY SentBound DEF TypeOK, Ids, DocsInv, RefundIds
    <3> QED BY <1>2, <1>3, <3>1
  <2>2. \A g, h \in refunds' : g.id = h.id => g = h
    BY <1>3 DEF DocsInv, RefundIds
  <2>3. \A q \in Requests : job[q].id \in Nat
    <3>1. \A q \in Requests : job[q].id \in 0..MaxSent
      BY DEF TypeOK, Job
    <3> QED BY <3>1, SentBound
  <2>4. \A q \in Requests \ {r} : at'[q] # 0 => job'[q] = job[q] /\ at[q] # 0 /\ job[q].id <= sent
    BY <1>1 DEF OthersStay, DocsInv, RefundIds
  <2>5. \A q \in Requests : at'[q] # 0 => job'[q].id <= sent'
    BY <1>1, <1>2, <2>3, <2>4
  <2>7. \A q \in Requests, g \in refunds' : at'[q] # 0 /\ g.id = job'[q].id =>
          job'[q].kind = "delete" /\ g.sale = job'[q].sale /\ g.qty = job'[q].qty
    BY <1>1, <1>3, <2>2, <2>4 DEF DocsInv, RefundIds
  <2>8. \A q \in Requests \ {r} : at'[q] # 0 /\ job'[q].kind \in ReturnKinds => job'[q].id # f.id
    BY <1>1, <2>4 DEF DocsInv, RefundIds, ReturnKinds
  <2>9. \A p, q \in Requests :
          p # q /\ at'[p] # 0 /\ at'[q] # 0 /\ job'[p].kind \in ReturnKinds => job'[p].id # job'[q].id
    BY <1>1, <2>4, <2>8 DEF DocsInv, RefundIds, ReturnKinds
  <2> QED BY <2>1, <2>2, <2>5, <2>7, <2>9 DEF RefundIds
<1>5. SalesExist'
  <2>1. f.sale \in Sales /\ status[f.sale] # "none"
    BY DEF TypeOK, DocsInv, SalesExist
  <2> QED BY <1>1, <1>3, <2>1, KeepsSalesExist DEF DocsInv
<1>6. StillHolds(r)'
  <2>1. f \in RefundsOf(f.sale)'
    BY <1>3 DEF RefundsOf
  <2>2. ~ PastItem(r)'
    BY <1>1 DEF PastItem
  <2> QED BY <1>1, <2>1, <2>2 DEF StillHolds, ReturnKinds
<1> QED BY <1>1, <1>4, <1>5, <1>6, QuietDocsInv

\* A request goes on; what it has read of its sale it reads while it is alone.
LEMMA AdvanceDocsInv ==
  ASSUME TypeOK, TypeOK', DocsInv, NEW r \in Requests, NEW statement, At(r, statement),
         Advance(r), UNCHANGED <<saleVars, job, sent>>,
         \/ statement # "remaining" /\ seen' = seen
         \/ statement = "remaining" /\ seen' = [seen EXCEPT ![r] = returned[job[r].sale]],
         statement = "noReturns" => RefundsOf(job[r].sale) = {}
  PROVE  DocsInv'
<1>1. /\ at[r] # 0 /\ job'[r] = job[r] /\ OthersStay(r) /\ UNCHANGED <<refunds, status, returned>>
  BY DEF TypeOK, Advance, At, Idle, OthersStay, saleVars
<1>2. sent' >= sent
  BY SentBound DEF TypeOK
<1>3. RefundIds'
  BY <1>1, <1>2, KeepsRefundIds DEF DocsInv
<1>4. SalesExist'
  BY <1>1, KeepsSalesExist DEF DocsInv
<1>5. ASSUME job'[r].sale \notin Shared PROVE StillHolds(r)'
  <2>1. StillHolds(r)
    BY <1>1, <1>5 DEF DocsInv
  <2>2. RefundsOf(job[r].sale)' = RefundsOf(job[r].sale)
    BY <1>1 DEF RefundsOf
  <2>3. Refunded(job[r].sale)' = Refunded(job[r].sale)
    BY <2>2 DEF Refunded
  <2>4. job[r] \in Job /\ at[r] \in 1..Len(Program(job[r])) /\ at'[r] = at[r] + 1
    BY <1>1, ProgramLength DEF TypeOK, Advance
  <2>5. job[r].kind = "cancel" => RefundsOf(job[r].sale) = {}
    BY <2>1, <2>4, ProgramShape DEF StillHolds, At
  <2>6. PastItem(r)' => seen'[r] = returned[job[r].sale]
    <3>1. CASE statement = "remaining"
      BY <3>1 DEF TypeOK
    <3>2. CASE statement # "remaining"
      <4>1. PastItem(r)' => PastItem(r)
        BY <1>1, <2>4, <3>2, ProgramShape DEF PastItem, At, ReturnKinds
      <4> QED BY <2>1, <3>2, <4>1 DEF StillHolds
    <3> QED BY <3>1, <3>2
  <2> QED BY <1>1, <2>1, <2>2, <2>3, <2>5, <2>6 DEF StillHolds
<1> QED BY <1>1, <1>3, <1>4, <1>5, QuietDocsInv

\* A commit that changes the status of its sale books one entry or takes it back.
LEMMA StatusDocsInv ==
  ASSUME TypeOK, TypeOK', DocsInv, OrderlyInv, NEW r \in Requests,
         CommitCreate(r) \/ CommitPost(r) \/ CommitCancel(r)
  PROVE  DocsInv'
<1> DEFINE s == job[r].sale
<1>1. /\ s \in Sales /\ at[r] # 0 /\ OthersStay(r) /\ UNCHANGED <<refunds, returned, sent>>
      /\ \A t \in Sales : status[t] # "none" => status'[t] # "none"
  <2>1. s \in Sales /\ at[r] # 0 /\ UNCHANGED <<refunds, returned, sent>>
    BY DEF TypeOK, Job, CommitCreate, CommitPost, CommitCancel, At, Idle
  <2>2. OthersStay(r)
    BY DEF TypeOK, CommitCreate, CommitPost, CommitCancel, Finish, OthersStay
  <2>3. \A t \in Sales : status[t] # "none" => status'[t] # "none"
    BY DEF TypeOK, CommitCreate, CommitPost, CommitCancel
  <2> QED BY <2>1, <2>2, <2>3
<1>2. \/ at'[r] = 0
      \/ job'[r].id = 0 /\ job'[r].kind = "autopost"
  BY DEF TypeOK, CommitCreate, CommitPost, CommitCancel, Finish
<1>3. sent' >= sent
  BY <1>1, SentBound DEF TypeOK
<1>4. RefundIds'
  BY <1>1, <1>2, <1>3, KeepsRefundIds DEF DocsInv, ReturnKinds
<1>5. SalesExist'
  BY <1>1, <1>2, KeepsSalesExist DEF DocsInv, ReturnKinds
<1>6. at'[r] # 0 => StillHolds(r)'
  BY <1>2 DEF StillHolds, PastItem, ReturnKinds
<1>7. ASSUME NEW t \in Sales \ Shared
      PROVE  cost'[t] - entries'[t] * Units[t] = cost[t] - entries[t] * Units[t]
  <2>1. CASE t # s
    BY <2>1 DEF TypeOK, CommitCreate, CommitPost, CommitCancel
  <2>2. CASE t = s
    <3>1. Units[t] \in Nat /\ cost[t] \in Int
      BY SalesAssumption DEF TypeOK
    <3>2. entries[t] = IF status[t] = "posted" THEN 1 ELSE 0
      BY DEF OrderlyInv, EntriesFollowStatus
    <3>3. CASE CommitCreate(r)
      BY <3>3 DEF CommitCreate
    <3>4. CASE CommitPost(r)
      <4>1. entries[t] = 0
        BY <1>1, <2>2, <3>2, <3>4 DEF CommitPost, OrderlyInv
      <4>2. entries'[t] = 1 /\ cost'[t] = cost[t] + Units[t]
        BY <2>2, <3>4, <4>1 DEF CommitPost, TypeOK
      <4> QED BY <3>1, <4>1, <4>2
    <3>5. CASE CommitCancel(r)
      <4> DEFINE reversed == IF job[r].was = "posted" THEN 1 ELSE 0
      <4>1. entries[t] = reversed
        BY <1>1, <2>2, <3>2, <3>5 DEF CommitCancel, OrderlyInv
      <4>2. /\ entries'[t] = entries[t] - reversed
            /\ cost'[t] = cost[t] - reversed * Units[t]
        BY <2>2, <3>5 DEF CommitCancel, TypeOK
      <4>3. reversed = 0 \/ reversed = 1
        OBVIOUS
      <4> HIDE DEF reversed
      <4> QED BY <3>1, <4>1, <4>2, <4>3
    <3> QED BY <3>3, <3>4, <3>5
  <2> QED BY <2>1, <2>2
<1> QED BY <1>1, <1>4, <1>5, <1>6, <1>7, KeepsDocsInv

\* The other sales and the requests at work on them are left alone.
LEMMA OthersUntouched ==
  ASSUME TypeOK, DocsInv, OrderlyInv, NEW r \in Requests, at[r] # 0, at'[r] = 0, OthersStay(r),
         UNCHANGED <<status, entries>>,
         \A t \in Sales : t # job[r].sale /\ t \notin Shared =>
           /\ RefundsOf(t)' = RefundsOf(t)
           /\ returned'[t] = returned[t] /\ cost'[t] = cost[t]
  PROVE  /\ \A q \in Requests : at'[q] # 0 /\ job'[q].sale \notin Shared => StillHolds(q)'
         /\ \A t \in Sales \ Shared : t # job[r].sale => BooksAgree(t)'
<1>1. ASSUME NEW q \in Requests, at'[q] # 0, job'[q].sale \notin Shared PROVE StillHolds(q)'
  <2>1. q # r /\ at'[q] = at[q] /\ job'[q] = job[q] /\ seen'[q] = seen[q]
    BY <1>1 DEF OthersStay
  <2>2. job[q].sale # job[r].sale /\ job[q].sale \in Sales
    BY <1>1, <2>1 DEF OrderlyInv, TypeOK, Job
  <2>3. StillHolds(q)
    BY <1>1, <2>1 DEF DocsInv
  <2> QED BY <1>1, <2>1, <2>2, <2>3, KeepsStillHolds
<1>2. ASSUME NEW t \in Sales \ Shared, t # job[r].sale PROVE BooksAgree(t)'
  <2>1. Refunded(t)' = Refunded(t) /\ returned'[t] = returned[t] /\ cost'[t] = cost[t]
    BY <1>2 DEF Refunded
  <2> QED BY <2>1 DEF BooksAgree, DocsInv
<1> QED BY <1>1, <1>2

\* At its COMMIT a return or a deletion has read quantity_returned.
LEMMA CommitPastItem ==
  ASSUME TypeOK, NEW r \in Requests, At(r, "commit"), job[r].kind \in ReturnKinds \cup {"delete"}
  PROVE  PastItem(r)
<1>1. job[r] \in Job /\ at[r] \in 1..Len(Program(job[r]))
  BY ProgramLength DEF TypeOK, At, Idle
<1>2. at[r] = Len(Program(job[r]))
  BY <1>1, ProgramShape DEF At
<1>3. Len(Program(job[r])) > 2
  <2>1. CASE job[r].kind = "delete" BY <2>1 DEF Program, Programs
  <2>2. CASE job[r].kind = "return" BY <2>2 DEF Program, Programs
  <2>3. CASE job[r].kind = "returnByProduct" BY <2>3 DEF Program, Programs
  <2> QED BY <2>1, <2>2, <2>3 DEF ReturnKinds
<1> QED BY <1>2, <1>3 DEF PastItem, ReturnKinds

LEMMA ReturnDocsInv ==
  ASSUME TypeOK, TypeOK', DocsInv, OrderlyInv, NEW r \in Requests, CommitReturn(r)
  PROVE  DocsInv'
<1>0. PICK s \in Sales : s = job[r].sale
  BY DEF TypeOK, Job
<1> DEFINE f == [id |-> job[r].id, sale |-> s, qty |-> job[r].qty, money |-> job[r].money]
<1>1. /\ at[r] # 0 /\ at'[r] = 0 /\ OthersStay(r)
      /\ UNCHANGED <<status, entries, sent>>
      /\ refunds' = refunds \cup {f}
      /\ returned' = [returned EXCEPT ![s] = seen[r] + job[r].qty]
      /\ cost' = [cost EXCEPT ![s] = cost[s] - job[r].qty]
      /\ job[r].kind \in ReturnKinds /\ At(r, "commit")
  BY <1>0 DEF TypeOK, CommitReturn, Finish, At, Idle, OthersStay, ReturnKinds
<1>2. f.id = job[r].id /\ f.sale = s /\ f.qty = job[r].qty
  OBVIOUS
<1>3. job[r].qty \in Nat /\ seen[r] \in Nat /\ job[r].id <= sent
  BY <1>1 DEF TypeOK, Job, DocsInv, RefundIds
<1>4. \A g \in refunds : g.id # job[r].id
  BY <1>1 DEF DocsInv, RefundIds, ReturnKinds
<1> HIDE DEF f
<1>5. IsFiniteSet(refunds')
  BY <1>1, FS_AddElement DEF DocsInv
<1>6. RefundIds'
  <2>1. \A g \in refunds' : g.id <= sent'
    BY <1>1, <1>2, <1>3 DEF DocsInv, RefundIds
  <2>2. \A g, h \in refunds' : g.id = h.id => g = h
    BY <1>1, <1>2, <1>4 DEF DocsInv, RefundIds
  <2>3. ASSUME NEW q \in Requests, at'[q] # 0
        PROVE  q # r /\ at[q] # 0 /\ job'[q] = job[q] /\ job[q].id # f.id
    BY <1>1, <1>2, <2>3 DEF DocsInv, RefundIds, OthersStay
  <2>4. \A q \in Requests : at'[q] # 0 => job'[q].id <= sent'
    BY <1>1, <2>3 DEF DocsInv, RefundIds
  <2>5. \A q \in Requests, g \in refunds' : at'[q] # 0 /\ g.id = job'[q].id =>
          job'[q].kind = "delete" /\ g.sale = job'[q].sale /\ g.qty = job'[q].qty
    BY <1>1, <2>3 DEF DocsInv, RefundIds
  <2>6. \A p, q \in Requests :
          p # q /\ at'[p] # 0 /\ at'[q] # 0 /\ job'[p].kind \in ReturnKinds => job'[p].id # job'[q].id
    BY <2>3 DEF DocsInv, RefundIds
  <2> QED BY <2>1, <2>2, <2>4, <2>5, <2>6 DEF RefundIds
<1>7. SalesExist'
  <2>1. status[s] # "none"
    BY <1>0, <1>1 DEF DocsInv, SalesExist
  <2>2. \A g \in refunds' : status'[g.sale] # "none"
    BY <1>1, <1>2, <2>1 DEF DocsInv, SalesExist
  <2> QED BY <1>1, <2>2 DEF DocsInv, SalesExist, OthersStay
<1>8. \A t \in Sales : t # s =>
        RefundsOf(t)' = RefundsOf(t) /\ returned'[t] = returned[t] /\ cost'[t] = cost[t]
  BY <1>1, <1>2 DEF RefundsOf, TypeOK
<1>9. ASSUME s \notin Shared PROVE BooksAgree(s)'
  <2>1. RefundsOf(s)' = RefundsOf(s) \cup {f}
    BY <1>1, <1>2 DEF RefundsOf
  <2>2. f \notin RefundsOf(s)
    BY <1>2, <1>4 DEF RefundsOf
  <2>3. Refunded(s)' = Refunded(s) + job[r].qty
    <3>1. \A g \in RefundsOf(s) \cup {f} : g.qty \in Nat
      BY <1>2, <1>3, RefundedCount DEF DocsInv
    <3>2. Pieces(RefundsOf(s) \cup {f}) = Pieces(RefundsOf(s)) + f.qty
      BY <2>2, <3>1, RefundedCount, PiecesWithOneMore DEF DocsInv
    <3> QED BY <1>2, <2>1, <3>2 DEF Refunded
  <2>4. seen[r] = returned[s]
    BY <1>0, <1>1, <1>9, CommitPastItem DEF DocsInv, StillHolds
  <2>5. returned'[s] = returned[s] + job[r].qty /\ cost'[s] = cost[s] - job[r].qty
    BY <1>1, <2>4 DEF TypeOK
  <2>6. BooksAgree(s)
    BY <1>0, <1>1, <1>9 DEF DocsInv
  <2>7. Refunded(s) \in Nat
    BY RefundedCount DEF DocsInv
  <2>8. entries[s] * Units[s] \in Int /\ entries'[s] = entries[s]
    <3>1. Units[s] \in Nat /\ entries[s] \in Int
      BY <1>1, SalesAssumption DEF TypeOK
    <3> QED BY <1>1, <3>1
  <2>9. cost'[s] = entries'[s] * Units[s] - (Refunded(s) + job[r].qty)
    BY <1>3, <2>5, <2>6, <2>7, <2>8 DEF BooksAgree
  <2> QED BY <2>3, <2>4, <2>5, <2>6, <2>9 DEF BooksAgree
<1>10. /\ \A q \in Requests : at'[q] # 0 /\ job'[q].sale \notin Shared => StillHolds(q)'
       /\ \A t \in Sales \ Shared : t # s => BooksAgree(t)'
  BY <1>0, <1>1, <1>8, OthersUntouched
<1> QED BY <1>5, <1>6, <1>7, <1>9, <1>10 DEF DocsInv

LEMMA DeleteDocsInv ==
  ASSUME TypeOK, TypeOK', DocsInv, OrderlyInv, NEW r \in Requests, CommitDelete(r)
  PROVE  DocsInv'
<1>0. PICK s \in Sales : s = job[r].sale
  BY DEF TypeOK, Job
<1> DEFINE left == seen[r] - job[r].qty
<1>1. /\ at[r] # 0 /\ at'[r] = 0 /\ OthersStay(r)
      /\ UNCHANGED <<status, entries, sent>>
      /\ refunds' = {f \in refunds : f.id # job[r].id}
      /\ returned' = [returned EXCEPT ![s] = IF left < 0 THEN 0 ELSE left]
      /\ cost' = [cost EXCEPT ![s] = cost[s] + job[r].qty]
      /\ job[r].kind = "delete" /\ At(r, "commit")
  BY <1>0 DEF TypeOK, CommitDelete, Finish, At, Idle, OthersStay
<1>2. job[r].qty \in Nat /\ seen[r] \in Nat
  BY DEF TypeOK, Job
<1>3. \A f \in refunds : f.id = job[r].id => f.sale = s /\ f.qty = job[r].qty
  BY <1>0, <1>1 DEF DocsInv, RefundIds
<1>4. refunds' \subseteq refunds /\ IsFiniteSet(refunds')
  <2>1. refunds' \subseteq refunds
    BY <1>1
  <2> QED BY <2>1, FS_Subset DEF DocsInv
<1>5. sent' >= sent
  BY <1>1, SentBound DEF TypeOK
<1>6. RefundIds'
  BY <1>1, <1>4, <1>5, KeepsRefundIds DEF DocsInv
<1>7. SalesExist'
  BY <1>1, <1>4, KeepsSalesExist DEF DocsInv
<1>8. \A t \in Sales : t # s =>
        RefundsOf(t)' = RefundsOf(t) /\ returned'[t] = returned[t] /\ cost'[t] = cost[t]
  BY <1>1, <1>3 DEF RefundsOf, TypeOK
<1>9. ASSUME s \notin Shared PROVE BooksAgree(s)'
  <2>1. StillHolds(r)
    BY <1>0, <1>1, <1>9 DEF DocsInv
  <2>2. PICK f \in RefundsOf(s) : f.id = job[r].id
    BY <1>0, <1>1, <2>1 DEF StillHolds
  <2>3. f \in refunds /\ f.qty = job[r].qty
    BY <1>3, <2>2 DEF RefundsOf
  <2>4. \A g \in refunds : g.id = job[r].id <=> g = f
    BY <2>2, <2>3 DEF DocsInv, RefundIds
  <2>5. RefundsOf(s)' = RefundsOf(s) \ {f}
    BY <1>1, <2>4 DEF RefundsOf
  <2>6. /\ IsFiniteSet(RefundsOf(s)) /\ \A g \in RefundsOf(s) : g.qty \in Nat
        /\ Refunded(s) \in Nat /\ job[r].qty <= Refunded(s)
    BY <2>2, <2>3, RefundedCount DEF DocsInv
  <2>7. Refunded(s)' = Refunded(s) - job[r].qty
    <3>1. Pieces(RefundsOf(s) \ {f}) = Pieces(RefundsOf(s)) - f.qty
      BY <2>2, <2>6, PiecesWithoutOne
    <3> QED BY <2>3, <2>5, <3>1 DEF Refunded
  <2>8. BooksAgree(s) /\ seen[r] = returned[s]
    BY <1>0, <1>1, <1>9, <2>1, CommitPastItem DEF DocsInv, StillHolds
  <2>9. returned'[s] = Refunded(s) - job[r].qty /\ cost'[s] = cost[s] + job[r].qty
    <3>1. left = Refunded(s) - job[r].qty /\ left \in Nat
      BY <1>2, <2>6, <2>8 DEF BooksAgree
    <3> HIDE DEF left
    <3> QED BY <1>1, <3>1 DEF TypeOK
  <2>10. entries[s] * Units[s] \in Int /\ entries'[s] = entries[s] /\ Units[s] \in Nat
    <3>1. Units[s] \in Nat /\ entries[s] \in Int
      BY <1>1, SalesAssumption DEF TypeOK
    <3> QED BY <1>1, <3>1
  <2>11. cost'[s] = entries'[s] * Units[s] - (Refunded(s) - job[r].qty)
    BY <1>2, <2>6, <2>8, <2>9, <2>10 DEF BooksAgree
  <2> QED BY <2>7, <2>9, <2>11 DEF BooksAgree
<1>10. /\ \A q \in Requests : at'[q] # 0 /\ job'[q].sale \notin Shared => StillHolds(q)'
       /\ \A t \in Sales \ Shared : t # s => BooksAgree(t)'
  BY <1>0, <1>1, <1>8, OthersUntouched
<1> QED BY <1>4, <1>6, <1>7, <1>9, <1>10 DEF DocsInv

LEMMA NextDocsInv ==
  ASSUME TypeOK, TypeOK', DocsInv, OrderlyInv, [Next]_vars
  PROVE  DocsInv'
<1>1. ASSUME NEW r \in Requests, NEW s \in Sales,
             ReceiveCreate(r, s) \/ ReceivePost(r, s) \/ ReceiveCancel(r, s)
      PROVE  DocsInv'
  BY <1>1, SendDocsInv DEF ReceiveCreate, ReceivePost, ReceiveCancel
<1>2. ASSUME NEW r \in Requests, NEW s \in Sales, ReceiveAgain(r, s) PROVE DocsInv'
  <2>1. at'[r] = 0 /\ OthersStay(r) /\ UNCHANGED saleVars
    BY <1>2 DEF TypeOK, ReceiveAgain, MaySend, Idle, OthersStay
  <2>2. sent' >= sent
    BY <1>2, SentBound DEF TypeOK, ReceiveAgain
  <2> QED BY <2>1, <2>2, EndDocsInv
<1>3. ASSUME NEW r \in Requests, NEW s \in Sales, ReceiveReturn(r, s) PROVE DocsInv'
  BY <1>3, SendReturnDocsInv DEF ReceiveReturn, ReturnKinds
<1>4. ASSUME NEW r \in Requests, ReceiveDelete(r) PROVE DocsInv'
  BY <1>4, SendDeleteDocsInv DEF ReceiveDelete
<1>5. ASSUME NEW r \in Requests, CheckNoReturns(r) \/ CheckStillThere(r) PROVE DocsInv'
  BY <1>5, AbandonDocsInv, AdvanceDocsInv DEF CheckNoReturns, CheckStillThere
<1>6. ASSUME NEW r \in Requests, ReadItem(r) PROVE DocsInv'
  BY <1>6, AbandonDocsInv, AdvanceDocsInv DEF ReadItem
<1>7. ASSUME NEW r \in Requests, Lock(r) PROVE DocsInv'
  <2>1. PICK statement \in Locking : /\ At(r, statement) /\ Advance(r)
                                     /\ UNCHANGED <<saleVars, job, seen, sent>>
    BY <1>7 DEF Lock
  <2>2. statement # "remaining" /\ statement # "noReturns"
    BY DEF Locking
  <2> QED BY <2>1, <2>2, AdvanceDocsInv
<1>8. ASSUME NEW r \in Requests, CommitCreate(r) \/ CommitPost(r) \/ CommitCancel(r)
      PROVE  DocsInv'
  BY <1>8, StatusDocsInv
<1>9. ASSUME NEW r \in Requests, CommitReturn(r) \/ CommitDelete(r) PROVE DocsInv'
  BY <1>9, ReturnDocsInv, DeleteDocsInv
<1>10. ASSUME NEW r \in Requests, Fail(r) \/ DeadlockVictim(r) PROVE DocsInv'
  BY <1>10, AbandonDocsInv DEF Fail, DeadlockVictim
<1>11. CASE UNCHANGED vars
  <2>1. /\ RefundIds' /\ SalesExist' /\ IsFiniteSet(refunds')
        /\ \A s \in Sales : BooksAgree(s)' <=> BooksAgree(s)
        /\ \A r \in Requests : StillHolds(r)' <=> StillHolds(r)
    BY <1>11 DEF vars, DocsInv, RefundIds, SalesExist, BooksAgree, StillHolds, PastItem,
                 Refunded, RefundsOf
  <2> QED BY <1>11, <2>1 DEF DocsInv, vars
<1> QED BY <1>1, <1>2, <1>3, <1>4, <1>5, <1>6, <1>7, <1>8, <1>9, <1>10, <1>11
        DEF Next, Receive, Step, Quiescent

LEMMA DocsAlways == Spec => []DocsInv
<1>1. Init => DocsInv
  <2> SUFFICES ASSUME Init PROVE DocsInv
    OBVIOUS
  <2>1. \A s \in Sales : Refunded(s) = 0
    BY PiecesOfNone DEF Init, Refunded, RefundsOf
  <2>2. \A s \in Sales : Units[s] \in Nat
    BY SalesAssumption
  <2>3. \A s \in Sales : BooksAgree(s)
    BY <2>1, <2>2 DEF Init, BooksAgree
  <2>4. IsFiniteSet(refunds)
    BY FS_EmptySet DEF Init
  <2> QED BY <2>3, <2>4 DEF Init, DocsInv, RefundIds, SalesExist
<1>2. TypeOK /\ TypeOK' /\ DocsInv /\ OrderlyInv /\ [Next]_vars => DocsInv'
  BY NextDocsInv
<1> QED BY <1>1, <1>2, TypeCorrect, OrderlyAlways, PTL DEF Spec

\* However often a sale is returned, its returns deleted, its requests refused or
\* rolled back and the process stopped: the column, the rows of sales_returns and the
\* journal agree, for every sale whose requests do not overlap.
THEOREM DocumentsAlwaysAgree == Spec => []DocumentsAgree
<1>1. DocsInv /\ OrderlyInv => DocumentsAgree
  BY DEF DocsInv, OrderlyInv, BooksAgree, DocumentsAgree
<1> QED BY <1>1, DocsAlways, OrderlyAlways, PTL

-----------------------------------------------------------------------------
(* Refinement *)

\* An unshared sale lives the life of SaleBook: it is drafted, posted and cancelled in
\* this order, and what was returned and what was booked for it change together.
THEOREM LifecycleImplementsBook ==
  ASSUME Audited \notin Shared
  PROVE  Spec => ImplementsSaleBook
<1> DEFINE s == Audited
<1>1. Init => Book!Init
  BY SalesAssumption DEF Init, Book!Init
<1>2. TypeOK /\ TypeOK' /\ OrderlyInv /\ DocsInv /\ DocsInv' /\ [Next]_vars
      => [Book!Next]_(Book!vars)
  <2> SUFFICES ASSUME TypeOK, TypeOK', OrderlyInv, DocsInv, DocsInv', [Next]_vars
               PROVE  [Book!Next]_(Book!vars)
    OBVIOUS
  <2>1. s \in Sales /\ Units[s] \in Nat \ {0} /\ BooksAgree(s) /\ BooksAgree(s)'
    BY SalesAssumption DEF DocsInv
  <2>2. entries[s] = IF status[s] = "posted" THEN 1 ELSE 0
    BY <2>1 DEF OrderlyInv, EntriesFollowStatus
  <2>3. Refunded(s) \in Nat /\ Refunded(s)' \in Nat
    <3>1. Refunded(s) \in Nat
      BY RefundedCount DEF DocsInv
    <3>2. \A f \in RefundsOf(s)' : f.qty \in Nat
      BY DEF RefundsOf, TypeOK
    <3>3. IsFiniteSet(RefundsOf(s)')
      BY FS_Subset DEF RefundsOf, DocsInv
    <3> QED BY <3>1, <3>2, <3>3, PiecesCount DEF Refunded
  <2>4. ASSUME UNCHANGED <<status[s], returned[s], entries[s], cost[s]>>
        PROVE  [Book!Next]_(Book!vars)
    BY <2>4 DEF Book!vars
  <2>5. ASSUME NEW r \in Requests, job[r].sale # s,
               CommitCreate(r) \/ CommitPost(r) \/ CommitCancel(r) \/ CommitReturn(r) \/ CommitDelete(r)
        PROVE  [Book!Next]_(Book!vars)
    BY <2>1, <2>4, <2>5 DEF CommitCreate, CommitPost, CommitCancel, CommitReturn, CommitDelete, TypeOK
  <2>6. ASSUME NEW r \in Requests, job[r].sale = s, CommitCreate(r) PROVE Book!Draft
    <3>1. status[s] = "none" /\ status'[s] = "draft"
      BY <2>1, <2>6 DEF CommitCreate, TypeOK, OrderlyInv, At, Idle
    <3> QED BY <2>6, <3>1 DEF CommitCreate, Book!Draft
  <2>7. ASSUME NEW r \in Requests, job[r].sale = s, CommitPost(r) PROVE Book!Post
    <3>1. status[s] = "draft" /\ status'[s] = "posted"
      BY <2>1, <2>7 DEF CommitPost, TypeOK, OrderlyInv, At, Idle
    <3>2. entries'[s] = entries[s] + 1 /\ cost'[s] = cost[s] + Units[s]
      BY <2>1, <2>7 DEF CommitPost, TypeOK
    <3> QED BY <2>7, <3>1, <3>2 DEF CommitPost, Book!Post
  <2>8. ASSUME NEW r \in Requests, job[r].sale = s, CommitCancel(r) PROVE Book!Cancel
    <3>1. status[s] \in {"draft", "posted"} /\ status[s] = job[r].was /\ status'[s] = "cancelled"
      BY <2>1, <2>8 DEF CommitCancel, TypeOK, OrderlyInv, At, Idle
    <3>2. Refunded(s) = 0
      <4>1. job[r] \in Job /\ at[r] \in 1..Len(Program(job[r])) /\ job[r].kind = "cancel"
        BY <2>8, ProgramLength DEF CommitCancel, TypeOK, At, Idle
      <4>2. at[r] > 1
        BY <2>8, <4>1, ProgramShape DEF CommitCancel, At
      <4>3. StillHolds(r)
        <5>1. job[r].sale \notin Shared
          BY <2>8
        <5>2. at[r] # 0
          BY <4>1
        <5> QED BY <5>1, <5>2 DEF DocsInv
      <4>4. RefundsOf(job[r].sale) = {}
        BY <4>1, <4>2, <4>3 DEF StillHolds
      <4>5. RefundsOf(s) = {}
        BY <2>8, <4>4
      <4> QED BY <4>5, PiecesOfNone DEF Refunded
    <3>3. UNCHANGED <<returned, refunds>>
      BY <2>8 DEF CommitCancel
    <3>4. entries'[s] = 0
      BY <2>1, <2>2, <2>8, <3>1 DEF CommitCancel, TypeOK
    <3>5. Refunded(s)' = 0
      BY <3>2, <3>3 DEF Refunded, RefundsOf
    <3>6. cost'[s] = 0
      BY <2>1, <3>4, <3>5 DEF BooksAgree
    <3> QED BY <2>1, <3>1, <3>2, <3>3, <3>4, <3>6 DEF BooksAgree, Book!Cancel
  <2>9. ASSUME NEW r \in Requests, job[r].sale = s, CommitReturn(r) \/ CommitDelete(r)
        PROVE  Book!TakeBack
    <3>1. status[s] # "none" /\ UNCHANGED <<status, entries>>
      BY <2>9 DEF CommitReturn, CommitDelete, DocsInv, SalesExist, ReturnKinds, At, Idle
    <3>2. returned[s] \in Nat /\ returned'[s] \in Nat
      BY <2>1, <2>3 DEF BooksAgree
    <3>3. entries[s] * Units[s] \in Int
      BY <2>1, <2>2
    <3>4. cost'[s] + returned'[s] = cost[s] + returned[s]
      BY <2>1, <2>3, <3>1, <3>3 DEF BooksAgree
    <3> QED BY <3>1, <3>2, <3>4 DEF Book!TakeBack
  <2>10. CASE UNCHANGED saleVars
    BY <2>4, <2>10 DEF saleVars
  <2>11. ASSUME NEW r \in Requests,
                \/ Receive(r) \/ CheckNoReturns(r) \/ CheckStillThere(r) \/ ReadItem(r) \/ Lock(r)
                \/ Fail(r) \/ DeadlockVictim(r)
         PROVE  UNCHANGED saleVars
    BY <2>11 DEF Receive, ReceiveCreate, ReceiveAgain, ReceivePost, ReceiveCancel, ReceiveReturn,
                 ReceiveDelete, Send, CheckNoReturns, CheckStillThere, ReadItem, Lock, Fail,
                 DeadlockVictim, Abandon
  <2>12. ASSUME NEW r \in Requests,
                CommitCreate(r) \/ CommitPost(r) \/ CommitCancel(r) \/ CommitReturn(r) \/ CommitDelete(r)
         PROVE  [Book!Next]_(Book!vars)
    <3>1. CASE job[r].sale # s BY <2>5, <2>12, <3>1
    <3>2. CASE job[r].sale = s BY <2>6, <2>7, <2>8, <2>9, <2>12, <3>2 DEF Book!Next
    <3> QED BY <3>1, <3>2
  <2>13. CASE UNCHANGED vars
    BY <2>10, <2>13 DEF vars, saleVars
  <2> QED BY <2>10, <2>11, <2>12, <2>13 DEF Next, Step, Quiescent
<1> QED BY <1>1, <1>2, TypeCorrect, OrderlyAlways, DocsAlways, PTL
        DEF Spec, ImplementsSaleBook, Book!Spec

=============================================================================
