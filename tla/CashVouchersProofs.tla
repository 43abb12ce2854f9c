------------------------- MODULE CashVouchersProofs -------------------------
(***************************************************************************)
(* Proofs about CashVouchers for any safes, customers, documents, requests *)
(* and number of requests sent.                                            *)
(***************************************************************************)
EXTENDS CashVouchers, TLAPS

-----------------------------------------------------------------------------
(* Facts about documents *)

\* What a document adds to its safe and to its customer are integers.
LEMMA EffectType ==
  ASSUME NEW d \in Docs
  PROVE  /\ Safe(d) \in Safes
         /\ Customer(d) \in Customers \cup {NoCustomer}
         /\ Effect(d) \in Int
         /\ DebtEffect(d) \in Int
         /\ HasCustomer(d) => Kind(d) # "income" /\ Customer(d) \in Customers
<1>1. Voucher[d] \in [kind : Kinds, safe : Safes, amount : Nat \ {0},
                      customer : Customers \cup {NoCustomer}]
  BY VouchersAssumption
<1>2. Voucher[d].kind \notin Posted => Voucher[d].customer = NoCustomer
  BY VouchersAssumption
<1>3. Effect(d) \in Int
  BY <1>1 DEF Effect
<1> QED BY <1>1, <1>2, <1>3 DEF DebtEffect, Safe, Customer, HasCustomer, Kind, Posted

\* The same of what a request is about to change.
LEMMA ChangeType ==
  ASSUME TypeOK, NEW r \in Requests
  PROVE  /\ Doc(r) \in Docs
         /\ Change(r) \in Int
         /\ DebtChange(r) \in Int
         /\ LedgerChange(r) \in Int
         /\ job[r].kind = "create" => Change(r) = Effect(Doc(r))
         /\ job[r].kind = "delete" => Change(r) = - Effect(Doc(r))
<1>1. Doc(r) \in Docs
  BY DEF TypeOK, Doc
<1>2. Effect(Doc(r)) \in Int /\ DebtEffect(Doc(r)) \in Int
  BY <1>1, EffectType
<1>3. Sign(r) \in {1, -1} /\ (job[r].kind = "create" => Sign(r) = 1)
      /\ (job[r].kind = "delete" => Sign(r) = -1)
  BY DEF Sign
<1>4. Change(r) \in Int /\ DebtChange(r) \in Int
  BY <1>2, <1>3 DEF Change, DebtChange
<1>5. LedgerChange(r) \in Int
  BY <1>4 DEF LedgerChange
<1>6. /\ job[r].kind = "create" => Change(r) = Effect(Doc(r))
      /\ job[r].kind = "delete" => Change(r) = - Effect(Doc(r))
  BY <1>2, <1>3 DEF Change
<1> QED BY <1>1, <1>4, <1>5, <1>6

-----------------------------------------------------------------------------
(* Type correctness *)

LEMMA InitTypeOK == Init => TypeOK
<1> SUFFICES ASSUME Init PROVE TypeOK
  OBVIOUS
<1>1. (CHOOSE d \in Docs : TRUE) \in Docs
  BY VouchersAssumption
<1> QED BY <1>1, VouchersAssumption DEF Init, TypeOK

\* A request is received with a first statement that fits its kind.
LEMMA SendTypeOK ==
  ASSUME TypeOK, NEW r \in Requests, NEW d \in Docs,
         NEW kind \in {"create", "post", "cancel", "delete"},
         NEW first \in {"stillThere", "readSafe", "safe", "entry", "reversal", "status"},
         first = "stillThere" => kind = "delete",
         first = "status" => kind \in {"post", "cancel"},
         first \in {"readSafe", "safe"} => kind \in {"create", "delete"},
         Send(r, kind, d, first)
  PROVE  TypeOK'
<1>1. job' = [job EXCEPT ![r] = [kind |-> kind, doc |-> d]]
      /\ pc' = [pc EXCEPT ![r] = first] /\ sent' = sent + 1 /\ sent < MaxSent
  BY DEF Send, MaySend, Goto
<1>2. sent' \in 0..MaxSent
  BY <1>1, VouchersAssumption DEF TypeOK
<1>3. job' \in [Requests -> [kind : {"create", "post", "cancel", "delete"}, doc : Docs]]
  BY <1>1 DEF TypeOK
<1>4. \A q \in Requests : /\ pc'[q] = IF q = r THEN first ELSE pc[q]
                          /\ q # r => job'[q] = job[q]
  BY <1>1 DEF TypeOK
<1>5. job'[r].kind = kind
  BY <1>1 DEF TypeOK
<1>6. \A q \in Requests :
       /\ pc'[q] \in {"readCustomer", "customer"} => HasCustomer(Doc(q)')
       /\ pc'[q] = "stillThere" => job'[q].kind = "delete"
       /\ pc'[q] = "status" => job'[q].kind \in {"post", "cancel"}
       /\ pc'[q] \in {"readSafe", "safe", "readCustomer", "customer", "row", "commit"}
            => job'[q].kind \in {"create", "delete"}
  BY <1>4, <1>5 DEF TypeOK, Doc
<1> QED BY <1>1, <1>2, <1>3, <1>6 DEF TypeOK, Send, moneyVars, lockVars, HasCustomer, Customer, Doc

LEMMA ReceiveTypeOK ==
  ASSUME TypeOK, NEW r \in Requests, Receive(r)
  PROVE  TypeOK'
<1> PICK d \in Docs : ReceiveCreate(r, d) \/ ReceivePost(r, d) \/ ReceiveCancel(r, d)
                        \/ ReceiveDelete(r, d)
  BY DEF Receive
<1>1. CASE ReceiveCreate(r, d) BY <1>1, SendTypeOK DEF ReceiveCreate, Start
<1>2. CASE ReceivePost(r, d) BY <1>2, SendTypeOK DEF ReceivePost
<1>3. CASE ReceiveCancel(r, d) BY <1>3, SendTypeOK DEF ReceiveCancel
<1>4. CASE ReceiveDelete(r, d) BY <1>4, SendTypeOK DEF ReceiveDelete
<1> QED BY <1>1, <1>2, <1>3, <1>4

\* A request that gives up leaves a well-formed state.
LEMMA AbandonTypeOK ==
  ASSUME TypeOK, NEW r \in Requests, Abandon(r)
  PROVE  TypeOK'
<1>1. \A q \in Requests : pc'[q] = IF q = r THEN "idle" ELSE pc[q]
  BY DEF TypeOK, Abandon
<1>2. pc' \in [Requests -> {"idle", "stillThere", "readSafe", "safe", "readCustomer",
                          "customer", "row", "commit", "entry", "reversal", "status"}]
  BY DEF TypeOK, Abandon
<1> QED BY <1>1, <1>2 DEF TypeOK, Abandon, Release, moneyVars, Doc, HasCustomer, Customer

\* Every statement leaves a well-formed state.
LEMMA StepTypeOK ==
  ASSUME TypeOK, NEW r \in Requests, Step(r)
  PROVE  TypeOK'
<1> USE ChangeType
<1>d. Doc(r) \in Docs
  OBVIOUS
<1>e. /\ Safe(Doc(r)) \in Safes
      /\ HasCustomer(Doc(r)) => Customer(Doc(r)) \in Customers
  BY <1>d, EffectType
<1>1. CASE StillThere(r)
  <2>1. CASE Deletable(Doc(r))
    BY <1>1, <2>1 DEF StillThere, Goto, Start, TypeOK, moneyVars, lockVars, Doc, HasCustomer, Customer
  <2>2. CASE ~ Deletable(Doc(r)) BY <1>1, <2>2, AbandonTypeOK DEF StillThere
  <2> QED BY <2>1, <2>2
<1>2. CASE ReadSafe(r)
  BY <1>2, <1>e DEF ReadSafe, Goto, TypeOK, moneyVars, lockVars, Doc, HasCustomer, Customer
<1>3. CASE UpdateSafe(r)
  <2>1. CASE Suffices(r)
    <3>1. /\ safeLock' = [safeLock EXCEPT ![Safe(Doc(r))] = r]
          /\ pc' = [pc EXCEPT ![r] = IF HasCustomer(Doc(r)) THEN "readCustomer" ELSE "row"]
          /\ pc[r] = "safe"
          /\ UNCHANGED <<status, moneyVars, journal, customerLock, docLock, job, seen, sent>>
      BY <1>3, <2>1 DEF UpdateSafe, Goto
    <3>2. safeLock' \in [Safes -> Requests \cup {NoRequest}]
      BY <3>1, <1>e DEF TypeOK
    <3>3. pc' \in [Requests -> {"idle", "stillThere", "readSafe", "safe", "readCustomer",
                            "customer", "row", "commit", "entry", "reversal", "status"}]
      BY <3>1 DEF TypeOK
    <3>4. \A q \in Requests : q # r => pc'[q] = pc[q]
      BY <3>1 DEF TypeOK
    <3>5. pc'[r] \in {"readCustomer", "row"} /\ (pc'[r] = "readCustomer" => HasCustomer(Doc(r)))
      BY <3>1 DEF TypeOK
    <3>6. job[r].kind \in {"create", "delete"}
      BY <3>1 DEF TypeOK
    <3> QED BY <3>1, <3>2, <3>3, <3>4, <3>5, <3>6 DEF TypeOK, moneyVars, Doc, HasCustomer, Customer
  <2>2. CASE ~ Suffices(r) BY <1>3, <2>2, AbandonTypeOK DEF UpdateSafe
  <2> QED BY <2>1, <2>2
<1>4. CASE ReadCustomer(r)
  <2>1. debt[Customer(Doc(r))] \in Int
    BY <1>4, <1>e DEF ReadCustomer, TypeOK
  <2> QED BY <1>4, <2>1 DEF ReadCustomer, Goto, TypeOK, moneyVars, lockVars, Doc, HasCustomer, Customer
<1>5. CASE UpdateCustomer(r)
  BY <1>5, <1>e DEF UpdateCustomer, Goto, TypeOK, moneyVars, Doc, HasCustomer, Customer
<1>6. CASE InsertRow(r)
  <2>1. CASE status[Doc(r)] = "none"
    <3>1. /\ docLock' = [docLock EXCEPT ![Doc(r)] = r]
          /\ pc' = [pc EXCEPT ![r] = "commit"]
          /\ job[r].kind = "create"
          /\ UNCHANGED <<status, moneyVars, journal, safeLock, customerLock, job, seen, sent>>
      BY <1>6, <2>1 DEF InsertRow, Goto
    <3>2. docLock' \in [Docs -> Requests \cup {NoRequest}]
      BY <3>1, <1>d DEF TypeOK
    <3> QED BY <3>1, <3>2 DEF TypeOK, moneyVars, Doc, HasCustomer, Customer
  <2>2. CASE status[Doc(r)] # "none" BY <1>6, <2>2, AbandonTypeOK DEF InsertRow
  <2> QED BY <2>1, <2>2
<1>7. CASE DeleteRow(r)
  BY <1>7, <1>d DEF DeleteRow, Goto, TypeOK, moneyVars, Doc, HasCustomer, Customer
<1>8. CASE Commit(r)
  <2>1. balance' \in [Safes -> Int]
    <3>1. balance[Safe(Doc(r))] \in Int /\ seen[r] \in Int
      BY <1>e DEF TypeOK
    <3>2. (IF Kind(Doc(r)) = "income" THEN seen[r] ELSE balance[Safe(Doc(r))]) + Change(r) \in Int
      BY <3>1
    <3> QED BY <1>8, <3>2 DEF Commit, TypeOK
  <2>2. debt' \in [Customers -> Int] /\ ledger' \in [Customers -> Int]
    <3>1. seen[r] + DebtChange(r) \in Int
      BY DEF TypeOK
    <3>2. \A c \in Customers : ledger[c] + LedgerChange(r) \in Int
      BY DEF TypeOK
    <3>3. debt' \in [Customers -> Int]
      BY <1>8, <3>1 DEF Commit, TypeOK
    <3>4. ledger' \in [Customers -> Int]
      BY <1>8, <3>2 DEF Commit, TypeOK
    <3> QED BY <3>3, <3>4
  <2>3. status' \in [Docs -> {"none", "draft", "posted", "cancelled", "deleted"}]
    BY <1>8 DEF Commit, TypeOK
  <2>4. /\ pc' \in [Requests -> {"idle", "stillThere", "readSafe", "safe", "readCustomer",
                          "customer", "row", "commit", "entry", "reversal", "status"}]
        /\ \A q \in Requests : pc'[q] = pc[q] \/ pc'[q] \in {"idle", "entry", "reversal"}
    BY <1>8 DEF Commit, Goto, TypeOK
  <2>5. job' = job /\ journal' = journal /\ seen' = seen /\ sent' = sent /\ Release(r)
    BY <1>8 DEF Commit
  <2>6. /\ safeLock' \in [Safes -> Requests \cup {NoRequest}]
        /\ customerLock' \in [Customers -> Requests \cup {NoRequest}]
        /\ docLock' \in [Docs -> Requests \cup {NoRequest}]
    BY <2>5 DEF Release, TypeOK
  <2> QED BY <2>1, <2>2, <2>3, <2>4, <2>5, <2>6 DEF TypeOK, Doc, HasCustomer, Customer
<1>9. CASE InsertEntry(r)
  <2>1. journal' \in [Docs -> Int]
    BY <1>9, <1>d DEF InsertEntry, TypeOK
  <2> QED BY <1>9, <2>1 DEF InsertEntry, Goto, TypeOK, moneyVars, lockVars, Doc, HasCustomer, Customer
<1>10. CASE InsertReversal(r)
  <2>1. journal' \in [Docs -> Int]
    BY <1>10, <1>d DEF InsertReversal, TypeOK
  <2> QED BY <1>10, <2>1 DEF InsertReversal, Goto, TypeOK, moneyVars, lockVars, Doc, HasCustomer, Customer
<1>11. CASE SetStatus(r)
  BY <1>11, <1>d DEF SetStatus, Goto, TypeOK, moneyVars, lockVars, Doc, HasCustomer, Customer
<1> QED BY <1>1, <1>2, <1>3, <1>4, <1>5, <1>6, <1>7, <1>8, <1>9, <1>10, <1>11 DEF Step

LEMMA NextTypeOK == TypeOK /\ [Next]_vars => TypeOK'
<1> SUFFICES ASSUME TypeOK, [Next]_vars PROVE TypeOK'
  OBVIOUS
<1>1. ASSUME NEW r \in Requests, Receive(r) PROVE TypeOK'
  BY <1>1, ReceiveTypeOK
<1>2. ASSUME NEW r \in Requests, Step(r) PROVE TypeOK'
  BY <1>2, StepTypeOK
<1>3. ASSUME NEW r \in Requests, Fail(r) PROVE TypeOK'
  BY <1>3, AbandonTypeOK DEF Fail
<1>4. CASE UNCHANGED vars
  BY <1>4 DEF vars, TypeOK, Doc, HasCustomer, Customer
<1> QED BY <1>1, <1>2, <1>3, <1>4 DEF Next, Quiescent

\* Every reachable state has its type, and a customer is looked up only for a
\* document that names one.
THEOREM TypeCorrect == Spec => []TypeOK
BY InitTypeOK, NextTypeOK, PTL DEF Spec

-----------------------------------------------------------------------------
(* What a step of one request leaves alone *)

Act(r) == Receive(r) \/ Step(r) \/ Fail(r)

LEMMA NextActs == [Next]_vars => (\E r \in Requests : Act(r)) \/ UNCHANGED vars
BY DEF Next, Act, Quiescent

\* The other requests stay where they are and keep their locks.
LEMMA OthersStay ==
  ASSUME TypeOK, NEW r \in Requests, Act(r), NEW q \in Requests, q # r
  PROVE  /\ pc'[q] = pc[q] /\ job'[q] = job[q] /\ seen'[q] = seen[q]
         /\ Doc(q)' = Doc(q) /\ Change(q)' = Change(q) /\ DebtChange(q)' = DebtChange(q)
         /\ Guarded(q)' = Guarded(q)
<1>1. pc'[q] = pc[q] /\ job'[q] = job[q] /\ seen'[q] = seen[q]
  <2>1. CASE Receive(r)
    BY <2>1 DEF Receive, ReceiveCreate, ReceivePost, ReceiveCancel, ReceiveDelete, Send,
                Goto, TypeOK
  <2>2. CASE Step(r)
    BY <2>2 DEF Step, StillThere, ReadSafe, UpdateSafe, ReadCustomer, UpdateCustomer,
                InsertRow, DeleteRow, Commit, InsertEntry, InsertReversal, SetStatus,
                Abandon, Goto, TypeOK
  <2>3. CASE Fail(r)
    BY <2>3 DEF Fail, Abandon, TypeOK
  <2> QED BY <2>1, <2>2, <2>3 DEF Act
<1>2. Doc(q)' = Doc(q)
  BY <1>1 DEF Doc
<1>3. Change(q)' = Change(q)
  BY <1>1, <1>2 DEF Change, Sign, Effect, Kind
<1>4. DebtChange(q)' = DebtChange(q)
  BY <1>1, <1>2 DEF DebtChange, Sign, DebtEffect, Effect, Kind
<1> QED BY <1>1, <1>2, <1>3, <1>4 DEF Guarded, Kind

\* A lock that is held changes hands only through whoever holds it.
LEMMA LocksKept ==
  ASSUME TypeOK, NEW r \in Requests, Act(r), NEW q \in Requests, q # r
  PROVE  /\ \A s \in Safes : safeLock[s] = q => safeLock'[s] = q
         /\ \A d \in Docs : docLock[d] = q => docLock'[d] = q
<1>0. q # NoRequest
  BY VouchersAssumption
<1>1. ASSUME Release(r) PROVE /\ \A s \in Safes : safeLock[s] = q => safeLock'[s] = q
                              /\ \A d \in Docs : docLock[d] = q => docLock'[d] = q
  BY <1>1 DEF Release
<1>2. CASE Receive(r)
  BY <1>2 DEF Receive, ReceiveCreate, ReceivePost, ReceiveCancel, ReceiveDelete, Send, lockVars
<1>3. CASE UpdateSafe(r)
  BY <1>0, <1>1, <1>3 DEF UpdateSafe, Abandon, TypeOK
<1>4. CASE InsertRow(r)
  BY <1>0, <1>1, <1>4 DEF InsertRow, Abandon, TypeOK
<1>5. CASE DeleteRow(r)
  BY <1>0, <1>5 DEF DeleteRow, TypeOK
<1>6. CASE StillThere(r) \/ Commit(r) \/ Fail(r)
  BY <1>1, <1>6 DEF StillThere, Commit, Fail, Abandon, lockVars
<1>7. CASE ReadSafe(r) \/ ReadCustomer(r) \/ UpdateCustomer(r)
  BY <1>7 DEF ReadSafe, ReadCustomer, UpdateCustomer, lockVars
<1>8. CASE InsertEntry(r) \/ InsertReversal(r) \/ SetStatus(r)
  BY <1>8 DEF InsertEntry, InsertReversal, SetStatus, lockVars
<1> QED BY <1>2, <1>3, <1>4, <1>5, <1>6, <1>7, <1>8 DEF Act, Step

\* Money moves with a COMMIT and in no other step.
LEMMA MoneyMoves ==
  ASSUME TypeOK, NEW r \in Requests, Act(r), ~ Commit(r)
  PROVE  balance' = balance /\ debt' = debt /\ ledger' = ledger
<1>1. CASE Receive(r)
  BY <1>1 DEF Receive, ReceiveCreate, ReceivePost, ReceiveCancel, ReceiveDelete, Send, moneyVars
<1>2. CASE Step(r)
  BY <1>2 DEF Step, StillThere, ReadSafe, UpdateSafe, ReadCustomer, UpdateCustomer,
              InsertRow, DeleteRow, InsertEntry, InsertReversal, SetStatus, Abandon, moneyVars
<1>3. CASE Fail(r)
  BY <1>3 DEF Fail, Abandon, moneyVars
<1> QED BY <1>1, <1>2, <1>3 DEF Act

\* A document changes with a COMMIT or an UPDATE of its posting status.
LEMMA StatusMoves ==
  ASSUME TypeOK, NEW r \in Requests, Act(r), ~ Commit(r), ~ SetStatus(r)
  PROVE  status' = status
<1>1. CASE Receive(r)
  BY <1>1 DEF Receive, ReceiveCreate, ReceivePost, ReceiveCancel, ReceiveDelete, Send
<1>2. CASE Step(r)
  BY <1>2 DEF Step, StillThere, ReadSafe, UpdateSafe, ReadCustomer, UpdateCustomer,
              InsertRow, DeleteRow, InsertEntry, InsertReversal, Abandon
<1>3. CASE Fail(r)
  BY <1>3 DEF Fail, Abandon
<1> QED BY <1>1, <1>2, <1>3 DEF Act

-----------------------------------------------------------------------------
(* A safe is never overdrawn *)

\* The statements after the UPDATE of the safe.
InTx == {"readCustomer", "customer", "row", "commit"}

\* A transaction holds the row of its safe from the UPDATE on, and the row of
\* its document at the COMMIT; what it takes is still in the safe then.
LockInv ==
  \A r \in Requests :
    /\ pc[r] \in InTx => safeLock[Safe(Doc(r))] = r
    /\ pc[r] = "commit" => docLock[Doc(r)] = r
EnoughInv ==
  \A r \in Requests :
    pc[r] \in InTx /\ Guarded(r) => balance[Safe(Doc(r))] + Change(r) >= 0

\* The same for the request that acts.
LEMMA OwnLocks ==
  ASSUME TypeOK, LockInv, EnoughInv, NEW r \in Requests, Act(r), pc'[r] \in InTx
  PROVE  /\ job'[r] = job[r] /\ ~ Commit(r) /\ ~ SetStatus(r)
         /\ safeLock'[Safe(Doc(r))] = r
         /\ pc'[r] = "commit" => docLock'[Doc(r)] = r
         /\ Guarded(r) => balance[Safe(Doc(r))] + Change(r) >= 0
         /\ pc[r] # "safe" => pc[r] \in InTx
<1>d. Doc(r) \in Docs
  BY ChangeType
<1>s. Safe(Doc(r)) \in Safes
  BY <1>d, EffectType
<1>1. ~ Receive(r)
  <2> SUFFICES ASSUME Receive(r) PROVE FALSE
    OBVIOUS
  <2>1. pc'[r] \in {"readSafe", "safe", "entry", "reversal", "status", "stillThere"}
    BY DEF Receive, ReceiveCreate, ReceivePost, ReceiveCancel, ReceiveDelete, Send, Goto,
           Start, TypeOK
  <2> QED BY <2>1 DEF InTx
<1>2. ~ Abandon(r)
  BY DEF Abandon, TypeOK, InTx
<1>3. /\ ~ StillThere(r) /\ ~ ReadSafe(r) /\ ~ Commit(r)
      /\ ~ InsertEntry(r) /\ ~ InsertReversal(r) /\ ~ SetStatus(r) /\ ~ Fail(r)
  BY <1>2 DEF StillThere, ReadSafe, Commit, InsertEntry, InsertReversal, SetStatus, Fail,
              Goto, Start, TypeOK, InTx
<1>4. CASE UpdateSafe(r)
  <2>1. /\ Suffices(r) /\ job' = job
        /\ safeLock' = [safeLock EXCEPT ![Safe(Doc(r))] = r]
        /\ pc' = [pc EXCEPT ![r] = IF HasCustomer(Doc(r)) THEN "readCustomer" ELSE "row"]
        /\ pc[r] = "safe"
    BY <1>2, <1>4 DEF UpdateSafe, Goto
  <2>2. safeLock'[Safe(Doc(r))] = r /\ pc'[r] # "commit"
    BY <2>1, <1>s DEF TypeOK
  <2> QED BY <2>1, <2>2, <1>3 DEF Suffices
<1>i. pc[r] \in InTx => /\ safeLock[Safe(Doc(r))] = r
                        /\ Guarded(r) => balance[Safe(Doc(r))] + Change(r) >= 0
  BY DEF LockInv, EnoughInv
<1>5. CASE ReadCustomer(r)
  <2>1. pc[r] \in InTx /\ pc[r] # "safe" /\ pc'[r] = "customer"
    BY <1>5 DEF ReadCustomer, Goto, TypeOK, InTx
  <2>2. job' = job /\ safeLock' = safeLock
    BY <1>5 DEF ReadCustomer, lockVars
  <2> QED BY <2>1, <2>2, <1>i, <1>3
<1>6. CASE UpdateCustomer(r)
  <2>1. pc[r] \in InTx /\ pc[r] # "safe" /\ pc'[r] = "row"
    BY <1>6 DEF UpdateCustomer, Goto, TypeOK, InTx
  <2>2. job' = job /\ safeLock' = safeLock
    BY <1>6 DEF UpdateCustomer
  <2> QED BY <2>1, <2>2, <1>i, <1>3
<1>7. CASE InsertRow(r) \/ DeleteRow(r)
  <2>1. pc[r] \in InTx /\ pc[r] # "safe"
    BY <1>7 DEF InsertRow, DeleteRow, InTx
  <2>2. /\ job' = job /\ safeLock' = safeLock
        /\ docLock' = [docLock EXCEPT ![Doc(r)] = r]
    BY <1>7, <1>2 DEF InsertRow, DeleteRow
  <2>3. docLock'[Doc(r)] = r
    BY <2>2, <1>d DEF TypeOK
  <2> QED BY <2>1, <2>2, <2>3, <1>i, <1>3
<1> QED BY <1>1, <1>3, <1>4, <1>5, <1>6, <1>7 DEF Act, Step

\* The COMMIT of a request changes the balance of its own safe.
LEMMA CommitBalance ==
  ASSUME TypeOK, NEW r \in Requests, Commit(r)
  PROVE  /\ \A s \in Safes : s # Safe(Doc(r)) => balance'[s] = balance[s]
         /\ Kind(Doc(r)) # "income" =>
              balance'[Safe(Doc(r))] = balance[Safe(Doc(r))] + Change(r)
         /\ pc[r] = "commit" /\ pc[r] \in InTx /\ job[r].kind \in {"create", "delete"}
<1>1. Safe(Doc(r)) \in Safes
  BY ChangeType, EffectType
<1> QED BY <1>1 DEF Commit, TypeOK, InTx

LEMMA SafeStep ==
  ASSUME TypeOK, LockInv, EnoughInv, SafeNeverNegative, [Next]_vars
  PROVE  LockInv' /\ EnoughInv' /\ SafeNeverNegative'
<1>1. CASE UNCHANGED vars
  BY <1>1 DEF vars, LockInv, EnoughInv, SafeNeverNegative, Doc, Guarded, Change, Sign
<1>2. ASSUME NEW r \in Requests, Act(r) PROVE LockInv' /\ EnoughInv' /\ SafeNeverNegative'
  <2>1. LockInv'
    <3> SUFFICES ASSUME NEW q \in Requests
                 PROVE  /\ pc'[q] \in InTx => safeLock'[Safe(Doc(q)')] = q
                        /\ pc'[q] = "commit" => docLock'[Doc(q)'] = q
      BY DEF LockInv, Safe
    <3>1. CASE q = r
      BY <1>2, <3>1, OwnLocks DEF Doc, InTx
    <3>2. CASE q # r
      <4>1. Doc(q) \in Docs /\ Safe(Doc(q)) \in Safes
        BY ChangeType, EffectType
      <4>2. /\ pc'[q] = pc[q] /\ Doc(q)' = Doc(q)
            /\ safeLock[Safe(Doc(q))] = q => safeLock'[Safe(Doc(q))] = q
            /\ docLock[Doc(q)] = q => docLock'[Doc(q)] = q
        BY <1>2, <3>2, <4>1, OthersStay, LocksKept
      <4>3. /\ pc[q] \in InTx => safeLock[Safe(Doc(q))] = q
            /\ pc[q] = "commit" => docLock[Doc(q)] = q
        BY DEF LockInv
      <4> QED BY <4>2, <4>3
    <3> QED BY <3>1, <3>2
  <2>2. EnoughInv'
    <3> SUFFICES ASSUME NEW q \in Requests, pc'[q] \in InTx, Guarded(q)'
                 PROVE  balance'[Safe(Doc(q)')] + Change(q)' >= 0
      BY DEF EnoughInv, Safe
    <3>1. CASE q = r
      <4>1. job'[q] = job[q] /\ ~ Commit(r)
        BY <1>2, <3>1, OwnLocks
      <4>2. Doc(q)' = Doc(q) /\ Change(q)' = Change(q) /\ Guarded(q)' = Guarded(q)
        BY <4>1 DEF Doc, Change, Sign, Guarded, Effect, Kind
      <4>3. balance' = balance
        BY <1>2, <4>1, MoneyMoves
      <4> QED BY <1>2, <3>1, <4>2, <4>3, OwnLocks
    <3>2. CASE q # r
      <4>1. pc[q] \in InTx /\ Guarded(q) /\ Doc(q)' = Doc(q) /\ Change(q)' = Change(q)
        BY <1>2, <3>2, OthersStay
      <4>2. Safe(Doc(q)) \in Safes
        BY ChangeType, EffectType
      <4>3. balance'[Safe(Doc(q))] = balance[Safe(Doc(q))]
        <5>1. CASE Commit(r)
          <6>0. pc[r] \in InTx
            BY <5>1, CommitBalance
          <6>1. safeLock[Safe(Doc(q))] = q /\ safeLock[Safe(Doc(r))] = r
            BY <6>0, <4>1 DEF LockInv
          <6> QED BY <6>1, <5>1, <4>2, <3>2, CommitBalance
        <5>2. CASE ~ Commit(r)
          BY <1>2, <5>2, MoneyMoves
        <5> QED BY <5>1, <5>2
      <4> QED BY <4>1, <4>3 DEF EnoughInv
    <3> QED BY <3>1, <3>2
  <2>3. SafeNeverNegative'
    <3> SUFFICES ASSUME NEW s \in Safes, NoIncome(s) PROVE balance'[s] >= 0
      BY DEF SafeNeverNegative, NoIncome, DocsOf, Safe, Kind
    <3>1. balance[s] >= 0 /\ balance[s] \in Int
      BY DEF SafeNeverNegative, TypeOK
    <3>2. CASE ~ (Commit(r) /\ s = Safe(Doc(r)))
      BY <1>2, <3>1, <3>2, MoneyMoves, CommitBalance
    <3>3. CASE Commit(r) /\ s = Safe(Doc(r))
      <4>1. Doc(r) \in Docs /\ Change(r) \in Int
        BY ChangeType
      <4>2. Kind(Doc(r)) # "income"
        BY <3>3, <4>1 DEF NoIncome, DocsOf
      <4>3. balance'[s] = balance[s] + Change(r) /\ pc[r] \in InTx
        BY <3>3, <4>2, CommitBalance
      <4>4. Change(r) < 0 => balance[s] + Change(r) >= 0
        BY <3>3, <4>2, <4>3 DEF EnoughInv, Guarded
      <4> QED BY <4>1, <4>3, <4>4, <3>1
    <3> QED BY <3>2, <3>3
  <2> QED BY <2>1, <2>2, <2>3
<1> QED BY <1>1, <1>2, NextActs

LEMMA SafeInit == Init => LockInv /\ EnoughInv /\ SafeNeverNegative
BY VouchersAssumption DEF Init, LockInv, EnoughInv, SafeNeverNegative, InTx

\* However creations and deletions overlap, also of one document twice, a safe
\* that takes no income never goes below zero.
THEOREM NeverOverdrawn == Spec => []SafeNeverNegative
<1>1. Init => TypeOK /\ LockInv /\ EnoughInv /\ SafeNeverNegative
  BY InitTypeOK, SafeInit
<1>2. TypeOK /\ LockInv /\ EnoughInv /\ SafeNeverNegative /\ [Next]_vars
        => TypeOK' /\ LockInv' /\ EnoughInv' /\ SafeNeverNegative'
  BY NextTypeOK, SafeStep
<1> QED BY <1>1, <1>2, PTL DEF Spec

-----------------------------------------------------------------------------
(* Who works on a document *)

\* Where a deletion has not yet committed.
BeforeCommit == {"stillThere", "readSafe", "safe"} \cup InTx

\* The document is there.
ExistsAtAll(d) == status[d] \in {"draft", "posted", "cancelled"}

\* A document that is not Shared is worked on by one request, creations aside; a
\* deletion has found it deletable and a posting or cancellation has found it;
\* a creation that commits is the first.
AloneInv ==
  \A q, r \in Requests :
    q # r /\ ~ Idle(q) /\ ~ Idle(r) /\ Doc(q) = Doc(r) /\ Doc(r) \notin Shared
      => job[q].kind = "create" /\ job[r].kind = "create"
WorkInv ==
  \A r \in Requests :
    ~ Idle(r) /\ Doc(r) \notin Shared =>
      /\ job[r].kind = "delete" /\ pc[r] \in BeforeCommit => Deletable(Doc(r))
      /\ job[r].kind \in {"post", "cancel"} => ExistsAtAll(Doc(r))
CreateInv ==
  \A r \in Requests :
    pc[r] = "commit" /\ job[r].kind = "create" => status[Doc(r)] = "none"
OrderInv == AloneInv /\ WorkInv /\ CreateInv

\* A request that was received before goes on with the same job.
LEMMA SelfStays ==
  ASSUME TypeOK, NEW r \in Requests, Act(r), ~ Receive(r)
  PROVE  /\ job'[r] = job[r] /\ Doc(r)' = Doc(r)
         /\ ~ Idle(r)
         /\ pc'[r] \in BeforeCommit => pc[r] \in BeforeCommit /\ ~ Commit(r) /\ ~ SetStatus(r)
         /\ pc'[r] = "commit" => InsertRow(r) \/ DeleteRow(r)
<1>1. job' = job
  BY DEF Act, Fail, Step, StillThere, ReadSafe, UpdateSafe, ReadCustomer, UpdateCustomer,
         InsertRow, DeleteRow, Commit, InsertEntry, InsertReversal, SetStatus, Abandon
<1>2. ~ Idle(r)
  BY DEF Act, Fail, Step, StillThere, ReadSafe, UpdateSafe, ReadCustomer, UpdateCustomer,
         InsertRow, DeleteRow, Commit, InsertEntry, InsertReversal, SetStatus, Idle
<1>3. Abandon(r) => pc'[r] = "idle"
  BY DEF Abandon, TypeOK
<1>4. CASE Fail(r)
  <2>1. pc'[r] = "idle"
    BY <1>3, <1>4 DEF Fail
  <2> QED BY <1>1, <1>2, <2>1 DEF BeforeCommit, InTx, Doc
<1>5. CASE Commit(r) \/ InsertEntry(r) \/ InsertReversal(r) \/ SetStatus(r)
  <2>1. pc'[r] \in {"idle", "entry", "reversal", "status"}
    BY <1>5 DEF Commit, InsertEntry, InsertReversal, SetStatus, Goto, TypeOK
  <2> QED BY <1>1, <1>2, <2>1 DEF BeforeCommit, InTx, Doc
<1>6. CASE StillThere(r) \/ ReadSafe(r) \/ UpdateSafe(r) \/ ReadCustomer(r)
            \/ UpdateCustomer(r) \/ InsertRow(r) \/ DeleteRow(r)
  <2>1. pc[r] \in BeforeCommit /\ pc[r] \notin {"commit", "status"}
    BY <1>6 DEF StillThere, ReadSafe, UpdateSafe, ReadCustomer, UpdateCustomer,
                InsertRow, DeleteRow, BeforeCommit, InTx
  <2>2. ~ Commit(r) /\ ~ SetStatus(r)
    BY <2>1 DEF Commit, SetStatus
  <2>3. pc'[r] = "commit" => InsertRow(r) \/ DeleteRow(r)
    BY <1>3, <1>6 DEF StillThere, ReadSafe, UpdateSafe, ReadCustomer, UpdateCustomer,
                      Goto, Start, TypeOK
  <2> QED BY <1>1, <1>2, <2>1, <2>2, <2>3 DEF Doc
<1> QED BY <1>4, <1>5, <1>6 DEF Act, Step

\* What is known of a request when it is received.
LEMMA Received ==
  ASSUME TypeOK, NEW r \in Requests, Receive(r)
  PROVE  /\ status' = status /\ ~ Commit(r) /\ ~ SetStatus(r)
         /\ pc'[r] # "commit"
         /\ job'[r].kind = "delete" => Deletable(Doc(r)')
         /\ job'[r].kind \in {"post", "cancel"} => ExistsAtAll(Doc(r)')
         /\ \A q \in Requests : ~ Idle(q) /\ Doc(q) = Doc(r)' /\ Doc(r)' \notin Shared =>
              job[q].kind = "create" /\ job'[r].kind = "create"
<1> PICK d \in Docs : ReceiveCreate(r, d) \/ ReceivePost(r, d) \/ ReceiveCancel(r, d)
                        \/ ReceiveDelete(r, d)
  BY DEF Receive
<1>1. Idle(r)
  BY DEF ReceiveCreate, ReceivePost, ReceiveCancel, ReceiveDelete, Send, MaySend
<1>2. ~ Commit(r) /\ ~ SetStatus(r)
  BY <1>1 DEF Commit, SetStatus, Idle
<1>3. ASSUME NEW kind, NEW first, Send(r, kind, d, first)
      PROVE  /\ status' = status /\ job'[r].kind = kind /\ Doc(r)' = d /\ pc'[r] = first
             /\ \A q \in Requests : ~ Idle(q) /\ Doc(q) = d /\ d \notin Shared =>
                  job[q].kind = "create" /\ kind = "create"
  BY <1>3 DEF Send, MaySend, Goto, Doc, TypeOK
<1>4. CASE ReceiveCreate(r, d) BY <1>2, <1>3, <1>4 DEF ReceiveCreate, Start
<1>5. CASE ReceivePost(r, d) BY <1>2, <1>3, <1>5 DEF ReceivePost, ExistsAtAll
<1>6. CASE ReceiveCancel(r, d) BY <1>2, <1>3, <1>6 DEF ReceiveCancel, ExistsAtAll
<1>7. CASE ReceiveDelete(r, d) BY <1>2, <1>3, <1>7 DEF ReceiveDelete
<1> QED BY <1>4, <1>5, <1>6, <1>7

LEMMA CommitStatus ==
  ASSUME TypeOK, NEW r \in Requests, Commit(r) \/ SetStatus(r)
  PROVE  \A d \in Docs : d # Doc(r) => status'[d] = status[d]
BY DEF Commit, SetStatus, TypeOK

LEMMA OrderStep ==
  ASSUME TypeOK, LockInv, OrderInv, [Next]_vars
  PROVE  OrderInv'
<1>1. CASE UNCHANGED vars
  BY <1>1 DEF vars, OrderInv, AloneInv, WorkInv, CreateInv, Doc, Idle, Deletable, ExistsAtAll
<1>2. ASSUME NEW r \in Requests, Act(r) PROVE OrderInv'
  <2>a. /\ \A q, t \in Requests :
             q # t /\ pc[q] # "idle" /\ pc[t] # "idle" /\ Doc(q) = Doc(t) /\ Doc(t) \notin Shared
               => job[q].kind = "create" /\ job[t].kind = "create"
        /\ \A q \in Requests : Doc(q) \in Docs
    BY ChangeType DEF OrderInv, AloneInv, Idle
  <2>1. AloneInv'
    <3> SUFFICES ASSUME NEW q \in Requests, q # r, pc'[q] # "idle", pc'[r] # "idle",
                        Doc(q)' = Doc(r)', Doc(r)' \notin Shared
                 PROVE  job'[q].kind = "create" /\ job'[r].kind = "create"
      <4>1. \A q, t \in Requests : q # r /\ t # r /\ q # t /\ pc'[q] # "idle" /\ pc'[t] # "idle"
                 /\ Doc(q)' = Doc(t)' /\ Doc(t)' \notin Shared
               => job'[q].kind = "create" /\ job'[t].kind = "create"
        BY <1>2, <2>a, OthersStay
      <4> QED BY <4>1 DEF AloneInv, Idle
    <3>1. pc[q] # "idle" /\ Doc(q)' = Doc(q) /\ job'[q] = job[q]
      BY <1>2, OthersStay
    <3>2. CASE Receive(r)
      BY <3>1, <3>2, Received DEF Idle
    <3>3. CASE ~ Receive(r)
      BY <1>2, <2>a, <3>1, <3>3, SelfStays DEF Idle
    <3> QED BY <3>2, <3>3
  <2>2. WorkInv'
    <3> SUFFICES ASSUME NEW q \in Requests, pc'[q] # "idle", Doc(q)' \notin Shared
                 PROVE  /\ job'[q].kind = "delete" /\ pc'[q] \in BeforeCommit
                             => status'[Doc(q)'] \in {"draft", "cancelled"}
                        /\ job'[q].kind \in {"post", "cancel"}
                             => status'[Doc(q)'] \in {"draft", "posted", "cancelled"}
      BY DEF WorkInv, Idle, Deletable, ExistsAtAll
    <3>w. pc[q] # "idle" /\ Doc(q) \notin Shared =>
            /\ job[q].kind = "delete" /\ pc[q] \in BeforeCommit
                 => status[Doc(q)] \in {"draft", "cancelled"}
            /\ job[q].kind \in {"post", "cancel"}
                 => status[Doc(q)] \in {"draft", "posted", "cancelled"}
      BY DEF OrderInv, WorkInv, Idle, Deletable, ExistsAtAll
    <3>1. CASE q = r /\ Receive(r)
      BY <3>1, Received DEF Deletable, ExistsAtAll
    <3>2. CASE q = r /\ ~ Receive(r)
      <4>1. job'[q] = job[q] /\ Doc(q)' = Doc(q) /\ pc[q] # "idle"
        BY <1>2, <3>2, SelfStays DEF Idle
      <4>2. CASE Commit(r) \/ SetStatus(r)
        <5>1. SetStatus(r) => pc'[q] = "idle"
          BY <3>2 DEF SetStatus, Goto, TypeOK
        <5>2. Commit(r) => job[q].kind \notin {"post", "cancel"}
          BY <3>2, CommitBalance
        <5> QED BY <1>2, <3>2, <4>1, <4>2, <5>1, <5>2, SelfStays
      <4>3. CASE ~ (Commit(r) \/ SetStatus(r))
        <5>1. status' = status
          BY <1>2, <4>3, StatusMoves
        <5>2. pc'[q] \in BeforeCommit => pc[q] \in BeforeCommit
          BY <1>2, <3>2, SelfStays
        <5> QED BY <3>w, <4>1, <5>1, <5>2
      <4> QED BY <4>2, <4>3
    <3>3. CASE q # r
      <4>1. pc'[q] = pc[q] /\ job'[q] = job[q] /\ Doc(q)' = Doc(q)
        BY <1>2, <3>3, OthersStay
      <4>2. CASE job[q].kind = "create" BY <4>1, <4>2
      <4>3. CASE job[q].kind # "create"
        <5>1. (Commit(r) \/ SetStatus(r)) => Doc(r) # Doc(q)
          <6> SUFFICES ASSUME Commit(r) \/ SetStatus(r), Doc(r) = Doc(q) PROVE FALSE
            OBVIOUS
          <6>1. pc[r] # "idle"
            BY DEF Commit, SetStatus
          <6> QED BY <2>a, <3>3, <4>1, <4>3, <6>1
        <5>2. status'[Doc(q)] = status[Doc(q)]
          BY <1>2, <2>a, <5>1, StatusMoves, CommitStatus
        <5> QED BY <3>w, <4>1, <5>2
      <4> QED BY <4>2, <4>3
    <3> QED BY <3>1, <3>2, <3>3
  <2>3. CreateInv'
    <3> SUFFICES ASSUME NEW q \in Requests, pc'[q] = "commit", job'[q].kind = "create"
                 PROVE  status'[Doc(q)'] = "none"
      BY DEF CreateInv
    <3>1. CASE q = r
      <4>1. ~ Receive(r)
        BY <3>1, Received
      <4>2. job'[r] = job[r] /\ Doc(r)' = Doc(r) /\ (InsertRow(r) \/ DeleteRow(r))
        BY <1>2, <3>1, <4>1, SelfStays
      <4>3. InsertRow(r)
        BY <3>1, <4>2 DEF DeleteRow
      <4>4. status[Doc(r)] = "none"
        BY <3>1, <4>3 DEF InsertRow, Abandon, TypeOK
      <4>5. status' = status
        BY <4>3 DEF InsertRow, Abandon
      <4> QED BY <3>1, <4>2, <4>4, <4>5
    <3>2. CASE q # r
      <4>1. pc[q] = "commit" /\ job[q].kind = "create" /\ Doc(q)' = Doc(q)
        BY <1>2, <3>2, OthersStay
      <4>2. status[Doc(q)] = "none" /\ docLock[Doc(q)] = q
        BY <4>1 DEF OrderInv, CreateInv, LockInv
      <4>3. (Commit(r) \/ SetStatus(r)) => Doc(r) # Doc(q)
        <5>1. CASE Commit(r)
          <6>1. docLock[Doc(r)] = r
            BY <5>1, CommitBalance DEF LockInv
          <6> QED BY <4>2, <6>1, <3>2
        <5>2. CASE SetStatus(r)
          BY <4>2, <5>2, VouchersAssumption DEF SetStatus
        <5> QED BY <5>1, <5>2
      <4> QED BY <1>2, <2>a, <4>1, <4>2, <4>3, StatusMoves, CommitStatus
    <3> QED BY <3>1, <3>2
  <2> QED BY <2>1, <2>2, <2>3 DEF OrderInv
<1> QED BY <1>1, <1>2, NextActs

LEMMA OrderInit == Init => OrderInv
BY DEF Init, OrderInv, AloneInv, WorkInv, CreateInv, Idle

-----------------------------------------------------------------------------
(* Customers and the ledger *)

\* Where a transaction has read the balance of its customer.
HasRead == {"customer", "row", "commit"}

\* What a transaction has read of a customer with one safe is still true.
DebtInv ==
  \A r \in Requests :
    pc[r] \in HasRead /\ HasCustomer(Doc(r)) /\ OneSafe(Customer(Doc(r)))
      => seen[r] = debt[Customer(Doc(r))]

\* Two documents of such a customer share their safe.
LEMMA OneSafeFacts ==
  ASSUME NEW d \in Docs, NEW e \in Docs, Customer(d) = Customer(e), OneSafe(Customer(d))
  PROVE  Safe(d) = Safe(e) /\ d \notin Shared
BY DEF OneSafe

\* A COMMIT leaves the other customers alone.
LEMMA CommitDebt ==
  ASSUME TypeOK, NEW r \in Requests, Commit(r), NEW c \in Customers
  PROVE  /\ c # Customer(Doc(r)) => debt'[c] = debt[c] /\ ledger'[c] = ledger[c]
         /\ c = Customer(Doc(r)) => /\ HasCustomer(Doc(r))
                                    /\ debt'[c] = seen[r] + DebtChange(r)
                                    /\ ledger'[c] = ledger[c] + LedgerChange(r)
BY VouchersAssumption DEF Commit, HasCustomer

LEMMA DebtStep ==
  ASSUME TypeOK, LockInv, OrderInv, DebtInv, LedgerExplainsDebt, [Next]_vars
  PROVE  DebtInv' /\ LedgerExplainsDebt'
<1>1. CASE UNCHANGED vars
  BY <1>1 DEF vars, DebtInv, LedgerExplainsDebt, OneSafe, HasCustomer, Customer, Safe, Doc
<1>2. ASSUME NEW r \in Requests, Act(r) PROVE DebtInv' /\ LedgerExplainsDebt'
  <2>d. \A q \in Requests : Doc(q) \in Docs
    BY ChangeType
  <2>1. DebtInv'
    <3> SUFFICES ASSUME NEW q \in Requests, pc'[q] \in HasRead, HasCustomer(Doc(q)'),
                        OneSafe(Customer(Doc(q)'))
                 PROVE  seen'[q] = debt'[Customer(Doc(q)')]
      BY DEF DebtInv, HasCustomer, OneSafe, Customer, Safe
    <3>1. CASE q = r
      <4>1. ~ Receive(r)
        <5> SUFFICES ASSUME Receive(r) PROVE FALSE
          OBVIOUS
        <5>1. pc'[r] \in {"readSafe", "safe", "entry", "reversal", "status", "stillThere"}
          BY DEF Receive, ReceiveCreate, ReceivePost, ReceiveCancel, ReceiveDelete, Send,
                 Goto, Start, TypeOK
        <5> QED BY <3>1, <5>1 DEF HasRead
      <4>2. Doc(r)' = Doc(r) /\ ~ Commit(r)
        <5>1. pc'[r] \in BeforeCommit
          BY <3>1 DEF HasRead, BeforeCommit, InTx
        <5> QED BY <1>2, <4>1, <5>1, SelfStays
      <4>3. debt' = debt
        BY <1>2, <4>2, MoneyMoves
      <4>4. CASE ReadCustomer(r)
        <5>1. seen'[r] = debt[Customer(Doc(r))]
          BY <4>4 DEF ReadCustomer, TypeOK
        <5> QED BY <3>1, <4>2, <4>3, <5>1
      <4>5. CASE UpdateCustomer(r) \/ InsertRow(r) \/ DeleteRow(r)
        <5>1. pc[r] \in HasRead
          BY <4>5 DEF UpdateCustomer, InsertRow, DeleteRow, HasRead
        <5>2. seen'[r] = seen[r]
          BY <4>5 DEF UpdateCustomer, InsertRow, DeleteRow, Abandon
        <5>3. seen[r] = debt[Customer(Doc(r))]
          BY <3>1, <4>2, <5>1 DEF DebtInv
        <5> QED BY <3>1, <4>2, <4>3, <5>2, <5>3
      <4>6. ~ Abandon(r)
        BY <3>1 DEF Abandon, TypeOK, HasRead
      <4>7. ~ (StillThere(r) \/ ReadSafe(r) \/ UpdateSafe(r) \/ InsertEntry(r)
                 \/ InsertReversal(r) \/ SetStatus(r) \/ Fail(r))
        BY <3>1, <4>2, <4>6 DEF StillThere, ReadSafe, UpdateSafe, InsertEntry, InsertReversal,
           SetStatus, Fail, Goto, Start, TypeOK, HasRead
      <4> QED BY <1>2, <4>1, <4>2, <4>4, <4>5, <4>7 DEF Act, Step
    <3>2. CASE q # r
      <4>1. pc[q] \in HasRead /\ Doc(q)' = Doc(q) /\ seen'[q] = seen[q]
        BY <1>2, <3>2, OthersStay
      <4>2. seen[q] = debt[Customer(Doc(q))]
        BY <4>1 DEF DebtInv
      <4>3. Customer(Doc(q)) \in Customers
        BY <2>d, <4>1, EffectType
      <4>4. debt'[Customer(Doc(q))] = debt[Customer(Doc(q))]
        <5>1. CASE Commit(r)
          <6>1. Customer(Doc(r)) # Customer(Doc(q))
            <7> SUFFICES ASSUME Customer(Doc(r)) = Customer(Doc(q)) PROVE FALSE
              OBVIOUS
            <7>1. Safe(Doc(r)) = Safe(Doc(q))
              BY <2>d, <4>1, OneSafeFacts
            <7>2. pc[r] \in InTx /\ pc[q] \in InTx
              BY <4>1, <5>1, CommitBalance DEF HasRead, InTx
            <7>3. safeLock[Safe(Doc(r))] = r /\ safeLock[Safe(Doc(q))] = q
              BY <7>2 DEF LockInv
            <7> QED BY <3>2, <7>1, <7>3
          <6> QED BY <4>3, <5>1, <6>1, CommitDebt
        <5>2. CASE ~ Commit(r)
          BY <1>2, <5>2, MoneyMoves
        <5> QED BY <5>1, <5>2
      <4> QED BY <4>1, <4>2, <4>4
    <3> QED BY <3>1, <3>2
  <2>2. LedgerExplainsDebt'
    <3> SUFFICES ASSUME NEW c \in Customers, OneSafe(c) PROVE debt'[c] = ledger'[c]
      BY DEF LedgerExplainsDebt, OneSafe, Customer, Safe
    <3>1. debt[c] = ledger[c]
      BY DEF LedgerExplainsDebt
    <3>2. CASE ~ (Commit(r) /\ c = Customer(Doc(r)))
      BY <1>2, <3>1, <3>2, MoneyMoves, CommitDebt
    <3>3. CASE Commit(r) /\ c = Customer(Doc(r))
      <4>1. HasCustomer(Doc(r)) /\ pc[r] = "commit"
        BY <3>3, CommitDebt, CommitBalance
      <4>2. seen[r] = debt[c]
        BY <3>3, <4>1 DEF DebtInv, HasRead
      <4>3. Doc(r) \notin Shared
        BY <2>d, <3>3, OneSafeFacts
      <4>4. job[r].kind = "delete" => status[Doc(r)] # "deleted"
        BY <4>1, <4>3 DEF OrderInv, WorkInv, Idle, BeforeCommit, InTx, Deletable
      <4>5. LedgerChange(r) = DebtChange(r)
        BY <4>4 DEF LedgerChange
      <4> QED BY <3>1, <3>3, <4>2, <4>5, CommitDebt
    <3> QED BY <3>2, <3>3
  <2> QED BY <2>1, <2>2
<1> QED BY <1>1, <1>2, NextActs

LEMMA DebtInit == Init => DebtInv /\ LedgerExplainsDebt
BY DEF Init, DebtInv, HasRead, LedgerExplainsDebt

\* The conjunction the theorems rest on.
VouchersInv == TypeOK /\ LockInv /\ EnoughInv /\ SafeNeverNegative /\ OrderInv
                 /\ DebtInv /\ LedgerExplainsDebt

LEMMA VouchersInvariant == Spec => []VouchersInv
<1>1. Init => VouchersInv
  BY InitTypeOK, SafeInit, OrderInit, DebtInit DEF VouchersInv
<1>2. VouchersInv /\ [Next]_vars => VouchersInv'
  BY NextTypeOK, SafeStep, OrderStep, DebtStep DEF VouchersInv
<1> QED BY <1>1, <1>2, PTL DEF Spec

\* customers.balance stays the sum of customer_ledger for every customer whose
\* vouchers go through one safe, however requests overlap.
THEOREM LedgerAlwaysExplains == Spec => []LedgerExplainsDebt
<1>1. VouchersInv => LedgerExplainsDebt
  BY DEF VouchersInv
<1> QED BY <1>1, VouchersInvariant, PTL

-----------------------------------------------------------------------------
(* Posted vouchers and the cash book *)

\* Who deletes a document that is not Shared has found it deletable.
LEMMA DeletesDeletable ==
  ASSUME VouchersInv, NEW r \in Requests, Commit(r), Doc(r) \notin Shared
  PROVE  /\ job[r].kind = "delete" => Deletable(Doc(r))
         /\ job[r].kind = "create" => status[Doc(r)] = "none"
<1>1. pc[r] = "commit"
  BY DEF Commit
<1> QED BY <1>1 DEF VouchersInv, OrderInv, WorkInv, CreateInv, Idle, BeforeCommit, InTx

\* A posted voucher whose requests do not overlap is not deleted.
THEOREM PostedAlwaysKept == Spec => PostedIsKept
<1>1. VouchersInv /\ [Next]_vars =>
        [\A d \in Docs \ Shared : status[d] = "posted" => status'[d] # "deleted"]_vars
  <2> SUFFICES ASSUME VouchersInv, [Next]_vars, NEW d \in Docs \ Shared,
                      status[d] = "posted"
               PROVE  status'[d] # "deleted"
    OBVIOUS
  <2>t. TypeOK
    BY DEF VouchersInv
  <2>1. CASE UNCHANGED vars
    BY <2>1 DEF vars
  <2>2. ASSUME NEW r \in Requests, Act(r) PROVE status'[d] # "deleted"
    <3>1. CASE Commit(r) /\ d = Doc(r)
      <4>1. job[r].kind \in {"create", "delete"}
        BY <2>t, <3>1, CommitBalance
      <4> QED BY <3>1, <4>1, DeletesDeletable DEF Deletable
    <3>2. CASE SetStatus(r) /\ d = Doc(r)
      BY <2>t, <3>2 DEF SetStatus, TypeOK
    <3>3. CASE d # Doc(r) \/ ~ (Commit(r) \/ SetStatus(r))
      BY <2>2, <2>t, <3>3, CommitStatus, StatusMoves
    <3> QED BY <3>1, <3>2, <3>3
  <2> QED BY <2>1, <2>2, NextActs
<1> QED BY <1>1, VouchersInvariant, PTL DEF Spec, PostedIsKept

\* A step of the handlers is a step of the cash book of an orderly safe, or
\* leaves it alone.
LEMMA StepOfBook ==
  ASSUME Orderly, VouchersInv, VouchersInv', [Next]_vars
  PROVE  [Book!Next]_(Book!vars)
<1>t. TypeOK /\ SafeNeverNegative'
  BY DEF VouchersInv
<1>n. balance'[Drawer] >= 0 /\ balance[Drawer] \in Int /\ Drawer \in Safes
  BY <1>t, VouchersAssumption DEF Orderly, SafeNeverNegative, TypeOK, NoIncome, DocsOf, Kind, Safe
<1>1. CASE UNCHANGED vars
  BY <1>1 DEF vars, Live, Book!vars
<1>2. ASSUME NEW r \in Requests, Act(r) PROVE [Book!Next]_(Book!vars)
  <2>d. Doc(r) \in Docs
    BY <1>t, ChangeType
  <2>1. CASE ~ Commit(r) /\ ~ SetStatus(r)
    BY <1>2, <1>t, <2>1, MoneyMoves, StatusMoves DEF Live, Book!vars
  <2>2. CASE SetStatus(r)
    <3>1. balance' = balance
      BY <2>2 DEF SetStatus, moneyVars
    <3>2. Doc(r) \in DocsOf(Drawer) => status[Doc(r)] \in {"draft", "posted", "cancelled"}
      <4>1. Doc(r) \in DocsOf(Drawer) => Doc(r) \notin Shared
        BY DEF Orderly
      <4>2. pc[r] = "status" /\ job[r].kind \in {"post", "cancel"}
        BY <1>t, <2>2 DEF SetStatus, TypeOK
      <4> QED BY <4>1, <4>2 DEF VouchersInv, OrderInv, WorkInv, Idle, ExistsAtAll
    <3>3. Doc(r) \in DocsOf(Drawer) => status'[Doc(r)] \in {"draft", "posted", "cancelled"}
      BY <1>t, <2>2, <3>2 DEF SetStatus, TypeOK
    <3>4. Live' = Live
      BY <1>t, <2>2, <3>2, <3>3, CommitStatus DEF Live, DocsOf, Safe
    <3> QED BY <3>1, <3>4 DEF Book!vars
  <2>3. CASE Commit(r) /\ Safe(Doc(r)) # Drawer
    <3>1. balance'[Drawer] = balance[Drawer]
      BY <1>t, <1>n, <2>3, CommitBalance
    <3>2. Live' = Live
      BY <1>t, <2>3, CommitStatus DEF Live, DocsOf, Safe
    <3> QED BY <3>1, <3>2 DEF Book!vars
  <2>4. CASE Commit(r) /\ Safe(Doc(r)) = Drawer
    <3> DEFINE d == Doc(r)
    <3>1. d \in DocsOf(Drawer) /\ d \notin Shared /\ Kind(d) # "income"
      BY <2>d, <2>4 DEF Orderly, NoIncome, DocsOf
    <3>2. balance'[Drawer] = balance[Drawer] + Change(r) /\ job[r].kind \in {"create", "delete"}
      BY <1>t, <2>4, <3>1, CommitBalance
    <3>3. Effects[d] = Effect(d) /\ Effect(d) \in Int
      BY <2>d, <3>1, EffectType DEF Effects
    <3>4. CASE job[r].kind = "create"
      <4>1. status[d] = "none" /\ status'[d] = "draft"
        BY <1>t, <2>4, <2>d, <3>1, <3>4, DeletesDeletable DEF Commit, TypeOK
      <4>2. d \notin Live /\ Live' = Live \cup {d}
        BY <1>t, <2>4, <3>1, <4>1, CommitStatus DEF Live, DocsOf, Safe
      <4>3. Change(r) = Effects[d]
        BY <1>t, <3>3, <3>4, ChangeType
      <4>4. balance'[Drawer] = balance[Drawer] + Effects[d] /\ balance[Drawer] + Effects[d] >= 0
        BY <1>n, <3>2, <4>3
      <4>5. Book!Enter(d)
        BY <4>2, <4>4 DEF Book!Enter
      <4> QED BY <3>1, <4>5 DEF Book!Next
    <3>5. CASE job[r].kind = "delete"
      <4>1. status[d] \in {"draft", "cancelled"} /\ status'[d] = "deleted"
        BY <1>t, <2>4, <2>d, <3>1, <3>5, DeletesDeletable DEF Commit, TypeOK, Deletable
      <4>2. d \in Live /\ Live' = Live \ {d}
        BY <1>t, <2>4, <3>1, <4>1, CommitStatus DEF Live, DocsOf, Safe
      <4>3. Change(r) = - Effects[d]
        BY <1>t, <3>3, <3>5, ChangeType
      <4>4. balance'[Drawer] = balance[Drawer] - Effects[d] /\ balance[Drawer] - Effects[d] >= 0
        BY <1>n, <3>2, <3>3, <4>3
      <4>5. Book!StrikeOut(d)
        BY <4>2, <4>4 DEF Book!StrikeOut
      <4> QED BY <3>1, <4>5 DEF Book!Next
    <3> QED BY <3>2, <3>4, <3>5
  <2> QED BY <2>1, <2>2, <2>3, <2>4
<1> QED BY <1>1, <1>2, NextActs

\* The handlers implement the cash book of every safe that takes no income and
\* whose documents are not Shared, whatever goes on in the other safes.
THEOREM VouchersImplementBook ==
  ASSUME Orderly
  PROVE  Spec => ImplementsCashBook
<1>1. Init => Book!Init
  <2> SUFFICES ASSUME Init PROVE Book!Init
    OBVIOUS
  <2>1. balance[Drawer] = Opening[Drawer]
    BY DEF Init
  <2>2. \A d \in DocsOf(Drawer) : status[d] = "none"
    BY DEF Init, DocsOf
  <2>3. Live = {}
    BY <2>2 DEF Live
  <2> QED BY <2>1, <2>3 DEF Book!Init
<1>2. VouchersInv /\ VouchersInv' /\ [Next]_vars => [Book!Next]_(Book!vars)
  BY StepOfBook
<1> QED BY <1>1, <1>2, VouchersInvariant, PTL DEF Spec, ImplementsCashBook, Book!Spec

=============================================================================
