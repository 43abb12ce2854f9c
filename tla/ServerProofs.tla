---------------------------- MODULE ServerProofs ----------------------------
(***************************************************************************)
(* Proofs about what requests share in the server: the rows of safes that  *)
(* concurrent transfers lock (SafeTransfer), for any number of safes,      *)
(* requests, amounts and fee terms, and the connections their transactions *)
(* run on (ConnectionPool).                                                *)
(***************************************************************************)
EXTENDS SafeTransfer, ConnectionPool, Sums, TLAPS

-----------------------------------------------------------------------------
(* Amounts *)

\* What the column rounding keeps: an integer multiple of ten, never negative
\* for a non-negative amount, and whole piastres unchanged.
LEMMA PiastresFacts ==
  ASSUME NEW x \in Int
  PROVE  /\ Piastres(x) \in Int
         /\ Piastres(x) % 10 = 0
         /\ x >= 0 => Piastres(x) >= 0
         /\ x % 10 = 0 => Piastres(x) = x
  BY DEF Piastres

\* calculateTransferFee: the fee is never negative, fee and net are whole
\* piastres, and they add up to the amount when that is whole piastres too.
LEMMA FeeFacts ==
  ASSUME NEW a \in Int, NEW terms \in FeeTerms
  PROVE  /\ FeeOf(a, terms) \in Nat
         /\ FeeOf(a, terms) % 10 = 0
         /\ NetOf(a, FeeOf(a, terms)) \in Int
         /\ NetOf(a, FeeOf(a, terms)) % 10 = 0
         /\ a % 10 = 0 => NetOf(a, FeeOf(a, terms)) = a - FeeOf(a, terms)
<1> DEFINE fee == FeeOf(a, terms)
           prod == 2 * a * terms.rate + 100000
<1>1. terms.type \in {"none", "fixed", "percentage"} /\ terms.rate \in Int
  BY RequestsAssumption
<1>2. Piastres(terms.rate) \in Int /\ Piastres(terms.rate) % 10 = 0
  BY <1>1, PiastresFacts
<1>3. prod \in Int
  BY <1>1
<1>4. 10 * (prod \div 200000) \in Int /\ (10 * (prod \div 200000)) % 10 = 0
  <2> HIDE DEF prod
  <2> QED BY <1>3
<1>5. fee \in Nat /\ fee % 10 = 0
  <2>1. CASE terms.type = "none"
    BY <2>1 DEF FeeOf
  <2>2. CASE terms.type = "fixed"
    <3> HIDE DEF prod
    <3>1. fee = IF Piastres(terms.rate) < 0 THEN 0 ELSE Piastres(terms.rate)
      BY <2>2 DEF FeeOf
    <3> QED BY <3>1, <1>2
  <2>3. CASE terms.type = "percentage"
    <3>1. fee = IF 10 * (prod \div 200000) < 0 THEN 0 ELSE 10 * (prod \div 200000)
      BY <2>3 DEF FeeOf
    <3> HIDE DEF prod, fee
    <3> QED BY <3>1, <1>4
  <2> QED BY <1>1, <2>1, <2>2, <2>3
<1> HIDE DEF fee
<1>6. a - fee \in Int /\ (a % 10 = 0 => (a - fee) % 10 = 0)
  BY <1>5
<1>7. NetOf(a, fee) \in Int /\ NetOf(a, fee) % 10 = 0
  BY <1>6, PiastresFacts DEF NetOf
<1>8. a % 10 = 0 => NetOf(a, fee) = a - fee
  BY <1>6, PiastresFacts DEF NetOf
<1> QED BY <1>5, <1>7, <1>8 DEF fee

-----------------------------------------------------------------------------
(* Type correctness *)

LEMMA ValidOrder ==
  ASSUME NEW f \in Safes, NEW t \in Safes, NEW a \in Amounts, NEW terms \in FeeTerms,
         NEW o,
         o = [from |-> f, to |-> t, amount |-> a, fee |-> FeeOf(a, terms),
              net |-> NetOf(a, FeeOf(a, terms))]
  PROVE  /\ o \in Order
         /\ Valid(o, terms.rate) =>
              o.from # o.to /\ o.amount > 0 /\ o.fee >= 0 /\ o.net >= 0
<1>1. a \in Int
  BY RequestsAssumption
<1>2. FeeOf(a, terms) \in Nat /\ NetOf(a, FeeOf(a, terms)) \in Int
  BY <1>1, FeeFacts
<1> QED BY <1>1, <1>2 DEF Order, Valid

LEMMA InitTypeOK == Init => TypeOK
  BY SafesAssumption DEF Init, TypeOK, NoOrder

LEMMA NextTypeOK == TypeOK /\ [Next]_vars => TypeOK'
<1> SUFFICES ASSUME TypeOK, [Next]_vars PROVE TypeOK'
  OBVIOUS
<1>1. ASSUME NEW r \in Requests, Submit(r) PROVE TypeOK'
  <2> DEFINE made(f, t, a, terms) ==
             [from |-> f, to |-> t, amount |-> a, fee |-> FeeOf(a, terms),
              net |-> NetOf(a, FeeOf(a, terms))]
  <2>1. PICK f \in Safes, t \in Safes, a \in Amounts, terms \in FeeTerms :
        /\ order' = [order EXCEPT ![r] = made(f, t, a, terms)]
        /\ pc' = [pc EXCEPT ![r] =
             IF Valid(made(f, t, a, terms), terms.rate) /\ OwnsBoth(r, made(f, t, a, terms))
               THEN "lockFirst" ELSE "rejected"]
    BY <1>1 DEF Submit
  <2> DEFINE o == made(f, t, a, terms)
  <2>2. o \in Order /\ (Valid(o, terms.rate) =>
              o.from # o.to /\ o.amount > 0 /\ o.fee >= 0 /\ o.net >= 0)
    BY <2>1, ValidOrder
  <2> QED BY <1>1, <2>1, <2>2 DEF TypeOK, Submit, rowVars, bookVars
<1>2. ASSUME NEW r \in Requests, LockFirst(r) PROVE TypeOK'
  BY <1>2 DEF TypeOK, LockFirst, bookVars
<1>3. ASSUME NEW r \in Requests, LockSecond(r) PROVE TypeOK'
  BY <1>3 DEF TypeOK, LockSecond, bookVars
<1>4. ASSUME NEW r \in Requests, NEW outcome \in {"rejected", "failed"},
             Rollback(r, outcome), pc[r] \notin {"idle", "rejected"}
      PROVE  TypeOK'
  BY <1>4 DEF TypeOK, Rollback
<1>5. ASSUME NEW r \in Requests, Debit(r) PROVE TypeOK'
  <2>1. order[r] \in Order
    BY <1>5 DEF TypeOK, Debit
  <2>2. Piastres(work[order[r].from] - order[r].amount) \in Int
    BY <2>1, PiastresFacts DEF TypeOK, Order
  <2> QED BY <1>5, <2>1, <2>2 DEF TypeOK, Debit, bookVars
<1>6. ASSUME NEW r \in Requests, Credit(r) PROVE TypeOK'
  <2>1. order[r] \in Order
    BY <1>6 DEF TypeOK, Credit
  <2>2. Piastres(work[order[r].to] + order[r].net) \in Int
    BY <2>1, PiastresFacts DEF TypeOK, Order
  <2> QED BY <1>6, <2>1, <2>2 DEF TypeOK, Credit, bookVars
<1>7. ASSUME NEW r \in Requests, Record(r) PROVE TypeOK'
  <2>1. order[r] \in Order
    BY <1>7 DEF TypeOK, Record
  <2>2. Piastres(order[r].amount) \in Int
    BY <2>1, PiastresFacts DEF Order
  <2>3. rows' \in [Safes -> [in : Int, out : Int, fee : Int]]
    BY <1>7, <2>1, <2>2 DEF TypeOK, Record, Order
  <2>4. fees' \in [Safes -> Int]
    BY <1>7, <2>1 DEF TypeOK, Record, Order
  <2> QED BY <1>7, <2>3, <2>4 DEF TypeOK, Record
<1>8. ASSUME NEW s \in Deletable, CheckDelete(s) \/ DeleteSafe(s) PROVE TypeOK'
  BY <1>8 DEF TypeOK, CheckDelete, DeleteSafe, bookVars
<1>9. CASE UNCHANGED vars
  BY <1>9 DEF TypeOK, vars
<1> QED
  BY <1>1, <1>2, <1>3, <1>4, <1>5, <1>6, <1>7, <1>8, <1>9
     DEF Next, Quiescent, Transfer, Step, SafeMissing, Insufficient, Fail, InTransaction

\* Every reachable state is well formed; an order past validation has a gross
\* amount that covers its fee.
THEOREM TypeCorrect == Spec => []TypeOK
  BY InitTypeOK, NextTypeOK, PTL DEF Spec

-----------------------------------------------------------------------------
(* The inductive invariant: which rows a transaction holds in each phase, and *)
(* what it has written to them.                                               *)

LockPhases ==
  \A r \in Requests, s \in Safes :
    /\ pc[r] \in {"idle", "lockFirst", "committed", "rejected", "failed"} => lockedBy[s] # r
    /\ pc[r] = "lockSecond" =>
         /\ lockedBy[s] = r => s = First(r)
         /\ s = First(r) /\ s \in live => lockedBy[s] = r
    /\ pc[r] \in {"debit", "credit", "record"} =>
         (lockedBy[s] = r <=> s \in {order[r].from, order[r].to})
    /\ lockedBy[s] = r => s \in live

WrittenFrom(r) == balance[order[r].from] >= order[r].amount
                  /\ work[order[r].from] = Piastres(balance[order[r].from] - order[r].amount)
WrittenTo(r) == work[order[r].to] = Piastres(balance[order[r].to] + order[r].net)

WorkPhases ==
  /\ NoDirtyRow
  /\ \A r \in Requests :
       /\ pc[r] \in {"lockSecond", "debit"} =>
            \A s \in Safes : lockedBy[s] = r => work[s] = balance[s]
       /\ pc[r] = "credit" => WrittenFrom(r) /\ work[order[r].to] = balance[order[r].to]
       /\ pc[r] = "record" => WrittenFrom(r) /\ WrittenTo(r)

WholeBalances == \A s \in Safes : balance[s] % 10 = 0 /\ work[s] % 10 = 0

OrdersAddUp ==
  \A r \in Requests : InTransaction(r) =>
    /\ order[r].amount \in Amounts
    /\ order[r].net % 10 = 0
    /\ order[r].amount % 10 = 0 => order[r].net = order[r].amount - order[r].fee

TransferInv ==
  TypeOK /\ LockPhases /\ WorkPhases /\ NoOverdraft /\ WholeBalances /\ OrdersAddUp

LEMMA InitInv == Init => TransferInv
<1> SUFFICES ASSUME Init PROVE TransferInv
  OBVIOUS
<1>1. LockPhases
  BY RequestsAssumption DEF Init, LockPhases
<1>2. WorkPhases
  BY DEF Init, WorkPhases, NoDirtyRow
<1>3. NoOverdraft /\ WholeBalances
  BY SafesAssumption DEF Init, NoOverdraft, WholeBalances
<1>4. OrdersAddUp
  BY DEF Init, OrdersAddUp, InTransaction
<1> QED BY <1>1, <1>2, <1>3, <1>4, InitTypeOK DEF TransferInv

LEMMA SubmitInv ==
  ASSUME TransferInv, NEW r \in Requests, Submit(r)
  PROVE  LockPhases' /\ WorkPhases' /\ NoOverdraft' /\ WholeBalances' /\ OrdersAddUp'
<1> USE DEF TransferInv
<1> DEFINE made(f, t, a, terms) ==
             [from |-> f, to |-> t, amount |-> a, fee |-> FeeOf(a, terms),
              net |-> NetOf(a, FeeOf(a, terms))]
<1>1. PICK f \in Safes, t \in Safes, a \in Amounts, terms \in FeeTerms :
      /\ order' = [order EXCEPT ![r] = made(f, t, a, terms)]
      /\ pc' = [pc EXCEPT ![r] =
           IF Valid(made(f, t, a, terms), terms.rate) /\ OwnsBoth(r, made(f, t, a, terms))
             THEN "lockFirst" ELSE "rejected"]
  BY DEF Submit
<1> DEFINE o == made(f, t, a, terms)
<1>2. pc[r] = "idle" /\ pc'[r] \in {"lockFirst", "rejected"}
      /\ \A q \in Requests : q # r => pc'[q] = pc[q] /\ order'[q] = order[q]
  BY <1>1 DEF Submit, TypeOK
<1>3. UNCHANGED <<live, balance, work, lockedBy>>
  BY DEF Submit, rowVars
<1>4. LockPhases'
  BY <1>2, <1>3 DEF LockPhases, First
<1>5. WorkPhases'
  BY <1>2, <1>3 DEF WorkPhases, NoDirtyRow, Free, WrittenFrom, WrittenTo
<1>6. NoOverdraft' /\ WholeBalances'
  BY <1>3 DEF NoOverdraft, WholeBalances
<1>7. a \in Int
  BY RequestsAssumption
<1>8. o.amount = a /\ o.net % 10 = 0 /\ (a % 10 = 0 => o.net = o.amount - o.fee)
  BY <1>1, <1>7, FeeFacts
<1>9. order'[r] = o
  BY <1>1 DEF TypeOK
<1>10. OrdersAddUp'
  BY <1>2, <1>8, <1>9 DEF OrdersAddUp, InTransaction
<1> QED BY <1>4, <1>5, <1>6, <1>10

LEMMA LockFirstInv ==
  ASSUME TransferInv, NEW r \in Requests, LockFirst(r)
  PROVE  LockPhases' /\ WorkPhases' /\ NoOverdraft' /\ WholeBalances' /\ OrdersAddUp'
<1> USE DEF TransferInv
<1>1. UNCHANGED <<live, balance, work, order>>
  BY DEF LockFirst
<1>2. First(r) \in Safes /\ (First(r))' = First(r)
  BY <1>1 DEF TypeOK, LockFirst, First, Order
<1>3. LockPhases'
  BY <1>1, <1>2, RequestsAssumption DEF LockPhases, LockFirst, First, Free, TypeOK
<1>4. WorkPhases'
  <2>1. NoDirtyRow'
    BY <1>1, RequestsAssumption DEF WorkPhases, NoDirtyRow, Free, LockFirst, TypeOK
  <2>2. ASSUME NEW q \in Requests, NEW s \in Safes, pc'[q] \in {"lockSecond", "debit"},
               lockedBy'[s] = q
        PROVE  work'[s] = balance'[s]
    BY <1>1, <2>2 DEF WorkPhases, NoDirtyRow, Free, LockFirst, LockPhases, TypeOK
  <2>3. ASSUME NEW q \in Requests, pc'[q] \in {"credit", "record"}
        PROVE  pc[q] = pc'[q] /\ order'[q] = order[q]
    BY <1>1, <2>3 DEF LockFirst, TypeOK
  <2> QED BY <1>1, <2>1, <2>2, <2>3 DEF WorkPhases, WrittenFrom, WrittenTo
<1>5. NoOverdraft' /\ WholeBalances'
  BY <1>1 DEF NoOverdraft, WholeBalances
<1>6. OrdersAddUp'
  BY <1>1 DEF OrdersAddUp, InTransaction, LockFirst, TypeOK
<1> QED BY <1>3, <1>4, <1>5, <1>6

LEMMA LockSecondInv ==
  ASSUME TransferInv, NEW r \in Requests, LockSecond(r)
  PROVE  LockPhases' /\ WorkPhases' /\ NoOverdraft' /\ WholeBalances' /\ OrdersAddUp'
<1> USE DEF TransferInv
<1>1. UNCHANGED <<live, balance, work, order>>
  BY DEF LockSecond
<1>2. /\ First(r) \in Safes /\ Second(r) \in Safes /\ First(r) # Second(r)
      /\ {First(r), Second(r)} = {order[r].from, order[r].to}
  BY DEF TypeOK, LockSecond, First, Second, Order
<1>3. LockPhases'
  <2>1. lockedBy[First(r)] = r /\ \A s \in Safes : lockedBy[s] = r => s = First(r)
    BY <1>2 DEF LockPhases, LockSecond
  <2>2. \A s \in Safes : lockedBy'[s] = r <=> s \in {order[r].from, order[r].to}
    BY <1>2, <2>1 DEF LockSecond, TypeOK
  <2>3. \A q \in Requests, s \in Safes : q # r => (lockedBy'[s] = q <=> lockedBy[s] = q)
    BY <1>2, RequestsAssumption DEF LockSecond, TypeOK, Free
  <2>4. pc'[r] = "debit" /\ \A q \in Requests : q # r => pc'[q] = pc[q]
    BY DEF LockSecond, TypeOK
  <2>5. \A s \in Safes : lockedBy'[s] = r => s \in live
    BY <1>2, <2>2 DEF LockSecond
  <2> QED BY <1>1, <2>2, <2>3, <2>4, <2>5 DEF LockPhases, First
<1>4. WorkPhases'
  <2>1. NoDirtyRow'
    BY <1>1, RequestsAssumption DEF WorkPhases, NoDirtyRow, Free, LockSecond, TypeOK
  <2>2. ASSUME NEW q \in Requests, NEW s \in Safes, pc'[q] \in {"lockSecond", "debit"},
               lockedBy'[s] = q
        PROVE  work'[s] = balance'[s]
    BY <1>1, <2>2 DEF WorkPhases, NoDirtyRow, Free, LockSecond, LockPhases, TypeOK
  <2>3. ASSUME NEW q \in Requests, pc'[q] \in {"credit", "record"}
        PROVE  pc[q] = pc'[q] /\ order'[q] = order[q]
    BY <1>1, <2>3 DEF LockSecond, TypeOK
  <2> QED BY <1>1, <2>1, <2>2, <2>3 DEF WorkPhases, WrittenFrom, WrittenTo
<1>5. NoOverdraft' /\ WholeBalances'
  BY <1>1 DEF NoOverdraft, WholeBalances
<1>6. OrdersAddUp'
  BY <1>1 DEF OrdersAddUp, InTransaction, LockSecond, TypeOK
<1> QED BY <1>3, <1>4, <1>5, <1>6

LEMMA RollbackInv ==
  ASSUME TransferInv, NEW r \in Requests, NEW outcome \in {"rejected", "failed"},
         Rollback(r, outcome)
  PROVE  LockPhases' /\ WorkPhases' /\ NoOverdraft' /\ WholeBalances' /\ OrdersAddUp'
<1> USE DEF TransferInv
<1>1. UNCHANGED <<live, balance, order>>
  BY DEF Rollback
<1>2. pc'[r] = outcome /\ \A q \in Requests : q # r => pc'[q] = pc[q]
  BY DEF Rollback, TypeOK
<1>3. \A s \in Safes : lockedBy[s] = r => lockedBy'[s] = NoRequest /\ work'[s] = balance[s]
  BY DEF Rollback
<1>4. \A s \in Safes : lockedBy[s] # r => lockedBy'[s] = lockedBy[s] /\ work'[s] = work[s]
  BY DEF Rollback
<1>5. \A q \in Requests, s \in Safes : q # r => (lockedBy'[s] = q <=> lockedBy[s] = q)
  BY <1>3, <1>4, RequestsAssumption
<1>6. LockPhases'
  BY <1>1, <1>2, <1>3, <1>4, <1>5, RequestsAssumption DEF LockPhases, First
<1>7. WorkPhases'
  <2>1. NoDirtyRow'
    BY <1>1, <1>3, <1>4 DEF WorkPhases, NoDirtyRow, Free
  <2>2. ASSUME NEW q \in Requests, NEW s \in Safes, pc'[q] \in {"lockSecond", "debit"},
               lockedBy'[s] = q
        PROVE  work'[s] = balance'[s]
    BY <1>1, <1>2, <1>4, <1>5, <2>2 DEF WorkPhases
  <2>3. ASSUME NEW q \in Requests, pc'[q] \in {"credit", "record"}
        PROVE  /\ pc[q] = pc'[q] /\ order'[q] = order[q]
               /\ work'[order[q].from] = work[order[q].from]
               /\ work'[order[q].to] = work[order[q].to]
    <3>1. q # r /\ pc[q] = pc'[q]
      BY <1>2, <2>3
    <3>2. order[q].from \in Safes /\ order[q].to \in Safes
      BY <2>3, <3>1 DEF TypeOK, Order
    <3>3. lockedBy[order[q].from] = q /\ lockedBy[order[q].to] = q
      BY <2>3, <3>1, <3>2 DEF LockPhases
    <3> QED BY <1>1, <1>4, <3>1, <3>2, <3>3
  <2> QED BY <1>1, <2>1, <2>2, <2>3 DEF WorkPhases, WrittenFrom, WrittenTo
<1>8. NoOverdraft' /\ WholeBalances'
  BY <1>1, <1>3, <1>4 DEF NoOverdraft, WholeBalances
<1>9. OrdersAddUp'
  BY <1>1, <1>2 DEF OrdersAddUp, InTransaction
<1> QED BY <1>6, <1>7, <1>8, <1>9

\* A transaction past its locks holds both its rows, which are distinct safes.
LEMMA BothHeld ==
  ASSUME TransferInv, NEW r \in Requests, pc[r] \in {"debit", "credit", "record"}
  PROVE  /\ order[r] \in Order
         /\ order[r].from # order[r].to
         /\ \A s \in Safes : lockedBy[s] = r <=> s \in {order[r].from, order[r].to}
         /\ \A q \in Requests \ {r} : pc[q] \in {"debit", "credit", "record"} =>
              {order[q].from, order[q].to} \cap {order[r].from, order[r].to} = {}
  BY DEF TransferInv, TypeOK, LockPhases, Order

LEMMA DebitInv ==
  ASSUME TransferInv, NEW r \in Requests, Debit(r)
  PROVE  LockPhases' /\ WorkPhases' /\ NoOverdraft' /\ WholeBalances' /\ OrdersAddUp'
<1> USE DEF TransferInv
<1> DEFINE from == order[r].from
           to == order[r].to
           left == work[from] - order[r].amount
<1>1. UNCHANGED <<live, balance, lockedBy, order>> /\ pc[r] = "debit" /\ left >= 0
  BY DEF Debit, TypeOK, Order
<1>2. pc'[r] = "credit" /\ \A q \in Requests : q # r => pc'[q] = pc[q]
  BY DEF Debit, TypeOK
<1>3. /\ from \in Safes /\ to \in Safes /\ from # to /\ order[r].amount \in Int
      /\ lockedBy[from] = r /\ lockedBy[to] = r
  BY <1>1, BothHeld DEF Order
<1>4. work'[from] = Piastres(left) /\ \A s \in Safes : s # from => work'[s] = work[s]
  BY <1>3 DEF Debit, TypeOK
<1>5. work[from] = balance[from] /\ work[to] = balance[to]
  BY <1>1, <1>3 DEF WorkPhases
<1>6. LockPhases'
  BY <1>1, <1>2 DEF LockPhases, First
<1>7. WorkPhases'
  <2>1. NoDirtyRow'
    BY <1>1, <1>3, <1>4, RequestsAssumption DEF WorkPhases, NoDirtyRow, Free
  <2>2. ASSUME NEW q \in Requests, NEW s \in Safes, pc'[q] \in {"lockSecond", "debit"},
               lockedBy'[s] = q
        PROVE  work'[s] = balance'[s]
    BY <1>1, <1>2, <1>3, <1>4, <2>2 DEF WorkPhases
  <2>3. (WrittenFrom(r))' /\ work'[to] = balance'[to]
    BY <1>1, <1>3, <1>4, <1>5 DEF WrittenFrom, TypeOK
  <2>4. ASSUME NEW q \in Requests, q # r, pc[q] \in {"credit", "record"}
        PROVE  /\ order'[q] = order[q] /\ order[q].from \in Safes /\ order[q].to \in Safes
               /\ work'[order[q].from] = work[order[q].from]
               /\ work'[order[q].to] = work[order[q].to]
    BY <1>1, <1>3, <1>4, <2>4, BothHeld DEF Order
  <2> QED BY <1>1, <1>2, <2>1, <2>2, <2>3, <2>4 DEF WorkPhases, WrittenFrom, WrittenTo
<1>8. left \in Int /\ Piastres(left) >= 0 /\ Piastres(left) % 10 = 0
  BY <1>1, <1>3, PiastresFacts DEF TypeOK
<1>9. NoOverdraft' /\ WholeBalances'
  BY <1>1, <1>4, <1>8 DEF NoOverdraft, WholeBalances
<1>10. OrdersAddUp'
  BY <1>1, <1>2 DEF OrdersAddUp, InTransaction
<1> QED BY <1>6, <1>7, <1>9, <1>10

LEMMA CreditInv ==
  ASSUME TransferInv, NEW r \in Requests, Credit(r)
  PROVE  LockPhases' /\ WorkPhases' /\ NoOverdraft' /\ WholeBalances' /\ OrdersAddUp'
<1> USE DEF TransferInv
<1> DEFINE from == order[r].from
           to == order[r].to
           sum == work[to] + order[r].net
<1>1. UNCHANGED <<live, balance, lockedBy, order>> /\ pc[r] = "credit"
  BY DEF Credit
<1>2. pc'[r] = "record" /\ \A q \in Requests : q # r => pc'[q] = pc[q]
  BY DEF Credit, TypeOK
<1>3. /\ from \in Safes /\ to \in Safes /\ from # to
      /\ order[r].net \in Int /\ order[r].net >= 0
      /\ lockedBy[from] = r /\ lockedBy[to] = r
  BY <1>1, BothHeld DEF Order, TypeOK
<1>4. work'[to] = Piastres(sum) /\ \A s \in Safes : s # to => work'[s] = work[s]
  BY <1>3 DEF Credit, TypeOK
<1>5. WrittenFrom(r) /\ work[to] = balance[to]
  BY <1>1 DEF WorkPhases
<1>6. LockPhases'
  BY <1>1, <1>2 DEF LockPhases, First
<1>7. WorkPhases'
  <2>1. NoDirtyRow'
    BY <1>1, <1>3, <1>4, RequestsAssumption DEF WorkPhases, NoDirtyRow, Free
  <2>2. ASSUME NEW q \in Requests, NEW s \in Safes, pc'[q] \in {"lockSecond", "debit"},
               lockedBy'[s] = q
        PROVE  work'[s] = balance'[s]
    BY <1>1, <1>2, <1>3, <1>4, <2>2 DEF WorkPhases
  <2>3. (WrittenFrom(r))' /\ (WrittenTo(r))'
    BY <1>1, <1>3, <1>4, <1>5 DEF WrittenFrom, WrittenTo
  <2>4. ASSUME NEW q \in Requests, q # r, pc[q] \in {"credit", "record"}
        PROVE  /\ order'[q] = order[q] /\ order[q].from \in Safes /\ order[q].to \in Safes
               /\ work'[order[q].from] = work[order[q].from]
               /\ work'[order[q].to] = work[order[q].to]
    BY <1>1, <1>3, <1>4, <2>4, BothHeld DEF Order
  <2> QED BY <1>1, <1>2, <2>1, <2>2, <2>3, <2>4 DEF WorkPhases, WrittenFrom, WrittenTo
<1>8. sum \in Int /\ sum >= 0
  BY <1>3 DEF TypeOK, NoOverdraft
<1>9. Piastres(sum) >= 0 /\ Piastres(sum) % 10 = 0
  BY <1>8, PiastresFacts
<1>10. NoOverdraft' /\ WholeBalances'
  BY <1>1, <1>4, <1>9 DEF NoOverdraft, WholeBalances
<1>11. OrdersAddUp'
  BY <1>1, <1>2 DEF OrdersAddUp, InTransaction
<1> QED BY <1>6, <1>7, <1>10, <1>11

LEMMA RecordInv ==
  ASSUME TransferInv, NEW r \in Requests, Record(r)
  PROVE  LockPhases' /\ WorkPhases' /\ NoOverdraft' /\ WholeBalances' /\ OrdersAddUp'
<1> USE DEF TransferInv
<1>1. UNCHANGED <<live, work, order>> /\ pc[r] = "record"
  BY DEF Record
<1>2. pc'[r] = "committed" /\ \A q \in Requests : q # r => pc'[q] = pc[q]
  BY DEF Record, TypeOK
<1>3. \A s \in Safes : lockedBy[s] = r => lockedBy'[s] = NoRequest /\ balance'[s] = work[s]
  BY DEF Record
<1>4. \A s \in Safes : lockedBy[s] # r => lockedBy'[s] = lockedBy[s] /\ balance'[s] = balance[s]
  BY DEF Record
<1>5. \A q \in Requests, s \in Safes : q # r => (lockedBy'[s] = q <=> lockedBy[s] = q)
  BY <1>3, <1>4, RequestsAssumption
<1>6. LockPhases'
  BY <1>1, <1>2, <1>3, <1>4, <1>5, RequestsAssumption DEF LockPhases, First
<1>7. WorkPhases'
  <2>1. NoDirtyRow'
    BY <1>1, <1>3, <1>4 DEF WorkPhases, NoDirtyRow, Free
  <2>2. ASSUME NEW q \in Requests, NEW s \in Safes, pc'[q] \in {"lockSecond", "debit"},
               lockedBy'[s] = q
        PROVE  work'[s] = balance'[s]
    BY <1>1, <1>2, <1>4, <1>5, <2>2 DEF WorkPhases
  <2>3. ASSUME NEW q \in Requests, pc'[q] \in {"credit", "record"}
        PROVE  /\ pc[q] = pc'[q] /\ order'[q] = order[q]
               /\ balance'[order[q].from] = balance[order[q].from]
               /\ balance'[order[q].to] = balance[order[q].to]
    <3>1. q # r /\ pc[q] = pc'[q]
      BY <1>2, <2>3
    <3>2. order[q].from \in Safes /\ order[q].to \in Safes
      BY <2>3, <3>1 DEF TypeOK, Order
    <3>3. lockedBy[order[q].from] = q /\ lockedBy[order[q].to] = q
      BY <2>3, <3>1, <3>2 DEF LockPhases
    <3> QED BY <1>1, <1>4, <3>1, <3>2, <3>3
  <2> QED BY <1>1, <2>1, <2>2, <2>3 DEF WorkPhases, WrittenFrom, WrittenTo
<1>8. NoOverdraft' /\ WholeBalances'
  BY <1>1, <1>3, <1>4 DEF NoOverdraft, WholeBalances
<1>9. OrdersAddUp'
  BY <1>1, <1>2 DEF OrdersAddUp, InTransaction
<1> QED BY <1>6, <1>7, <1>8, <1>9

\* The deletion of a safe waits for the row lock, so it removes no safe a
\* transaction holds.
LEMMA DeleteInv ==
  ASSUME TransferInv, NEW d \in Deletable, CheckDelete(d) \/ DeleteSafe(d)
  PROVE  LockPhases' /\ WorkPhases' /\ NoOverdraft' /\ WholeBalances' /\ OrdersAddUp'
<1> USE DEF TransferInv
<1>1. UNCHANGED <<balance, work, lockedBy, order, pc>>
  BY DEF CheckDelete, DeleteSafe
<1>2. \A s \in Safes : lockedBy[s] # NoRequest => (s \in live' <=> s \in live)
  BY DEF CheckDelete, DeleteSafe, Free
<1>3. \A s \in Safes : s \in live' => s \in live
  BY DEF CheckDelete, DeleteSafe
<1>4. LockPhases'
  BY <1>1, <1>2, <1>3, RequestsAssumption DEF LockPhases, First
<1>5. WorkPhases'
  BY <1>1 DEF WorkPhases, NoDirtyRow, Free, WrittenFrom, WrittenTo
<1>6. NoOverdraft' /\ WholeBalances' /\ OrdersAddUp'
  BY <1>1 DEF NoOverdraft, WholeBalances, OrdersAddUp, InTransaction
<1> QED BY <1>4, <1>5, <1>6

LEMMA NextInv == TransferInv /\ [Next]_vars => TransferInv'
<1> SUFFICES ASSUME TransferInv, [Next]_vars PROVE TransferInv'
  OBVIOUS
<1>1. TypeOK'
  BY NextTypeOK DEF TransferInv
<1>2. CASE UNCHANGED vars
  BY <1>1, <1>2
     DEF vars, TransferInv, LockPhases, First, WorkPhases, NoDirtyRow, Free, WrittenFrom,
         WrittenTo, NoOverdraft, WholeBalances, OrdersAddUp, InTransaction
<1>3. ASSUME NEW r \in Requests, Transfer(r) PROVE TransferInv'
  BY <1>1, <1>3, SubmitInv, LockFirstInv, LockSecondInv, RollbackInv, DebitInv, CreditInv,
     RecordInv DEF TransferInv, Transfer, Step, SafeMissing, Insufficient, Fail
<1>4. ASSUME NEW d \in Deletable, CheckDelete(d) \/ DeleteSafe(d) PROVE TransferInv'
  BY <1>1, <1>4, DeleteInv DEF TransferInv
<1> QED BY <1>2, <1>3, <1>4 DEF Next, Quiescent

\* The inductive invariant holds in every reachable state.
THEOREM InvariantHolds == Spec => []TransferInv
  BY InitInv, NextInv, PTL DEF Spec

-----------------------------------------------------------------------------
(* What the invariant gives *)

\* No interleaving of transfers, failures included, takes a safe below zero.
THEOREM NeverOverdrawn == Spec => []NoOverdraft
  BY InvariantHolds, PTL DEF TransferInv

\* A row nobody has locked shows its committed balance.
THEOREM NeverDirty == Spec => []NoDirtyRow
  BY InvariantHolds, PTL DEF TransferInv, WorkPhases

\* Locks are taken in ascending order of id, so waiting is never circular.
THEOREM LocksAlwaysAscend == Spec => []LocksAscend
<1>1. TransferInv => LocksAscend
  <2> SUFFICES ASSUME TransferInv, NEW r \in Requests, Waiting(r), NEW s \in Safes,
                      lockedBy[s] = r
               PROVE  s < Wanted(r)
    BY DEF LocksAscend, Held
  <2>1. pc[r] = "lockSecond" /\ s = First(r)
    BY DEF TransferInv, LockPhases, Waiting
  <2>2. order[r] \in Order /\ order[r].from # order[r].to
    BY <2>1 DEF TransferInv, TypeOK
  <2>3. order[r].from \in Int /\ order[r].to \in Int
    <3>1. order[r].from \in Safes /\ order[r].to \in Safes
      BY <2>2 DEF Order
    <3>2. \A x \in Safes : x \in Int
      BY SafesAssumption
    <3> QED BY <3>1, <3>2
  <2>4. First(r) < Second(r)
    BY <2>2, <2>3 DEF First, Second
  <2> QED BY <2>1, <2>4 DEF Wanted
<1> QED BY <1>1, InvariantHolds, PTL

\* A transfer commits only between safes that exist at that moment.
THEOREM CommitsBetweenLiveSafes == Spec => OnlyLiveSafes
<1>1. ASSUME TransferInv, [Next]_vars, NEW r \in Requests, pc[r] = "record"
      PROVE  {order[r].from, order[r].to} \subseteq live
  <2>1. order[r].from \in Safes /\ order[r].to \in Safes
    BY <1>1, BothHeld DEF Order
  <2> QED BY <1>1, <2>1, BothHeld DEF TransferInv, LockPhases
<1>2. TransferInv /\ [Next]_vars =>
        [\A r \in Requests : pc[r] = "record" /\ pc'[r] = "committed" =>
            {order[r].from, order[r].to} \subseteq live]_vars
  BY <1>1
<1> QED BY <1>2, InvariantHolds, PTL DEF Spec, OnlyLiveSafes

-----------------------------------------------------------------------------
(* Whole piastres: the rows of table transactions and the abstract transfer *)

\* When amounts are whole piastres the columns round nothing away.
LEMMA RecordExact ==
  ASSUME WholePiastres, TransferInv, NEW r \in Requests, Record(r)
  PROVE  /\ order[r] \in Order /\ order[r].from # order[r].to
         /\ Piastres(order[r].amount) = order[r].amount
         /\ order[r].net = order[r].amount - order[r].fee
         /\ balance[order[r].from] >= order[r].amount
         /\ balance'[order[r].from] = balance[order[r].from] - order[r].amount
         /\ balance'[order[r].to] = balance[order[r].to] + order[r].net
         /\ \A s \in Safes \ {order[r].from, order[r].to} : balance'[s] = balance[s]
<1> USE DEF TransferInv
<1> DEFINE from == order[r].from
           to == order[r].to
           amount == order[r].amount
           net == order[r].net
<1>1. pc[r] = "record" /\ order[r] \in Order /\ from # to
  BY BothHeld DEF Record
<1>2. from \in Safes /\ to \in Safes /\ amount \in Int /\ order[r].fee \in Int /\ net \in Int
  BY <1>1 DEF Order
<1>3. amount % 10 = 0 /\ net = amount - order[r].fee
  BY <1>1 DEF OrdersAddUp, InTransaction, WholePiastres
<1>4. \A s \in Safes : balance'[s] = IF s \in {from, to} THEN work[s] ELSE balance[s]
  BY <1>1, <1>2, BothHeld DEF Record
<1>5. work[from] = Piastres(balance[from] - amount) /\ balance[from] >= amount
      /\ work[to] = Piastres(balance[to] + net)
  BY <1>1 DEF WorkPhases, WrittenFrom, WrittenTo
<1>6. balance[from] \in Int /\ balance[to] \in Int /\ work[from] \in Int /\ work[to] \in Int
      /\ balance[from] % 10 = 0 /\ balance[to] % 10 = 0 /\ work[to] % 10 = 0
  BY <1>2 DEF TypeOK, WholeBalances
<1>7. Piastres(amount) = amount
  BY <1>2, <1>3, PiastresFacts
<1>8. work[from] = balance[from] - amount
  <2>1. balance[from] - amount \in Int /\ (balance[from] - amount) % 10 = 0
    BY <1>2, <1>3, <1>6
  <2> QED BY <1>5, <2>1, PiastresFacts
<1>9. work[to] = balance[to] + net
  <2>1. net % 10 = 0
    BY <1>1 DEF OrdersAddUp, InTransaction
  <2>2. balance[to] + net \in Int /\ (balance[to] + net) % 10 = 0
    BY <1>2, <1>6, <2>1
  <2> QED BY <1>5, <2>2, PiastresFacts
<1> QED BY <1>1, <1>2, <1>3, <1>4, <1>5, <1>7, <1>8, <1>9

\* The rows of table transactions explain every balance, when amounts are whole
\* piastres: no failed transfer leaves a row, no committed one lacks any.
THEOREM RowsAlwaysExplain == ASSUME WholePiastres PROVE Spec => []RowsExplainBalance
<1>1. Init => RowsExplainBalance
  BY SafesAssumption DEF Init, RowsExplainBalance
<1>2. TransferInv /\ RowsExplainBalance /\ [Next]_vars => RowsExplainBalance'
  <2> SUFFICES ASSUME TransferInv, RowsExplainBalance, [Next]_vars
               PROVE  RowsExplainBalance'
    OBVIOUS
  <2>1. ASSUME NEW r \in Requests, Record(r) PROVE RowsExplainBalance'
    <3> DEFINE from == order[r].from
               to == order[r].to
    <3>1. from \in Safes /\ to \in Safes /\ from # to
      BY <2>1, RecordExact DEF Order
    <3>2. /\ rows'[from] = [in |-> rows[from].in + 0,
                            out |-> rows[from].out + Piastres(order[r].amount),
                            fee |-> rows[from].fee + order[r].fee]
          /\ rows'[to] = [in |-> rows[to].in + order[r].net,
                          out |-> rows[to].out + 0,
                          fee |-> rows[to].fee + 0]
          /\ \A s \in Safes \ {from, to} :
               rows'[s] = [in |-> rows[s].in + 0, out |-> rows[s].out + 0,
                           fee |-> rows[s].fee + 0]
      BY <2>1, <3>1 DEF Record
    <3>3. ASSUME NEW s \in Safes
          PROVE  /\ rows[s].in \in Int /\ rows[s].out \in Int
                 /\ balance[s] \in Int /\ Opening[s] \in Int
                 /\ balance[s] = Opening[s] + rows[s].in - rows[s].out
      <4>1. rows[s] \in [in : Int, out : Int, fee : Int] /\ balance[s] \in Int
        BY DEF TransferInv, TypeOK
      <4>2. Opening[s] \in Int
        BY SafesAssumption
      <4> QED BY <4>1, <4>2 DEF RowsExplainBalance
    <3>4. order[r].amount \in Int /\ order[r].net \in Int /\ order[r].fee \in Int
      BY <2>1, RecordExact DEF Order
    <3>5. balance'[from] = Opening[from] + rows'[from].in - rows'[from].out
      BY <2>1, <3>1, <3>2, <3>3, <3>4, RecordExact
    <3>6. balance'[to] = Opening[to] + rows'[to].in - rows'[to].out
      BY <2>1, <3>1, <3>2, <3>3, <3>4, RecordExact
    <3>7. ASSUME NEW s \in Safes \ {from, to}
          PROVE  balance'[s] = Opening[s] + rows'[s].in - rows'[s].out
      <4>1. balance'[s] = balance[s]
        BY <2>1, RecordExact
      <4>2. rows'[s] = [in |-> rows[s].in + 0, out |-> rows[s].out + 0,
                        fee |-> rows[s].fee + 0]
        BY <2>1 DEF Record
      <4>3. /\ rows[s].in \in Int /\ rows[s].out \in Int /\ Opening[s] \in Int
            /\ balance[s] = Opening[s] + rows[s].in - rows[s].out
        BY <3>3
      <4> QED BY <4>1, <4>2, <4>3
    <3> QED BY <3>5, <3>6, <3>7 DEF RowsExplainBalance
  <2>2. CASE UNCHANGED <<balance, rows>>
    BY <2>2 DEF RowsExplainBalance
  <2> QED
    BY <2>1, <2>2
       DEF Next, Quiescent, Transfer, Step, Submit, LockFirst, LockSecond, SafeMissing, Debit,
           Insufficient, Credit, Fail, Rollback, CheckDelete, DeleteSafe, rowVars, bookVars, vars
<1> QED BY <1>1, <1>2, InvariantHolds, PTL DEF Spec

\* A transfer that commits moves its net amount and books its fee: what leaves one
\* safe arrives in the other or among the expenses.
LEMMA RecordMovesNet ==
  ASSUME WholePiastres, TransferInv, NEW r \in Requests, Record(r)
  PROVE  \E from \in Safes, to \in Safes, net \in Int :
           /\ {from, to} \subseteq live
           /\ from # to
           /\ balance'[from] + fees'[from] + net = balance[from] + fees[from]
           /\ balance'[to] + fees'[to] = balance[to] + fees[to] + net
           /\ \A s \in Safes \ {from, to} : balance'[s] = balance[s] /\ fees'[s] = fees[s]
<1> DEFINE from == order[r].from
           to == order[r].to
           fee == order[r].fee
           net == order[r].net
<1>1. from \in Safes /\ to \in Safes /\ from # to /\ net \in Int /\ fee \in Int
  BY RecordExact DEF Order
<1>2. /\ balance'[from] = balance[from] - order[r].amount
      /\ balance'[to] = balance[to] + net
      /\ \A s \in Safes \ {from, to} : balance'[s] = balance[s]
      /\ net = order[r].amount - fee /\ order[r].amount \in Int
  BY RecordExact DEF Order
<1>3. fees'[from] = fees[from] + fee /\ \A s \in Safes \ {from} : fees'[s] = fees[s]
  BY <1>1 DEF Record, TransferInv, TypeOK
<1>4. \A s \in Safes : balance[s] \in Int /\ fees[s] \in Int
  BY DEF TransferInv, TypeOK
<1>7. from \in live /\ to \in live
  <2>1. pc[r] = "record"
    BY DEF Record
  <2> QED BY <1>1, <2>1, BothHeld DEF TransferInv, LockPhases
<1> HIDE DEF from, to, fee, net
<1>5. balance'[from] + fees'[from] + net = balance[from] + fees[from]
  BY <1>1, <1>2, <1>3, <1>4
<1>6. balance'[to] + fees'[to] = balance[to] + fees[to] + net
  BY <1>1, <1>2, <1>3, <1>4
<1> QED BY <1>1, <1>2, <1>3, <1>5, <1>6, <1>7

\* Money is the sum of what each safe holds and has paid in fees.
Worth == [s \in Safes |-> balance[s] + fees[s]]
WorthNext == [s \in Safes |-> balance'[s] + fees'[s]]

LEMMA MoneyIsSum ==
  ASSUME live \subseteq Safes, live' \subseteq Safes, IsFiniteSet(Safes)
  PROVE  /\ Money = SumFunctionOnSet(Worth, live)
         /\ Money' = SumFunctionOnSet(WorthNext, live')
<1> DEFINE held == [s \in live |-> balance[s] + fees[s]]
           heldNext == [s \in live' |-> balance'[s] + fees'[s]]
<1>1. Money = SumFunctionOnSet(held, live)
  BY DEF Money, MapThenSumSet, SumFunctionOnSet, FoldFunctionOnSet, MapThenFoldSet
<1>2. Money' = SumFunctionOnSet(heldNext, live')
  BY DEF Money, MapThenSumSet, SumFunctionOnSet, FoldFunctionOnSet, MapThenFoldSet
<1>3. \A s \in live : held[s] = Worth[s]
  BY DEF Worth
<1>4. \A s \in live' : heldNext[s] = WorthNext[s]
  BY DEF WorthNext
<1>5. IsFiniteSet(live) /\ IsFiniteSet(live')
  BY FS_Subset
<1> HIDE DEF held, heldNext
<1>6. SumFunctionOnSet(held, live) = SumFunctionOnSet(Worth, live)
  BY <1>3, <1>5, SumSame
<1>7. SumFunctionOnSet(heldNext, live') = SumFunctionOnSet(WorthNext, live')
  BY <1>4, <1>5, SumSame
<1> QED BY <1>1, <1>2, <1>6, <1>7

\* However many transfers among however many safes race each other, fail or are
\* refused, no step but the deletion of a safe creates or loses money, when amounts
\* are whole piastres.
THEOREM MoneyAlwaysConserved == ASSUME WholePiastres PROVE Spec => MoneyConserved
<1>1. ASSUME TransferInv, TransferInv', [Next]_vars, live' = live
      PROVE  Money' = Money
  <2>0. live \subseteq Safes /\ IsFiniteSet(Safes) /\ IsFiniteSet(live)
    BY <1>1, SafesAssumption, FS_Subset DEF TransferInv, TypeOK
  <2>1. \A s \in Safes : Worth[s] \in Int /\ WorthNext[s] \in Int
    BY <1>1 DEF TransferInv, TypeOK, Worth, WorthNext
  <2>2. ASSUME NEW r \in Requests, Record(r)
        PROVE  SumFunctionOnSet(WorthNext, live) = SumFunctionOnSet(Worth, live)
    <3>1. PICK from \in Safes, to \in Safes, net \in Int :
             /\ {from, to} \subseteq live
             /\ from # to
             /\ balance'[from] + fees'[from] + net = balance[from] + fees[from]
             /\ balance'[to] + fees'[to] = balance[to] + fees[to] + net
             /\ \A s \in Safes \ {from, to} : balance'[s] = balance[s] /\ fees'[s] = fees[s]
      BY <1>1, <2>2, RecordMovesNet
    <3>2. /\ WorthNext[from] + net = Worth[from]
          /\ WorthNext[to] = Worth[to] + net
          /\ \A s \in Safes \ {from, to} : WorthNext[s] = Worth[s]
      BY <3>1 DEF Worth, WorthNext
    <3> DEFINE Half == [Worth EXCEPT ![from] = WorthNext[from]]
    <3>4. /\ \A s \in Safes : Half[s] \in Int
          /\ \A s \in Safes \ {from} : Half[s] = Worth[s]
          /\ Half[from] = WorthNext[from] /\ Half[to] = Worth[to]
      BY <2>1, <3>1 DEF Worth
    <3>5. \A s \in Safes \ {to} : WorthNext[s] = Half[s]
      BY <3>2, <3>4
    <3> HIDE DEF Half
    <3>6. SumFunctionOnSet(Half, live) = SumFunctionOnSet(Worth, live) - Worth[from] + Half[from]
      <4>1. \A s \in live : Worth[s] \in Int /\ Half[s] \in Int
        BY <2>0, <2>1, <3>4
      <4>2. \A s \in live \ {from} : Half[s] = Worth[s]
        BY <2>0, <3>4
      <4> QED BY <2>0, <3>1, <4>1, <4>2, SumUpdate
    <3>7. SumFunctionOnSet(WorthNext, live) = SumFunctionOnSet(Half, live) - Half[to] + WorthNext[to]
      <4>1. \A s \in live : Half[s] \in Int /\ WorthNext[s] \in Int
        BY <2>0, <2>1, <3>4
      <4>2. \A s \in live \ {to} : WorthNext[s] = Half[s]
        BY <2>0, <3>5
      <4> QED BY <2>0, <3>1, <4>1, <4>2, SumUpdate
    <3>8. SumFunctionOnSet(Worth, live) \in Int
      <4>1. \A s \in live : Worth[s] \in Int
        BY <2>0, <2>1
      <4> QED BY <2>0, <4>1, SumSplit
    <3> QED BY <2>1, <3>1, <3>2, <3>4, <3>6, <3>7, <3>8
  <2>3. ASSUME UNCHANGED <<balance, fees>>
        PROVE  SumFunctionOnSet(WorthNext, live) = SumFunctionOnSet(Worth, live)
    BY <2>3 DEF Worth, WorthNext
  <2>4. SumFunctionOnSet(WorthNext, live) = SumFunctionOnSet(Worth, live)
    BY <1>1, <2>2, <2>3
       DEF Next, Quiescent, Transfer, Step, Submit, LockFirst, LockSecond, SafeMissing, Debit,
           Insufficient, Credit, Fail, Rollback, CheckDelete, DeleteSafe, rowVars, bookVars, vars
  <2> QED BY <1>1, <2>0, <2>4, MoneyIsSum
<1>2. TransferInv /\ TransferInv' /\ [Next]_vars => [live' = live => Money' = Money]_vars
  BY <1>1
<1> QED BY <1>2, InvariantHolds, PTL DEF Spec, MoneyConserved

\* The service implements the atomic transfer of MoneyTransfer when amounts are
\* whole piastres: each transfer takes effect at its COMMIT or not at all.
THEOREM TransferRefinesPromise == ASSUME WholePiastres PROVE Spec => ImplementsPromise
<1>1. Init => Promise!Init
  BY DEF Init, Promise!Init, Outcome
<1>2. TransferInv /\ [Next]_vars => [Promise!Next]_(Promise!promiseVars)
  <2> SUFFICES ASSUME TransferInv, [Next]_vars
               PROVE  [Promise!Next]_(Promise!promiseVars)
    OBVIOUS
  <2>1. ASSUME NEW r \in Requests, Submit(r) PROVE Promise!Ask(r)
    <3>1. /\ Outcome(r) = "none" /\ Outcome(r)' \in {"open", "refused"}
          /\ \A q \in Requests \ {r} : order'[q] = order[q] /\ Outcome(q)' = Outcome(q)
      BY <2>1 DEF Submit, Outcome, TransferInv, TypeOK
    <3> QED BY <2>1, <3>1 DEF Promise!Ask, Submit, rowVars
  <2>2. ASSUME NEW r \in Requests, Record(r) PROVE Promise!Settle(r)
    <3>1. /\ Outcome(r) = "open" /\ Outcome(r)' = "done"
          /\ \A q \in Requests \ {r} : Outcome(q)' = Outcome(q)
      BY <2>2 DEF Record, Outcome, TransferInv, TypeOK
    <3>2. balance' = [balance EXCEPT ![order[r].from] = @ - order[r].amount,
                                     ![order[r].to] = @ + order[r].amount - order[r].fee]
      <4>1. balance' \in [Safes -> Int] /\ balance \in [Safes -> Int]
        BY <2>2, NextTypeOK DEF TransferInv, TypeOK
      <4> QED BY <2>2, <4>1, RecordExact DEF Order, TransferInv
    <3> QED BY <2>2, <3>1, <3>2, RecordExact DEF Promise!Settle, Record
  <2>3. ASSUME NEW r \in Requests, NEW outcome \in {"rejected", "failed"},
               Rollback(r, outcome), Outcome(r) = "open"
        PROVE  Promise!Refuse(r)
    <3>1. /\ Outcome(r)' = "refused"
          /\ \A q \in Requests \ {r} : Outcome(q)' = Outcome(q)
      BY <2>3 DEF Rollback, Outcome, TransferInv, TypeOK
    <3> QED BY <2>3, <3>1 DEF Promise!Refuse, Rollback
  <2>4. ASSUME NEW r \in Requests, LockFirst(r) \/ LockSecond(r) \/ Debit(r) \/ Credit(r)
        PROVE  UNCHANGED Promise!promiseVars
    <3>1. \A q \in Requests : Outcome(q)' = Outcome(q)
      BY <2>4 DEF LockFirst, LockSecond, Debit, Credit, Outcome, TransferInv, TypeOK
    <3> QED BY <2>4, <3>1 DEF Promise!promiseVars, LockFirst, LockSecond, Debit, Credit
  <2>5. CASE UNCHANGED <<balance, order, pc>>
    BY <2>5 DEF Promise!promiseVars, Outcome
  <2>6. ASSUME NEW r \in Requests, SafeMissing(r) \/ Insufficient(r) \/ Fail(r)
        PROVE  Promise!Refuse(r)
    BY <2>3, <2>6 DEF SafeMissing, Insufficient, Fail, InTransaction, Outcome
  <2> QED
    BY <2>1, <2>2, <2>4, <2>5, <2>6
       DEF Next, Quiescent, Transfer, Step, CheckDelete, DeleteSafe, vars, Promise!Next
<1> QED BY <1>1, <1>2, InvariantHolds, PTL DEF Spec, ImplementsPromise, Promise!Spec

-----------------------------------------------------------------------------
(* The connections: theorems of ConnectionPool, for any connections, requests,
   companies and numbers of authentications and queries, also when clients leave
   before they are authenticated *)

\* A request that is being authenticated has authentications ahead of it.
LayerAhead ==
  \A r \in HttpRequests :
    phase[r] \in {"lookup", "looking", "pin", "listen"} => layer[r] < Layers[r]

\* The listeners release what is pinned.
WatchedPinned == \A r \in HttpRequests : watched[r] \subseteq pinned[r]

\* An idle connection has no company, as long as no context was set on the pool.
IdleClean == ~ openly => \A c \in free : company[c] = None

PoolInv == PoolTypeOK /\ LayerAhead /\ WatchedPinned /\ HeldOnce /\ IdleClean /\ ContextIsOwn

\* Every step is a step of one request, or a stutter.
LEMMA PoolNextActs ==
  [PoolNext]_poolVars =>
    \/ \E r \in HttpRequests : Arrive(r) \/ Work(r) \/ EndEarly(r) \/ Close(r)
    \/ UNCHANGED poolVars
BY DEF PoolNext, PoolQuiescent

-----------------------------------------------------------------------------
(* Type correctness *)

LEMMA PoolWorkTypeOK ==
  ASSUME PoolTypeOK, LayerAhead, NEW r \in HttpRequests, Work(r)
  PROVE  PoolTypeOK' /\ LayerAhead'
<1> USE PoolAssumption DEF PoolTypeOK, LayerAhead, Goto
<1>1. CASE Borrow(r) BY <1>1 DEF Borrow
<1>2. CASE LookedUp(r) BY <1>2 DEF LookedUp, GiveBack
<1>3. CASE Pin(r) BY <1>3 DEF Pin
<1>4. CASE Listen(r) BY <1>4 DEF Listen, NextLayer
<1>5. CASE TimeoutPin(r) BY <1>5 DEF TimeoutPin, NextLayer
<1>6. CASE SetContextOnPool(r) BY <1>6 DEF SetContextOnPool
<1>7. CASE TimeoutBorrow(r) BY <1>7 DEF TimeoutBorrow, GiveBack
<1>8. CASE Worked(r) BY <1>8 DEF Worked, GiveBack
<1>9. CASE Answer(r) BY <1>9 DEF Answer, End
<1>10. CASE ClearAndRelease(r) BY <1>10 DEF ClearAndRelease
<1> QED BY <1>1, <1>2, <1>3, <1>4, <1>5, <1>6, <1>7, <1>8, <1>9, <1>10 DEF Work

LEMMA PoolStepTypeOK ==
  ASSUME PoolTypeOK, LayerAhead, [PoolNext]_poolVars
  PROVE  PoolTypeOK' /\ LayerAhead'
<1>1. CASE UNCHANGED poolVars BY <1>1 DEF PoolTypeOK, LayerAhead, poolVars
<1>2. ASSUME NEW r \in HttpRequests, Arrive(r) PROVE PoolTypeOK' /\ LayerAhead'
  <2>1. /\ phase' = [phase EXCEPT ![r] = "lookup"] /\ layer' = [layer EXCEPT ![r] = 0]
        /\ response' = [response EXCEPT ![r] = "open"]
        /\ sent' = sent + 1 /\ sent < MaxSent
        /\ UNCHANGED <<free, pinned, watched, clearing, borrowed, company, fallback, openly>>
    BY <1>2 DEF Arrive, Goto
  <2>2. sent' \in 0..MaxSent
    BY <2>1, PoolAssumption DEF PoolTypeOK
  <2>3. /\ layer' \in [HttpRequests -> Nat]
        /\ \A q \in HttpRequests : layer'[q] = IF q = r THEN 0 ELSE layer[q]
    BY <2>1 DEF PoolTypeOK
  <2>4. \A q \in HttpRequests : layer'[q] <= Layers[q]
    BY <2>3, PoolAssumption DEF PoolTypeOK
  <2>5. LayerAhead'
    BY <2>1, <2>3, PoolAssumption DEF LayerAhead, PoolTypeOK
  <2> QED BY <2>1, <2>2, <2>3, <2>4, <2>5 DEF PoolTypeOK
<1>3. ASSUME NEW r \in HttpRequests, Work(r) PROVE PoolTypeOK' /\ LayerAhead'
  BY <1>3, PoolWorkTypeOK
<1>4. ASSUME NEW r \in HttpRequests, EndEarly(r) PROVE PoolTypeOK' /\ LayerAhead'
  BY <1>4 DEF EndEarly, End, PoolTypeOK, LayerAhead
<1>5. ASSUME NEW r \in HttpRequests, Close(r) PROVE PoolTypeOK' /\ LayerAhead'
  BY <1>5 DEF Close, End, PoolTypeOK, LayerAhead
<1> QED BY <1>1, <1>2, <1>3, <1>4, <1>5, PoolNextActs

-----------------------------------------------------------------------------
(* Who holds a connection, and the context on it *)

\* The end of a response hands what was watched over to be cleared.
LEMMA EndHolds ==
  ASSUME PoolInv, NEW r \in HttpRequests, NEW event, End(r, event),
         UNCHANGED <<free, borrowed, company, openly>>
  PROVE  WatchedPinned' /\ HeldOnce' /\ IdleClean' /\ ContextIsOwn'
<1> USE DEF PoolInv, PoolTypeOK, End
<1>1. WatchedPinned'
  BY DEF WatchedPinned
<1>2. /\ \A q \in HttpRequests : Holds(q)' = Holds(q)
      /\ pinned'[r] \cap clearing'[r] = {}
  BY DEF WatchedPinned, HeldOnce, Holds
<1>3. HeldOnce'
  BY <1>2 DEF HeldOnce, Holds, WatchedPinned
<1> QED BY <1>1, <1>3 DEF IdleClean, ContextIsOwn

\* Queries that end give back what they borrowed.
LEMMA GiveBackHolds ==
  ASSUME PoolInv, NEW r \in HttpRequests, GiveBack(r),
         UNCHANGED <<pinned, watched, clearing, company, openly>>
  PROVE  WatchedPinned' /\ HeldOnce' /\ IdleClean' /\ ContextIsOwn'
<1> USE DEF PoolInv, PoolTypeOK, GiveBack
<1>1. WatchedPinned'
  BY DEF WatchedPinned
<1>2. HeldOnce'
  BY DEF HeldOnce, Holds
<1>3. IdleClean'
  BY DEF IdleClean, ContextIsOwn
<1>4. ContextIsOwn'
  BY DEF ContextIsOwn
<1> QED BY <1>1, <1>2, <1>3, <1>4

LEMMA WorkHolds ==
  ASSUME PoolInv, NEW r \in HttpRequests, Work(r)
  PROVE  WatchedPinned' /\ HeldOnce' /\ IdleClean' /\ ContextIsOwn'
<1> USE DEF PoolInv, PoolTypeOK
<1>1. CASE Borrow(r)
  <2> PICK c \in free : free' = free \ {c} /\ borrowed' = [borrowed EXCEPT ![r] = @ \cup {c}]
    BY <1>1 DEF Borrow
  <2>1. UNCHANGED <<pinned, watched, clearing, company, openly>>
    BY <1>1 DEF Borrow
  <2>2. WatchedPinned'
    BY <2>1 DEF WatchedPinned
  <2>3. HeldOnce'
    BY <2>1 DEF HeldOnce, Holds
  <2>4. IdleClean' /\ ContextIsOwn'
    BY <2>1 DEF IdleClean, ContextIsOwn
  <2> QED BY <2>2, <2>3, <2>4
<1>2. CASE LookedUp(r) BY <1>2, GiveBackHolds DEF LookedUp
<1>3. CASE Pin(r)
  <2> PICK c \in free : /\ free' = free \ {c}
                        /\ pinned' = [pinned EXCEPT ![r] = @ \cup {c}]
                        /\ company' = [company EXCEPT ![c] = CompanyOf[r]]
    BY <1>3 DEF Pin
  <2>1. UNCHANGED <<borrowed, watched, clearing, openly>>
    BY <1>3 DEF Pin
  <2>2. WatchedPinned'
    BY <2>1 DEF WatchedPinned
  <2>3. HeldOnce'
    BY <2>1 DEF HeldOnce, Holds
  <2>4. IdleClean'
    BY <2>1 DEF IdleClean
  <2>5. \A q \in HttpRequests : c \notin borrowed[q]
    BY DEF HeldOnce, Holds
  <2>6. ContextIsOwn'
    BY <2>1, <2>5 DEF ContextIsOwn
  <2> QED BY <2>2, <2>3, <2>4, <2>6
<1>4. CASE Listen(r)
  BY <1>4 DEF Listen, WatchedPinned, HeldOnce, Holds, IdleClean, ContextIsOwn
<1>5. CASE TimeoutPin(r)
  BY <1>5 DEF TimeoutPin, WatchedPinned, HeldOnce, Holds, IdleClean, ContextIsOwn
<1>6. CASE SetContextOnPool(r)
  BY <1>6 DEF SetContextOnPool, WatchedPinned, HeldOnce, Holds, IdleClean, ContextIsOwn
<1>7. CASE TimeoutBorrow(r) BY <1>7, GiveBackHolds DEF TimeoutBorrow
<1>8. CASE Worked(r) BY <1>8, GiveBackHolds DEF Worked
<1>9. CASE Answer(r)
  <2>1. CASE response[r] = "open" BY <1>9, <2>1, EndHolds DEF Answer
  <2>2. CASE response[r] # "open"
    BY <1>9, <2>2 DEF Answer, WatchedPinned, HeldOnce, Holds, IdleClean, ContextIsOwn
  <2> QED BY <2>1, <2>2
<1>10. CASE ClearAndRelease(r)
  <2> PICK c \in clearing[r] : /\ company' = [company EXCEPT ![c] = None]
                               /\ free' = free \cup {c}
                               /\ clearing' = [clearing EXCEPT ![r] = @ \ {c}]
    BY <1>10 DEF ClearAndRelease
  <2>1. UNCHANGED <<pinned, watched, borrowed, openly>>
    BY <1>10 DEF ClearAndRelease
  <2>2. WatchedPinned'
    BY <2>1 DEF WatchedPinned
  <2>3. HeldOnce'
    BY <2>1 DEF HeldOnce, Holds
  <2>4. IdleClean'
    BY <2>1 DEF IdleClean
  <2>5. ContextIsOwn'
    BY <2>1 DEF ContextIsOwn
  <2> QED BY <2>2, <2>3, <2>4, <2>5
<1> QED BY <1>1, <1>2, <1>3, <1>4, <1>5, <1>6, <1>7, <1>8, <1>9, <1>10 DEF Work

-----------------------------------------------------------------------------
(* Theorems *)

LEMMA InitPoolInv == PoolInit => PoolInv
<1> SUFFICES ASSUME PoolInit PROVE PoolInv
  OBVIOUS
<1>1. PoolTypeOK
  <2>1. sent \in 0..MaxSent /\ \A r \in HttpRequests : layer[r] <= Layers[r]
    BY PoolAssumption DEF PoolInit
  <2>2. \A f \in {pinned, watched, clearing, borrowed} : f \in [HttpRequests -> SUBSET Conns]
    BY DEF PoolInit
  <2>3. free \subseteq Conns /\ company \in [Conns -> Companies \cup {None}]
    BY DEF PoolInit
  <2> QED BY <2>1, <2>2, <2>3 DEF PoolInit, PoolTypeOK
<1>2. LayerAhead /\ WatchedPinned
  BY DEF PoolInit, LayerAhead, WatchedPinned
<1>3. HeldOnce
  BY DEF PoolInit, HeldOnce, Holds
<1>4. IdleClean /\ ContextIsOwn
  BY DEF PoolInit, IdleClean, ContextIsOwn
<1> QED BY <1>1, <1>2, <1>3, <1>4 DEF PoolInv

LEMMA StepPoolInv == PoolInv /\ [PoolNext]_poolVars => PoolInv'
<1> SUFFICES ASSUME PoolInv, [PoolNext]_poolVars PROVE PoolInv'
  OBVIOUS
<1>1. PoolTypeOK' /\ LayerAhead'
  BY PoolStepTypeOK DEF PoolInv
<1>2. WatchedPinned' /\ HeldOnce' /\ IdleClean' /\ ContextIsOwn'
  <2>1. CASE UNCHANGED poolVars
    BY <2>1 DEF PoolInv, poolVars, WatchedPinned, HeldOnce, Holds, IdleClean, ContextIsOwn
  <2>2. ASSUME NEW r \in HttpRequests, Arrive(r)
        PROVE  WatchedPinned' /\ HeldOnce' /\ IdleClean' /\ ContextIsOwn'
    BY <2>2 DEF Arrive, PoolInv, WatchedPinned, HeldOnce, Holds, IdleClean, ContextIsOwn
  <2>3. ASSUME NEW r \in HttpRequests, Work(r)
        PROVE  WatchedPinned' /\ HeldOnce' /\ IdleClean' /\ ContextIsOwn'
    BY <2>3, WorkHolds
  <2>4. ASSUME NEW r \in HttpRequests, EndEarly(r)
        PROVE  WatchedPinned' /\ HeldOnce' /\ IdleClean' /\ ContextIsOwn'
    BY <2>4, EndHolds DEF EndEarly
  <2>5. ASSUME NEW r \in HttpRequests, Close(r)
        PROVE  WatchedPinned' /\ HeldOnce' /\ IdleClean' /\ ContextIsOwn'
    BY <2>5, EndHolds DEF Close
  <2> QED BY <2>1, <2>2, <2>3, <2>4, <2>5, PoolNextActs
<1> QED BY <1>1, <1>2 DEF PoolInv

LEMMA PoolInvariant == PoolSpec => []PoolInv
BY InitPoolInv, StepPoolInv, PTL DEF PoolSpec

\* Every reachable state is well formed; a request is authenticated as often as its
\* route asks for.
THEOREM PoolTypeCorrect == PoolSpec => []PoolTypeOK
<1>1. PoolInv => PoolTypeOK BY DEF PoolInv
<1> QED BY <1>1, PoolInvariant, PTL

\* No connection is ever in two hands, or idle and in use: the two events of one
\* response and the end of a response in the middle of an authentication included.
THEOREM AlwaysHeldOnce == PoolSpec => []HeldOnce
<1>1. PoolInv => HeldOnce BY DEF PoolInv
<1> QED BY <1>1, PoolInvariant, PTL

\* As long as every request got its pin, no query runs on a connection that has the
\* context of a company.
THEOREM ContextAlwaysOwn == PoolSpec => []ContextIsOwn
<1>1. PoolInv => ContextIsOwn BY DEF PoolInv
<1> QED BY <1>1, PoolInvariant, PTL

=============================================================================
