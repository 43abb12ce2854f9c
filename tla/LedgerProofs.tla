---------------------------- MODULE LedgerProofs ----------------------------
(***************************************************************************)
(* Proofs about the two ledgers.  StockLedger: for any products, requests  *)
(* and documents, and any number of lines; each theorem names the postings *)
(* it is about in its hypothesis, by how they read, guard and claim.       *)
(* GeneralLedger: for any accounts, entries, assets, accruals and months,  *)
(* whichever requests overlap or stop half-way, and any number of them at  *)
(* a time.                                                                 *)
(***************************************************************************)
EXTENDS StockLedger, GeneralLedger, Sums, SequenceTheorems, TLAPS

-----------------------------------------------------------------------------
(* Type correctness *)

\* The line a handler works on names a product and an integer quantity.
LEMMA CurrentLine ==
  ASSUME TypeOK, NEW r \in Requests, pc[r] \in {"read", "write"}
  PROVE  /\ job[r] \in Jobs /\ Post(r) \in Postings /\ Doc(r) \in Docs
         /\ at[r] \in 1 .. Len(job[r].lines)
         /\ Current(r).product \in Products
         /\ Current(r).quantity \in Int
<1>1. job[r] \in Jobs /\ job[r].lines \in Seq(Line) /\ at[r] \in Nat \ {0}
  BY StockAssumption DEF TypeOK
<1>2. at[r] \in 1 .. Len(job[r].lines)
  BY <1>1 DEF TypeOK
<1>3. Current(r) \in Line
  BY <1>1, <1>2 DEF Current
<1> QED BY <1>1, <1>2, <1>3, StockAssumption DEF Line, Post, Doc, Docs

\* What a line writes and records is an integer.
LEMMA WrittenValues ==
  ASSUME TypeOK, NEW r \in Requests, pc[r] \in {"read", "write"}
  PROVE  Base(r) \in Int /\ Delta(r) \in Int /\ Result(r) \in Int
<1>1. Current(r).product \in Products /\ Current(r).quantity \in Int
  BY CurrentLine
<1>2. Base(r) \in Int
  BY <1>1 DEF Base, TypeOK
<1>3. Delta(r) \in Int
  BY <1>1, <1>2 DEF Delta
<1> QED BY <1>2, <1>3 DEF Result

LEMMA InitTypeOK == Init => TypeOK
  BY StockAssumption DEF Init, TypeOK, Nothing

LEMMA NextTypeOK == TypeOK /\ [Next]_vars => TypeOK'
<1> SUFFICES ASSUME TypeOK, [Next]_vars PROVE TypeOK'
  OBVIOUS
<1>1. ASSUME NEW r \in Requests, Receive(r) PROVE TypeOK'
  <2>1. PICK j \in Jobs :
        /\ job' = [job EXCEPT ![r] = j]
        /\ pc' = [pc EXCEPT ![r] =
             IF ~ PassesChecks(j) THEN "rejected"
             ELSE IF j.post.claim = "row" THEN "claim" ELSE Entry(j.post)]
    BY <1>1 DEF Receive
  <2>2. pc'[r] \in {"rejected", "claim", "read", "write"} /\ job'[r] = j
    BY <2>1 DEF Entry, TypeOK
  <2>3. j.lines \in Seq(Line) /\ Len(j.lines) \in Nat \ {0}
    BY StockAssumption, EmptySeq
  <2> QED BY <1>1, <2>1, <2>2, <2>3 DEF TypeOK, Receive, rowVars, docVars
<1>2. ASSUME NEW r \in Requests, Claim(r) PROVE TypeOK'
  BY <1>2 DEF TypeOK, Claim, rowVars, Entry, Docs, Doc
<1>3. ASSUME NEW r \in Requests, Prefetch(r) PROVE TypeOK'
  BY <1>3 DEF TypeOK, Prefetch, rowVars, docVars, View
<1>4. ASSUME NEW r \in Requests, ReadLine(r) PROVE TypeOK'
  BY <1>4, CurrentLine DEF TypeOK, ReadLine, rowVars, docVars, View
<1>5. ASSUME NEW r \in Requests, LockLine(r) PROVE TypeOK'
  BY <1>5, CurrentLine DEF TypeOK, LockLine, docVars
<1>6. ASSUME NEW r \in Requests, Write(r) PROVE TypeOK'
  <2> DEFINE p == Current(r).product
  <2>1. /\ p \in Products /\ at[r] \in 1 .. Len(job[r].lines)
        /\ Delta(r) \in Int /\ Result(r) \in Int
    BY <1>6, CurrentLine, WrittenValues DEF Write
  <2>2. /\ work' \in [Products -> Int] /\ seen' \in [Requests -> [Products -> Int]]
        /\ pend' \in [Requests -> [Products -> Int]]
        /\ lockedBy' \in [Products -> Requests \cup {NoRequest}]
    <3>1. work' = [work EXCEPT ![p] = Result(r)] /\ lockedBy' = [lockedBy EXCEPT ![p] = r]
      BY <1>6 DEF Write
    <3>2. work' \in [Products -> Int] /\ lockedBy' \in [Products -> Requests \cup {NoRequest}]
      BY <2>1, <3>1 DEF TypeOK
    <3>3. pend' \in [Requests -> [Products -> Int]]
      BY <1>6, <2>1 DEF Write, TypeOK
    <3>4. seen' \in [Requests -> [Products -> Int]]
      BY <1>6, <2>1 DEF Write, TypeOK
    <3> QED BY <3>2, <3>3, <3>4
  <2>3. at' \in [Requests -> Nat \ {0}] /\ at'[r] = at[r] + 1
    BY <1>6, <2>1 DEF Write, TypeOK
  <2>4. Len(job[r].lines) \in Nat
    BY <2>1, <1>6, CurrentLine, StockAssumption DEF Write
  <2>5. pc'[r] \in {"read", "write", "commit"}
        /\ (pc'[r] = "commit" <=> at[r] = Len(job[r].lines))
    BY <1>6 DEF Write, TypeOK, Again
  <2>6. job[r] \in Jobs /\ job' = job /\ pc' \in [Requests -> {"idle", "claim", "read",
          "write", "commit", "committed", "rejected", "failed"}]
    BY <1>6, <2>5, CurrentLine DEF Write, TypeOK
  <2>7. ASSUME NEW q \in Requests
        PROVE  /\ IF pc'[q] = "idle" THEN at'[q] = 1 ELSE job'[q] \in Jobs
               /\ pc'[q] \in {"claim", "read", "write"} => at'[q] <= Len(job'[q].lines)
               /\ pc'[q] = "commit" => at'[q] = Len(job'[q].lines) + 1
    <3>1. CASE q = r
      BY <3>1, <2>1, <2>3, <2>4, <2>5, <2>6
    <3>2. CASE q # r
      BY <1>6, <3>2 DEF Write, TypeOK
    <3> QED BY <3>1, <3>2
  <2> QED BY <1>6, <2>2, <2>3, <2>6, <2>7 DEF TypeOK, Write, docVars
<1>7. ASSUME NEW r \in Requests, Commit(r) PROVE TypeOK'
  <2>1. /\ moves' \in [Products -> Int] /\ qty' \in [Products -> Int]
        /\ lockedBy' \in [Products -> Requests \cup {NoRequest}]
    BY <1>7 DEF Commit, TypeOK
  <2>2. applied' \in [Docs -> Nat] /\ docLock' \in [Docs -> Requests \cup {NoRequest}]
    BY <1>7 DEF Commit, TypeOK, Doc, Docs
  <2>3. pend' \in [Requests -> [Products -> Int]]
    BY <1>7 DEF Commit, TypeOK, Nothing
  <2> QED BY <1>7, <2>1, <2>2, <2>3 DEF Commit, TypeOK
<1>8. ASSUME NEW r \in Requests, NEW outcome \in {"rejected", "failed"},
             Rollback(r, outcome), InTransaction(r)
      PROVE  TypeOK'
  BY <1>8 DEF TypeOK, Rollback, Nothing, InTransaction
<1>9. CASE UNCHANGED vars
  BY <1>9 DEF TypeOK, vars
<1> QED
  BY <1>1, <1>2, <1>3, <1>4, <1>5, <1>6, <1>7, <1>8, <1>9
     DEF Next, Step, AlreadyPosted, Short, Fail, DeadlockVictim, Deadlocked, WaitsFor,
         Quiescent, InTransaction

\* Every reachable state is well formed, and a transaction commits only after
\* its last line.
THEOREM TypeCorrect == Spec => []TypeOK
  BY InitTypeOK, NextTypeOK, PTL DEF Spec

-----------------------------------------------------------------------------
(* Never below zero *)

\* The invariant that carries it: what a handler remembers is a quantity some
\* row had, so it is not negative either.
QuantitiesInv == TypeOK /\ StockNeverNegative
                 /\ \A r \in Requests, p \in Products : seen[r][p] >= 0

\* A line that falls under NeverBelowZero leaves a quantity that is not negative.
LEMMA ResultNotNegative ==
  ASSUME \A j \in Jobs : NeverBelowZero(j), QuantitiesInv,
         NEW r \in Requests, pc[r] = "write", Enough(r)
  PROVE  Result(r) >= 0
<1> DEFINE p == Current(r).product
           q == Current(r).quantity
<1>1. /\ p \in Products /\ q \in Int /\ Base(r) \in Int /\ Delta(r) \in Int
      /\ Post(r) \in Postings
  BY CurrentLine, WrittenValues DEF QuantitiesInv
<1>2. Base(r) >= 0
  BY <1>1 DEF Base, QuantitiesInv, StockNeverNegative
<1>3. \/ Post(r).floor = "clamp"
      \/ Post(r).floor = "enough" /\ Post(r).reads = "none" /\ Post(r).sign = -1
      \/ q >= 0 /\ Post(r).sign # -1
  <2>1. job[r] \in Jobs /\ at[r] \in DOMAIN job[r].lines
    BY CurrentLine, StockAssumption DEF QuantitiesInv
  <2> QED BY <2>1 DEF NeverBelowZero, Post, Current
<1>4. CASE Post(r).floor = "clamp"
  BY <1>1, <1>4 DEF Result
<1>5. CASE Post(r).floor = "enough" /\ Post(r).reads = "none" /\ Post(r).sign = -1
  <2>1. Base(r) = work[p] /\ work[p] >= q /\ Delta(r) = -q
    BY <1>5 DEF Base, Enough, Delta
  <2> QED BY <1>1, <1>5, <2>1 DEF Result
<1>6. CASE q >= 0 /\ Post(r).sign # -1
  <2>1. Base(r) + Delta(r) >= 0
    BY <1>1, <1>2, <1>6 DEF Delta, Postings
  <2> QED BY <1>1, <2>1 DEF Result
<1> QED BY <1>3, <1>4, <1>5, <1>6

LEMMA NextQuantities ==
  ASSUME \A j \in Jobs : NeverBelowZero(j)
  PROVE  QuantitiesInv /\ [Next]_vars => QuantitiesInv'
<1> SUFFICES ASSUME QuantitiesInv, [Next]_vars PROVE QuantitiesInv'
  OBVIOUS
<1>t. TypeOK /\ TypeOK'
  BY NextTypeOK DEF QuantitiesInv
<1> DEFINE NotNegative == \A p \in Products : qty[p] >= 0 /\ work[p] >= 0
           SeenNotNegative == \A r \in Requests, p \in Products : seen[r][p] >= 0
<1>i. NotNegative /\ SeenNotNegative
  BY DEF QuantitiesInv, StockNeverNegative
<1>1. ASSUME UNCHANGED <<qty, work, seen>> PROVE NotNegative' /\ SeenNotNegative'
  BY <1>1, <1>i
<1>2. ASSUME NEW r \in Requests, Prefetch(r) PROVE NotNegative' /\ SeenNotNegative'
  BY <1>2, <1>i, <1>t DEF Prefetch, View, rowVars, TypeOK
<1>3. ASSUME NEW r \in Requests, ReadLine(r) PROVE NotNegative' /\ SeenNotNegative'
  BY <1>3, <1>i, <1>t DEF ReadLine, View, rowVars, TypeOK
<1>4. ASSUME NEW r \in Requests, LockLine(r) PROVE NotNegative' /\ SeenNotNegative'
  BY <1>4, <1>i, <1>t DEF LockLine, TypeOK
<1>5. ASSUME NEW r \in Requests, Write(r) PROVE NotNegative' /\ SeenNotNegative'
  <2>1. Result(r) >= 0
    BY <1>5, ResultNotNegative DEF Write
  <2> QED BY <1>5, <1>i, <1>t, <2>1 DEF Write, TypeOK
<1>6. ASSUME NEW r \in Requests, Commit(r) PROVE NotNegative' /\ SeenNotNegative'
  BY <1>6, <1>i, <1>t DEF Commit, TypeOK
<1>7. ASSUME NEW r \in Requests, NEW outcome, Rollback(r, outcome)
      PROVE  NotNegative' /\ SeenNotNegative'
  BY <1>7, <1>i, <1>t DEF Rollback, TypeOK
<1>8. NotNegative' /\ SeenNotNegative'
  BY <1>1, <1>2, <1>3, <1>4, <1>5, <1>6, <1>7
     DEF Next, Step, Receive, Claim, AlreadyPosted, Short, Fail, DeadlockVictim,
         Quiescent, vars, rowVars
<1> QED BY <1>t, <1>8 DEF QuantitiesInv, StockNeverNegative

\* Sales, cancellations, returns, repair parts and every posting that falls under
\* NeverBelowZero together never take a product below zero.
THEOREM NeverNegative ==
  ASSUME \A j \in Jobs : NeverBelowZero(j)
  PROVE  Spec => []StockNeverNegative
<1>1. Init => QuantitiesInv
  BY StockAssumption, InitTypeOK DEF Init, QuantitiesInv, StockNeverNegative, Nothing
<1>2. QuantitiesInv => StockNeverNegative
  BY DEF QuantitiesInv
<1> QED BY <1>1, <1>2, NextQuantities, PTL DEF Spec

-----------------------------------------------------------------------------
(* Movements explain stock *)

\* The inductive invariant: a row nobody holds shows its committed value, the
\* holder's version differs from it by the holder's own movements, and a
\* handler that locks before it reads still knows the row when it writes.
Pending ==
  \A r \in Requests, p \in Products :
    IF lockedBy[p] = r THEN work[p] = qty[p] + pend[r][p] ELSE pend[r][p] = 0
Fresh ==
  \A r \in Requests : pc[r] = "write" /\ Post(r).reads = "lock" =>
    lockedBy[Current(r).product] = r /\ seen[r][Current(r).product] = work[Current(r).product]
NoDirtyRow == \A p \in Products : lockedBy[p] = NoRequest => work[p] = qty[p]
LedgerInv == TypeOK /\ MovementsExplainStock /\ NoDirtyRow /\ Pending /\ Fresh

LEMMA InitLedger == Init => LedgerInv
<1> SUFFICES ASSUME Init PROVE LedgerInv
  OBVIOUS
<1>1. Pending
  BY StockAssumption DEF Init, Pending, Nothing
<1> QED BY <1>1, InitTypeOK DEF Init, LedgerInv, MovementsExplainStock, NoDirtyRow, Fresh

\* Where an exact posting writes, it starts from the row as its transaction
\* sees it, and records exactly the change it makes.
LEMMA ExactWrite ==
  ASSUME \A j \in Jobs : Exact(j), LedgerInv, NEW r \in Requests, pc[r] = "write",
         Available(r, Current(r).product)
  PROVE  Result(r) = work[Current(r).product] + Delta(r)
<1>1. job[r] \in Jobs /\ Post(r).reads \in {"none", "lock"} /\ Post(r).floor # "clamp"
  BY CurrentLine DEF LedgerInv, Exact, Post
<1>2. Base(r) = work[Current(r).product]
  BY <1>1 DEF Base, LedgerInv, Fresh
<1> QED BY <1>1, <1>2 DEF Result

LEMMA WriteLedger ==
  ASSUME \A j \in Jobs : Exact(j), LedgerInv, NEW r \in Requests, Write(r), TypeOK'
  PROVE  LedgerInv'
<1> DEFINE p == Current(r).product
<1>1. /\ p \in Products /\ Delta(r) \in Int /\ Result(r) = work[p] + Delta(r)
      /\ job[r] \in Jobs /\ Post(r).reads \in {"none", "lock"}
  BY CurrentLine, WrittenValues, ExactWrite DEF LedgerInv, Write, Exact, Post
<1>2. /\ work'[p] = work[p] + Delta(r) /\ pend'[r][p] = pend[r][p] + Delta(r)
      /\ lockedBy'[p] = r
      /\ \A o \in Products \ {p} : /\ work'[o] = work[o] /\ lockedBy'[o] = lockedBy[o]
                                  /\ pend'[r][o] = pend[r][o]
      /\ \A q \in Requests \ {r} : pend'[q] = pend[q]
      /\ qty' = qty /\ moves' = moves
  BY <1>1 DEF Write, LedgerInv, TypeOK
<1>3. work[p] = qty[p] + pend[r][p]
      /\ \A q \in Requests \ {r} : lockedBy[p] # q /\ pend[q][p] = 0
  <2>1. lockedBy[p] \in {NoRequest, r}
    BY DEF Write, Available
  <2>2. CASE lockedBy[p] = r
    BY <1>1, <2>2, StockAssumption DEF LedgerInv, Pending, TypeOK
  <2>3. CASE lockedBy[p] = NoRequest
    <3>1. \A q \in Requests : lockedBy[p] # q
      BY <2>3, StockAssumption
    <3>2. (\A q \in Requests : pend[q][p] = 0) /\ work[p] = qty[p]
      BY <1>1, <2>3, <3>1 DEF LedgerInv, Pending, NoDirtyRow
    <3> QED BY <1>1, <3>1, <3>2 DEF LedgerInv, TypeOK
  <2> QED BY <2>1, <2>2, <2>3
<1>4. Pending'
  <2> SUFFICES ASSUME NEW q \in Requests, NEW o \in Products
               PROVE  IF lockedBy'[o] = q THEN work'[o] = qty'[o] + pend'[q][o]
                                          ELSE pend'[q][o] = 0
    BY DEF Pending
  <2>1. CASE o = p /\ q = r
    BY <1>1, <1>2, <1>3, <2>1 DEF LedgerInv, TypeOK
  <2>2. CASE o = p /\ q # r
    BY <1>2, <1>3, <2>2
  <2>3. CASE o # p
    BY <1>2, <2>3 DEF LedgerInv, Pending
  <2> QED BY <2>1, <2>2, <2>3
<1>5. MovementsExplainStock'
  BY <1>2 DEF LedgerInv, MovementsExplainStock
<1>6. NoDirtyRow'
  <2>1. r # NoRequest
    BY StockAssumption
  <2> QED BY <1>2, <2>1 DEF LedgerInv, NoDirtyRow
<1>7. Fresh'
  <2> SUFFICES ASSUME NEW q \in Requests, pc'[q] = "write", Post(q)'.reads = "lock"
               PROVE  /\ lockedBy'[Current(q)'.product] = q
                      /\ seen'[q][Current(q)'.product] = work'[Current(q)'.product]
    BY DEF Fresh
  <2>1. q # r
    <3>1. Post(r)' = Post(r)
      BY DEF Write, Post
    <3>2. Post(r).reads = "lock" => pc'[r] # "write"
      BY DEF Write, Again, LedgerInv, TypeOK
    <3> QED BY <3>1, <3>2
  <2>2. /\ Post(q)' = Post(q) /\ Current(q)' = Current(q) /\ pc[q] = "write"
        /\ seen'[q] = seen[q]
    <3>1. /\ Post(q)' = Post(q) /\ at'[q] = at[q]
          /\ pc'[q] = pc[q] /\ seen'[q] = seen[q]
      BY <2>1, SMTT(30) DEF Write, Post, LedgerInv, TypeOK
    <3>2. job' = job
      BY DEF Write
    <3>3. Current(q)' = Current(q)
      BY <3>1, <3>2 DEF Current
    <3> QED BY <3>1, <3>3
  <2>3. Current(q).product \in Products /\ lockedBy[Current(q).product] = q
        /\ seen[q][Current(q).product] = work[Current(q).product]
    BY <2>2, CurrentLine DEF LedgerInv, Fresh
  <2>4. Current(q).product # p
    BY <2>1, <2>3, StockAssumption DEF Write, Available
  <2> QED BY <1>2, <2>2, <2>3, <2>4
<1> QED BY <1>4, <1>5, <1>6, <1>7 DEF LedgerInv

LEMMA RollbackLedger ==
  ASSUME LedgerInv, NEW r \in Requests, NEW outcome \in {"rejected", "failed"},
         Rollback(r, outcome), TypeOK'
  PROVE  LedgerInv'
<1>1. /\ qty' = qty /\ moves' = moves /\ job' = job /\ at' = at /\ seen' = seen
      /\ \A p \in Products : IF lockedBy[p] = r
                             THEN work'[p] = qty[p] /\ lockedBy'[p] = NoRequest
                             ELSE work'[p] = work[p] /\ lockedBy'[p] = lockedBy[p]
      /\ \A p \in Products : pend'[r][p] = 0
      /\ \A q \in Requests \ {r} : pend'[q] = pend[q] /\ pc'[q] = pc[q]
      /\ pc'[r] # "write"
  BY DEF Rollback, LedgerInv, TypeOK, Nothing
<1>2. NoRequest \notin Requests
  BY StockAssumption
<1>3. Pending'
  <2> SUFFICES ASSUME NEW q \in Requests, NEW p \in Products
               PROVE  IF lockedBy'[p] = q THEN work'[p] = qty'[p] + pend'[q][p]
                                          ELSE pend'[q][p] = 0
    BY DEF Pending
  <2>1. CASE q = r
    BY <1>1, <1>2, <2>1
  <2>2. CASE q # r
    BY <1>1, <1>2, <2>2 DEF LedgerInv, Pending
  <2> QED BY <2>1, <2>2
<1>4. MovementsExplainStock'
  BY <1>1 DEF LedgerInv, MovementsExplainStock
<1>5. NoDirtyRow'
  BY <1>1 DEF LedgerInv, NoDirtyRow
<1>6. Fresh'
  <2> SUFFICES ASSUME NEW q \in Requests, pc'[q] = "write", Post(q)'.reads = "lock"
               PROVE  /\ lockedBy'[Current(q)'.product] = q
                      /\ seen'[q][Current(q)'.product] = work'[Current(q)'.product]
    BY DEF Fresh
  <2>1. q # r /\ pc[q] = "write" /\ Post(q)' = Post(q) /\ Current(q)' = Current(q)
    BY <1>1 DEF Post, Current
  <2>2. Current(q).product \in Products /\ lockedBy[Current(q).product] = q
        /\ seen[q][Current(q).product] = work[Current(q).product]
    BY <2>1, CurrentLine DEF LedgerInv, Fresh
  <2> QED BY <1>1, <2>1, <2>2
<1> QED BY <1>3, <1>4, <1>5, <1>6 DEF LedgerInv

\* What a COMMIT publishes: every row changes by the movements it publishes.
LEMMA CommitExact ==
  ASSUME LedgerInv, NEW r \in Requests, Commit(r), NEW p \in Products
  PROVE  /\ qty'[p] = qty[p] + pend[r][p] /\ moves'[p] = moves[p] + pend[r][p]
         /\ lockedBy[p] = r => qty'[p] = work[p]
         /\ lockedBy[p] # r => qty'[p] = qty[p]
  BY DEF Commit, LedgerInv, TypeOK, Pending

LEMMA CommitLedger ==
  ASSUME LedgerInv, NEW r \in Requests, Commit(r), TypeOK'
  PROVE  LedgerInv'
<1>1. /\ job' = job /\ at' = at /\ seen' = seen /\ work' = work
      /\ \A p \in Products : lockedBy'[p] = IF lockedBy[p] = r THEN NoRequest ELSE lockedBy[p]
      /\ \A p \in Products : pend'[r][p] = 0
      /\ \A q \in Requests \ {r} : pend'[q] = pend[q] /\ pc'[q] = pc[q]
      /\ pc'[r] # "write"
  BY DEF Commit, LedgerInv, TypeOK, Nothing
<1>2. NoRequest \notin Requests
  BY StockAssumption
<1>3. Pending'
  <2> SUFFICES ASSUME NEW q \in Requests, NEW p \in Products
               PROVE  IF lockedBy'[p] = q THEN work'[p] = qty'[p] + pend'[q][p]
                                          ELSE pend'[q][p] = 0
    BY DEF Pending
  <2>1. CASE q = r
    BY <1>1, <1>2, <2>1
  <2>2. CASE q # r
    BY <1>1, <1>2, <2>2, CommitExact DEF LedgerInv, Pending
  <2> QED BY <2>1, <2>2
<1>4. MovementsExplainStock'
  BY CommitExact DEF LedgerInv, MovementsExplainStock
<1>5. NoDirtyRow'
  BY <1>1, CommitExact DEF LedgerInv, NoDirtyRow
<1>6. Fresh'
  <2> SUFFICES ASSUME NEW q \in Requests, pc'[q] = "write", Post(q)'.reads = "lock"
               PROVE  /\ lockedBy'[Current(q)'.product] = q
                      /\ seen'[q][Current(q)'.product] = work'[Current(q)'.product]
    BY DEF Fresh
  <2>1. q # r /\ pc[q] = "write" /\ Post(q)' = Post(q) /\ Current(q)' = Current(q)
    BY <1>1 DEF Post, Current
  <2>2. Current(q).product \in Products /\ lockedBy[Current(q).product] = q
        /\ seen[q][Current(q).product] = work[Current(q).product]
    BY <2>1, CurrentLine DEF LedgerInv, Fresh
  <2> QED BY <1>1, <2>1, <2>2
<1> QED BY <1>3, <1>4, <1>5, <1>6 DEF LedgerInv

LEMMA LockLedger ==
  ASSUME LedgerInv, NEW r \in Requests, LockLine(r), TypeOK'
  PROVE  LedgerInv'
<1> DEFINE p == Current(r).product
<1>1. p \in Products
  BY CurrentLine DEF LockLine, LedgerInv
<1>2. /\ UNCHANGED <<qty, work, moves, pend, job, at>>
      /\ lockedBy'[p] = r /\ seen'[r][p] = work[p]
      /\ \A o \in Products \ {p} : lockedBy'[o] = lockedBy[o]
      /\ \A q \in Requests \ {r} : seen'[q] = seen[q] /\ pc'[q] = pc[q]
  BY <1>1 DEF LockLine, LedgerInv, TypeOK
<1>3. NoRequest \notin Requests /\ lockedBy[p] \in {NoRequest, r}
  BY StockAssumption DEF LockLine, Available
<1>4. work[p] = qty[p] + pend[r][p] /\ \A q \in Requests \ {r} : pend[q][p] = 0
  <2>1. CASE lockedBy[p] = r
    BY <1>1, <1>3, <2>1 DEF LedgerInv, Pending
  <2>2. CASE lockedBy[p] = NoRequest
    BY <1>1, <1>3, <2>2 DEF LedgerInv, Pending, NoDirtyRow, TypeOK
  <2> QED BY <1>3, <2>1, <2>2
<1>5. Pending'
  BY <1>1, <1>2, <1>3, <1>4 DEF LedgerInv, Pending
<1>6. MovementsExplainStock' /\ NoDirtyRow'
  BY <1>2, <1>3 DEF LedgerInv, MovementsExplainStock, NoDirtyRow
<1>7. Fresh'
  <2> SUFFICES ASSUME NEW q \in Requests, pc'[q] = "write", Post(q)'.reads = "lock"
               PROVE  /\ lockedBy'[Current(q)'.product] = q
                      /\ seen'[q][Current(q)'.product] = work'[Current(q)'.product]
    BY DEF Fresh
  <2>1. Post(q)' = Post(q) /\ Current(q)' = Current(q)
    BY <1>2 DEF Post, Current
  <2>2. CASE q = r
    BY <1>2, <2>1, <2>2
  <2>3. CASE q # r
    <3>1. pc[q] = "write"
      BY <1>2, <2>3
    <3>2. Current(q).product \in Products /\ lockedBy[Current(q).product] = q
          /\ seen[q][Current(q).product] = work[Current(q).product]
      BY <2>1, <3>1, CurrentLine DEF LedgerInv, Fresh
    <3> QED BY <1>2, <1>3, <2>1, <2>3, <3>2
  <2> QED BY <2>2, <2>3
<1> QED BY <1>5, <1>6, <1>7 DEF LedgerInv

\* The steps that touch neither rows nor movements; none of them brings a
\* locking handler to its write.
LEMMA QuietLedger ==
  ASSUME \A j \in Jobs : Exact(j), LedgerInv, TypeOK', NEW r \in Requests,
         UNCHANGED <<qty, work, lockedBy, moves, pend, at>>,
         \A q \in Requests \ {r} : pc'[q] = pc[q] /\ job'[q] = job[q] /\ seen'[q] = seen[q],
         pc'[r] = "write" => Post(r)'.reads # "lock"
  PROVE  LedgerInv'
<1>1. Pending' /\ MovementsExplainStock' /\ NoDirtyRow'
  BY DEF LedgerInv, Pending, MovementsExplainStock, NoDirtyRow
<1>2. Fresh'
  BY DEF LedgerInv, Fresh, Post, Current
<1> QED BY <1>1, <1>2 DEF LedgerInv

LEMMA NextLedger ==
  ASSUME \A j \in Jobs : Exact(j)
  PROVE  LedgerInv /\ [Next]_vars => LedgerInv'
<1> SUFFICES ASSUME LedgerInv, [Next]_vars PROVE LedgerInv'
  OBVIOUS
<1>t. TypeOK /\ TypeOK'
  BY NextTypeOK DEF LedgerInv
<1>1. ASSUME NEW r \in Requests, Receive(r) PROVE LedgerInv'
  <2>1. pc'[r] = "write" => Post(r)'.reads # "lock"
    <3>1. PICK j \in Jobs :
          /\ job' = [job EXCEPT ![r] = j]
          /\ pc' = [pc EXCEPT ![r] =
               IF ~ PassesChecks(j) THEN "rejected"
               ELSE IF j.post.claim = "row" THEN "claim" ELSE Entry(j.post)]
      BY <1>1 DEF Receive
    <3> QED BY <1>t, <3>1 DEF TypeOK, Post, Entry
  <2>2. /\ UNCHANGED <<qty, work, lockedBy, moves, pend, at>>
        /\ \A q \in Requests \ {r} : pc'[q] = pc[q] /\ job'[q] = job[q] /\ seen'[q] = seen[q]
    BY <1>1, <1>t DEF Receive, rowVars, TypeOK
  <2> QED BY <1>t, <2>1, <2>2, QuietLedger
<1>2. ASSUME NEW r \in Requests, Claim(r) PROVE LedgerInv'
  <2>1. pc'[r] = "write" => Post(r)'.reads # "lock"
    BY <1>2, <1>t DEF Claim, Entry, Post, TypeOK
  <2>2. /\ UNCHANGED <<qty, work, lockedBy, moves, pend, at>>
        /\ \A q \in Requests \ {r} : pc'[q] = pc[q] /\ job'[q] = job[q] /\ seen'[q] = seen[q]
    BY <1>2, <1>t DEF Claim, rowVars, TypeOK
  <2> QED BY <1>t, <2>1, <2>2, QuietLedger
<1>3. ASSUME NEW r \in Requests, Prefetch(r) \/ ReadLine(r) PROVE LedgerInv'
  <2>1. Post(r)'.reads # "lock"
    BY <1>3 DEF Prefetch, ReadLine, Post
  <2>2. /\ UNCHANGED <<qty, work, lockedBy, moves, pend, at>>
        /\ \A q \in Requests \ {r} : pc'[q] = pc[q] /\ job'[q] = job[q] /\ seen'[q] = seen[q]
    BY <1>3, <1>t DEF Prefetch, ReadLine, rowVars, TypeOK
  <2> QED BY <1>t, <2>1, <2>2, QuietLedger
<1>4. ASSUME NEW r \in Requests, LockLine(r) PROVE LedgerInv'
  BY <1>4, <1>t, LockLedger
<1>5. ASSUME NEW r \in Requests, Write(r) PROVE LedgerInv'
  BY <1>5, <1>t, WriteLedger
<1>6. ASSUME NEW r \in Requests, Commit(r) PROVE LedgerInv'
  BY <1>6, <1>t, CommitLedger
<1>7. ASSUME NEW r \in Requests, NEW outcome \in {"rejected", "failed"},
             Rollback(r, outcome)
      PROVE  LedgerInv'
  BY <1>7, <1>t, RollbackLedger
<1>8. CASE UNCHANGED vars
  BY <1>8, <1>t DEF vars, LedgerInv, Pending, MovementsExplainStock, NoDirtyRow, Fresh,
                    Post, Current
<1> QED
  BY <1>1, <1>2, <1>3, <1>4, <1>5, <1>6, <1>7, <1>8
     DEF Next, Step, AlreadyPosted, Short, Fail, DeadlockVictim, Quiescent

\* The ledger invariant holds of every run in which every posting is exact.
THEOREM LedgerHolds == ASSUME \A j \in Jobs : Exact(j) PROVE Spec => []LedgerInv
  BY InitLedger, NextLedger, PTL DEF Spec

\* When every posting writes relative to the row or to a row it has locked, the
\* movements of a product always add up to its quantity.
THEOREM MovementsAlwaysExplain ==
  ASSUME \A j \in Jobs : Exact(j)
  PROVE  Spec => []MovementsExplainStock
<1>1. LedgerInv => MovementsExplainStock
  BY DEF LedgerInv
<1> QED BY <1>1, LedgerHolds, PTL

-----------------------------------------------------------------------------
(* Each document once *)

\* The invariant: the transaction that works on a document whose claim locks
\* holds the claim on it, and nobody has posted it before.
Works(r) == pc[r] \in {"read", "write", "commit"} /\ Post(r).claim = "row"
ClaimInv ==
  /\ TypeOK
  /\ ClaimedOnce
  /\ \A r \in Requests : Works(r) => docLock[Doc(r)] = r /\ applied[Doc(r)] = 0

LEMMA NextClaim ==
  ASSUME OneClaimPerDoc
  PROVE  ClaimInv /\ [Next]_vars => ClaimInv'
<1> SUFFICES ASSUME ClaimInv, [Next]_vars PROVE ClaimInv'
  OBVIOUS
<1>t. TypeOK /\ TypeOK' /\ NoRequest \notin Requests
  BY NextTypeOK, StockAssumption DEF ClaimInv
<1>d. \A r \in Requests : pc[r] # "idle" => job[r] \in Jobs /\ Doc(r) \in Docs
  BY <1>t DEF TypeOK, Doc, Docs
<1>1. ASSUME NEW r \in Requests, Receive(r) PROVE ClaimInv'
  <2>1. PICK j \in Jobs :
        /\ job' = [job EXCEPT ![r] = j]
        /\ pc' = [pc EXCEPT ![r] =
             IF ~ PassesChecks(j) THEN "rejected"
             ELSE IF j.post.claim = "row" THEN "claim" ELSE Entry(j.post)]
    BY <1>1 DEF Receive
  <2>2. ~ Works(r)' /\ \A q \in Requests \ {r} : (Works(q)' <=> Works(q)) /\ Doc(q)' = Doc(q)
    BY <2>1, <1>t DEF TypeOK, Works, Post, Doc
  <2> QED BY <1>1, <1>t, <2>2 DEF Receive, docVars, ClaimInv, ClaimedOnce
<1>2. ASSUME NEW r \in Requests, Claim(r) PROVE ClaimInv'
  <2>1. Doc(r) \in Docs /\ job' = job /\ applied' = applied /\ applied[Doc(r)] = 0
        /\ docLock[Doc(r)] = NoRequest /\ docLock'[Doc(r)] = r
        /\ \A d \in Docs \ {Doc(r)} : docLock'[d] = docLock[d]
    BY <1>2, <1>t, <1>d DEF Claim, TypeOK
  <2>2. ASSUME NEW q \in Requests, Works(q)'
        PROVE  docLock'[Doc(q)'] = q /\ applied'[Doc(q)'] = 0
    <3>1. CASE q = r
      BY <2>1, <3>1 DEF Doc
    <3>2. CASE q # r
      <4>1. pc'[q] = pc[q] /\ job' = job
        BY <1>2, <1>t, <3>2 DEF Claim, TypeOK
      <4>2. Works(q) /\ Doc(q)' = Doc(q) /\ Doc(q) \in Docs
        BY <2>2, <4>1, <1>d DEF Works, Post, Doc
      <4>3. docLock[Doc(q)] = q /\ applied[Doc(q)] = 0
        BY <4>2 DEF ClaimInv
      <4>4. Doc(q) # Doc(r)
        BY <1>t, <2>1, <4>3
      <4> QED BY <2>1, <4>2, <4>3, <4>4
    <3> QED BY <3>1, <3>2
  <2> QED BY <1>t, <2>1, <2>2 DEF ClaimInv, ClaimedOnce
<1>3. ASSUME NEW r \in Requests, Prefetch(r) \/ ReadLine(r) \/ LockLine(r) \/ Write(r)
      PROVE  ClaimInv'
  <2>1. UNCHANGED <<applied, docLock, job>> /\ pc[r] \in {"read", "write"}
        /\ \A q \in Requests \ {r} : pc'[q] = pc[q]
    BY <1>3, <1>t DEF Prefetch, ReadLine, LockLine, Write, docVars, TypeOK
  <2> QED BY <1>t, <2>1 DEF ClaimInv, ClaimedOnce, Works, Post, Doc
<1>4. ASSUME NEW r \in Requests, Commit(r) PROVE ClaimInv'
  <2>1. /\ Doc(r) \in Docs /\ job[r] \in Jobs /\ applied[Doc(r)] \in Nat
        /\ Post(r).claim = "row" => docLock[Doc(r)] = r /\ applied[Doc(r)] = 0
    BY <1>4, <1>d, <1>t DEF Commit, ClaimInv, Works, TypeOK
  <2>2. /\ \A d \in Docs \ {Doc(r)} : applied'[d] = applied[d]
        /\ Post(r).claim = "row" => applied'[Doc(r)] = 1
    BY <1>4, <1>t, <2>1 DEF Commit, TypeOK
  <2>3. \A d \in Docs : docLock[d] # r => docLock'[d] = docLock[d]
    BY <1>4 DEF Commit
  <2>4. job' = job /\ pc'[r] = "committed" /\ \A q \in Requests \ {r} : pc'[q] = pc[q]
    BY <1>4, <1>t DEF Commit, TypeOK
  <2>5. ASSUME NEW j \in Jobs, j.post.claim = "row" PROVE applied'[j.doc] <= 1
    <3>1. CASE j.doc = Doc(r)
      <4>1. Post(r).claim = "row"
        BY <2>1, <2>5, <3>1 DEF OneClaimPerDoc, Post, Doc
      <4> QED BY <2>2, <3>1, <4>1
    <3>2. CASE j.doc # Doc(r)
      BY <2>2, <2>5, <3>2 DEF ClaimInv, ClaimedOnce, Docs
    <3> QED BY <3>1, <3>2
  <2>6. ASSUME NEW q \in Requests, Works(q)'
        PROVE  docLock'[Doc(q)'] = q /\ applied'[Doc(q)'] = 0
    <3>1. q # r /\ Works(q) /\ Doc(q)' = Doc(q) /\ Doc(q) \in Docs /\ job[q] \in Jobs
      BY <2>4, <2>6, <1>d DEF Works, Post, Doc
    <3>2. docLock[Doc(q)] = q /\ applied[Doc(q)] = 0
      BY <3>1 DEF ClaimInv
    <3>3. Doc(q) # Doc(r)
      BY <2>1, <3>1, <3>2 DEF OneClaimPerDoc, Works, Post, Doc
    <3> QED BY <2>2, <2>3, <3>1, <3>2, <3>3
  <2> QED BY <1>t, <2>5, <2>6 DEF ClaimInv, ClaimedOnce
<1>5. ASSUME NEW r \in Requests, NEW outcome \in {"rejected", "failed"},
             Rollback(r, outcome)
      PROVE  ClaimInv'
  <2>1. applied' = applied /\ job' = job /\ pc'[r] = outcome
        /\ \A q \in Requests \ {r} : pc'[q] = pc[q]
    BY <1>5, <1>t DEF Rollback, TypeOK
  <2>2. \A d \in Docs : docLock[d] # r => docLock'[d] = docLock[d]
    BY <1>5 DEF Rollback
  <2> QED BY <1>t, <1>d, <2>1, <2>2 DEF ClaimInv, ClaimedOnce, Works, Post, Doc
<1>6. CASE UNCHANGED vars
  BY <1>6, <1>t DEF vars, ClaimInv, ClaimedOnce, Works, Post, Doc
<1> QED
  BY <1>1, <1>2, <1>3, <1>4, <1>5, <1>6
     DEF Next, Step, AlreadyPosted, Short, Fail, DeadlockVictim, Quiescent

\* A document whose claim locks takes effect at most once, however often and
\* however concurrently its request is sent.
THEOREM ClaimedAtMostOnce ==
  ASSUME OneClaimPerDoc
  PROVE  Spec => []ClaimedOnce
<1>1. Init => ClaimInv
  BY InitTypeOK DEF Init, ClaimInv, ClaimedOnce, Works, Docs
<1>2. ClaimInv => ClaimedOnce
  BY DEF ClaimInv
<1> QED BY <1>1, <1>2, NextClaim, PTL DEF Spec

-----------------------------------------------------------------------------
(* Refinement *)

\* Exact postings that never go below zero implement the book: stock and
\* movements change together, once, at the COMMIT.
THEOREM LedgerImplementsBook ==
  ASSUME \A j \in Jobs : Exact(j) /\ NeverBelowZero(j)
  PROVE  Spec => ImplementsBook
<1>1. Init => Book!Init
  BY DEF Init, Book!Init, Outcome
<1>2. /\ LedgerInv /\ StockNeverNegative /\ StockNeverNegative' /\ [Next]_vars
      => [Book!Next]_(Book!bookVars)
  <2> SUFFICES ASSUME LedgerInv, StockNeverNegative, StockNeverNegative', [Next]_vars
               PROVE  [Book!Next]_(Book!bookVars)
    OBVIOUS
  <2>1. ASSUME NEW r \in Requests, Commit(r) PROVE Book!PostDocument(r)
    <3>1. /\ Outcome(r) = "open" /\ Outcome(r)' = "done"
          /\ \A q \in Requests \ {r} : Outcome(q)' = Outcome(q)
      BY <2>1 DEF Commit, Outcome, LedgerInv, TypeOK
    <3>2. \A p \in Products : qty'[p] >= 0 /\ moves'[p] - moves[p] = qty'[p] - qty[p]
      BY <2>1, CommitExact DEF StockNeverNegative, LedgerInv, TypeOK
    <3> QED BY <3>1, <3>2 DEF Book!PostDocument
  <2>2. ASSUME NEW r \in Requests, NEW outcome \in {"rejected", "failed"},
               Rollback(r, outcome), Outcome(r) = "open"
        PROVE  Book!Refuse(r)
    <3>1. Outcome(r)' = "refused" /\ \A q \in Requests \ {r} : Outcome(q)' = Outcome(q)
      BY <2>2 DEF Rollback, Outcome, LedgerInv, TypeOK
    <3> QED BY <2>2, <3>1 DEF Book!Refuse, Rollback
  <2>3. ASSUME NEW r \in Requests, AlreadyPosted(r) \/ Short(r) \/ Fail(r) \/ DeadlockVictim(r)
        PROVE  Book!Refuse(r)
    <3>1. Outcome(r) = "open"
      BY <2>3 DEF AlreadyPosted, Short, Fail, InTransaction, DeadlockVictim, Deadlocked,
                  WaitsFor, Outcome
    <3> QED BY <2>2, <2>3, <3>1 DEF AlreadyPosted, Short, Fail, DeadlockVictim
  <2>4. ASSUME NEW r \in Requests, Receive(r)
        PROVE  Book!Refuse(r) \/ UNCHANGED Book!bookVars
    <3>1. /\ Outcome(r) = "open" /\ Outcome(r)' \in {"open", "refused"}
          /\ \A q \in Requests \ {r} : Outcome(q)' = Outcome(q)
      BY <2>4 DEF Receive, Entry, Outcome, LedgerInv, TypeOK
    <3>2. qty' = qty /\ moves' = moves
      BY <2>4 DEF Receive, rowVars
    <3>3. CASE Outcome(r)' = "refused"
      BY <3>1, <3>2, <3>3 DEF Book!Refuse
    <3>4. CASE Outcome(r)' = "open"
      BY <3>1, <3>2, <3>4 DEF Book!bookVars
    <3> QED BY <3>1, <3>3, <3>4
  <2>5. ASSUME NEW r \in Requests,
               Claim(r) \/ Prefetch(r) \/ ReadLine(r) \/ LockLine(r) \/ Write(r)
        PROVE  UNCHANGED Book!bookVars
    <3>1. \A q \in Requests : Outcome(q)' = Outcome(q)
      BY <2>5 DEF Claim, Prefetch, ReadLine, LockLine, Write, Entry, Again, Outcome,
                  LedgerInv, TypeOK
    <3> QED BY <2>5, <3>1
            DEF Book!bookVars, Claim, Prefetch, ReadLine, LockLine, Write, rowVars
  <2>6. CASE UNCHANGED vars
    BY <2>6 DEF vars, Book!bookVars, Outcome
  <2> QED BY <2>1, <2>3, <2>4, <2>5, <2>6 DEF Next, Step, Quiescent, Book!Next
<1>3. Spec => []LedgerInv /\ []StockNeverNegative
  BY LedgerHolds, NeverNegative
<1> QED BY <1>1, <1>2, <1>3, PTL DEF Spec, ImplementsBook, Book!Spec

-----------------------------------------------------------------------------
(* The lines of entries *)

\* What lines do to an account: nothing if there are none, ...
LEMMA TotalEmpty == ASSUME NEW a PROVE Total(<<>>, a) = 0
<1>1. DOMAIN <<>> = {}
  OBVIOUS
<1> QED BY <1>1, SumEmpty DEF Total

LEMMA ChangeType ==
  ASSUME NEW lines \in Seq(EntryLine), NEW a
  PROVE  /\ IsFiniteSet(DOMAIN lines)
         /\ \A i \in DOMAIN lines : Changes(lines, a)[i] \in Int
         /\ \A i \in DOMAIN lines : Changes(lines, a)[i] = Change(lines[i], a)
<1>1. IsFiniteSet(1..Len(lines)) /\ DOMAIN lines = 1..Len(lines)
  BY FS_Interval
<1>2. \A i \in DOMAIN lines : lines[i] \in EntryLine
  BY ElementOfSeq
<1> QED BY <1>1, <1>2 DEF Changes, Change, EntryLine

LEMMA TotalType == ASSUME NEW lines \in Seq(EntryLine), NEW a PROVE Total(lines, a) \in Int
BY ChangeType, SumSplit DEF Total

\* ... nothing if none is about it, ...
LEMMA TotalNone ==
  ASSUME NEW lines \in Seq(EntryLine), NEW a, \A i \in DOMAIN lines : lines[i].account # a
  PROVE  Total(lines, a) = 0
<1> DEFINE S == DOMAIN lines
<1>1. \A i \in S : Changes(lines, a)[i] = 0
  BY ChangeType DEF Change
<1>2. IsFiniteSet(S)
  BY ChangeType
<1>3. SumFunctionOnSet(Changes(lines, a), S) = 0
  <2> HIDE DEF S
  <2> QED BY <1>1, <1>2, SumZero
<1> QED BY <1>3 DEF Total

\* ... and what the first and the others do.
LEMMA TotalFirst ==
  ASSUME NEW lines \in Seq(EntryLine), lines # <<>>, NEW a
  PROVE  /\ Head(lines) \in EntryLine /\ Tail(lines) \in Seq(EntryLine)
         /\ Total(lines, a) = Change(Head(lines), a) + Total(Tail(lines), a)
<1> DEFINE n == Len(lines) - 1
           f == Changes(lines, a)
           g == Changes(Tail(lines), a)
           h == [i \in 1..n |-> i + 1]
<1>1. n \in Nat /\ DOMAIN lines = 1..n + 1 /\ Head(lines) = lines[1] /\ lines[1] \in EntryLine
  BY EmptySeq, LenProperties, ElementOfSeq
<1>2. /\ Tail(lines) \in Seq(EntryLine) /\ DOMAIN Tail(lines) = 1..n
      /\ \A i \in 1..n : Tail(lines)[i] = lines[i + 1]
  BY HeadTailProperties, LenProperties
<1>3. /\ \A i \in 1..n + 1 : f[i] \in Int /\ f[i] = Change(lines[i], a)
      /\ \A i \in 1..n : g[i] = Change(Tail(lines)[i], a)
      /\ IsFiniteSet(1..n + 1) /\ IsFiniteSet(1..n)
  <2>1. \A i \in 1..n + 1 : f[i] \in Int /\ f[i] = Change(lines[i], a)
    BY <1>1, ChangeType
  <2>2. \A i \in 1..n : g[i] = Change(Tail(lines)[i], a)
    BY <1>2, ChangeType
  <2>3. IsFiniteSet(1..n + 1) /\ IsFiniteSet(1..n)
    <3> HIDE DEF n
    <3> QED BY <1>1, FS_Interval
  <2> QED BY <2>1, <2>2, <2>3
<1> HIDE DEF f, g, n
<1>4. SumFunctionOnSet(f, 1..n + 1) = f[1] + SumFunctionOnSet(f, (1..n + 1) \ {1})
  <2> DEFINE S == 1..n + 1
  <2>1. IsFiniteSet(S) /\ 1 \in S /\ \A i \in S : f[i] \in Int
    BY <1>1, <1>3
  <2> HIDE DEF S
  <2>2. SumFunctionOnSet(f, S) = f[1] + SumFunctionOnSet(f, S \ {1})
    BY <2>1, SumSplit
  <2> QED BY <2>2 DEF S
<1>5. \A i \in 1..n : h[i] = i + 1 /\ f[h[i]] \in Int /\ g[i] = f[h[i]]
  BY <1>1, <1>2, <1>3
<1>6. {h[i] : i \in 1..n} = (1..n + 1) \ {1}
  <2>1. ASSUME NEW k \in (1..n + 1) \ {1} PROVE k - 1 \in 1..n /\ h[k - 1] = k
    BY <1>1, <2>1
  <2>2. \A i \in 1..n : h[i] \in (1..n + 1) \ {1}
    BY <1>1
  <2> HIDE DEF h
  <2> QED BY <2>1, <2>2
<1>7. \A i, k \in 1..n : h[i] = h[k] => i = k
  BY <1>1
<1> HIDE DEF h
<1>8. SumFunctionOnSet(f, {h[i] : i \in 1..n}) = SumFunctionOnSet(g, 1..n)
  <2> DEFINE S == 1..n
  <2>1. /\ IsFiniteSet(S) /\ \A i, k \in S : h[i] = h[k] => i = k
        /\ \A i \in S : f[h[i]] \in Int /\ g[i] = f[h[i]]
    BY <1>3, <1>5, <1>7
  <2> HIDE DEF S
  <2>2. SumFunctionOnSet(f, {h[i] : i \in S}) = SumFunctionOnSet(g, S)
    BY <2>1, SumRenamed
  <2> QED BY <2>2 DEF S
<1>9. Total(lines, a) = SumFunctionOnSet(f, 1..n + 1)
  BY <1>1 DEF Total, f
<1>10. Total(Tail(lines), a) = SumFunctionOnSet(g, 1..n)
  BY <1>2 DEF Total, g
<1>11. f[1] = Change(Head(lines), a)
  BY <1>1, <1>3
<1> QED BY <1>1, <1>2, <1>4, <1>6, <1>8, <1>9, <1>10, <1>11

-----------------------------------------------------------------------------
(* The requests *)

Kinds == {"enter", "post", "reverse", "delete", "charge", "dispose", "remove"}
Asking ==
  [kind : Kinds, doc : Documents, to : {"draft", "posted"}, month : Months, amount : Nat,
   base : Nat, lines : Seq(EntryLine), seen : [Accounts -> Int]]

OnManual == {"enter", "post", "fetch", "lines", "write", "reverse", "delete", "header"}
OnAsset == {"entry", "add", "accumulate", "run", "close"}
OnAccrual == {"recognize", "remove"}

\* What request q asks for makes sense at statement s, and its lines are about accounts
\* of its document.
FitsAt(q, s) ==
  /\ s \in OnManual => q.doc \in Manual
  /\ s \in OnAsset => q.doc \in Assets
  /\ s \in OnAccrual => q.doc \in Accruals
  /\ s \in {"enter", "lines"} => q.kind = "enter"
  /\ s = "post" => q.kind = "post"
  /\ s = "reverse" => q.kind = "reverse"
  /\ s = "fetch" => q.kind \in {"enter", "post", "reverse"}
  /\ s = "write" => q.kind \in {"enter", "post"}
  /\ s \in {"delete", "header"} => q.kind = "delete"
  /\ s \in {"entry", "add"} => q.kind \in {"charge", "dispose"}
  /\ s \in {"accumulate", "run", "recognize"} => q.kind = "charge"
  /\ s = "close" => q.kind = "dispose"
  /\ s \in {"lines", "write", "reverse", "entry", "add", "recognize"} => q.lines # <<>>
  /\ \A i \in DOMAIN q.lines : q.lines[i].account \in Touched(q.doc)

\* One request at a time for a document that is not Shared.
OneAtATime ==
  \A r, q \in Clerks : ~ Idle(r) /\ ~ Idle(q) /\ Subject(r) = Subject(q)
                       /\ Subject(r) \notin Shared => r = q

BooksOK ==
  /\ status \in [Manual -> {"none", "draft", "posted", "reversed", "deleted"}]
  /\ lined \in [Manual -> BOOLEAN]
  /\ ledger \in [Accounts -> Int] /\ balance \in [Accounts -> Int]
  /\ state \in [Schedules -> {"active", "completed", "disposed", "deleted"}]
  /\ used \in [Schedules -> Nat] /\ charged \in [Schedules -> Nat]
  /\ times \in [Schedules -> [Months -> Nat]]

RequestsOK ==
  /\ asked \in [Clerks -> Asking] /\ next \in [Clerks -> Statements] /\ sent \in 0..MaxSent
  /\ \A r \in Clerks : FitsAt(asked[r], next[r])
  /\ OneAtATime

ClerksInv == BooksOK /\ RequestsOK

LEMMA ClerksTyped == ClerksInv => JournalTypeOK
BY DEF ClerksInv, BooksOK, RequestsOK, JournalTypeOK, Asking, Kinds

\* What Accept sends, with what was checked.
Enters(q, s) ==
  /\ q.kind = "enter" /\ s = "enter" /\ q.doc \in Manual /\ q.lines = Lines[q.doc]
  /\ status[q.doc] = "none" /\ Unattended(q.doc)
Posts(q, s) ==
  /\ q.kind = "post" /\ s = "post" /\ q.doc \in Manual /\ q.lines = <<>>
  /\ status[q.doc] = "draft" \/ q.doc \in Shared
Reverses(q, s) ==
  /\ q.kind = "reverse" /\ s = "fetch" /\ q.doc \in Manual /\ q.lines = Lines[q.doc]
  /\ status[q.doc] = "posted" /\ lined[q.doc]
Deletes(q, s) ==
  /\ q.kind = "delete" /\ s = "delete" /\ q.doc \in Manual /\ q.lines = <<>>
  /\ status[q.doc] = "draft" \/ q.doc \in Shared
Charges(q, s) ==
  /\ q.kind = "charge" /\ q.doc \in Schedules
  /\ s = IF q.doc \in Assets THEN "entry" ELSE "recognize"
  /\ state[q.doc] = "active" /\ times[q.doc][q.month] = 0
  /\ q.base = used[q.doc] /\ q.base + q.amount <= Limit[q.doc] /\ q.amount > 0
  /\ q.lines = ChargeLines(q.doc, q.amount)
Disposes(q, s) ==
  /\ q.kind = "dispose" /\ s = "entry" /\ q.doc \in Assets /\ q.amount = 0
  /\ state[q.doc] = "active"
  /\ \E price \in Prices : q.lines = DisposalLines(q.doc, used[q.doc], price)
Removes(q, s) ==
  /\ q.kind = "remove" /\ s = "remove" /\ q.doc \in Accruals /\ q.lines = <<>>
  /\ used[q.doc] = 0
Accepted(r, q, s) ==
  /\ Send(r, q, s)
  /\ q \in Asking /\ FitsAt(q, s) /\ s \in Statements \ {"idle"}
  /\ \/ Enters(q, s) \/ Posts(q, s) \/ Reverses(q, s) \/ Deletes(q, s)
     \/ Charges(q, s) \/ Disposes(q, s) \/ Removes(q, s)

LEMMA AskType ==
  ASSUME NEW kind \in Kinds, NEW d \in Documents
  PROVE  /\ Ask(kind, d) \in Asking /\ Ask(kind, d).kind = kind /\ Ask(kind, d).doc = d
         /\ Ask(kind, d).lines = <<>> /\ Ask(kind, d).amount = 0
<1>1. (CHOOSE p \in Months : TRUE) \in Months
  BY LedgerAssumption
<1>2. <<>> \in Seq(EntryLine)
  BY EmptySeq
<1> QED BY <1>1, <1>2 DEF Ask, Asking

LEMMA RestType == Rest \in Asking /\ Rest.lines = <<>>
<1>1. (CHOOSE d \in Documents : TRUE) \in Documents
  BY LedgerAssumption
<1> QED BY <1>1, AskType DEF Rest, Kinds

\* A request may ask for lines, for a status or for a charge.
LEMMA AskedType ==
  ASSUME NEW q \in Asking, NEW to \in {"draft", "posted"}, NEW p \in Months, NEW n \in Nat,
         NEW base \in Nat, NEW lines \in Seq(EntryLine)
  PROVE  /\ [q EXCEPT !.lines = lines] \in Asking
         /\ [q EXCEPT !.to = to, !.lines = lines] \in Asking
         /\ [q EXCEPT !.month = p, !.amount = n, !.base = base, !.lines = lines] \in Asking
<1>1. [q EXCEPT !.lines = lines] \in Asking
  BY DEF Asking
<1>2. [q EXCEPT !.to = to, !.lines = lines] \in Asking
  BY DEF Asking
<1>3. [q EXCEPT !.month = p, !.amount = n, !.base = base, !.lines = lines] \in Asking
  BY DEF Asking
<1> QED BY <1>1, <1>2, <1>3

\* Lines of a manual entry.
LEMMA LinesType ==
  ASSUME NEW m \in Manual
  PROVE  /\ Lines[m] \in Seq(EntryLine) /\ m \in Documents
         /\ \A i \in DOMAIN Lines[m] : Lines[m][i].account \in Touched(m)
BY LedgerAssumption DEF Touched, Documents

LEMMA LineForType ==
  ASSUME NEW a \in Accounts, NEW n \in Int
  PROVE  /\ n # 0 => LineFor(a, n) \in EntryLine
         /\ LineFor(a, n).account = a /\ LineFor(a, n).amount = n
BY DEF LineFor, EntryLine

LEMMA LineUnlessZeroType ==
  ASSUME NEW a \in Accounts, NEW n \in Int
  PROVE  /\ LineUnlessZero(a, n) \in Seq(EntryLine)
         /\ \A i \in DOMAIN LineUnlessZero(a, n) : LineUnlessZero(a, n)[i].account = a
         /\ n # 0 => LineUnlessZero(a, n) # <<>>
BY LineForType, EmptySeq DEF LineUnlessZero

\* Of two sequences of lines appended.
LEMMA AppendedLines ==
  ASSUME NEW s \in Seq(EntryLine), NEW t \in Seq(EntryLine), NEW A,
         \A i \in DOMAIN s : s[i].account \in A, \A i \in DOMAIN t : t[i].account \in A
  PROVE  /\ s \o t \in Seq(EntryLine) /\ \A i \in DOMAIN (s \o t) : (s \o t)[i].account \in A
         /\ s # <<>> \/ t # <<>> => s \o t # <<>>
BY ConcatProperties, LenProperties, EmptySeq

Joined(s, t, u, v) == ((s \o t) \o u) \o v = s \o ((t \o u) \o v)

\* The order in which sequences of lines are joined does not matter.
LEMMA JoinedLines ==
  \A s, t, u, v \in Seq(EntryLine) : Joined(s, t, u, v)
<1> SUFFICES ASSUME NEW s \in Seq(EntryLine), NEW t \in Seq(EntryLine),
                    NEW u \in Seq(EntryLine), NEW v \in Seq(EntryLine)
             PROVE  ((s \o t) \o u) \o v = s \o ((t \o u) \o v)
  BY DEF Joined
<1> DEFINE w == t \o u
<1>1. w \in Seq(EntryLine)
  BY ConcatProperties
<1>2. (s \o t) \o u = s \o w
  BY ConcatAssociative
<1> HIDE DEF w
<1>3. (s \o w) \o v = s \o (w \o v)
  BY <1>1, ConcatAssociative
<1> QED BY <1>2, <1>3 DEF w

LEMMA DisposalType ==
  ASSUME NEW x \in Assets, NEW accumulated \in Nat, NEW price \in Nat
  PROVE  LET lines == DisposalLines(x, accumulated, price) IN
         /\ lines \in Seq(EntryLine) /\ lines # <<>>
         /\ \A i \in DOMAIN lines : lines[i].account \in Touched(x)
<1> DEFINE result == price - (Cost[x] - accumulated)
           s1 == LineUnlessZero(Credit[x], accumulated)
           s2 == LineUnlessZero(AssetAccount[x], -Cost[x])
           s3 == LineUnlessZero(Proceeds, price)
           s4 == GainOrLoss(result)
<1>1. /\ x \in Schedules /\ x \notin Manual /\ Credit[x] \in Accounts /\ AssetAccount[x] \in Accounts
      /\ Proceeds \in Accounts /\ Gain \in Accounts /\ Loss \in Accounts /\ Cost[x] \in Nat \ {0}
  BY LedgerAssumption DEF Schedules
<1>2. Touched(x) = {Debit[x], Credit[x], AssetAccount[x], Proceeds, Gain, Loss}
  BY <1>1 DEF Touched
<1>3. accumulated \in Int /\ price \in Int /\ result \in Int /\ -result \in Int /\ -Cost[x] \in Int /\ -Cost[x] # 0
  BY <1>1
<1> HIDE DEF result
<1>4. /\ s1 \in Seq(EntryLine) /\ s2 \in Seq(EntryLine) /\ s3 \in Seq(EntryLine) /\ s2 # <<>>
      /\ \A i \in DOMAIN s1 : s1[i].account \in Touched(x)
      /\ \A i \in DOMAIN s2 : s2[i].account \in Touched(x)
      /\ \A i \in DOMAIN s3 : s3[i].account \in Touched(x)
  <2>1. {Credit[x], AssetAccount[x], Proceeds} \subseteq Touched(x)
    BY <1>2
  <2>2. s1 \in Seq(EntryLine) /\ \A i \in DOMAIN s1 : s1[i].account = Credit[x]
    BY <1>1, <1>3, LineUnlessZeroType
  <2>3. /\ s2 \in Seq(EntryLine) /\ \A i \in DOMAIN s2 : s2[i].account = AssetAccount[x]
        /\ s2 # <<>>
    BY <1>1, <1>3, LineUnlessZeroType
  <2>4. s3 \in Seq(EntryLine) /\ \A i \in DOMAIN s3 : s3[i].account = Proceeds
    BY <1>1, <1>3, LineUnlessZeroType
  <2> HIDE DEF s1, s2, s3
  <2> QED BY <2>1, <2>2, <2>3, <2>4
<1>5. s4 \in Seq(EntryLine) /\ \A i \in DOMAIN s4 : s4[i].account \in Touched(x)
  <2> DEFINE other == IF result > 0 THEN Gain ELSE Loss
  <2>1. other \in Accounts /\ other \in Touched(x)
    BY <1>1, <1>2
  <2>2. s4 = LineUnlessZero(other, -result)
    BY DEF GainOrLoss
  <2> HIDE DEF other, s4
  <2> QED BY <1>3, <2>1, <2>2, LineUnlessZeroType
<1>6. DisposalLines(x, accumulated, price) = ((s1 \o s2) \o s3) \o s4
  BY DEF DisposalLines, result
<1> HIDE DEF s1, s2, s3, s4
<1>7. /\ s1 \o s2 \in Seq(EntryLine) /\ s1 \o s2 # <<>>
      /\ \A i \in DOMAIN (s1 \o s2) : (s1 \o s2)[i].account \in Touched(x)
  BY <1>4, AppendedLines
<1>8. /\ (s1 \o s2) \o s3 \in Seq(EntryLine) /\ (s1 \o s2) \o s3 # <<>>
      /\ \A i \in DOMAIN ((s1 \o s2) \o s3) : ((s1 \o s2) \o s3)[i].account \in Touched(x)
  BY <1>4, <1>7, AppendedLines
<1>9. /\ ((s1 \o s2) \o s3) \o s4 \in Seq(EntryLine) /\ ((s1 \o s2) \o s3) \o s4 # <<>>
      /\ \A i \in DOMAIN (((s1 \o s2) \o s3) \o s4) :
            (((s1 \o s2) \o s3) \o s4)[i].account \in Touched(x)
  BY <1>5, <1>8, AppendedLines
<1> QED BY <1>6, <1>9

LEMMA ChargeLinesType ==
  ASSUME NEW x \in Schedules, NEW amount \in Nat \ {0}
  PROVE  LET lines == ChargeLines(x, amount) IN
         /\ lines \in Seq(EntryLine) /\ lines # <<>>
         /\ \A i \in DOMAIN lines : lines[i].account \in Touched(x)
<1>1. Debit[x] \in Accounts /\ Credit[x] \in Accounts /\ x \notin Manual
  BY LedgerAssumption
<1>2. LineFor(Debit[x], amount) \in EntryLine /\ LineFor(Credit[x], -amount) \in EntryLine
  BY <1>1, LineForType
<1>3. LineFor(Debit[x], amount).account = Debit[x] /\ LineFor(Credit[x], -amount).account = Credit[x]
  BY DEF LineFor
<1>4. Debit[x] \in Touched(x) /\ Credit[x] \in Touched(x)
  BY <1>1 DEF Touched
<1> QED BY <1>2, <1>3, <1>4 DEF ChargeLines

\* A month's charge is positive and at most the rest.
LEMMA AmountFacts ==
  ASSUME NEW x \in Schedules, used[x] \in Nat, used[x] < Limit[x]
  PROVE  Amount(x) \in Nat \ {0} /\ used[x] + Amount(x) <= Limit[x]
<1>1. Limit[x] \in Nat /\ used[x] \in 0..Limit[x] - 1
  BY LedgerAssumption
<1>2. Portion[x][used[x]] \in Nat \ {0}
  BY <1>1, LedgerAssumption
<1> QED BY <1>1, <1>2 DEF Amount

LEMMA AcceptFacts ==
  ASSUME ClerksInv, NEW r \in Clerks, Accept(r)
  PROVE  \E q, s : Accepted(r, q, s)
<1>1. ASSUME NEW m \in Manual, NEW to \in {"draft", "posted"}, ReceiveEntry(r, m, to)
      PROVE  \E q, s : Accepted(r, q, s)
  <2> DEFINE q == [Ask("enter", m) EXCEPT !.to = to, !.lines = Lines[m]]
  <2>1. /\ q \in Asking /\ q.kind = "enter" /\ q.doc = m /\ q.lines = Lines[m]
    <3> DEFINE plain == Ask("enter", m)
    <3>1. plain \in Asking /\ plain.kind = "enter" /\ plain.doc = m /\ Lines[m] \in Seq(EntryLine)
      BY AskType, LinesType DEF Kinds
    <3> HIDE DEF plain
    <3>2. [plain EXCEPT !.to = to, !.lines = Lines[m]] \in Asking
      BY <3>1, LedgerAssumption, AskedType
    <3>3. LET e == [plain EXCEPT !.to = to, !.lines = Lines[m]]
          IN  e.kind = "enter" /\ e.doc = m /\ e.lines = Lines[m]
      BY <3>1 DEF Asking
    <3> QED BY <3>2, <3>3 DEF plain
  <2>2. Send(r, q, "enter") /\ status[m] = "none" /\ Unattended(m)
    BY <1>1 DEF ReceiveEntry
  <2> HIDE DEF q
  <2>3. FitsAt(q, "enter")
    BY <2>1, LinesType DEF FitsAt, OnManual, OnAsset, OnAccrual
  <2> QED BY <2>1, <2>2, <2>3 DEF Accepted, Enters, Statements
<1>2. ASSUME NEW m \in Manual, ReceivePost(r, m) PROVE \E q, s : Accepted(r, q, s)
  <2> DEFINE q == Ask("post", m)
  <2>1. q \in Asking /\ q.kind = "post" /\ q.doc = m /\ q.lines = <<>>
    BY AskType, LinesType DEF Kinds
  <2>2. Send(r, q, "post") /\ (status[m] = "draft" \/ m \in Shared)
    BY <1>2 DEF ReceivePost
  <2> HIDE DEF q
  <2>3. FitsAt(q, "post")
    BY <2>1 DEF FitsAt, OnManual, OnAsset, OnAccrual
  <2> QED BY <2>1, <2>2, <2>3 DEF Accepted, Posts, Statements
<1>3. ASSUME NEW m \in Manual, ReceiveReversal(r, m) PROVE \E q, s : Accepted(r, q, s)
  <2> DEFINE q == [Ask("reverse", m) EXCEPT !.lines = Lines[m]]
  <2>1. q \in Asking /\ q.kind = "reverse" /\ q.doc = m /\ q.lines = Lines[m]
    <3> DEFINE plain == Ask("reverse", m)
    <3>1. plain \in Asking /\ plain.kind = "reverse" /\ plain.doc = m /\ Lines[m] \in Seq(EntryLine)
      BY AskType, LinesType DEF Kinds
    <3> HIDE DEF plain
    <3>2. [plain EXCEPT !.lines = Lines[m]] \in Asking
      BY <3>1, AskedType DEF Asking
    <3>3. LET e == [plain EXCEPT !.lines = Lines[m]]
          IN  e.kind = "reverse" /\ e.doc = m /\ e.lines = Lines[m]
      BY <3>1 DEF Asking
    <3> QED BY <3>2, <3>3 DEF plain
  <2>2. Send(r, q, "fetch") /\ status[m] = "posted" /\ lined[m]
    BY <1>3 DEF ReceiveReversal
  <2> HIDE DEF q
  <2>3. FitsAt(q, "fetch")
    BY <2>1, LinesType DEF FitsAt, OnManual, OnAsset, OnAccrual
  <2> QED BY <2>1, <2>2, <2>3 DEF Accepted, Reverses, Statements
<1>4. ASSUME NEW m \in Manual, ReceiveDelete(r, m) PROVE \E q, s : Accepted(r, q, s)
  <2> DEFINE q == Ask("delete", m)
  <2>1. q \in Asking /\ q.kind = "delete" /\ q.doc = m /\ q.lines = <<>>
    BY AskType, LinesType DEF Kinds
  <2>2. Send(r, q, "delete") /\ (status[m] = "draft" \/ m \in Shared)
    BY <1>4 DEF ReceiveDelete
  <2> HIDE DEF q
  <2>3. FitsAt(q, "delete")
    BY <2>1 DEF FitsAt, OnManual, OnAsset, OnAccrual
  <2> QED BY <2>1, <2>2, <2>3 DEF Accepted, Deletes, Statements
<1>5. ASSUME NEW x \in Schedules, NEW p \in Months, ReceiveCharge(r, x, p)
      PROVE  \E q, s : Accepted(r, q, s)
  <2> DEFINE lines == ChargeLines(x, Amount(x))
             q == [Ask("charge", x) EXCEPT !.month = p, !.amount = Amount(x), !.base = used[x],
                     !.lines = lines]
             s == IF x \in Assets THEN "entry" ELSE "recognize"
  <2>1. /\ Send(r, q, s) /\ state[x] = "active" /\ times[x][p] = 0 /\ used[x] < Limit[x]
    BY <1>5 DEF ReceiveCharge
  <2>2. used[x] \in Nat /\ Amount(x) \in Nat \ {0} /\ used[x] + Amount(x) <= Limit[x]
    BY <2>1, AmountFacts DEF ClerksInv, BooksOK
  <2>3. /\ lines \in Seq(EntryLine) /\ lines # <<>>
        /\ \A i \in DOMAIN lines : lines[i].account \in Touched(x)
    BY <2>2, ChargeLinesType
  <2>4. x \in Documents
    BY DEF Documents
  <2> HIDE DEF lines
  <2>5. /\ q \in Asking /\ q.kind = "charge" /\ q.doc = x /\ q.lines = lines /\ q.month = p
        /\ q.amount = Amount(x) /\ q.base = used[x]
    <3> DEFINE plain == Ask("charge", x)
               e == [plain EXCEPT !.month = p, !.amount = Amount(x), !.base = used[x], !.lines = lines]
    <3>1. plain \in Asking /\ plain.kind = "charge" /\ plain.doc = x
      BY <2>4, AskType DEF Kinds
    <3> HIDE DEF plain
    <3>2. e \in Asking
      <4>1. plain.to \in {"draft", "posted"}
        BY <3>1 DEF Asking
      <4> QED BY <2>2, <2>3, <3>1, <4>1, AskedType
    <3>3. /\ e.kind = "charge" /\ e.doc = x /\ e.lines = lines /\ e.month = p
          /\ e.amount = Amount(x) /\ e.base = used[x]
      BY <3>1 DEF Asking
    <3> QED BY <3>2, <3>3 DEF plain
  <2> HIDE DEF q
  <2>6. /\ s \in {"entry", "recognize"} /\ (s = "entry" => x \in Assets)
        /\ (s = "recognize" => x \in Accruals)
    BY DEF Schedules
  <2>7. FitsAt(q, s)
    BY <2>3, <2>5, <2>6 DEF FitsAt, OnManual, OnAsset, OnAccrual
  <2>8. Charges(q, s)
    BY <2>1, <2>2, <2>5 DEF Charges, lines
  <2> QED BY <2>1, <2>5, <2>6, <2>7, <2>8 DEF Accepted, Statements
<1>6. ASSUME NEW x \in Assets, NEW price \in Prices, ReceiveDisposal(r, x, price)
      PROVE  \E q, s : Accepted(r, q, s)
  <2> DEFINE lines == DisposalLines(x, used[x], price)
             q == [Ask("dispose", x) EXCEPT !.lines = lines]
  <2>1. Send(r, q, "entry") /\ state[x] = "active"
    BY <1>6 DEF ReceiveDisposal
  <2>2. /\ lines \in Seq(EntryLine) /\ lines # <<>>
        /\ \A i \in DOMAIN lines : lines[i].account \in Touched(x)
    <3>1. used[x] \in Nat /\ price \in Nat
      BY LedgerAssumption DEF ClerksInv, BooksOK, Schedules
    <3> QED BY <3>1, DisposalType
  <2>3. x \in Documents
    BY DEF Documents, Schedules
  <2> HIDE DEF lines
  <2>4. q \in Asking /\ q.kind = "dispose" /\ q.doc = x /\ q.lines = lines /\ q.amount = 0
    <3> DEFINE plain == Ask("dispose", x)
    <3>1. plain \in Asking /\ plain.kind = "dispose" /\ plain.doc = x /\ plain.amount = 0
      BY <2>3, AskType DEF Kinds
    <3> HIDE DEF plain
    <3>2. [plain EXCEPT !.lines = lines] \in Asking
      BY <2>2, <3>1, AskedType DEF Asking
    <3>3. LET e == [plain EXCEPT !.lines = lines]
          IN  e.kind = "dispose" /\ e.doc = x /\ e.lines = lines /\ e.amount = 0
      BY <3>1 DEF Asking
    <3> QED BY <3>2, <3>3 DEF plain
  <2> HIDE DEF q
  <2>5. FitsAt(q, "entry")
    BY <2>2, <2>4 DEF FitsAt, OnManual, OnAsset, OnAccrual
  <2>6. Disposes(q, "entry")
    BY <2>1, <2>4 DEF Disposes, lines
  <2> QED BY <2>1, <2>4, <2>5, <2>6 DEF Accepted, Statements
<1>7. ASSUME NEW x \in Accruals, ReceiveRemoval(r, x) PROVE \E q, s : Accepted(r, q, s)
  <2> DEFINE q == Ask("remove", x)
  <2>1. Send(r, q, "remove") /\ used[x] = 0
    BY <1>7 DEF ReceiveRemoval
  <2>2. x \in Documents
    BY DEF Documents, Schedules
  <2>3. q \in Asking /\ q.kind = "remove" /\ q.doc = x /\ q.lines = <<>>
    BY <2>2, AskType DEF Kinds
  <2> HIDE DEF q
  <2>4. FitsAt(q, "remove")
    BY <2>3 DEF FitsAt, OnManual, OnAsset, OnAccrual
  <2> QED BY <2>1, <2>3, <2>4 DEF Accepted, Removes, Statements
<1> QED BY <1>1, <1>2, <1>3, <1>4, <1>5, <1>6, <1>7 DEF Accept

-----------------------------------------------------------------------------
(* Steps of one request *)

Others(r) == \A q \in Clerks \ {r} : next'[q] = next[q] /\ asked'[q] = asked[q]

LEMMA RequestFacts ==
  ASSUME ClerksInv, NEW r \in Clerks
  PROVE  /\ asked[r] \in Asking /\ next[r] \in Statements /\ FitsAt(asked[r], next[r])
         /\ Subject(r) = asked[r].doc /\ asked[r].doc \in Documents
         /\ asked[r].lines \in Seq(EntryLine) /\ asked[r].kind \in Kinds
         /\ asked[r].to \in {"draft", "posted"} /\ asked[r].month \in Months
         /\ asked[r].amount \in Nat /\ asked[r].base \in Nat /\ asked[r].seen \in [Accounts -> Int]
BY DEF ClerksInv, RequestsOK, Asking, Subject

LEMMA AcceptedFacts ==
  ASSUME ClerksInv, NEW r \in Clerks, NEW q, NEW s, Accepted(r, q, s)
  PROVE  /\ Idle(r) /\ next'[r] = s /\ asked'[r] = q /\ Others(r)
         /\ q.doc \notin Shared => Unattended(q.doc)
         /\ UNCHANGED <<entryVars, bookVars, scheduleVars>>
<1>1. /\ Idle(r) /\ next' = [next EXCEPT ![r] = s] /\ asked' = [asked EXCEPT ![r] = q]
      /\ Alone(q.doc) /\ UNCHANGED <<entryVars, bookVars, scheduleVars>>
  BY DEF Accepted, Send, Goto
<1>2. next \in [Clerks -> Statements] /\ asked \in [Clerks -> Asking]
  BY DEF ClerksInv, RequestsOK
<1> QED BY <1>1, <1>2 DEF Others, Alone

LEMMA AnswerFacts ==
  ASSUME ClerksInv, NEW r \in Clerks, Answer(r)
  PROVE  next'[r] = "idle" /\ asked'[r] = Rest /\ Others(r)
<1>1. next' = [next EXCEPT ![r] = "idle"] /\ asked' = [asked EXCEPT ![r] = Rest]
  BY DEF Answer, Goto
<1>2. next \in [Clerks -> Statements] /\ asked \in [Clerks -> Asking]
  BY DEF ClerksInv, RequestsOK
<1> QED BY <1>1, <1>2 DEF Others

LEMMA GotoFacts ==
  ASSUME ClerksInv, NEW r \in Clerks, NEW s, Goto(r, s), UNCHANGED asked
  PROVE  next'[r] = s /\ asked'[r] = asked[r] /\ Others(r)
BY DEF Goto, Others, ClerksInv, RequestsOK

\* The requests stay in order when one is received, ...
LEMMA AcceptedKeeps ==
  ASSUME ClerksInv, NEW r \in Clerks, NEW q, NEW s, Accepted(r, q, s)
  PROVE  RequestsOK'
<1>1. /\ Idle(r) /\ next'[r] = s /\ asked'[r] = q /\ Others(r) /\ FitsAt(q, s)
      /\ q.doc \notin Shared => Unattended(q.doc)
  BY AcceptedFacts DEF Accepted
<1>2. \A t \in Clerks : FitsAt(asked'[t], next'[t])
  BY <1>1 DEF Others, ClerksInv, RequestsOK
<1>3. OneAtATime'
  BY <1>1 DEF Others, ClerksInv, RequestsOK, OneAtATime, Idle, Subject, Unattended
<1>4. asked' \in [Clerks -> Asking] /\ next' \in [Clerks -> Statements] /\ sent' \in 0..MaxSent
  <2>1. /\ next' = [next EXCEPT ![r] = s] /\ asked' = [asked EXCEPT ![r] = q]
        /\ q \in Asking /\ s \in Statements /\ sent < MaxSent /\ sent' = sent + 1
    BY DEF Accepted, Send, Goto
  <2>2. next \in [Clerks -> Statements] /\ asked \in [Clerks -> Asking] /\ sent \in 0..MaxSent
    BY DEF ClerksInv, RequestsOK
  <2>3. sent' \in 0..MaxSent
    BY <2>1, <2>2, LedgerAssumption
  <2> QED BY <2>1, <2>2, <2>3
<1> QED BY <1>2, <1>3, <1>4 DEF FitsAt, RequestsOK

\* ... answered ...
LEMMA AnswerKeeps ==
  ASSUME ClerksInv, NEW r \in Clerks, Answer(r)
  PROVE  RequestsOK'
<1>1. next'[r] = "idle" /\ asked'[r] = Rest /\ Others(r)
  BY AnswerFacts
<1>2. FitsAt(Rest, "idle")
  BY RestType DEF FitsAt, OnManual, OnAsset, OnAccrual
<1>3. \A t \in Clerks : FitsAt(asked'[t], next'[t])
  BY <1>1, <1>2 DEF Others, ClerksInv, RequestsOK
<1>4. OneAtATime'
  BY <1>1 DEF Others, ClerksInv, RequestsOK, OneAtATime, Idle, Subject
<1>5. asked' \in [Clerks -> Asking] /\ next' \in [Clerks -> Statements] /\ sent' \in 0..MaxSent
  BY RestType DEF Answer, Goto, ClerksInv, RequestsOK, Statements
<1> QED BY <1>3, <1>4, <1>5 DEF FitsAt, RequestsOK

\* ... or goes on.
LEMMA GoesOn ==
  ASSUME ClerksInv, NEW r \in Clerks, NEW q \in Asking, NEW s \in Statements, UNCHANGED sent,
         asked' = [asked EXCEPT ![r] = q], next' = [next EXCEPT ![r] = s],
         next[r] # "idle", q.doc = Subject(r), FitsAt(q, s)
  PROVE  RequestsOK' /\ Others(r) /\ asked'[r] = q /\ next'[r] = s
<1>1. /\ Others(r) /\ asked'[r] = q /\ next'[r] = s /\ sent' \in 0..MaxSent
      /\ asked' \in [Clerks -> Asking] /\ next' \in [Clerks -> Statements]
  BY DEF Others, ClerksInv, RequestsOK
<1>2. \A t \in Clerks : FitsAt(asked'[t], next'[t])
  BY <1>1 DEF Others, ClerksInv, RequestsOK
<1>3. \A t \in Clerks : Subject(t)' = Subject(t) /\ (Idle(t)' => Idle(t) \/ t = r)
  BY <1>1 DEF Others, Idle, Subject
<1>4. \A t \in Clerks : ~ Idle(t)' => ~ Idle(t)
  BY <1>1 DEF Others, Idle
<1>5. OneAtATime'
  BY <1>3, <1>4 DEF ClerksInv, RequestsOK, OneAtATime
<1> QED BY <1>1, <1>2, <1>5 DEF FitsAt, RequestsOK

LEMMA GoesStraightOn ==
  ASSUME ClerksInv, NEW r \in Clerks, NEW s \in Statements, Goto(r, s), UNCHANGED <<asked, sent>>,
         next[r] # "idle", FitsAt(asked[r], s)
  PROVE  RequestsOK' /\ Others(r) /\ asked'[r] = asked[r] /\ next'[r] = s
<1>1. asked' = [asked EXCEPT ![r] = asked[r]]
  BY DEF ClerksInv, RequestsOK
<1> QED BY <1>1, RequestFacts, GoesOn DEF Goto

-----------------------------------------------------------------------------
(* The requests stay in order in every step *)

LEMMA AppliedType ==
  ASSUME NEW lines \in Seq(EntryLine), NEW f \in [Accounts -> Int]
  PROVE  [a \in Accounts |-> f[a] + Total(lines, a)] \in [Accounts -> Int]
BY TotalType

LEMMA ClerksEnter ==
  ASSUME ClerksInv, NEW r \in Clerks, InsertEntry(r) PROVE ClerksInv'
<1>1. /\ next[r] = "enter" /\ Goto(r, "fetch") /\ asked[r].to \in {"draft", "posted"}
      /\ FitsAt(asked[r], "enter")
  BY RequestFacts DEF InsertEntry
<1>2. FitsAt(asked[r], "fetch")
  BY <1>1 DEF FitsAt, OnManual, OnAsset, OnAccrual
<1>3. RequestsOK'
  BY <1>1, <1>2, GoesStraightOn DEF InsertEntry, Statements
<1>4. BooksOK'
  BY <1>1 DEF InsertEntry, BooksOK, ClerksInv, bookVars, scheduleVars
<1> QED BY <1>3, <1>4 DEF ClerksInv

LEMMA ClerksPost ==
  ASSUME ClerksInv, NEW r \in Clerks, SetPosted(r) PROVE ClerksInv'
<1>1. next[r] = "post" /\ Goto(r, "fetch") /\ FitsAt(asked[r], "post")
  BY RequestFacts DEF SetPosted
<1>2. FitsAt(asked[r], "fetch")
  BY <1>1 DEF FitsAt, OnManual, OnAsset, OnAccrual
<1>3. RequestsOK'
  BY <1>1, <1>2, GoesStraightOn DEF SetPosted, Statements
<1>4. BooksOK'
  BY <1>1 DEF SetPosted, BooksOK, ClerksInv, bookVars, scheduleVars
<1> QED BY <1>3, <1>4 DEF ClerksInv

\* What FetchAccounts does: nothing if there are no lines.
LEMMA FetchFacts ==
  ASSUME ClerksInv, NEW r \in Clerks, FetchAccounts(r)
  PROVE  /\ next[r] = "fetch" /\ UNCHANGED <<entryVars, bookVars, scheduleVars>>
         /\ asked[r].kind \in {"enter", "post", "reverse"} /\ asked[r].doc \in Manual
         /\ \/ Answer(r)
            \/ \E lines \in Seq(EntryLine) :
                 LET q == [asked[r] EXCEPT !.seen = balance, !.lines = lines]
                 IN  /\ lines = IF asked[r].kind = "post" THEN LinesOf(Subject(r)) ELSE asked[r].lines
                     /\ asked' = [asked EXCEPT ![r] = q] /\ q \in Asking /\ lines # <<>>
                     /\ q.kind = asked[r].kind /\ q.doc = asked[r].doc /\ q.lines = lines
                     /\ q.seen = balance /\ q.to = asked[r].to
                     /\ \E s \in {"lines", "write", "reverse"} :
                          /\ next' = [next EXCEPT ![r] = s]
                          /\ s = "lines" <=> asked[r].kind = "enter"
                          /\ s = "write" <=> asked[r].kind = "post"
                     /\ UNCHANGED sent
                     /\ \A i \in DOMAIN lines : lines[i].account \in Touched(asked[r].doc)
<1> DEFINE lines == IF asked[r].kind = "post" THEN LinesOf(Subject(r)) ELSE asked[r].lines
           q == [asked[r] EXCEPT !.seen = balance, !.lines = lines]
<1>1. /\ next[r] = "fetch" /\ UNCHANGED <<entryVars, bookVars, scheduleVars>>
      /\ FitsAt(asked[r], "fetch")
  BY RequestFacts DEF FetchAccounts
<1>2. asked[r].kind \in {"enter", "post", "reverse"} /\ asked[r].doc \in Manual
  BY <1>1 DEF FitsAt, OnManual
<1>3. /\ lines \in Seq(EntryLine)
      /\ \A i \in DOMAIN lines : lines[i].account \in Touched(asked[r].doc)
  <2>1. CASE asked[r].kind = "post"
    <3>1. lines = <<>> \/ lines = Lines[asked[r].doc]
      BY <2>1 DEF LinesOf, Subject
    <3> HIDE DEF lines
    <3>2. ASSUME lines = <<>>
          PROVE  lines \in Seq(EntryLine) /\ DOMAIN lines = {}
      BY <3>2, EmptySeq
    <3> QED BY <1>2, <3>1, <3>2, LinesType
  <2>2. CASE asked[r].kind # "post"
    BY <1>1, <2>2, RequestFacts DEF FitsAt
  <2> QED BY <2>1, <2>2
<1>4. CASE lines = <<>>
  BY <1>1, <1>2, <1>4 DEF FetchAccounts
<1>5. CASE lines # <<>>
  <2>1. /\ asked' = [asked EXCEPT ![r].seen = balance, ![r].lines = lines] /\ UNCHANGED sent
        /\ Goto(r, CASE asked[r].kind = "enter" -> "lines" [] asked[r].kind = "post" -> "write"
                     [] OTHER -> "reverse")
    BY <1>5 DEF FetchAccounts
  <2>2. asked[r] \in Asking /\ balance \in [Accounts -> Int]
    BY RequestFacts DEF ClerksInv, BooksOK
  <2> HIDE DEF lines
  <2>3. /\ q \in Asking /\ q.kind = asked[r].kind /\ q.doc = asked[r].doc /\ q.lines = lines
        /\ q.seen = balance /\ q.to = asked[r].to
    <3> DEFINE old == asked[r]
               new == [old EXCEPT !.seen = balance, !.lines = lines]
    <3> HIDE DEF old
    <3>1. old \in Asking
      BY <2>2 DEF old
    <3>2. /\ new \in Asking /\ new.kind = old.kind /\ new.doc = old.doc /\ new.lines = lines
          /\ new.seen = balance /\ new.to = old.to
      BY <1>3, <2>2, <3>1 DEF Asking
    <3> QED BY <3>2 DEF old
  <2>4. asked' = [asked EXCEPT ![r] = q]
    BY <2>1
  <2>5. \E s \in {"lines", "write", "reverse"} :
          /\ next' = [next EXCEPT ![r] = s]
          /\ s = "lines" <=> asked[r].kind = "enter"
          /\ s = "write" <=> asked[r].kind = "post"
    BY <1>2, <2>1 DEF Goto
  <2> HIDE DEF q
  <2>6. lines = IF asked[r].kind = "post" THEN LinesOf(Subject(r)) ELSE asked[r].lines
    BY DEF lines
  <2> QED BY <1>1, <1>2, <1>3, <1>5, <2>1, <2>3, <2>4, <2>5, <2>6 DEF q
<1> QED BY <1>4, <1>5

LEMMA ClerksFetch ==
  ASSUME ClerksInv, NEW r \in Clerks, FetchAccounts(r) PROVE ClerksInv'
<1>1. BooksOK'
  BY FetchFacts DEF BooksOK, ClerksInv, entryVars, bookVars, scheduleVars
<1>2. CASE Answer(r)
  BY <1>1, <1>2, AnswerKeeps DEF ClerksInv
<1>3. CASE ~ Answer(r)
  <2> DEFINE Q(lines) == [asked[r] EXCEPT !.seen = balance, !.lines = lines]
  <2>5. PICK lines \in Seq(EntryLine) :
          /\ asked' = [asked EXCEPT ![r] = Q(lines)] /\ Q(lines) \in Asking /\ lines # <<>>
          /\ Q(lines).kind = asked[r].kind /\ Q(lines).doc = asked[r].doc /\ Q(lines).lines = lines
          /\ \E s \in {"lines", "write", "reverse"} :
               /\ next' = [next EXCEPT ![r] = s]
               /\ s = "lines" <=> asked[r].kind = "enter"
               /\ s = "write" <=> asked[r].kind = "post"
          /\ UNCHANGED sent
          /\ \A i \in DOMAIN lines : lines[i].account \in Touched(asked[r].doc)
    BY <1>3, FetchFacts
  <2> DEFINE q == Q(lines)
  <2> HIDE DEF Q
  <2>1. PICK s \in {"lines", "write", "reverse"} :
          /\ next' = [next EXCEPT ![r] = s]
          /\ s = "lines" <=> asked[r].kind = "enter"
          /\ s = "write" <=> asked[r].kind = "post"
    BY <2>5
  <2>2. next[r] = "fetch" /\ asked[r].kind \in {"enter", "post", "reverse"} /\ asked[r].doc \in Manual
    BY FetchFacts
  <2>3. FitsAt(q, s)
    BY <2>1, <2>2, <2>5 DEF FitsAt, OnManual, OnAsset, OnAccrual
  <2>4. q.doc = Subject(r) /\ s \in Statements
    BY <2>1, <2>5 DEF Statements, Subject
  <2> HIDE DEF q
  <2>6. RequestsOK'
    BY <2>1, <2>2, <2>3, <2>4, <2>5, GoesOn DEF q
  <2> QED BY <1>1, <2>6 DEF ClerksInv
<1> QED BY <1>2, <1>3

LEMMA ClerksLines ==
  ASSUME ClerksInv, NEW r \in Clerks, InsertLines(r) PROVE ClerksInv'
<1>1. next[r] = "lines" /\ FitsAt(asked[r], "lines")
  BY RequestFacts DEF InsertLines
<1>2. BooksOK'
  BY DEF InsertLines, BooksOK, ClerksInv, bookVars, scheduleVars
<1>3. FitsAt(asked[r], "write")
  BY <1>1 DEF FitsAt, OnManual, OnAsset, OnAccrual
<1>4. Answer(r) \/ (Goto(r, "write") /\ UNCHANGED <<asked, sent>>)
  BY DEF InsertLines
<1>5. RequestsOK'
  BY <1>1, <1>3, <1>4, AnswerKeeps, GoesStraightOn DEF Statements
<1> QED BY <1>2, <1>5 DEF ClerksInv

\* What is left of the lines after the first, if there is more than one.
LEMMA TailFacts ==
  ASSUME NEW lines \in Seq(EntryLine), lines # <<>>
  PROVE  /\ Len(lines) \in Nat \ {0} /\ Head(lines) \in EntryLine /\ Tail(lines) \in Seq(EntryLine)
         /\ Tail(lines) = <<>> <=> Len(lines) = 1
         /\ Head(lines) = lines[1] /\ 1 \in DOMAIN lines
         /\ \A i \in DOMAIN Tail(lines) : i + 1 \in DOMAIN lines /\ Tail(lines)[i] = lines[i + 1]
<1>1. Len(lines) \in Nat \ {0} /\ DOMAIN lines = 1..Len(lines)
  BY EmptySeq, LenProperties
<1>2. /\ Tail(lines) \in Seq(EntryLine) /\ Head(lines) \in EntryLine /\ Head(lines) = lines[1]
      /\ Len(Tail(lines)) = Len(lines) - 1
      /\ \A i \in 1..Len(Tail(lines)) : Tail(lines)[i] = lines[i + 1]
  BY HeadTailProperties
<1>3. DOMAIN Tail(lines) = 1..Len(Tail(lines))
  BY <1>2, LenProperties
<1>4. Tail(lines) = <<>> <=> Len(Tail(lines)) = 0
  BY <1>2, EmptySeq
<1> QED BY <1>1, <1>2, <1>3, <1>4

\* What WriteAccount does if there is more than one line.
LEMMA WriteFacts ==
  ASSUME ClerksInv, NEW r \in Clerks, WriteAccount(r)
  PROVE  LET l == Head(asked[r].lines)
             new == asked[r].seen[l.account] + Sign(l.account) * l.amount
             q == [asked[r] EXCEPT !.lines = Tail(@), !.seen[l.account] = new]
         IN  /\ next[r] = "write" /\ asked[r].doc \in Manual /\ asked[r].kind \in {"enter", "post"}
             /\ l \in EntryLine /\ new \in Int
             /\ balance' = [balance EXCEPT ![l.account] = new]
             /\ UNCHANGED <<entryVars, ledger, scheduleVars>>
             /\ \/ Answer(r) /\ Len(asked[r].lines) = 1
                \/ /\ Len(asked[r].lines) # 1
                   /\ asked' = [asked EXCEPT ![r] = q] /\ UNCHANGED <<next, sent>>
                   /\ q \in Asking /\ q.lines = Tail(asked[r].lines) /\ q.doc = asked[r].doc
                   /\ q.kind = asked[r].kind /\ q.to = asked[r].to
                   /\ q.seen = [asked[r].seen EXCEPT ![l.account] = new]
                   /\ FitsAt(q, "write")
<1> DEFINE old == asked[r]
           l == Head(old.lines)
           new == old.seen[l.account] + Sign(l.account) * l.amount
           q == [old EXCEPT !.lines = Tail(@), !.seen[l.account] = new]
<1>1. /\ next[r] = "write" /\ FitsAt(old, "write")
      /\ balance' = [balance EXCEPT ![l.account] = new]
      /\ UNCHANGED <<entryVars, ledger, scheduleVars>>
  BY RequestFacts DEF WriteAccount
<1>2. /\ old.doc \in Manual /\ old.kind \in {"enter", "post"} /\ old.lines # <<>>
      /\ \A i \in DOMAIN old.lines : old.lines[i].account \in Touched(old.doc)
  BY <1>1 DEF FitsAt, OnManual
<1>3. /\ old \in Asking /\ old.lines \in Seq(EntryLine) /\ old.seen \in [Accounts -> Int]
  BY RequestFacts
<1>4. l \in EntryLine /\ l.account \in Accounts /\ l.amount \in Int
  <2>1. l \in EntryLine
    BY <1>2, <1>3, TailFacts
  <2> QED BY <2>1 DEF EntryLine
<1>5. new \in Int
  BY <1>3, <1>4 DEF Sign
<1>6. CASE Len(old.lines) = 1
  BY <1>1, <1>2, <1>4, <1>5, <1>6 DEF WriteAccount
<1>7. CASE Len(old.lines) # 1
  <2>1. asked' = [asked EXCEPT ![r].lines = Tail(@), ![r].seen[l.account] = new] /\ UNCHANGED <<next, sent>>
    BY <1>7 DEF WriteAccount
  <2>2. asked' = [asked EXCEPT ![r] = q]
    BY <2>1
  <2> HIDE DEF new, l
  <2>3. Tail(old.lines) \in Seq(EntryLine) /\ Tail(old.lines) # <<>>
    BY <1>2, <1>3, <1>7, TailFacts
  <2>4. \A i \in DOMAIN Tail(old.lines) : Tail(old.lines)[i].account \in Touched(old.doc)
    BY <1>2, <1>3, TailFacts
  <2>5. /\ q \in Asking /\ q.lines = Tail(old.lines) /\ q.doc = old.doc /\ q.kind = old.kind
        /\ q.to = old.to /\ q.seen = [old.seen EXCEPT ![l.account] = new]
    <3> HIDE DEF old
    <3> QED BY <1>3, <1>5, <2>3 DEF Asking
  <2> HIDE DEF q
  <2>6. FitsAt(q, "write")
    BY <1>2, <2>3, <2>4, <2>5 DEF FitsAt, OnManual, OnAsset, OnAccrual
  <2> QED BY <1>1, <1>2, <1>4, <1>5, <1>7, <2>1, <2>2, <2>5, <2>6 DEF q, l, new
<1> QED BY <1>6, <1>7

LEMMA ClerksWrite ==
  ASSUME ClerksInv, NEW r \in Clerks, WriteAccount(r) PROVE ClerksInv'
<1> DEFINE l == Head(asked[r].lines)
           new == asked[r].seen[l.account] + Sign(l.account) * l.amount
           q == [asked[r] EXCEPT !.lines = Tail(@), !.seen[l.account] = new]
<1>1. /\ next[r] = "write" /\ asked[r].doc \in Manual
      /\ l \in EntryLine /\ new \in Int
      /\ balance' = [balance EXCEPT ![l.account] = new]
      /\ UNCHANGED <<entryVars, ledger, scheduleVars>>
      /\ \/ Answer(r)
         \/ /\ asked' = [asked EXCEPT ![r] = q] /\ UNCHANGED <<next, sent>>
            /\ q \in Asking /\ q.doc = asked[r].doc /\ FitsAt(q, "write")
  BY WriteFacts
<1> HIDE DEF new, l, q
<1>2. BooksOK'
  BY <1>1 DEF BooksOK, ClerksInv, entryVars, scheduleVars
<1>3. CASE Answer(r)
  BY <1>2, <1>3, AnswerKeeps DEF ClerksInv
<1>4. CASE ~ Answer(r)
  <2>1. next' = [next EXCEPT ![r] = "write"]
    BY <1>1, <1>4 DEF ClerksInv, RequestsOK
  <2>2. RequestsOK'
    BY <1>1, <1>4, <2>1, GoesOn DEF Statements, Subject
  <2> QED BY <1>2, <2>2 DEF ClerksInv
<1> QED BY <1>3, <1>4

LEMMA ClerksReverse ==
  ASSUME ClerksInv, NEW r \in Clerks, ReverseEntry(r) PROVE ClerksInv'
<1> DEFINE lines == asked[r].lines
           known == asked[r].seen
<1>1. lines \in Seq(EntryLine) /\ known \in [Accounts -> Int]
  BY RequestFacts
<1> HIDE DEF lines, known
<1>2. \A a : Total(lines, a) \in Int
  BY <1>1, TotalType
<1>3. /\ ledger' = [a \in Accounts |-> ledger[a] - Total(lines, a)]
      /\ balance' = [a \in Accounts |->
           IF \E i \in DOMAIN lines : lines[i].account = a
           THEN known[a] - Sign(a) * Total(lines, a) ELSE balance[a]]
      /\ status' = [status EXCEPT ![Subject(r)] = IF @ = "deleted" THEN @ ELSE "reversed"]
      /\ Answer(r) /\ UNCHANGED <<lined, scheduleVars>>
  BY DEF ReverseEntry, lines, known
<1>4. ledger' \in [Accounts -> Int] /\ balance' \in [Accounts -> Int]
  BY <1>1, <1>2, <1>3 DEF ClerksInv, BooksOK, Sign
<1>5. BooksOK'
  BY <1>3, <1>4 DEF ClerksInv, BooksOK, scheduleVars
<1> QED BY <1>3, <1>5, AnswerKeeps DEF ClerksInv

LEMMA ClerksDelete ==
  ASSUME ClerksInv, NEW r \in Clerks, DeleteLines(r) PROVE ClerksInv'
<1>1. next[r] = "delete" /\ Goto(r, "header") /\ FitsAt(asked[r], "delete")
  BY RequestFacts DEF DeleteLines
<1>2. FitsAt(asked[r], "header")
  BY <1>1 DEF FitsAt, OnManual, OnAsset, OnAccrual
<1>3. RequestsOK'
  BY <1>1, <1>2, GoesStraightOn DEF DeleteLines, Statements
<1>4. BooksOK'
  BY <1>1 DEF DeleteLines, BooksOK, ClerksInv, bookVars, scheduleVars
<1> QED BY <1>3, <1>4 DEF ClerksInv

LEMMA ClerksHeader ==
  ASSUME ClerksInv, NEW r \in Clerks, DeleteEntry(r) PROVE ClerksInv'
<1>1. BooksOK'
  BY DEF DeleteEntry, BooksOK, ClerksInv, bookVars, scheduleVars
<1> QED BY <1>1, AnswerKeeps DEF ClerksInv, DeleteEntry

LEMMA ClerksAbandon ==
  ASSUME ClerksInv, NEW r \in Clerks, Abandon(r) PROVE ClerksInv'
<1>1. BooksOK'
  BY DEF Abandon, BooksOK, ClerksInv, entryVars, bookVars, scheduleVars
<1> QED BY <1>1, AnswerKeeps DEF ClerksInv, Abandon

LEMMA AddedType ==
  ASSUME NEW f \in [Schedules -> Nat], NEW x \in Schedules, NEW n \in Nat, NEW base \in Nat
  PROVE  /\ [f EXCEPT ![x] = @ + n] \in [Schedules -> Nat]
         /\ [f EXCEPT ![x] = base + n] \in [Schedules -> Nat]
OBVIOUS

LEMMA ClerksPostEntry ==
  ASSUME ClerksInv, NEW r \in Clerks, PostEntry(r) PROVE ClerksInv'
<1>1. /\ next[r] = "entry" /\ Goto(r, "add") /\ FitsAt(asked[r], "entry")
      /\ asked[r].lines \in Seq(EntryLine) /\ asked[r].amount \in Nat
      /\ UNCHANGED <<entryVars, balance, state, used, times, asked, sent>>
      /\ ledger' = [a \in Accounts |-> ledger[a] + Total(asked[r].lines, a)]
      /\ charged' = [charged EXCEPT ![Subject(r)] = @ + asked[r].amount]
      /\ Subject(r) \in Schedules
  BY RequestFacts DEF PostEntry, FitsAt, OnAsset, Schedules
<1>2. FitsAt(asked[r], "add")
  BY <1>1 DEF FitsAt, OnManual, OnAsset, OnAccrual
<1>3. RequestsOK'
  BY <1>1, <1>2, GoesStraightOn DEF Statements
<1>4. ledger' \in [Accounts -> Int]
  BY <1>1, AppliedType DEF ClerksInv, BooksOK
<1>5. charged' \in [Schedules -> Nat]
  BY <1>1, AddedType DEF BooksOK, ClerksInv
<1>6. BooksOK'
  BY <1>1, <1>4, <1>5 DEF BooksOK, ClerksInv, entryVars
<1> QED BY <1>3, <1>6 DEF ClerksInv

\* What AddToAccount does.
LEMMA AddFacts ==
  ASSUME ClerksInv, NEW r \in Clerks, AddToAccount(r)
  PROVE  LET l == Head(asked[r].lines)
             q == [asked[r] EXCEPT !.lines = Tail(@)]
         IN  /\ next[r] = "add" /\ asked[r].doc \in Assets /\ l \in EntryLine
             /\ asked[r].kind \in {"charge", "dispose"}
             /\ balance' = [balance EXCEPT ![l.account] = @ + l.amount]
             /\ asked' = [asked EXCEPT ![r] = q] /\ q \in Asking
             /\ q.lines = Tail(asked[r].lines) /\ q.doc = asked[r].doc /\ q.kind = asked[r].kind
             /\ q.amount = asked[r].amount /\ q.base = asked[r].base /\ q.month = asked[r].month
             /\ \E s \in {"add", "accumulate", "close"} :
                  /\ next' = [next EXCEPT ![r] = s] /\ FitsAt(q, s)
                  /\ s # "add" <=> q.lines = <<>>
                  /\ s = "accumulate" => q.kind = "charge"
                  /\ s = "close" => q.kind = "dispose"
             /\ UNCHANGED <<entryVars, ledger, scheduleVars, sent>>
<1> DEFINE old == asked[r]
           l == Head(old.lines)
           q == [old EXCEPT !.lines = Tail(@)]
           s == IF Len(old.lines) > 1 THEN "add"
                ELSE IF old.kind = "charge" THEN "accumulate" ELSE "close"
<1>1. /\ next[r] = "add" /\ FitsAt(old, "add")
      /\ balance' = [balance EXCEPT ![l.account] = @ + l.amount]
      /\ asked' = [asked EXCEPT ![r].lines = Tail(@)]
      /\ UNCHANGED <<entryVars, ledger, scheduleVars, sent>>
  BY RequestFacts DEF AddToAccount
<1>2. next' = [next EXCEPT ![r] = s]
  BY <1>1 DEF AddToAccount, Goto, ClerksInv, RequestsOK
<1>3. /\ old.doc \in Assets /\ old.kind \in {"charge", "dispose"} /\ old.lines # <<>>
      /\ \A i \in DOMAIN old.lines : old.lines[i].account \in Touched(old.doc)
  BY <1>1 DEF FitsAt, OnAsset
<1>4. old \in Asking /\ old.lines \in Seq(EntryLine)
  BY RequestFacts
<1>5. /\ l \in EntryLine /\ Tail(old.lines) \in Seq(EntryLine)
      /\ Tail(old.lines) = <<>> <=> ~ Len(old.lines) > 1
      /\ \A i \in DOMAIN Tail(old.lines) : Tail(old.lines)[i].account \in Touched(old.doc)
  BY <1>3, <1>4, TailFacts
<1>6. asked' = [asked EXCEPT ![r] = q]
  BY <1>1
<1> HIDE DEF l
<1>7. /\ q \in Asking /\ q.lines = Tail(old.lines) /\ q.doc = old.doc /\ q.kind = old.kind
      /\ q.amount = old.amount /\ q.base = old.base /\ q.month = old.month
  <2> HIDE DEF old
  <2> QED BY <1>4, <1>5 DEF Asking
<1> HIDE DEF q
<1>8. /\ s \in {"add", "accumulate", "close"}
      /\ s # "add" <=> q.lines = <<>>
      /\ s = "accumulate" => q.kind = "charge"
      /\ s = "close" => q.kind = "dispose"
  BY <1>3, <1>5, <1>7
<1> HIDE DEF s
<1>9. FitsAt(q, s)
  BY <1>3, <1>5, <1>7, <1>8 DEF FitsAt, OnManual, OnAsset, OnAccrual
<1> QED BY <1>1, <1>2, <1>3, <1>5, <1>6, <1>7, <1>8, <1>9 DEF q, l

LEMMA ClerksAdd ==
  ASSUME ClerksInv, NEW r \in Clerks, AddToAccount(r) PROVE ClerksInv'
<1> DEFINE l == Head(asked[r].lines)
           q == [asked[r] EXCEPT !.lines = Tail(@)]
<1>1. /\ next[r] = "add" /\ l \in EntryLine
      /\ balance' = [balance EXCEPT ![l.account] = @ + l.amount]
      /\ asked' = [asked EXCEPT ![r] = q] /\ q \in Asking /\ q.doc = asked[r].doc
      /\ \E s \in {"add", "accumulate", "close"} : next' = [next EXCEPT ![r] = s] /\ FitsAt(q, s)
      /\ UNCHANGED <<entryVars, ledger, scheduleVars, sent>>
  BY AddFacts
<1> HIDE DEF l, q
<1>2. RequestsOK'
  BY <1>1, GoesOn DEF Statements, Subject
<1>3. BooksOK'
  BY <1>1 DEF BooksOK, ClerksInv, EntryLine, entryVars, scheduleVars
<1> QED BY <1>2, <1>3 DEF ClerksInv

LEMMA ClerksAccumulate ==
  ASSUME ClerksInv, NEW r \in Clerks, Accumulate(r) PROVE ClerksInv'
<1>1. /\ next[r] = "accumulate" /\ Goto(r, "run") /\ FitsAt(asked[r], "accumulate")
      /\ asked[r].amount \in Nat /\ asked[r].base \in Nat /\ Subject(r) \in Schedules
  BY RequestFacts DEF Accumulate, FitsAt, OnAsset, Schedules
<1>2. FitsAt(asked[r], "run")
  BY <1>1 DEF FitsAt, OnManual, OnAsset, OnAccrual
<1>3. RequestsOK'
  BY <1>1, <1>2, GoesStraightOn DEF Accumulate, Statements
<1>4. BooksOK'
  BY <1>1, AddedType DEF Accumulate, BooksOK, ClerksInv, bookVars, entryVars
<1> QED BY <1>3, <1>4 DEF ClerksInv

\* One month of one schedule counted once more.
LEMMA TimesType ==
  ASSUME BooksOK, NEW x \in Schedules, NEW p \in Months
  PROVE  /\ [times EXCEPT ![x][p] = @ + 1] \in [Schedules -> [Months -> Nat]]
         /\ [times EXCEPT ![x][p] = @ + 1][x][p] = times[x][p] + 1
         /\ \A y \in Schedules, n \in Months :
              y # x \/ n # p => [times EXCEPT ![x][p] = @ + 1][y][n] = times[y][n]
BY DEF BooksOK

LEMMA ClerksRun ==
  ASSUME ClerksInv, NEW r \in Clerks, InsertRun(r) PROVE ClerksInv'
<1>1. Answer(r) /\ asked[r].month \in Months /\ Subject(r) \in Schedules
  BY RequestFacts DEF InsertRun, FitsAt, OnAsset, Schedules
<1>2. BooksOK'
  BY <1>1, TimesType DEF InsertRun, BooksOK, ClerksInv, bookVars, entryVars
<1> QED BY <1>1, <1>2, AnswerKeeps DEF ClerksInv

LEMMA ClerksRecognize ==
  ASSUME ClerksInv, NEW r \in Clerks, Recognize(r) PROVE ClerksInv'
<1>1. /\ Answer(r) /\ asked[r].month \in Months /\ Subject(r) \in Schedules
      /\ asked[r].amount \in Nat /\ asked[r].base \in Nat /\ asked[r].lines \in Seq(EntryLine)
  BY RequestFacts DEF Recognize, FitsAt, OnAccrual, Schedules
<1>2. ledger' \in [Accounts -> Int] /\ balance' \in [Accounts -> Int]
  BY <1>1, AppliedType DEF Recognize, PostAtOnce, BooksOK, ClerksInv
<1>3. times' \in [Schedules -> [Months -> Nat]]
  BY <1>1, TimesType DEF Recognize, ClerksInv
<1>4. /\ used' \in [Schedules -> Nat] /\ charged' \in [Schedules -> Nat]
      /\ state' \in [Schedules -> {"active", "completed", "disposed", "deleted"}]
  BY <1>1, AddedType DEF Recognize, BooksOK, ClerksInv
<1>5. BooksOK'
  BY <1>2, <1>3, <1>4 DEF Recognize, BooksOK, ClerksInv, entryVars
<1> QED BY <1>1, <1>5, AnswerKeeps DEF ClerksInv

LEMMA ClerksClose ==
  ASSUME ClerksInv, NEW r \in Clerks, Close(r) \/ RemoveAccrual(r) PROVE ClerksInv'
<1>1. BooksOK'
  BY DEF Close, RemoveAccrual, BooksOK, ClerksInv, bookVars, entryVars
<1>2. Answer(r)
  BY DEF Close, RemoveAccrual
<1> QED BY <1>1, <1>2, AnswerKeeps DEF ClerksInv

LEMMA ClerksAccept ==
  ASSUME ClerksInv, NEW r \in Clerks, Accept(r) PROVE ClerksInv'
<1>1. PICK q, s : Accepted(r, q, s)
  BY AcceptFacts
<1>2. BooksOK'
  BY <1>1, AcceptedFacts DEF BooksOK, ClerksInv, entryVars, bookVars, scheduleVars
<1> QED BY <1>1, <1>2, AcceptedKeeps DEF ClerksInv

\* What all lines do to an account, drafts included.
LEMMA RecountedType ==
  ASSUME ClerksInv, NEW a \in Accounts
  PROVE  /\ Recounted(a) \in Int
         /\ (\A m \in Manual : a \notin Touched(m)) => Recounted(a) = ledger[a]
<1> DEFINE f == [m \in Manual |-> Total(LinesOf(m), a)]
<1>1. \A m \in Manual : LinesOf(m) = <<>> \/ LinesOf(m) = Lines[m]
  BY DEF LinesOf
<1>2. \A m \in Manual : LinesOf(m) \in Seq(EntryLine)
  BY <1>1, LinesType, EmptySeq
<1>3. \A m \in Manual : f[m] \in Int
  BY <1>2, TotalType
<1>4. IsFiniteSet(Manual) /\ ledger[a] \in Int
  BY LedgerAssumption, FS_Subset DEF Documents, ClerksInv, BooksOK
<1>5. SumFunctionOnSet(f, Manual) \in Int
  <2> HIDE DEF f
  <2> QED BY <1>3, <1>4, SumSplit
<1>6. ASSUME \A m \in Manual : a \notin Touched(m) PROVE SumFunctionOnSet(f, Manual) = 0
  <2>1. \A m \in Manual : Total(Lines[m], a) = 0
    BY <1>6, LinesType, TotalNone
  <2>2. \A m \in Manual : f[m] = 0
    BY <1>1, <2>1, TotalEmpty
  <2> HIDE DEF f
  <2> QED BY <1>4, <2>2, SumZero
<1> QED BY <1>4, <1>5, <1>6 DEF Recounted

\* The repair writes balances and nothing else.
LEMMA ClerksRepair == ASSUME ClerksInv, Repair PROVE ClerksInv'
<1>1. balance' \in [Accounts -> Int]
  BY RecountedType DEF Repair, BooksOK, ClerksInv
<1>2. sent' \in 0..MaxSent
  BY LedgerAssumption DEF Repair, ClerksInv, RequestsOK
<1>3. UNCHANGED <<status, lined, ledger, state, used, charged, times, asked, next>>
  BY DEF Repair, entryVars, scheduleVars
<1>4. BooksOK'
  BY <1>1, <1>2, <1>3 DEF BooksOK, ClerksInv
<1>5. OneAtATime' /\ \A r \in Clerks : FitsAt(asked[r], next[r])'
  BY <1>3 DEF RequestsOK, ClerksInv, FitsAt, OneAtATime, Idle, Subject
<1>6. RequestsOK'
  BY <1>2, <1>3, <1>5 DEF RequestsOK, ClerksInv
<1> QED BY <1>4, <1>6 DEF ClerksInv

\* Every step, whatever it is about.
LEMMA ClerksStep == ClerksInv /\ [JournalNext]_journalVars => ClerksInv'
<1> SUFFICES ASSUME ClerksInv, [JournalNext]_journalVars PROVE ClerksInv'
  OBVIOUS
<1>1. CASE UNCHANGED journalVars
  BY <1>1 DEF journalVars, entryVars, bookVars, scheduleVars, ClerksInv, BooksOK, RequestsOK,
              FitsAt, OneAtATime, Idle, Subject
<1>2. ASSUME NEW r \in Clerks, Accept(r) PROVE ClerksInv'
  BY <1>2, ClerksAccept
<1>3. ASSUME NEW r \in Clerks, Proceed(r) PROVE ClerksInv'
  <2>1. ASSUME EntryGone(r) \/ AccrualGone(r) PROVE Abandon(r)
    BY <2>1 DEF EntryGone, AccrualGone
  <2> QED BY <1>3, <2>1, ClerksEnter, ClerksPost, ClerksFetch, ClerksLines, ClerksWrite, ClerksReverse,
             ClerksDelete, ClerksHeader, ClerksAbandon, ClerksPostEntry, ClerksAdd,
             ClerksAccumulate, ClerksRun, ClerksRecognize, ClerksClose DEF Proceed
<1>4. ASSUME NEW r \in Clerks, BreakOff(r) PROVE ClerksInv'
  BY <1>4, ClerksAbandon DEF BreakOff
<1>5. CASE Repair
  BY <1>5, ClerksRepair
<1> QED BY <1>1, <1>2, <1>3, <1>4, <1>5 DEF JournalNext, BooksAtRest

LEMMA ClerksStart == JournalInit => ClerksInv
<1> SUFFICES ASSUME JournalInit PROVE ClerksInv
  OBVIOUS
<1>1. BooksOK
  BY DEF JournalInit, BooksOK
<1>2. /\ asked \in [Clerks -> Asking] /\ next \in [Clerks -> Statements]
      /\ \A r \in Clerks : asked[r] = Rest /\ next[r] = "idle"
  BY RestType DEF JournalInit, Statements
<1>3. sent \in 0..MaxSent
  BY LedgerAssumption DEF JournalInit
<1>4. FitsAt(Rest, "idle")
  BY RestType DEF FitsAt, OnManual, OnAsset, OnAccrual
<1> QED BY <1>1, <1>2, <1>3, <1>4 DEF ClerksInv, RequestsOK, OneAtATime, Idle

\* Every request, account, entry and charge has its type in every state.
THEOREM JournalTypeCorrect == JournalSpec => []JournalTypeOK
<1>1. JournalSpec => []ClerksInv
  BY ClerksStart, ClerksStep, PTL DEF JournalSpec
<1> QED BY <1>1, ClerksTyped, PTL

-----------------------------------------------------------------------------
(* Charges *)

Bounded(x) == used[x] <= charged[x] /\ used[x] <= Limit[x]

\* A charge that was worked out leaves the record within the limit and, once its entry
\* is posted, within the journal.
ChargeAt(q, s) ==
  q.kind = "charge" =>
    /\ s \in {"entry", "recognize"} => q.base <= charged[q.doc] /\ q.base + q.amount <= Limit[q.doc]
    /\ s \in {"add", "accumulate"} =>
         q.base + q.amount <= charged[q.doc] /\ q.base + q.amount <= Limit[q.doc]

Settled(x) == used[x] = charged[x]
OncePerMonth(x) ==
  /\ \A p \in Months : times[x][p] <= 1
  /\ x \in Accruals => (state[x] = "completed" <=> used[x] = Limit[x])

\* The record of a schedule whose requests come one by one and do not stop half-way.
SteadyAt(q, s) ==
  /\ s \in {"entry", "recognize", "run", "close", "remove"} => Settled(q.doc)
  /\ s \in {"entry", "recognize", "add", "accumulate", "run", "close"} => state[q.doc] = "active"
  /\ s \in {"entry", "recognize", "add", "accumulate", "run"} /\ q.kind = "charge" =>
       times[q.doc][q.month] = 0
  /\ s \in {"entry", "recognize"} /\ q.kind = "charge" => q.base = used[q.doc] /\ q.amount > 0
  /\ s \in {"add", "accumulate"} /\ q.kind = "charge" =>
       used[q.doc] = q.base /\ charged[q.doc] = q.base + q.amount
  /\ s \in {"entry", "add"} /\ q.kind = "dispose" => q.amount = 0 /\ Settled(q.doc)
  /\ s = "remove" => used[q.doc] = 0

ChargeInv ==
  /\ \A x \in Schedules : Bounded(x)
  /\ \A r \in Clerks : ChargeAt(asked[r], next[r])
  /\ \A x \in Steady : OncePerMonth(x) /\ (Unattended(x) => Settled(x))
  /\ \A r \in Clerks : Subject(r) \in Steady => SteadyAt(asked[r], next[r])

LEMMA ScheduleTypes ==
  ASSUME ClerksInv, NEW x \in Schedules
  PROVE  /\ used[x] \in Nat /\ charged[x] \in Nat /\ Limit[x] \in Nat \ {0}
         /\ \A p \in Months : times[x][p] \in Nat
         /\ x \in Assets <=> x \notin Accruals
         /\ x \notin Manual
BY LedgerAssumption DEF ClerksInv, BooksOK, Schedules

\* Nothing is recorded or charged but for x.
Elsewhere(x) ==
  \A y \in Schedules \ {x} :
    /\ used'[y] = used[y] /\ charged'[y] = charged[y]
    /\ state'[y] = state[y] /\ times'[y] = times[y]

\* What a step of request r for x has to show: the record of x.
LEMMA ChargesFrame ==
  ASSUME ClerksInv, ChargeInv, NEW r \in Clerks, NEW x, x = asked[r].doc, Others(r), ~ Idle(r),
         asked'[r].doc = x \/ next'[r] = "idle", Elsewhere(x),
         x \in Schedules => Bounded(x)' /\ charged[x] <= charged'[x] /\ charged'[x] \in Nat,
         ChargeAt(asked[r], next[r])',
         x \in Steady => OncePerMonth(x)' /\ (next'[r] = "idle" => Settled(x)')
                         /\ SteadyAt(asked[r], next[r])'
  PROVE  ChargeInv'
<1>1. \A y \in Schedules : Bounded(y)'
  BY DEF Elsewhere, ChargeInv, Bounded
<1>2. \A t \in Clerks : ChargeAt(asked[t], next[t])'
  <2> SUFFICES ASSUME NEW t \in Clerks, t # r PROVE ChargeAt(asked[t], next[t])'
    OBVIOUS
  <2>1. asked'[t] = asked[t] /\ next'[t] = next[t] /\ ChargeAt(asked[t], next[t])
    BY DEF Others, ChargeInv
  <2>2. ASSUME asked[t].kind = "charge", next[t] \in {"entry", "recognize", "add", "accumulate"}
        PROVE  /\ asked[t].doc \in Schedules /\ charged[asked[t].doc] <= charged'[asked[t].doc]
               /\ charged[asked[t].doc] \in Nat /\ charged'[asked[t].doc] \in Nat
               /\ asked[t].base \in Nat /\ asked[t].amount \in Nat
    <3>1. asked[t].doc \in Schedules /\ asked[t].base \in Nat /\ asked[t].amount \in Nat
      BY <2>2, RequestFacts DEF FitsAt, OnAsset, OnAccrual, Schedules
    <3>2. charged[asked[t].doc] \in Nat
      BY <3>1, ScheduleTypes
    <3> QED BY <3>1, <3>2 DEF Elsewhere
  <2> QED BY <2>1, <2>2 DEF ChargeAt
<1>3. \A y \in Steady : OncePerMonth(y)' /\ (Unattended(y)' => Settled(y)')
  <2> SUFFICES ASSUME NEW y \in Steady PROVE OncePerMonth(y)' /\ (Unattended(y)' => Settled(y)')
    OBVIOUS
  <2>1. y \in Schedules /\ OncePerMonth(y) /\ (Unattended(y) => Settled(y))
    BY DEF Steady, ChargeInv
  <2>2. CASE y # x
    <3>1. Unattended(y)' => Unattended(y)
      BY <2>2 DEF Unattended, Others, Idle, Subject
    <3> QED BY <2>1, <2>2, <3>1 DEF Elsewhere, OncePerMonth, Settled
  <2>3. CASE y = x
    <3>1. Unattended(y)' => next'[r] = "idle"
      BY <2>3 DEF Unattended, Idle, Subject
    <3> QED BY <2>3, <3>1
  <2> QED BY <2>2, <2>3
<1>4. \A t \in Clerks : (Subject(t) \in Steady => SteadyAt(asked[t], next[t]))'
  <2>1. Subject(r)' \in Steady => SteadyAt(asked[r], next[r])'
    <3>1. CASE asked'[r].doc = x
      BY <3>1 DEF Subject
    <3>2. CASE next'[r] = "idle"
      BY <3>2 DEF SteadyAt
    <3> QED BY <3>1, <3>2
  <2>2. ASSUME NEW t \in Clerks, t # r, Subject(t)' \in Steady
        PROVE  SteadyAt(asked[t], next[t])'
    <3>1. /\ asked'[t] = asked[t] /\ next'[t] = next[t] /\ Subject(t) = asked[t].doc
          /\ Subject(t) \in Steady /\ SteadyAt(asked[t], next[t])
      BY <2>2 DEF Others, ChargeInv, Subject
    <3>2. CASE next[t] = "idle"
      BY <3>1, <3>2 DEF SteadyAt
    <3>3. CASE next[t] # "idle"
      <4>1. asked[t].doc # x
        BY <2>2, <3>1, <3>3 DEF ClerksInv, RequestsOK, OneAtATime, Idle, Subject, Steady
      <4>2. asked[t].doc \in Schedules
        BY <3>1 DEF Steady
      <4> QED BY <3>1, <4>1, <4>2 DEF SteadyAt, Settled, Elsewhere
    <3> QED BY <3>2, <3>3
  <2> QED BY <2>1, <2>2 DEF Subject
<1> QED BY <1>1, <1>2, <1>3, <1>4 DEF ChargeInv

\* A step that leaves the records alone.
LEMMA ChargesStill ==
  ASSUME ClerksInv, ChargeInv, NEW r \in Clerks, Others(r), ~ Idle(r), UNCHANGED scheduleVars,
         asked'[r].doc = asked[r].doc \/ next'[r] = "idle",
         ChargeAt(asked'[r], next'[r]),
         asked[r].doc \in Steady =>
           (next'[r] = "idle" => Settled(asked[r].doc)) /\ SteadyAt(asked'[r], next'[r])
  PROVE  ChargeInv'
<1> DEFINE x == asked[r].doc
<1>1. UNCHANGED <<state, used, charged, times>>
  BY DEF scheduleVars
<1>2. Elsewhere(x)
  BY <1>1 DEF Elsewhere
<1>3. ChargeAt(asked[r], next[r])'
  BY <1>1 DEF ChargeAt
<1>4. PICK y : y = x
  OBVIOUS
<1>5. y \in Schedules => Bounded(y)' /\ charged[y] <= charged'[y] /\ charged'[y] \in Nat
  BY <1>1, ScheduleTypes DEF Bounded, ChargeInv
<1>6. y \in Steady => OncePerMonth(y)' /\ (next'[r] = "idle" => Settled(y)')
  BY <1>1, <1>4 DEF ChargeInv, OncePerMonth, Settled
<1>7. y \in Steady => SteadyAt(asked[r], next[r])'
  BY <1>1, <1>4 DEF SteadyAt, Settled
<1> QED BY <1>2, <1>3, <1>4, <1>5, <1>6, <1>7, ChargesFrame

LEMMA ChargesAnswered ==
  ASSUME ClerksInv, ChargeInv, NEW r \in Clerks, Answer(r), ~ Idle(r), UNCHANGED scheduleVars,
         asked[r].doc \in Steady => Settled(asked[r].doc)
  PROVE  ChargeInv'
<1>1. next'[r] = "idle" /\ Others(r)
  BY AnswerFacts
<1>2. ChargeAt(asked'[r], next'[r]) /\ SteadyAt(asked'[r], next'[r])
  BY <1>1 DEF ChargeAt, SteadyAt
<1> QED BY <1>1, <1>2, ChargesStill

\* Requests about an entry made by hand.
LEMMA ChargesManual ==
  ASSUME ClerksInv, ChargeInv, NEW r \in Clerks, Others(r), UNCHANGED scheduleVars,
         next[r] \in OnManual, next'[r] \in OnManual \cup {"idle"},
         asked'[r].doc = asked[r].doc \/ next'[r] = "idle"
  PROVE  ChargeInv'
<1>1. asked[r].doc \in Manual
  BY RequestFacts DEF FitsAt
<1>2. asked[r].doc \notin Steady
  BY <1>1, LedgerAssumption DEF Steady
<1>3. ChargeAt(asked'[r], next'[r])
  BY DEF ChargeAt, OnManual
<1>4. ~ Idle(r)
  BY DEF Idle, OnManual
<1> QED BY <1>2, <1>3, <1>4, ChargesStill

\* Entries made by hand leave the records alone.
LEMMA ManualFacts ==
  ASSUME ClerksInv, NEW r \in Clerks,
         \/ InsertEntry(r) \/ SetPosted(r) \/ FetchAccounts(r) \/ InsertLines(r) \/ WriteAccount(r)
         \/ ReverseEntry(r) \/ DeleteLines(r) \/ DeleteEntry(r) \/ EntryGone(r)
  PROVE  /\ Others(r) /\ UNCHANGED scheduleVars /\ next[r] \in OnManual
         /\ next'[r] \in OnManual \cup {"idle"}
         /\ asked'[r].doc = asked[r].doc \/ next'[r] = "idle"
<1>1. /\ Others(r) /\ UNCHANGED scheduleVars /\ next[r] \in OnManual
      /\ next'[r] \in OnManual \cup {"idle"} /\ (asked'[r].doc = asked[r].doc \/ next'[r] = "idle")
  <2>1. CASE InsertEntry(r) \/ SetPosted(r) \/ DeleteLines(r)
    <3>1. /\ Goto(r, "fetch") \/ Goto(r, "header")
          /\ UNCHANGED asked /\ UNCHANGED scheduleVars /\ next[r] \in OnManual
      BY <2>1 DEF InsertEntry, SetPosted, DeleteLines, OnManual
    <3> QED BY <3>1, GotoFacts DEF OnManual
  <2>2. CASE FetchAccounts(r)
    <3>1. /\ next[r] = "fetch" /\ UNCHANGED scheduleVars
          /\ \/ Answer(r)
             \/ \E q : /\ asked' = [asked EXCEPT ![r] = q] /\ q.doc = asked[r].doc
                       /\ \E s \in {"lines", "write", "reverse"} : next' = [next EXCEPT ![r] = s]
      BY <2>2, FetchFacts
    <3>2. CASE Answer(r)
      BY <3>1, <3>2, AnswerFacts DEF OnManual
    <3>3. CASE ~ Answer(r)
      <4>1. PICK q, s :
              /\ asked' = [asked EXCEPT ![r] = q] /\ q.doc = asked[r].doc
              /\ s \in {"lines", "write", "reverse"} /\ next' = [next EXCEPT ![r] = s]
        BY <3>1, <3>3
      <4>2. Others(r) /\ asked'[r] = q /\ next'[r] = s
        BY <4>1 DEF Others, ClerksInv, RequestsOK
      <4> QED BY <3>1, <4>1, <4>2 DEF OnManual
    <3> QED BY <3>2, <3>3
  <2>3. CASE InsertLines(r)
    <3>1. /\ Answer(r) \/ (Goto(r, "write") /\ UNCHANGED asked)
          /\ UNCHANGED scheduleVars /\ next[r] \in OnManual
      BY <2>3 DEF InsertLines, OnManual
    <3> QED BY <3>1, GotoFacts, AnswerFacts DEF OnManual
  <2>4. CASE WriteAccount(r)
    <3>1. /\ next[r] = "write" /\ UNCHANGED scheduleVars
          /\ \/ Answer(r)
             \/ \E q : /\ asked' = [asked EXCEPT ![r] = q] /\ q.doc = asked[r].doc
                       /\ UNCHANGED next
      BY <2>4, WriteFacts
    <3>2. CASE Answer(r)
      BY <3>1, <3>2, AnswerFacts DEF OnManual
    <3>3. CASE ~ Answer(r)
      BY <3>1, <3>3 DEF Others, ClerksInv, RequestsOK, OnManual
    <3> QED BY <3>2, <3>3
  <2>5. CASE ReverseEntry(r) \/ DeleteEntry(r) \/ EntryGone(r)
    <3>1. Answer(r) /\ UNCHANGED scheduleVars /\ next[r] \in OnManual
      BY <2>5 DEF ReverseEntry, DeleteEntry, EntryGone, Abandon, OnManual
    <3> QED BY <3>1, AnswerFacts
  <2> QED BY <2>1, <2>2, <2>3, <2>4, <2>5
<1> QED BY <1>1

LEMMA ChargesByHand ==
  ASSUME ClerksInv, ChargeInv, NEW r \in Clerks,
         \/ InsertEntry(r) \/ SetPosted(r) \/ FetchAccounts(r) \/ InsertLines(r) \/ WriteAccount(r)
         \/ ReverseEntry(r) \/ DeleteLines(r) \/ DeleteEntry(r) \/ EntryGone(r)
  PROVE  ChargeInv'
BY ManualFacts, ChargesManual

LEMMA ChargesBroken ==
  ASSUME ClerksInv, ChargeInv, NEW r \in Clerks, BreakOff(r) \/ AccrualGone(r)
  PROVE  ChargeInv'
<1> DEFINE x == asked[r].doc
<1>1. /\ ~ Idle(r) /\ Answer(r) /\ UNCHANGED scheduleVars
      /\ next[r] \in Statements /\ next[r] # "idle"
  BY RequestFacts DEF BreakOff, AccrualGone, Abandon, Idle
<1>2. ASSUME x \in Steady PROVE Settled(x)
  <2>1. /\ SteadyAt(asked[r], next[r]) /\ FitsAt(asked[r], next[r]) /\ x \notin Manual
        /\ x \in Assets => x \notin Flaky
    BY <1>2, RequestFacts, LedgerAssumption DEF ChargeInv, Subject, Steady
  <2>2. next[r] \in {"entry", "recognize", "remove"}
    <3>1. next[r] \in OnAsset \cup OnAccrual
      BY <1>1, <2>1 DEF FitsAt, Statements, OnManual, OnAsset, OnAccrual
    <3>2. next[r] \in OnAsset => x \in Assets
      BY <2>1 DEF FitsAt
    <3>3. CASE BreakOff(r)
      BY <2>1, <3>1, <3>2, <3>3 DEF BreakOff, Midway, OnAsset, OnAccrual, Subject
    <3>4. CASE AccrualGone(r)
      BY <3>4 DEF AccrualGone
    <3> QED BY <3>3, <3>4
  <2> QED BY <2>1, <2>2 DEF SteadyAt
<1> QED BY <1>1, <1>2, ChargesAnswered

\* A step for the asset or accrual x itself; x is not written by anything else.
LEMMA ChargesPosted ==
  ASSUME ClerksInv, ChargeInv, NEW r \in Clerks, PostEntry(r)
  PROVE  ChargeInv'
<1> DEFINE q == asked[r]
<1>1. PICK x : x = q.doc
  OBVIOUS
<1>2. /\ next[r] = "entry" /\ x \in Assets /\ x \in Schedules /\ q.kind \in {"charge", "dispose"}
      /\ q.amount \in Nat /\ q.base \in Nat /\ ~ Idle(r)
  BY <1>1, RequestFacts DEF PostEntry, FitsAt, OnAsset, Schedules, Idle
<1>3. /\ Others(r) /\ asked'[r] = q /\ next'[r] = "add"
      /\ UNCHANGED <<state, used, times>> /\ charged' = [charged EXCEPT ![x] = @ + q.amount]
  BY <1>1, GotoFacts DEF PostEntry, Subject
<1>4. /\ used[x] \in Nat /\ charged[x] \in Nat /\ charged'[x] = charged[x] + q.amount
      /\ Limit[x] \in Nat /\ Elsewhere(x)
  BY <1>2, <1>3, ScheduleTypes DEF ClerksInv, BooksOK, Elsewhere
<1>5. Bounded(x) /\ ChargeAt(q, "entry")
  BY <1>2 DEF ChargeInv
<1>6. Bounded(x)' /\ charged[x] <= charged'[x] /\ charged'[x] \in Nat
  BY <1>2, <1>3, <1>4, <1>5 DEF Bounded
<1>7. ChargeAt(asked[r], next[r])'
  BY <1>1, <1>2, <1>3, <1>4, <1>5 DEF ChargeAt
<1>8. ASSUME x \in Steady PROVE OncePerMonth(x)' /\ SteadyAt(asked[r], next[r])'
  <2>1. SteadyAt(q, "entry") /\ OncePerMonth(x)
    BY <1>1, <1>2, <1>8 DEF ChargeInv, Subject
  <2>2. OncePerMonth(x)'
    BY <1>3, <2>1 DEF OncePerMonth
  <2>3. used[x] = charged[x] /\ state[x] = "active"
    BY <1>1, <2>1 DEF SteadyAt, Settled
  <2>6. /\ next'[r] = "add" /\ asked'[r].doc = x /\ asked'[r].kind = q.kind
        /\ asked'[r].month = q.month /\ asked'[r].base = q.base /\ asked'[r].amount = q.amount
        /\ state'[x] = "active" /\ used'[x] = used[x] /\ times'[x] = times[x]
    BY <1>1, <1>3, <2>3
  <2>4. CASE q.kind = "charge"
    <3>1. q.base = used[x] /\ times[x][q.month] = 0
      BY <1>1, <2>1, <2>4 DEF SteadyAt
    <3>2. used'[x] = q.base /\ charged'[x] = q.base + q.amount /\ times'[x][q.month] = 0
      BY <1>4, <2>3, <2>6, <3>1
    <3>3. charged'[x] = asked'[r].base + asked'[r].amount /\ used'[x] = asked'[r].base
          /\ times'[x][asked'[r].month] = 0 /\ asked'[r].kind # "dispose"
      BY <2>4, <2>6, <3>2
    <3> HIDE DEF q
    <3> QED BY <2>2, <2>6, <3>3 DEF SteadyAt
  <2>5. CASE q.kind = "dispose"
    <3>1. q.amount = 0
      BY <2>1, <2>5 DEF SteadyAt
    <3>2. used'[x] = charged'[x]
      BY <1>4, <2>3, <2>6, <3>1
    <3>3. charged'[x] = used'[x] /\ asked'[r].amount = 0 /\ asked'[r].kind # "charge"
      BY <2>5, <2>6, <3>1, <3>2
    <3> HIDE DEF q
    <3> QED BY <2>2, <2>6, <3>3 DEF SteadyAt, Settled
  <2> QED BY <1>2, <2>2, <2>4, <2>5
<1> QED BY <1>1, <1>2, <1>3, <1>4, <1>6, <1>7, <1>8, ChargesFrame

LEMMA ChargesAdded ==
  ASSUME ClerksInv, ChargeInv, NEW r \in Clerks, AddToAccount(r)
  PROVE  ChargeInv'
<1> DEFINE old == asked[r]
           q == [asked[r] EXCEPT !.lines = Tail(@)]
<1>1. /\ next[r] = "add" /\ asked[r].kind \in {"charge", "dispose"}
      /\ asked' = [asked EXCEPT ![r] = q]
      /\ q.doc = asked[r].doc /\ q.kind = asked[r].kind
      /\ q.amount = asked[r].amount /\ q.base = asked[r].base /\ q.month = asked[r].month
      /\ \E s \in {"add", "accumulate", "close"} :
           /\ next' = [next EXCEPT ![r] = s]
           /\ s = "accumulate" => q.kind = "charge"
           /\ s = "close" => q.kind = "dispose"
      /\ UNCHANGED scheduleVars
  BY AddFacts
<1> HIDE DEF q
<1>2. PICK s \in {"add", "accumulate", "close"} :
        /\ next' = [next EXCEPT ![r] = s]
        /\ s = "accumulate" => q.kind = "charge"
        /\ s = "close" => q.kind = "dispose"
  BY <1>1
<1>3. Others(r) /\ asked'[r] = q /\ next'[r] = s /\ ~ Idle(r)
  BY <1>1, <1>2 DEF Others, ClerksInv, RequestsOK, Idle
<1>4. ChargeAt(q, s)
  <2>1. ChargeAt(old, "add")
    BY <1>1 DEF ChargeInv
  <2> QED BY <1>1, <1>2, <2>1 DEF ChargeAt
<1>5. ASSUME q.doc \in Steady PROVE SteadyAt(q, s)
  <2>1. SteadyAt(old, "add")
    BY <1>1, <1>5 DEF ChargeInv, Subject
  <2> QED BY <1>1, <1>2, <2>1 DEF SteadyAt
<1> QED BY <1>1, <1>2, <1>3, <1>4, <1>5, ChargesStill

LEMMA ChargesAccumulated ==
  ASSUME ClerksInv, ChargeInv, NEW r \in Clerks, Accumulate(r)
  PROVE  ChargeInv'
<1> DEFINE q == asked[r]
<1>1. PICK x : x = q.doc
  OBVIOUS
<1>2. /\ next[r] = "accumulate" /\ x \in Assets /\ x \in Schedules /\ q.kind = "charge"
      /\ q.amount \in Nat /\ q.base \in Nat /\ ~ Idle(r)
  BY <1>1, RequestFacts DEF Accumulate, FitsAt, OnAsset, Schedules, Idle
<1>3. /\ Others(r) /\ asked'[r] = q /\ next'[r] = "run"
      /\ UNCHANGED <<state, charged, times>> /\ used' = [used EXCEPT ![x] = q.base + q.amount]
  BY <1>1, GotoFacts DEF Accumulate, Subject
<1>4. /\ used'[x] = q.base + q.amount /\ charged[x] \in Nat /\ Elsewhere(x) /\ x \notin Accruals
  BY <1>2, <1>3, ScheduleTypes DEF ClerksInv, BooksOK, Elsewhere
<1>5. ChargeAt(q, "accumulate")
  BY <1>2 DEF ChargeInv
<1>6. Bounded(x)' /\ charged[x] <= charged'[x] /\ charged'[x] \in Nat
  BY <1>1, <1>2, <1>3, <1>4, <1>5 DEF Bounded, ChargeAt
<1>7. ChargeAt(asked[r], next[r])'
  BY <1>3 DEF ChargeAt
<1>8. ASSUME x \in Steady PROVE OncePerMonth(x)' /\ SteadyAt(asked[r], next[r])'
  <2>1. SteadyAt(q, "accumulate") /\ OncePerMonth(x)
    BY <1>1, <1>2, <1>8 DEF ChargeInv, Subject
  <2>2. OncePerMonth(x)'
    BY <1>3, <1>4, <2>1 DEF OncePerMonth
  <2>3. SteadyAt(asked[r], next[r])'
    BY <1>1, <1>2, <1>3, <1>4, <2>1 DEF SteadyAt, Settled
  <2> QED BY <2>2, <2>3
<1> QED BY <1>1, <1>2, <1>3, <1>4, <1>6, <1>7, <1>8, ChargesFrame

LEMMA ChargesRun ==
  ASSUME ClerksInv, ChargeInv, NEW r \in Clerks, InsertRun(r)
  PROVE  ChargeInv'
<1> DEFINE q == asked[r]
<1>1. PICK x : x = q.doc
  OBVIOUS
<1>2. /\ next[r] = "run" /\ x \in Assets /\ x \in Schedules /\ q.kind = "charge"
      /\ q.month \in Months /\ ~ Idle(r)
  BY <1>1, RequestFacts DEF InsertRun, FitsAt, OnAsset, Schedules, Idle
<1>3. /\ Others(r) /\ next'[r] = "idle"
      /\ UNCHANGED <<state, charged, used>> /\ times' = [times EXCEPT ![x][q.month] = @ + 1]
  BY <1>1, AnswerFacts DEF InsertRun, Subject
<1>4. /\ times'[x][q.month] = times[x][q.month] + 1
      /\ \A p \in Months \ {q.month} : times'[x][p] = times[x][p]
      /\ Elsewhere(x)
  BY <1>2, <1>3 DEF ClerksInv, BooksOK, Elsewhere
<1>5. Bounded(x)' /\ charged[x] <= charged'[x] /\ charged'[x] \in Nat
  BY <1>2, <1>3, ScheduleTypes DEF Bounded, ChargeInv
<1>6. ChargeAt(asked[r], next[r])' /\ SteadyAt(asked[r], next[r])'
  BY <1>3 DEF ChargeAt, SteadyAt
<1>7. ASSUME x \in Steady PROVE OncePerMonth(x)' /\ Settled(x)'
  <2>1. SteadyAt(q, "run") /\ OncePerMonth(x)
    BY <1>1, <1>2, <1>7 DEF ChargeInv, Subject
  <2>2. times[x][q.month] = 0 /\ Settled(x)
    BY <1>1, <1>2, <2>1 DEF SteadyAt
  <2> QED BY <1>2, <1>3, <1>4, <2>1, <2>2 DEF OncePerMonth, Settled
<1> QED BY <1>1, <1>2, <1>3, <1>4, <1>5, <1>6, <1>7, ChargesFrame

LEMMA ChargesRecognized ==
  ASSUME ClerksInv, ChargeInv, NEW r \in Clerks, Recognize(r)
  PROVE  ChargeInv'
<1> DEFINE q == asked[r]
           now == q.base + q.amount
<1>1. PICK x : x = q.doc
  OBVIOUS
<1>2. /\ next[r] = "recognize" /\ x \in Accruals /\ x \in Schedules /\ q.kind = "charge"
      /\ q.month \in Months /\ q.amount \in Nat /\ q.base \in Nat /\ ~ Idle(r)
  BY <1>1, RequestFacts DEF Recognize, FitsAt, OnAccrual, Schedules, Idle
<1>3. /\ Others(r) /\ next'[r] = "idle"
      /\ times' = [times EXCEPT ![x][q.month] = @ + 1]
      /\ charged' = [charged EXCEPT ![x] = @ + q.amount]
      /\ used' = [used EXCEPT ![x] = now]
      /\ state' = [state EXCEPT ![x] = IF now = Limit[x] THEN "completed" ELSE "active"]
  BY <1>1, AnswerFacts DEF Recognize, Subject
<1>4. /\ times'[x][q.month] = times[x][q.month] + 1
      /\ \A p \in Months \ {q.month} : times'[x][p] = times[x][p]
      /\ charged'[x] = charged[x] + q.amount /\ used'[x] = now
      /\ state'[x] = IF now = Limit[x] THEN "completed" ELSE "active"
      /\ Elsewhere(x)
  BY <1>2, <1>3 DEF ClerksInv, BooksOK, Elsewhere
<1>5. ChargeAt(q, "recognize") /\ charged[x] \in Nat
  BY <1>2, ScheduleTypes DEF ChargeInv
<1>6. Bounded(x)' /\ charged[x] <= charged'[x] /\ charged'[x] \in Nat
  BY <1>1, <1>2, <1>4, <1>5 DEF Bounded, ChargeAt
<1>7. ChargeAt(asked[r], next[r])' /\ SteadyAt(asked[r], next[r])'
  BY <1>3 DEF ChargeAt, SteadyAt
<1>8. ASSUME x \in Steady PROVE OncePerMonth(x)' /\ Settled(x)'
  <2>1. SteadyAt(q, "recognize") /\ OncePerMonth(x)
    BY <1>1, <1>2, <1>8 DEF ChargeInv, Subject
  <2>2. times[x][q.month] = 0 /\ used[x] = charged[x] /\ used[x] = q.base
    BY <1>1, <1>2, <2>1 DEF SteadyAt, Settled
  <2>3. Settled(x)'
    BY <1>4, <2>2 DEF Settled
  <2>4. OncePerMonth(x)'
    BY <1>2, <1>4, <2>1, <2>2 DEF OncePerMonth
  <2> QED BY <2>3, <2>4
<1> QED BY <1>1, <1>2, <1>3, <1>4, <1>6, <1>7, <1>8, ChargesFrame

LEMMA ChargesClosed ==
  ASSUME ClerksInv, ChargeInv, NEW r \in Clerks, Close(r) \/ RemoveAccrual(r)
  PROVE  ChargeInv'
<1> DEFINE q == asked[r]
<1>1. PICK x : x = q.doc
  OBVIOUS
<1>2. /\ next[r] \in {"close", "remove"} /\ x \in Schedules /\ ~ Idle(r)
      /\ next[r] = "close" => x \notin Accruals
  <2>1. next[r] \in {"close", "remove"}
    BY DEF Close, RemoveAccrual
  <2>2. next[r] = "close" => x \in Assets
    BY <1>1, <2>1, RequestFacts DEF FitsAt, OnAsset
  <2>3. next[r] = "remove" => x \in Accruals
    BY <1>1, <2>1, RequestFacts DEF FitsAt, OnAccrual
  <2> QED BY <2>1, <2>2, <2>3, ScheduleTypes DEF Schedules, Idle
<1>3. /\ Others(r) /\ next'[r] = "idle" /\ UNCHANGED <<used, charged, times>>
      /\ state' = state \/ state' = [state EXCEPT ![x] = IF next[r] = "close" THEN "disposed" ELSE "deleted"]
  BY <1>1, AnswerFacts DEF Close, RemoveAccrual, Subject
<1>4. Elsewhere(x) /\ state'[x] \in {state[x], "disposed", "deleted"}
  BY <1>2, <1>3 DEF ClerksInv, BooksOK, Elsewhere
<1>5. Bounded(x)' /\ charged[x] <= charged'[x] /\ charged'[x] \in Nat
  BY <1>2, <1>3, ScheduleTypes DEF Bounded, ChargeInv
<1>6. ChargeAt(asked[r], next[r])' /\ SteadyAt(asked[r], next[r])'
  BY <1>3 DEF ChargeAt, SteadyAt
<1>7. ASSUME x \in Steady PROVE OncePerMonth(x)' /\ Settled(x)'
  <2>1. SteadyAt(q, next[r]) /\ OncePerMonth(x) /\ Limit[x] \in Nat \ {0}
    BY <1>1, <1>2, <1>7, ScheduleTypes DEF ChargeInv, Subject
  <2>2. Settled(x) /\ (next[r] = "remove" => used[x] = 0)
    BY <1>1, <1>2, <2>1 DEF SteadyAt
  <2>3. OncePerMonth(x)'
    BY <1>2, <1>3, <1>4, <2>1, <2>2 DEF OncePerMonth
  <2> QED BY <1>3, <2>2, <2>3 DEF Settled
<1> QED BY <1>1, <1>2, <1>3, <1>4, <1>5, <1>6, <1>7, ChargesFrame

\* A request that is received finds the record settled: nobody else is at it.
LEMMA ChargesAccepted ==
  ASSUME ClerksInv, ChargeInv, NEW r \in Clerks, NEW q, NEW s, Accepted(r, q, s)
  PROVE  ChargeInv'
<1>1. /\ Idle(r) /\ next'[r] = s /\ asked'[r] = q /\ Others(r)
      /\ q.doc \notin Shared => Unattended(q.doc)
      /\ UNCHANGED <<state, used, charged, times>>
      /\ FitsAt(q, s) /\ s \in Statements \ {"idle"} /\ q \in Asking
  BY AcceptedFacts DEF Accepted, scheduleVars
<1>2. ChargeAt(q, s)
  <2> SUFFICES ASSUME q.kind = "charge" PROVE ChargeAt(q, s)
    BY DEF ChargeAt
  <2>1. Charges(q, s)
    BY DEF Accepted, Enters, Posts, Reverses, Deletes, Disposes, Removes
  <2>2. q.doc \in Schedules /\ q.base = used[q.doc] /\ q.base + q.amount <= Limit[q.doc]
    BY <2>1 DEF Charges
  <2>3. used[q.doc] <= charged[q.doc]
    BY <2>2 DEF ChargeInv, Bounded
  <2>4. s \in {"entry", "recognize"}
    BY <2>1 DEF Charges
  <2> QED BY <2>2, <2>3, <2>4 DEF ChargeAt
<1>3. ASSUME q.doc \in Steady PROVE SteadyAt(q, s)
  <2>1. q.doc \notin Manual /\ Settled(q.doc)
    BY <1>1, <1>3, LedgerAssumption DEF Steady, ChargeInv
  <2>2. Charges(q, s) \/ Disposes(q, s) \/ Removes(q, s)
    BY <2>1 DEF Accepted, Enters, Posts, Reverses, Deletes
  <2>3. CASE Charges(q, s)
    BY <2>1, <2>3 DEF Charges, SteadyAt
  <2>4. CASE Disposes(q, s)
    BY <2>1, <2>4 DEF Disposes, SteadyAt
  <2>5. CASE Removes(q, s)
    BY <2>1, <2>5 DEF Removes, SteadyAt
  <2> QED BY <2>2, <2>3, <2>4, <2>5
<1>4. \A x \in Schedules : Bounded(x)'
  BY <1>1 DEF ChargeInv, Bounded
<1>5. \A t \in Clerks : ChargeAt(asked[t], next[t])'
  BY <1>1, <1>2 DEF Others, ChargeInv, ChargeAt
<1>6. \A x \in Steady : OncePerMonth(x)' /\ (Unattended(x)' => Settled(x)')
  <2> SUFFICES ASSUME NEW x \in Steady PROVE OncePerMonth(x)' /\ (Unattended(x)' => Settled(x)')
    OBVIOUS
  <2>1. Unattended(x)' => Unattended(x)
    BY <1>1 DEF Unattended, Others, Idle, Subject
  <2> QED BY <1>1, <2>1 DEF ChargeInv, OncePerMonth, Settled
<1>7. ASSUME NEW t \in Clerks PROVE (Subject(t) \in Steady => SteadyAt(asked[t], next[t]))'
  <2>1. CASE t = r
    BY <1>1, <1>3, <2>1 DEF SteadyAt, Settled, Subject
  <2>2. CASE t # r
    BY <1>1, <2>2 DEF SteadyAt, Settled, Others, ChargeInv, Subject
  <2> QED BY <2>1, <2>2
<1> QED BY <1>4, <1>5, <1>6, <1>7 DEF ChargeInv

LEMMA ChargesStep == ClerksInv /\ ChargeInv /\ [JournalNext]_journalVars => ChargeInv'
<1> SUFFICES ASSUME ClerksInv, ChargeInv, [JournalNext]_journalVars PROVE ChargeInv'
  OBVIOUS
<1>1. CASE UNCHANGED journalVars
  BY <1>1 DEF journalVars, scheduleVars, ChargeInv, Bounded, ChargeAt, OncePerMonth, Settled,
              SteadyAt, Unattended, Idle, Subject
<1>2. ASSUME NEW r \in Clerks, Accept(r) PROVE ChargeInv'
  BY <1>2, AcceptFacts, ChargesAccepted
<1>3. ASSUME NEW r \in Clerks, Proceed(r) PROVE ChargeInv'
  BY <1>3, ChargesByHand, ChargesBroken, ChargesPosted, ChargesAdded, ChargesAccumulated,
     ChargesRun, ChargesRecognized, ChargesClosed DEF Proceed
<1>4. ASSUME NEW r \in Clerks, BreakOff(r) PROVE ChargeInv'
  BY <1>4, ChargesBroken
<1>5. CASE Repair
  BY <1>5 DEF Repair, scheduleVars, ChargeInv, Bounded, ChargeAt, OncePerMonth, Settled,
              SteadyAt, Unattended, Idle, Subject
<1> QED BY <1>1, <1>2, <1>3, <1>4, <1>5 DEF JournalNext, BooksAtRest

LEMMA ChargesStart == JournalInit => ChargeInv
<1> SUFFICES ASSUME JournalInit PROVE ChargeInv
  OBVIOUS
<1>1. \A x \in Schedules :
        /\ state[x] = "active" /\ used[x] = 0 /\ charged[x] = 0
        /\ \A p \in Months : times[x][p] = 0
        /\ Limit[x] \in Nat \ {0}
  BY LedgerAssumption DEF JournalInit
<1>2. \A r \in Clerks : next[r] = "idle"
  BY DEF JournalInit
<1>3. \A x \in Schedules : Bounded(x) /\ OncePerMonth(x) /\ Settled(x)
  BY <1>1 DEF Bounded, OncePerMonth, Settled
<1>4. \A r \in Clerks : ChargeAt(asked[r], next[r]) /\ SteadyAt(asked[r], next[r])
  BY <1>2 DEF ChargeAt, SteadyAt
<1> QED BY <1>3, <1>4 DEF ChargeInv, Steady

\* What is recorded as charged is in the journal and within the limit, and the record of a
\* schedule handled by one request at a time is settled whenever no request is at it.
THEOREM ChargesAlwaysAddUp == JournalSpec => []ChargesAddUp
<1>1. JournalInit => ClerksInv /\ ChargeInv
  BY ClerksStart, ChargesStart
<1>2. ClerksInv /\ ChargeInv /\ [JournalNext]_journalVars => (ClerksInv /\ ChargeInv)'
  BY ClerksStep, ChargesStep
<1>3. ClerksInv /\ ChargeInv => ChargesAddUp
  BY DEF ChargesAddUp, ChargeInv, Bounded, OncePerMonth, Settled, Steady
<1> QED BY <1>1, <1>2, <1>3, PTL DEF JournalSpec

-----------------------------------------------------------------------------
(* What is charged follows the plan *)

\* Month p of x is charged, with or without its run.
InBooks(x, p) == times[x][p] > 0 \/ \E t \in Clerks : Charging(t, x, p)

LEMMA MonthsInBooks ==
  /\ MonthsBooked = [x \in Steady |-> {p \in Months : InBooks(x, p)}]
  /\ MonthsBooked' = [x \in Steady |-> {p \in Months : InBooks(x, p)'}]
BY DEF MonthsBooked, InBooks

\* A step of a request about x is none for the other schedules, ...
LEMMA PlanElsewhere ==
  ASSUME ClerksInv, NEW r \in Clerks, NEW x, Others(r), Elsewhere(x),
         \A y \in Schedules \ {x}, p \in Months : ~ Charging(r, y, p) /\ ~ Charging(r, y, p)'
  PROVE  \A y \in Steady \ {x} :
           /\ charged'[y] = charged[y] /\ state'[y] = state[y]
           /\ \A p \in Months : InBooks(y, p)' <=> InBooks(y, p)
<1> SUFFICES ASSUME NEW y \in Steady \ {x}
             PROVE  /\ charged'[y] = charged[y] /\ state'[y] = state[y]
                    /\ \A p \in Months : InBooks(y, p)' <=> InBooks(y, p)
  OBVIOUS
<1>1. y \in Schedules \ {x}
  BY DEF Steady
<1>2. ASSUME NEW p \in Months, NEW t \in Clerks PROVE Charging(t, y, p)' <=> Charging(t, y, p)
  BY <1>1 DEF Others, Charging, Subject
<1> QED BY <1>1, <1>2 DEF Elsewhere, InBooks

\* ... and for x it is the only one.
LEMMA PlanOwn ==
  ASSUME ClerksInv, NEW r \in Clerks, NEW x \in Steady, x = asked[r].doc, ~ Idle(r), Others(r),
         NEW p \in Months
  PROVE  /\ InBooks(x, p) <=> times[x][p] > 0 \/ Charging(r, x, p)
         /\ InBooks(x, p)' <=> times'[x][p] > 0 \/ Charging(r, x, p)'
<1>1. ASSUME NEW t \in Clerks \ {r} PROVE ~ Charging(t, x, p) /\ ~ Charging(t, x, p)'
  <2>1. Charging(t, x, p)' <=> Charging(t, x, p)
    BY DEF Others, Charging, Subject
  <2>2. ~ Charging(t, x, p)
    BY DEF ClerksInv, RequestsOK, OneAtATime, Charging, Subject, Idle, Steady
  <2> QED BY <2>1, <2>2
<1> QED BY <1>1 DEF InBooks

LEMMA PlanStutters ==
  ASSUME ClerksInv, NEW r \in Clerks, NEW x, x = asked[r].doc, ~ Idle(r), Others(r), Elsewhere(x),
         asked'[r].doc = x \/ next'[r] = "idle",
         x \in Steady =>
           /\ charged'[x] = charged[x] /\ (state'[x] = "active" <=> state[x] = "active")
           /\ \A p \in Months :
                times[x][p] > 0 \/ Charging(r, x, p) <=> times'[x][p] > 0 \/ Charging(r, x, p)'
  PROVE  UNCHANGED <<Booked, MonthsBooked, StillOpen>>
<1>1. \A y \in Schedules \ {x}, p \in Months : ~ Charging(r, y, p) /\ ~ Charging(r, y, p)'
  BY DEF Charging, Subject
<1>2. \A y \in Steady \ {x} :
        /\ charged'[y] = charged[y] /\ state'[y] = state[y]
        /\ \A p \in Months : InBooks(y, p)' <=> InBooks(y, p)
  BY <1>1, PlanElsewhere
<1>3. x \in Steady => \A p \in Months : InBooks(x, p)' <=> InBooks(x, p)
  BY PlanOwn
<1>4. \A y \in Steady :
        /\ charged'[y] = charged[y] /\ (state'[y] = "active" <=> state[y] = "active")
        /\ \A p \in Months : InBooks(y, p)' <=> InBooks(y, p)
  BY <1>2, <1>3
<1>5. \A y \in Steady : {p \in Months : InBooks(y, p)'} = {p \in Months : InBooks(y, p)}
  BY <1>4
<1>6. MonthsBooked' = MonthsBooked
  BY <1>5, MonthsInBooks
<1> QED BY <1>4, <1>6 DEF Booked, StillOpen

LEMMA PlanCharges ==
  ASSUME ClerksInv, NEW r \in Clerks, NEW x \in Steady, x = asked[r].doc, ~ Idle(r), Others(r),
         Elsewhere(x), asked'[r].doc = x \/ next'[r] = "idle",
         NEW m \in Months, NEW n \in 1..Limit[x],
         state[x] = "active", charged'[x] = charged[x] + n, charged'[x] <= Limit[x],
         state'[x] = "active" \/ charged'[x] = Limit[x],
         ~ (times[x][m] > 0 \/ Charging(r, x, m)),
         \A p \in Months :
            times'[x][p] > 0 \/ Charging(r, x, p)' <=> times[x][p] > 0 \/ Charging(r, x, p) \/ p = m
  PROVE  Plan!Next
<1>1. \A y \in Schedules \ {x}, p \in Months : ~ Charging(r, y, p) /\ ~ Charging(r, y, p)'
  BY DEF Charging, Subject
<1>2. \A y \in Steady \ {x} :
        /\ charged'[y] = charged[y] /\ state'[y] = state[y]
        /\ \A p \in Months : InBooks(y, p)' <=> InBooks(y, p)
  BY <1>1, PlanElsewhere
<1>3. /\ ~ InBooks(x, m)
      /\ \A p \in Months : InBooks(x, p)' <=> InBooks(x, p) \/ p = m
  BY PlanOwn
<1>4. Booked' = [Booked EXCEPT ![x] = @ + n]
  BY <1>2 DEF Booked
<1>5. MonthsBooked' = [MonthsBooked EXCEPT ![x] = @ \cup {m}]
  <2>1. \A y \in Steady \ {x} : {p \in Months : InBooks(y, p)'} = {p \in Months : InBooks(y, p)}
    BY <1>2
  <2>2. {p \in Months : InBooks(x, p)'} = {p \in Months : InBooks(x, p)} \cup {m}
    BY <1>3
  <2> QED BY <2>1, <2>2, MonthsInBooks
<1>6. m \notin MonthsBooked[x] /\ StillOpen[x] /\ Booked'[x] = charged'[x]
  BY <1>3, MonthsInBooks DEF StillOpen, Booked
<1>7. \/ UNCHANGED StillOpen
      \/ Booked'[x] = Limit[x] /\ StillOpen' = [StillOpen EXCEPT ![x] = FALSE]
  <2>1. CASE state'[x] = "active"
    BY <1>2, <2>1 DEF StillOpen
  <2>2. CASE state'[x] # "active"
    <3>1. StillOpen' = [StillOpen EXCEPT ![x] = FALSE]
      BY <1>2, <2>2 DEF StillOpen
    <3> QED BY <1>6, <2>2, <3>1
  <2> QED BY <2>1, <2>2
<1>8. Plan!Charge(x, m, n)
  BY <1>4, <1>5, <1>6, <1>7 DEF Plan!Charge
<1> QED BY <1>8 DEF Plan!Next

LEMMA PlanCloses ==
  ASSUME ClerksInv, NEW r \in Clerks, NEW x \in Steady, x = asked[r].doc, ~ Idle(r), Others(r),
         Elsewhere(x), next'[r] = "idle", charged'[x] = charged[x], times'[x] = times[x],
         \A p \in Months : ~ Charging(r, x, p), state[x] = "active", state'[x] # "active"
  PROVE  Plan!Next
<1>1. \A y \in Schedules \ {x}, p \in Months : ~ Charging(r, y, p) /\ ~ Charging(r, y, p)'
  BY DEF Charging, Subject
<1>2. \A y \in Steady \ {x} :
        /\ charged'[y] = charged[y] /\ state'[y] = state[y]
        /\ \A p \in Months : InBooks(y, p)' <=> InBooks(y, p)
  BY <1>1, PlanElsewhere
<1>3. \A p \in Months : InBooks(x, p)' <=> InBooks(x, p)
  <2>1. \A p \in Months : ~ Charging(r, x, p)'
    BY DEF Charging
  <2> QED BY <2>1, PlanOwn
<1>4. \A y \in Steady : {p \in Months : InBooks(y, p)'} = {p \in Months : InBooks(y, p)}
  BY <1>2, <1>3
<1>5. MonthsBooked' = MonthsBooked /\ Booked' = Booked
  BY <1>2, <1>4, MonthsInBooks DEF Booked
<1>6. StillOpen[x] /\ StillOpen' = [StillOpen EXCEPT ![x] = FALSE]
  BY <1>2 DEF StillOpen
<1> QED BY <1>5, <1>6 DEF Plan!Close, Plan!Next

PlanVars == <<Booked, MonthsBooked, StillOpen>>
PlanStep == Plan!Next \/ UNCHANGED PlanVars

\* Steps that leave the records alone, before and after which request r charges alike.
LEMMA PlanStill ==
  ASSUME ClerksInv, NEW r \in Clerks, ~ Idle(r), Others(r), UNCHANGED scheduleVars,
         asked'[r].doc = asked[r].doc \/ next'[r] = "idle",
         asked[r].doc \in Steady =>
           \A p \in Months : Charging(r, asked[r].doc, p)' <=> Charging(r, asked[r].doc, p)
  PROVE  PlanStep
<1>1. PICK x : x = asked[r].doc
  OBVIOUS
<1>2. UNCHANGED <<state, used, charged, times>>
  BY DEF scheduleVars
<1>3. ASSUME x \in Steady, NEW p \in Months PROVE Charging(r, x, p)' <=> Charging(r, x, p)
  BY <1>1, <1>3 DEF Charging, Subject
<1>4. Elsewhere(x)
  BY <1>2 DEF Elsewhere
<1>5. UNCHANGED <<Booked, MonthsBooked, StillOpen>>
  BY <1>1, <1>2, <1>3, <1>4, PlanStutters
<1> QED BY <1>5 DEF PlanStep, PlanVars

LEMMA PlanAccepted ==
  ASSUME ClerksInv, NEW r \in Clerks, Accept(r)
  PROVE  PlanStep
<1>1. PICK q, s : Accepted(r, q, s)
  BY AcceptFacts
<1>2. /\ Idle(r) /\ next'[r] = s /\ Others(r) /\ UNCHANGED <<state, charged, times>>
      /\ s \notin {"add", "accumulate", "run"}
  <2>1. s \in {"enter", "post", "fetch", "delete", "entry", "recognize", "remove"}
    BY <1>1 DEF Accepted, Enters, Posts, Reverses, Deletes, Charges, Disposes, Removes
  <2> QED BY <1>1, <2>1, AcceptedFacts DEF scheduleVars
<1>3. \A x \in Steady, p \in Months : InBooks(x, p)' <=> InBooks(x, p)
  <2> SUFFICES ASSUME NEW x \in Steady, NEW p \in Months PROVE InBooks(x, p)' <=> InBooks(x, p)
    OBVIOUS
  <2>1. \A t \in Clerks : Charging(t, x, p)' <=> Charging(t, x, p)
    BY <1>2 DEF Others, Charging, Subject, Idle
  <2> QED BY <1>2, <2>1 DEF InBooks
<1>4. MonthsBooked' = MonthsBooked
  BY <1>3, MonthsInBooks
<1> QED BY <1>2, <1>4 DEF PlanStep, PlanVars, Booked, StillOpen

LEMMA PlanByHand ==
  ASSUME ClerksInv, NEW r \in Clerks,
         \/ InsertEntry(r) \/ SetPosted(r) \/ FetchAccounts(r) \/ InsertLines(r) \/ WriteAccount(r)
         \/ ReverseEntry(r) \/ DeleteLines(r) \/ DeleteEntry(r) \/ EntryGone(r)
  PROVE  PlanStep
<1>1. /\ Others(r) /\ UNCHANGED scheduleVars /\ next[r] \in OnManual
      /\ asked'[r].doc = asked[r].doc \/ next'[r] = "idle"
  BY ManualFacts
<1>2. asked[r].doc \notin Steady /\ ~ Idle(r)
  BY <1>1, RequestFacts, LedgerAssumption DEF FitsAt, Steady, Idle, OnManual
<1> QED BY <1>1, <1>2, PlanStill

LEMMA PlanBroken ==
  ASSUME ClerksInv, ChargeInv, NEW r \in Clerks, BreakOff(r) \/ AccrualGone(r)
  PROVE  PlanStep
<1>1. ~ Idle(r) /\ Answer(r) /\ UNCHANGED scheduleVars
  BY DEF BreakOff, AccrualGone, Abandon, Idle
<1>2. next'[r] = "idle" /\ Others(r)
  BY <1>1, AnswerFacts
<1>3. ASSUME asked[r].doc \in Steady PROVE next[r] \notin {"add", "accumulate", "run"}
  <2>1. next[r] \in OnAsset => asked[r].doc \in Assets
    BY RequestFacts DEF FitsAt
  <2> QED BY <1>3, <2>1 DEF BreakOff, Midway, AccrualGone, Steady, OnAsset, Subject
<1>4. ASSUME asked[r].doc \in Steady, NEW p \in Months
      PROVE  Charging(r, asked[r].doc, p)' <=> Charging(r, asked[r].doc, p)
  BY <1>2, <1>3, <1>4 DEF Charging
<1> QED BY <1>1, <1>2, <1>4, PlanStill

LEMMA PlanPosted ==
  ASSUME ClerksInv, ChargeInv, NEW r \in Clerks, PostEntry(r)
  PROVE  PlanStep
<1> DEFINE q == asked[r]
<1>1. PICK x : x = q.doc
  OBVIOUS
<1>2. PICK n, m : n = q.amount /\ m = q.month
  OBVIOUS
<1>3. /\ next[r] = "entry" /\ x \in Assets /\ x \in Schedules /\ q.kind \in {"charge", "dispose"}
      /\ n \in Nat /\ m \in Months /\ q.base \in Nat /\ ~ Idle(r)
  BY <1>1, <1>2, RequestFacts DEF PostEntry, FitsAt, OnAsset, Schedules, Idle
<1>4. /\ Others(r) /\ asked'[r] = q /\ next'[r] = "add"
      /\ UNCHANGED <<state, used, times>> /\ charged' = [charged EXCEPT ![x] = @ + n]
  BY <1>1, <1>2, GotoFacts DEF PostEntry, Subject
<1>5. /\ charged'[x] = charged[x] + n /\ charged[x] \in Nat
      /\ Limit[x] \in Nat /\ Elsewhere(x)
  BY <1>3, <1>4, ScheduleTypes DEF ClerksInv, BooksOK, Elsewhere
<1>6. CASE x \notin Steady
  BY <1>1, <1>3, <1>4, <1>5, <1>6, PlanStutters DEF PlanStep, PlanVars
<1>7. CASE x \in Steady
  <2>1. SteadyAt(q, "entry") /\ ChargeAt(q, "entry")
    BY <1>1, <1>3, <1>7 DEF ChargeInv, Subject
  <2>2. CASE q.kind = "dispose"
    <3>1. n = 0
      BY <1>2, <2>1, <2>2 DEF SteadyAt
    <3>2. \A p \in Months : ~ Charging(r, x, p) /\ ~ Charging(r, x, p)'
      BY <1>4, <2>2 DEF Charging
    <3> QED BY <1>1, <1>3, <1>4, <1>5, <3>1, <3>2, PlanStutters DEF PlanStep, PlanVars
  <2>3. CASE q.kind = "charge"
    <3>1. /\ used[x] = charged[x] /\ state[x] = "active" /\ times[x][m] = 0 /\ q.base = used[x]
          /\ n > 0
      BY <1>1, <1>2, <1>3, <2>1, <2>3 DEF SteadyAt, Settled
    <3>2. charged[x] + n <= Limit[x]
      BY <1>1, <1>2, <1>3, <2>1, <2>3, <3>1 DEF ChargeAt
    <3>3. n \in 1..Limit[x]
      BY <1>3, <1>5, <3>1, <3>2
    <3>4. \A p \in Months : ~ Charging(r, x, p) /\ (Charging(r, x, p)' <=> p = m)
      BY <1>1, <1>2, <1>3, <1>4, <2>3 DEF Charging, Subject
    <3> HIDE DEF q
    <3>5. \A p \in Months :
            times'[x][p] > 0 \/ Charging(r, x, p)' <=> times[x][p] > 0 \/ Charging(r, x, p) \/ p = m
      BY <1>4, <3>4
    <3> QED BY <1>1, <1>3, <1>4, <1>5, <1>7, <3>1, <3>2, <3>3, <3>4, <3>5, PlanCharges DEF PlanStep, q
  <2> QED BY <1>3, <2>2, <2>3
<1> QED BY <1>6, <1>7

LEMMA PlanAdded ==
  ASSUME ClerksInv, NEW r \in Clerks, AddToAccount(r)
  PROVE  PlanStep
<1> DEFINE q == [asked[r] EXCEPT !.lines = Tail(@)]
<1>1. /\ next[r] = "add" /\ asked' = [asked EXCEPT ![r] = q]
      /\ asked[r].kind \in {"charge", "dispose"}
      /\ q.doc = asked[r].doc /\ q.kind = asked[r].kind /\ q.month = asked[r].month
      /\ UNCHANGED scheduleVars
      /\ \E s \in {"add", "accumulate", "close"} :
           /\ next' = [next EXCEPT ![r] = s]
           /\ s = "accumulate" => q.kind = "charge"
           /\ s = "close" => q.kind = "dispose"
  BY AddFacts
<1> HIDE DEF q
<1>2. PICK s \in {"add", "accumulate", "close"} :
        /\ next' = [next EXCEPT ![r] = s]
        /\ s = "accumulate" => q.kind = "charge"
        /\ s = "close" => q.kind = "dispose"
  BY <1>1
<1>3. Others(r) /\ asked'[r] = q /\ next'[r] = s /\ ~ Idle(r)
  BY <1>1, <1>2 DEF Others, ClerksInv, RequestsOK, Idle
<1>4. ASSUME NEW p \in Months
      PROVE  Charging(r, asked[r].doc, p)' <=> Charging(r, asked[r].doc, p)
  BY <1>1, <1>2, <1>3 DEF Charging, Subject
<1> QED BY <1>1, <1>3, <1>4, PlanStill

LEMMA PlanAccumulated ==
  ASSUME ClerksInv, NEW r \in Clerks, Accumulate(r)
  PROVE  PlanStep
<1>1. PICK x : x = asked[r].doc
  OBVIOUS
<1>2. next[r] = "accumulate" /\ x \in Schedules /\ ~ Idle(r)
  BY <1>1, RequestFacts DEF Accumulate, FitsAt, OnAsset, Schedules, Idle
<1>3. /\ Others(r) /\ asked'[r] = asked[r] /\ next'[r] = "run" /\ UNCHANGED <<state, charged, times>>
      /\ \E n : used' = [used EXCEPT ![x] = n]
  BY <1>1, GotoFacts DEF Accumulate, Subject
<1>4. Elsewhere(x)
  BY <1>2, <1>3 DEF ClerksInv, BooksOK, Elsewhere
<1>5. \A p \in Months : Charging(r, x, p)' <=> Charging(r, x, p)
  BY <1>2, <1>3 DEF Charging, Subject
<1> QED BY <1>1, <1>2, <1>3, <1>4, <1>5, PlanStutters DEF PlanStep, PlanVars

LEMMA PlanRun ==
  ASSUME ClerksInv, ChargeInv, NEW r \in Clerks, InsertRun(r)
  PROVE  PlanStep
<1>1. PICK x, m : x = asked[r].doc /\ m = asked[r].month
  OBVIOUS
<1>2. /\ next[r] = "run" /\ x \in Schedules /\ asked[r].kind = "charge" /\ m \in Months /\ ~ Idle(r)
  BY <1>1, RequestFacts DEF InsertRun, FitsAt, OnAsset, Schedules, Idle
<1>3. /\ Others(r) /\ next'[r] = "idle"
      /\ UNCHANGED <<state, charged, used>> /\ times' = [times EXCEPT ![x][m] = @ + 1]
  BY <1>1, AnswerFacts DEF InsertRun, Subject
<1>4. /\ times'[x][m] = times[x][m] + 1 /\ times[x][m] \in Nat
      /\ \A p \in Months \ {m} : times'[x][p] = times[x][p]
      /\ Elsewhere(x)
  BY <1>2, <1>3 DEF ClerksInv, BooksOK, Elsewhere
<1>5. \A p \in Months : ~ Charging(r, x, p)' /\ (Charging(r, x, p) <=> p = m)
  BY <1>1, <1>2, <1>3 DEF Charging, Subject
<1>6. \A p \in Months : times[x][p] > 0 \/ Charging(r, x, p) <=> times'[x][p] > 0 \/ Charging(r, x, p)'
  BY <1>4, <1>5
<1> QED BY <1>1, <1>2, <1>3, <1>4, <1>6, PlanStutters DEF PlanStep, PlanVars

LEMMA PlanRecognized ==
  ASSUME ClerksInv, ChargeInv, NEW r \in Clerks, Recognize(r)
  PROVE  PlanStep
<1> DEFINE q == asked[r]
<1>1. PICK x, n, m, base : x = q.doc /\ n = q.amount /\ m = q.month /\ base = q.base
  OBVIOUS
<1>2. /\ next[r] = "recognize" /\ x \in Accruals /\ x \in Schedules /\ q.kind = "charge"
      /\ m \in Months /\ n \in Nat /\ base \in Nat /\ ~ Idle(r)
  BY <1>1, RequestFacts DEF Recognize, FitsAt, OnAccrual, Schedules, Idle
<1>3. /\ Others(r) /\ next'[r] = "idle"
      /\ times' = [times EXCEPT ![x][m] = @ + 1]
      /\ charged' = [charged EXCEPT ![x] = @ + n]
      /\ used' = [used EXCEPT ![x] = base + n]
      /\ state' = [state EXCEPT ![x] = IF base + n = Limit[x] THEN "completed" ELSE "active"]
  BY <1>1, AnswerFacts DEF Recognize, Subject
<1>4. /\ times'[x][m] = times[x][m] + 1
      /\ \A p \in Months \ {m} : times'[x][p] = times[x][p]
      /\ charged'[x] = charged[x] + n /\ charged[x] \in Nat /\ Limit[x] \in Nat
      /\ state'[x] = IF base + n = Limit[x] THEN "completed" ELSE "active"
      /\ Elsewhere(x)
  BY <1>2, <1>3, ScheduleTypes DEF ClerksInv, BooksOK, Elsewhere
<1>5. \A p \in Months : ~ Charging(r, x, p) /\ ~ Charging(r, x, p)'
  BY <1>2, <1>3 DEF Charging
<1>6. CASE x \notin Steady
  BY <1>1, <1>2, <1>3, <1>4, <1>6, PlanStutters DEF PlanStep, PlanVars
<1>7. CASE x \in Steady
  <2>1. SteadyAt(q, "recognize") /\ ChargeAt(q, "recognize")
    BY <1>1, <1>2, <1>7 DEF ChargeInv, Subject
  <2>2. /\ used[x] = charged[x] /\ state[x] = "active" /\ times[x][m] = 0 /\ base = used[x]
        /\ n > 0
    BY <1>1, <1>2, <2>1 DEF SteadyAt, Settled
  <2>3. charged[x] + n <= Limit[x]
    BY <1>1, <1>2, <2>1, <2>2 DEF ChargeAt
  <2>4. n \in 1..Limit[x] /\ charged'[x] <= Limit[x]
    BY <1>2, <1>4, <2>2, <2>3
  <2>5. state'[x] = "active" \/ charged'[x] = Limit[x]
    BY <1>4, <2>2
  <2>6. \A p \in Months :
          times'[x][p] > 0 \/ Charging(r, x, p)' <=> times[x][p] > 0 \/ Charging(r, x, p) \/ p = m
    BY <1>4, <1>5, <2>2
  <2>7. ~ (times[x][m] > 0 \/ Charging(r, x, m))
    BY <1>2, <1>5, <2>2
  <2> QED BY <1>1, <1>2, <1>3, <1>4, <1>7, <2>2, <2>4, <2>5, <2>6, <2>7, PlanCharges DEF PlanStep
<1> QED BY <1>6, <1>7

LEMMA PlanClosed ==
  ASSUME ClerksInv, NEW r \in Clerks, Close(r) \/ RemoveAccrual(r)
  PROVE  PlanStep
<1>1. PICK x : x = asked[r].doc
  OBVIOUS
<1>2. next[r] \in {"close", "remove"} /\ x \in Schedules /\ ~ Idle(r)
  BY <1>1, RequestFacts DEF Close, RemoveAccrual, FitsAt, OnAsset, OnAccrual, Schedules, Idle
<1>3. /\ Others(r) /\ next'[r] = "idle" /\ UNCHANGED <<used, charged, times>>
      /\ state' = state \/ state' = [state EXCEPT ![x] = IF next[r] = "close" THEN "disposed" ELSE "deleted"]
  BY <1>1, AnswerFacts DEF Close, RemoveAccrual, Subject
<1>4. Elsewhere(x) /\ state'[x] \in {state[x], "disposed", "deleted"}
  BY <1>2, <1>3 DEF ClerksInv, BooksOK, Elsewhere
<1>5. \A p \in Months : ~ Charging(r, x, p) /\ ~ Charging(r, x, p)'
  BY <1>2, <1>3 DEF Charging
<1>6. CASE x \in Steady /\ state[x] = "active" /\ state'[x] # "active"
  BY <1>1, <1>2, <1>3, <1>4, <1>5, <1>6, PlanCloses DEF PlanStep
<1>7. CASE ~ (x \in Steady /\ state[x] = "active" /\ state'[x] # "active")
  <2>1. x \in Steady => (state'[x] = "active" <=> state[x] = "active")
    BY <1>4, <1>7
  <2> QED BY <1>1, <1>2, <1>3, <1>4, <1>5, <2>1, PlanStutters DEF PlanStep, PlanVars
<1> QED BY <1>6, <1>7

LEMMA PlanStepped ==
  ClerksInv /\ ChargeInv /\ [JournalNext]_journalVars => [Plan!Next]_<<Booked, MonthsBooked, StillOpen>>
<1> SUFFICES ASSUME ClerksInv, ChargeInv, [JournalNext]_journalVars PROVE PlanStep
  BY DEF PlanStep, PlanVars
<1>1. CASE UNCHANGED journalVars \/ Repair
  <2>1. UNCHANGED <<scheduleVars, asked, next>>
    BY <1>1 DEF journalVars, Repair
  <2>2. \A x, p : InBooks(x, p)' <=> InBooks(x, p)
    BY <2>1 DEF InBooks, Charging, Subject, scheduleVars
  <2>3. MonthsBooked' = MonthsBooked
    BY <2>2, MonthsInBooks
  <2> QED BY <2>1, <2>3 DEF PlanStep, PlanVars, Booked, StillOpen, scheduleVars
<1>2. ASSUME NEW r \in Clerks, Accept(r) PROVE PlanStep
  BY <1>2, PlanAccepted
<1>3. ASSUME NEW r \in Clerks, Proceed(r) PROVE PlanStep
  BY <1>3, PlanByHand, PlanBroken, PlanPosted, PlanAdded, PlanAccumulated, PlanRun,
     PlanRecognized, PlanClosed DEF Proceed
<1>4. ASSUME NEW r \in Clerks, BreakOff(r) PROVE PlanStep
  BY <1>4, PlanBroken
<1> QED BY <1>1, <1>2, <1>3, <1>4 DEF JournalNext, BooksAtRest

LEMMA PlanStart == JournalInit => Plan!Init
<1> SUFFICES ASSUME JournalInit PROVE Plan!Init
  OBVIOUS
<1>1. \A x \in Steady : charged[x] = 0 /\ state[x] = "active" /\ \A p \in Months : times[x][p] = 0
  BY DEF JournalInit, Steady
<1>2. \A x \in Steady, p \in Months : ~ InBooks(x, p)
  BY <1>1 DEF InBooks, Charging, JournalInit
<1>3. MonthsBooked = [x \in Steady |-> {}]
  BY <1>2, MonthsInBooks
<1> QED BY <1>1, <1>3 DEF Plan!Init, Booked, StillOpen

\* Such a schedule is charged at most once per month and never after it is closed: the
\* journal implements ChargePlan.
THEOREM JournalImplementsPlan == JournalSpec => ImplementsChargePlan
<1>1. JournalInit => ClerksInv /\ ChargeInv
  BY ClerksStart, ChargesStart
<1>2. ClerksInv /\ ChargeInv /\ [JournalNext]_journalVars => (ClerksInv /\ ChargeInv)'
  BY ClerksStep, ChargesStep
<1> QED BY <1>1, <1>2, PlanStart, PlanStepped, PTL DEF JournalSpec, ImplementsChargePlan, Plan!Spec

-----------------------------------------------------------------------------
(* What a step of a request may write *)

Goes(r) == Proceed(r) \/ BreakOff(r)

LEMMA GoesShape ==
  ASSUME ClerksInv, NEW r \in Clerks, Goes(r)
  PROVE  /\ Others(r) /\ ~ Idle(r) /\ ClerksInv'
         /\ asked'[r].doc = asked[r].doc \/ next'[r] = "idle"
<1>1. ClerksInv'
  BY ClerksStep DEF Goes, JournalNext
<1>2. CASE \/ InsertEntry(r) \/ SetPosted(r) \/ FetchAccounts(r) \/ InsertLines(r) \/ WriteAccount(r)
           \/ ReverseEntry(r) \/ DeleteLines(r) \/ DeleteEntry(r) \/ EntryGone(r)
  BY <1>1, <1>2, ManualFacts DEF Idle, OnManual
<1>3. CASE PostEntry(r) \/ Accumulate(r)
  BY <1>1, <1>3, GotoFacts DEF PostEntry, Accumulate, Idle
<1>4. CASE AddToAccount(r)
  <2> DEFINE q == [asked[r] EXCEPT !.lines = Tail(@)]
  <2>1. /\ next[r] = "add" /\ asked' = [asked EXCEPT ![r] = q] /\ q.doc = asked[r].doc
        /\ \E s \in {"add", "accumulate", "close"} : next' = [next EXCEPT ![r] = s]
    BY <1>4, AddFacts
  <2> HIDE DEF q
  <2> QED BY <1>1, <2>1 DEF Others, ClerksInv, RequestsOK, Idle
<1>5. CASE InsertRun(r) \/ Recognize(r) \/ Close(r) \/ RemoveAccrual(r) \/ AccrualGone(r) \/ BreakOff(r)
  <2>1. Answer(r) /\ ~ Idle(r)
    BY <1>5 DEF InsertRun, Recognize, Close, RemoveAccrual, AccrualGone, BreakOff, Abandon, Idle
  <2> QED BY <1>1, <2>1, AnswerFacts
<1> QED BY <1>2, <1>3, <1>4, <1>5 DEF Goes, Proceed

\* Lines that are not about account a do nothing to it.
LEMMA TotalUntouched ==
  ASSUME ClerksInv, NEW r \in Clerks, NEW a, a \notin Touched(asked[r].doc)
  PROVE  /\ \A i \in DOMAIN asked[r].lines : asked[r].lines[i].account # a
         /\ Total(asked[r].lines, a) = 0
<1>1. /\ asked[r].lines \in Seq(EntryLine)
      /\ \A i \in DOMAIN asked[r].lines : asked[r].lines[i].account \in Touched(asked[r].doc)
  BY RequestFacts DEF FitsAt
<1> QED BY <1>1, TotalNone

\* The entries of other documents, and the accounts they do not touch, are left alone.
LEMMA GoesElsewhere ==
  ASSUME ClerksInv, NEW r \in Clerks, Goes(r)
  PROVE  /\ \A m \in Manual \ {asked[r].doc} : status'[m] = status[m] /\ lined'[m] = lined[m]
         /\ \A a \in Accounts \ Touched(asked[r].doc) :
              balance'[a] = balance[a] /\ ledger'[a] = ledger[a]
<1> DEFINE d == asked[r].doc
           Same == /\ \A m \in Manual \ {d} : status'[m] = status[m] /\ lined'[m] = lined[m]
                   /\ \A a \in Accounts \ Touched(d) : balance'[a] = balance[a] /\ ledger'[a] = ledger[a]
<1>1. /\ balance \in [Accounts -> Int] /\ ledger \in [Accounts -> Int]
      /\ status \in [Manual -> {"none", "draft", "posted", "reversed", "deleted"}]
      /\ lined \in [Manual -> BOOLEAN]
  BY DEF ClerksInv, BooksOK
<1>2. ASSUME UNCHANGED bookVars,
             status' = status \/ \E v : status' = [status EXCEPT ![d] = v],
             lined' = lined \/ \E v : lined' = [lined EXCEPT ![d] = v]
      PROVE  Same
  BY <1>1, <1>2 DEF bookVars
<1>3. CASE \/ InsertEntry(r) \/ SetPosted(r) \/ FetchAccounts(r) \/ InsertLines(r)
           \/ DeleteLines(r) \/ DeleteEntry(r) \/ EntryGone(r)
  <2>1. /\ UNCHANGED bookVars
        /\ status' = status \/ \E v : status' = [status EXCEPT ![d] = v]
        /\ lined' = lined \/ \E v : lined' = [lined EXCEPT ![d] = v]
    BY <1>3 DEF InsertEntry, SetPosted, FetchAccounts, InsertLines, DeleteLines, DeleteEntry,
                EntryGone, Abandon, Subject, entryVars
  <2> QED BY <1>2, <2>1
<1>4. CASE Accumulate(r) \/ InsertRun(r) \/ Close(r) \/ RemoveAccrual(r) \/ AccrualGone(r) \/ BreakOff(r)
  <2>1. UNCHANGED bookVars /\ UNCHANGED <<status, lined>>
    BY <1>4 DEF Accumulate, InsertRun, Close, RemoveAccrual, AccrualGone, BreakOff, Abandon, entryVars
  <2> QED BY <1>2, <2>1
<1>5. CASE WriteAccount(r)
  <2> DEFINE l == Head(asked[r].lines)
             new == asked[r].seen[l.account] + Sign(l.account) * l.amount
  <2>1. /\ next[r] = "write" /\ balance' = [balance EXCEPT ![l.account] = new]
        /\ UNCHANGED <<entryVars, ledger>>
    BY <1>5, WriteFacts
  <2>2. l.account \in Touched(d)
    <3>1. /\ asked[r].lines \in Seq(EntryLine) /\ asked[r].lines # <<>>
          /\ \A i \in DOMAIN asked[r].lines : asked[r].lines[i].account \in Touched(d)
      BY <2>1, RequestFacts DEF FitsAt
    <3>2. l = asked[r].lines[1] /\ 1 \in DOMAIN asked[r].lines
      BY <3>1, TailFacts
    <3> QED BY <3>1, <3>2
  <2> HIDE DEF new, l
  <2> QED BY <1>1, <2>1, <2>2 DEF entryVars
<1>6. CASE ReverseEntry(r)
  <2>1. /\ ledger' = [a \in Accounts |-> ledger[a] - Total(asked[r].lines, a)]
        /\ balance' = [a \in Accounts |->
             IF \E i \in DOMAIN asked[r].lines : asked[r].lines[i].account = a
             THEN asked[r].seen[a] - Sign(a) * Total(asked[r].lines, a) ELSE balance[a]]
        /\ \E v : status' = [status EXCEPT ![d] = v]
        /\ UNCHANGED lined
    BY <1>6 DEF ReverseEntry, Subject
  <2>2. ASSUME NEW a \in Accounts \ Touched(d) PROVE balance'[a] = balance[a] /\ ledger'[a] = ledger[a]
    <3>1. /\ \A i \in DOMAIN asked[r].lines : asked[r].lines[i].account # a
          /\ Total(asked[r].lines, a) = 0
      BY TotalUntouched
    <3>2. balance'[a] = balance[a]
      BY <2>1, <3>1
    <3>3. ledger'[a] = ledger[a] - 0 /\ ledger[a] \in Int
      BY <1>1, <2>1, <3>1
    <3> QED BY <3>2, <3>3
  <2> QED BY <1>1, <2>1, <2>2
<1>7. CASE PostEntry(r)
  <2>1. /\ ledger' = [a \in Accounts |-> ledger[a] + Total(asked[r].lines, a)]
        /\ UNCHANGED <<status, lined, balance>>
    BY <1>7 DEF PostEntry, entryVars
  <2> QED BY <1>1, <2>1, TotalUntouched
<1>8. CASE AddToAccount(r)
  <2> DEFINE l == Head(asked[r].lines)
  <2>1. /\ next[r] = "add" /\ balance' = [balance EXCEPT ![l.account] = @ + l.amount]
        /\ UNCHANGED <<entryVars, ledger>>
    BY <1>8, AddFacts
  <2>2. l.account \in Touched(d)
    <3>1. /\ asked[r].lines \in Seq(EntryLine) /\ asked[r].lines # <<>>
          /\ \A i \in DOMAIN asked[r].lines : asked[r].lines[i].account \in Touched(d)
      BY <2>1, RequestFacts DEF FitsAt
    <3>2. l = asked[r].lines[1] /\ 1 \in DOMAIN asked[r].lines
      BY <3>1, TailFacts
    <3> QED BY <3>1, <3>2
  <2> HIDE DEF l
  <2> QED BY <1>1, <2>1, <2>2 DEF entryVars
<1>9. CASE Recognize(r)
  <2>1. /\ ledger' = [a \in Accounts |-> ledger[a] + Total(asked[r].lines, a)]
        /\ balance' = [a \in Accounts |-> balance[a] + Total(asked[r].lines, a)]
        /\ UNCHANGED <<status, lined>>
    BY <1>9 DEF Recognize, PostAtOnce, entryVars
  <2> QED BY <1>1, <2>1, TotalUntouched
<1> QED BY <1>3, <1>4, <1>5, <1>6, <1>7, <1>8, <1>9 DEF Goes, Proceed

-----------------------------------------------------------------------------
(* Accounts that are written relatively *)

Relative(a) ==
  \/ Writers(a) \subseteq Accruals
  \/ a \notin Repaired /\ Writers(a) \subseteq Accruals \cup (Assets \ Flaky)

\* What request r has posted and not yet added to account a.
Due(r, a) == IF next[r] = "add" THEN Total(asked[r].lines, a) ELSE 0
Dues(a) == [r \in Clerks |-> Due(r, a)]
AddsUp(a) == balance[a] + SumFunctionOnSet(Dues(a), Clerks) = ledger[a]

RelativeInv == \A a \in Accounts : Relative(a) => AddsUp(a)

LEMMA DueType == ASSUME ClerksInv, NEW r \in Clerks, NEW a PROVE Due(r, a) \in Int
BY RequestFacts, TotalType DEF Due

\* Arithmetic: b and c are a balance and a ledger, k what is due of one request, s of all.
LEMMA StillBalanced ==
  ASSUME NEW b \in Int, NEW c \in Int, NEW k \in Int, NEW s \in Int, b + s = c,
         NEW b1 \in Int, NEW c1 \in Int, NEW k1 \in Int, b1 + k1 - c1 = b + k - c
  PROVE  b1 + (s - k + k1) = c1
OBVIOUS

LEMMA AddsUpMoves ==
  ASSUME ClerksInv, ClerksInv', NEW r \in Clerks, Others(r), NEW a \in Accounts, AddsUp(a),
         balance'[a] + Due(r, a)' - ledger'[a] = balance[a] + Due(r, a) - ledger[a]
  PROVE  AddsUp(a)'
<1> DEFINE f == Dues(a)
           g == [t \in Clerks |-> Due(t, a)']
<1>1. \A t \in Clerks : f[t] = Due(t, a) /\ g[t] = Due(t, a)' /\ f[t] \in Int
  BY DueType DEF Dues
<1>2. \A t \in Clerks : Due(t, a)' \in Int
  <2> SUFFICES ASSUME NEW t \in Clerks PROVE Due(t, a)' \in Int
    OBVIOUS
  <2>1. asked'[t] \in Asking
    BY DEF ClerksInv, RequestsOK
  <2>2. asked'[t].lines \in Seq(EntryLine)
    BY <2>1 DEF Asking
  <2>3. Total(asked'[t].lines, a) \in Int
    BY <2>2, TotalType
  <2>4. Total(asked[t].lines, a)' = Total(asked'[t].lines, a)
    BY DEF Total, Changes, Change
  <2> QED BY <2>3, <2>4 DEF Due
<1>3. \A t \in Clerks \ {r} : g[t] = f[t]
  BY <1>1 DEF Due, Others, Total, Changes, Change
<1>4. Dues(a)' = g
  BY DEF Dues
<1>5. IsFiniteSet(Clerks) /\ \A t \in Clerks : g[t] \in Int
  BY <1>1, <1>2, LedgerAssumption
<1> HIDE DEF f, g
<1>6. SumFunctionOnSet(g, Clerks) = SumFunctionOnSet(f, Clerks) - f[r] + g[r]
  BY <1>1, <1>3, <1>5, SumUpdate
<1>7. SumFunctionOnSet(f, Clerks) \in Int
  BY <1>1, <1>5, SumSplit
<1>8. SumFunctionOnSet(Dues(a), Clerks)' = SumFunctionOnSet(g, Clerks)
  BY <1>4
<1>9. balance[a] \in Int /\ ledger[a] \in Int /\ balance'[a] \in Int /\ ledger'[a] \in Int
  BY DEF ClerksInv, BooksOK
<1>10. balance[a] + SumFunctionOnSet(f, Clerks) = ledger[a]
  BY DEF AddsUp, f
<1>11. balance'[a] + g[r] - ledger'[a] = balance[a] + f[r] - ledger[a]
  BY <1>1
<1>12. f[r] \in Int /\ g[r] \in Int
  BY <1>1, <1>5
<1>13. balance'[a] + SumFunctionOnSet(g, Clerks) = ledger'[a]
  <2>1. PICK b, c, b1, c1, k, k1, S, T :
          /\ b = balance[a] /\ c = ledger[a] /\ b1 = balance'[a] /\ c1 = ledger'[a]
          /\ k = f[r] /\ k1 = g[r] /\ S = SumFunctionOnSet(f, Clerks)
          /\ T = SumFunctionOnSet(g, Clerks)
    OBVIOUS
  <2>2. /\ b \in Int /\ c \in Int /\ b1 \in Int /\ c1 \in Int /\ k \in Int /\ k1 \in Int
        /\ S \in Int /\ T = S - k + k1 /\ b + S = c /\ b1 + k1 - c1 = b + k - c
    BY <1>6, <1>7, <1>9, <1>10, <1>11, <1>12, <2>1
  <2>3. b1 + T = c1
    BY <2>2, StillBalanced
  <2> QED BY <2>1, <2>3
<1> QED BY <1>8, <1>13 DEF AddsUp

\* What remains is due when the first line is added.
LEMMA DueAdded ==
  ASSUME ClerksInv, NEW r \in Clerks, NEW a \in Accounts, AddToAccount(r)
  PROVE  balance'[a] + Due(r, a)' - ledger'[a] = balance[a] + Due(r, a) - ledger[a]
<1> DEFINE lines == asked[r].lines
           l == Head(lines)
           q == [asked[r] EXCEPT !.lines = Tail(@)]
<1>1. /\ next[r] = "add" /\ l \in EntryLine /\ lines # <<>> /\ lines \in Seq(EntryLine)
      /\ balance' = [balance EXCEPT ![l.account] = @ + l.amount]
      /\ asked' = [asked EXCEPT ![r] = q] /\ q.lines = Tail(lines)
      /\ \E s \in {"add", "accumulate", "close"} :
           /\ next' = [next EXCEPT ![r] = s]
           /\ s # "add" <=> q.lines = <<>>
      /\ ledger' = ledger
  <2>1. /\ next[r] = "add" /\ l \in EntryLine
        /\ balance' = [balance EXCEPT ![l.account] = @ + l.amount]
        /\ asked' = [asked EXCEPT ![r] = q] /\ q.lines = Tail(lines)
        /\ \E s \in {"add", "accumulate", "close"} :
             /\ next' = [next EXCEPT ![r] = s]
             /\ s # "add" <=> q.lines = <<>>
        /\ ledger' = ledger
    BY AddFacts
  <2>2. lines # <<>> /\ lines \in Seq(EntryLine)
    BY <2>1, RequestFacts DEF FitsAt
  <2> HIDE DEF lines, l, q
  <2> QED BY <2>1, <2>2
<1>2. /\ Total(lines, a) = Change(l, a) + Total(Tail(lines), a)
      /\ Tail(lines) \in Seq(EntryLine)
  BY <1>1, TotalFirst
<1> HIDE DEF q, l
<1>3. PICK s \in {"add", "accumulate", "close"} :
        /\ next' = [next EXCEPT ![r] = s]
        /\ s # "add" <=> q.lines = <<>>
  BY <1>1
<1>4. asked'[r] = q /\ next'[r] = s
  BY <1>1, <1>3 DEF ClerksInv, RequestsOK
<1>5. Due(r, a)' = Total(Tail(lines), a)
  <2>1. Due(r, a)' = IF s = "add" THEN Total(q.lines, a) ELSE 0
    BY <1>4 DEF Due, Total, Changes, Change
  <2>2. CASE s = "add"
    BY <1>1, <2>1, <2>2
  <2>3. CASE s # "add"
    <3>1. Tail(lines) = <<>>
      BY <1>1, <1>3, <2>3
    <3> QED BY <2>1, <2>3, <3>1, TotalEmpty
  <2> QED BY <2>2, <2>3
<1>6. balance'[a] = balance[a] + Change(l, a)
  BY <1>1 DEF ClerksInv, BooksOK, Change, EntryLine
<1>7. Due(r, a) = Total(lines, a)
  BY <1>1 DEF Due
<1>8. /\ balance[a] \in Int /\ ledger[a] \in Int /\ Change(l, a) \in Int
      /\ Total(Tail(lines), a) \in Int
  <2>1. Change(l, a) \in Int
    BY <1>1 DEF Change, EntryLine
  <2>2. balance[a] \in Int /\ ledger[a] \in Int
    BY DEF ClerksInv, BooksOK
  <2> QED BY <1>2, <2>1, <2>2, TotalType
<1> QED BY <1>1, <1>2, <1>5, <1>6, <1>7, <1>8

LEMMA DuePosted ==
  ASSUME ClerksInv, NEW r \in Clerks, NEW a \in Accounts, PostEntry(r) \/ Recognize(r)
  PROVE  balance'[a] + Due(r, a)' - ledger'[a] = balance[a] + Due(r, a) - ledger[a]
<1> DEFINE n == Total(asked[r].lines, a)
<1>1. /\ n \in Int /\ balance[a] \in Int /\ ledger[a] \in Int
  BY RequestFacts, TotalType DEF ClerksInv, BooksOK
<1>2. CASE PostEntry(r)
  <2>1. next[r] = "entry" /\ next'[r] = "add" /\ asked' = asked /\ balance' = balance
        /\ ledger'[a] = ledger[a] + n
    BY <1>2 DEF PostEntry, Goto, ClerksInv, RequestsOK
  <2>2. Due(r, a) = 0 /\ Due(r, a)' = n
    BY <2>1 DEF Due, Total, Changes, Change
  <2> HIDE DEF n
  <2> QED BY <1>1, <2>1, <2>2
<1>3. CASE Recognize(r)
  <2>1. /\ next[r] = "recognize" /\ next'[r] = "idle"
        /\ ledger'[a] = ledger[a] + n /\ balance'[a] = balance[a] + n
    BY <1>3, AnswerFacts DEF Recognize, PostAtOnce
  <2>2. Due(r, a) = 0 /\ Due(r, a)' = 0
    BY <2>1 DEF Due
  <2> HIDE DEF n
  <2> QED BY <1>1, <2>1, <2>2
<1> QED BY <1>2, <1>3

\* The other steps do not touch an account that only assets and accruals write.
LEMMA DueKept ==
  ASSUME ClerksInv, NEW r \in Clerks, NEW a \in Accounts, Relative(a), Goes(r),
         ~ AddToAccount(r), ~ PostEntry(r), ~ Recognize(r)
  PROVE  balance'[a] + Due(r, a)' - ledger'[a] = balance[a] + Due(r, a) - ledger[a]
<1>1. /\ Others(r) /\ ClerksInv'
      /\ asked'[r].doc = asked[r].doc \/ next'[r] = "idle"
  BY GoesShape
<1>2. balance[a] \in Int /\ ledger[a] \in Int
  BY DEF ClerksInv, BooksOK
<1>3. CASE a \notin Touched(asked[r].doc)
  <2>1. balance'[a] = balance[a] /\ ledger'[a] = ledger[a]
    BY <1>3, GoesElsewhere
  <2>2. Due(r, a) = 0
    BY <1>3, TotalUntouched DEF Due
  <2>3. Due(r, a)' = 0
    <3>1. CASE next'[r] = "idle"
      BY <3>1 DEF Due
    <3>2. CASE next'[r] # "idle"
      <4>1. /\ asked'[r].lines \in Seq(EntryLine)
            /\ \A i \in DOMAIN asked'[r].lines : asked'[r].lines[i].account # a
        <5>1. FitsAt(asked'[r], next'[r])
          <6>1. RequestsOK'
            BY <1>1 DEF ClerksInv
          <6> QED BY <6>1 DEF RequestsOK, FitsAt
        <5>2. asked'[r] \in Asking
          BY <1>1 DEF ClerksInv, RequestsOK
        <5> QED BY <1>1, <1>3, <3>2, <5>1, <5>2 DEF FitsAt, Asking
      <4>2. Total(asked'[r].lines, a) = 0
        BY <4>1, TotalNone
      <4>3. Total(asked[r].lines, a)' = Total(asked'[r].lines, a)
        BY DEF Total, Changes, Change
      <4> QED BY <4>2, <4>3 DEF Due
    <3> QED BY <3>1, <3>2
  <2> QED BY <1>2, <2>1, <2>2, <2>3
<1>4. CASE a \in Touched(asked[r].doc)
  <2>1. asked[r].doc \in Accruals \cup (Assets \ Flaky) /\ asked[r].doc \notin Manual
    BY <1>4, RequestFacts, LedgerAssumption DEF Relative, Writers, Schedules
  <2>2. next[r] \notin OnManual
    BY <2>1, RequestFacts DEF FitsAt
  <2>3. Accumulate(r) \/ InsertRun(r) \/ Close(r) \/ RemoveAccrual(r) \/ AccrualGone(r) \/ BreakOff(r)
    BY <2>2 DEF Goes, Proceed, InsertEntry, SetPosted, FetchAccounts, InsertLines, WriteAccount,
                ReverseEntry, DeleteLines, DeleteEntry, EntryGone, OnManual
  <2>4. UNCHANGED bookVars
    BY <2>3 DEF Accumulate, InsertRun, Close, RemoveAccrual, AccrualGone, BreakOff, Abandon
  <2>5. next'[r] # "add"
    BY <2>3, AnswerFacts, GotoFacts DEF Accumulate, InsertRun, Close, RemoveAccrual, AccrualGone,
                                        BreakOff, Abandon
  <2>6. next[r] # "add"
    <3>1. CASE BreakOff(r)
      <4>1. next[r] = "add" => asked[r].doc \in Assets \cap Flaky
        BY <3>1, RequestFacts DEF BreakOff, Midway, Subject, FitsAt, OnAsset
      <4> QED BY <2>1, <4>1, LedgerAssumption
    <3>2. CASE ~ BreakOff(r)
      BY <2>3, <3>2 DEF Accumulate, InsertRun, Close, RemoveAccrual, AccrualGone
    <3> QED BY <3>1, <3>2
  <2> QED BY <1>2, <2>4, <2>5, <2>6 DEF Due, bookVars
<1> QED BY <1>3, <1>4

LEMMA AcceptLeaves ==
  ASSUME ClerksInv, NEW r \in Clerks, Accept(r)
  PROVE  /\ Idle(r) /\ Others(r) /\ UNCHANGED <<entryVars, bookVars, scheduleVars>>
         /\ next'[r] \in {"enter", "post", "fetch", "delete", "entry", "recognize", "remove"}
<1>1. PICK q, s : Accepted(r, q, s)
  BY AcceptFacts
<1>2. s \in {"enter", "post", "fetch", "delete", "entry", "recognize", "remove"}
  BY <1>1 DEF Accepted, Enters, Posts, Reverses, Deletes, Charges, Disposes, Removes
<1> QED BY <1>1, <1>2, AcceptedFacts

\* The repair finds the balance of an account of accruals as it should be.
LEMMA RelativeRepaired ==
  ASSUME ClerksInv, NEW a \in Accounts, Relative(a), AddsUp(a), Repair
  PROVE  AddsUp(a)'
<1>1. CASE a \notin Repaired
  <2>1. UNCHANGED <<ledger, asked, next>> /\ balance'[a] = balance[a]
    BY <1>1 DEF Repair
  <2> QED BY <2>1 DEF AddsUp, Dues, Due, Total, Changes, Change
<1> SUFFICES ASSUME a \in Repaired PROVE AddsUp(a)'
  BY <1>1
<1>2. Writers(a) \subseteq Accruals
  BY DEF Relative
<1>3. ASSUME NEW r \in Clerks PROVE Due(r, a)' = 0
  <2>1. next[r] = "add" => asked[r].doc \in Assets
    BY RequestFacts DEF FitsAt, OnAsset
  <2>2. next[r] = "add" => a \notin Touched(asked[r].doc)
    BY <1>2, <2>1, LedgerAssumption, RequestFacts DEF Writers
  <2>3. Due(r, a) = 0
    BY <2>2, TotalUntouched DEF Due
  <2>4. asked' = asked /\ next' = next
    BY DEF Repair
  <2>5. Due(r, a)' = Due(r, a)
    BY <2>4 DEF Due, Total, Changes, Change
  <2> QED BY <2>3, <2>5
<1>4. SumFunctionOnSet(Dues(a), Clerks)' = 0
  <2> DEFINE g == [r \in Clerks |-> Due(r, a)']
  <2>1. \A r \in Clerks : g[r] = 0
    BY <1>3
  <2>2. SumFunctionOnSet(g, Clerks) = 0
    <3> HIDE DEF g
    <3> QED BY <2>1, SumZero, LedgerAssumption
  <2>3. Dues(a)' = g
    BY DEF Dues
  <2>4. SumFunctionOnSet(Dues(a), Clerks)' = SumFunctionOnSet(g, Clerks)
    BY <2>3
  <2> QED BY <2>2, <2>4
<1>5. \A m \in Manual : a \notin Touched(m)
  BY <1>2, LedgerAssumption DEF Writers, Documents, Schedules
<1>6. Recounted(a) = ledger[a]
  BY <1>5, RecountedType
<1>7. balance'[a] = Recounted(a) /\ ledger' = ledger /\ ledger[a] \in Int
  BY DEF Repair, ClerksInv, BooksOK
<1> QED BY <1>4, <1>6, <1>7 DEF AddsUp

LEMMA RelativeStep == ClerksInv /\ RelativeInv /\ [JournalNext]_journalVars => RelativeInv'
<1> SUFFICES ASSUME ClerksInv, RelativeInv, [JournalNext]_journalVars,
                    NEW a \in Accounts, Relative(a)
             PROVE  AddsUp(a)'
  BY DEF RelativeInv, Relative, Writers, Touched
<1>1. ClerksInv' /\ AddsUp(a) /\ balance[a] \in Int /\ ledger[a] \in Int
  BY ClerksStep DEF RelativeInv, ClerksInv, BooksOK
<1>2. CASE UNCHANGED journalVars
  BY <1>1, <1>2 DEF journalVars, bookVars, AddsUp, Dues, Due, Total, Changes, Change
<1>3. ASSUME NEW r \in Clerks, Accept(r) PROVE AddsUp(a)'
  <2>1. /\ Idle(r) /\ Others(r) /\ balance' = balance /\ ledger' = ledger /\ next'[r] # "add"
    BY <1>3, AcceptLeaves DEF bookVars
  <2>2. Due(r, a) = 0 /\ Due(r, a)' = 0
    BY <2>1 DEF Due, Idle
  <2> QED BY <1>1, <2>1, <2>2, AddsUpMoves
<1>4. ASSUME NEW r \in Clerks, Goes(r) PROVE AddsUp(a)'
  <2>1. balance'[a] + Due(r, a)' - ledger'[a] = balance[a] + Due(r, a) - ledger[a]
    BY <1>4, DueAdded, DuePosted, DueKept
  <2>2. Others(r)
    BY <1>4, GoesShape
  <2> QED BY <1>1, <2>1, <2>2, AddsUpMoves
<1>5. CASE Repair
  BY <1>1, <1>5, RelativeRepaired
<1> QED BY <1>2, <1>3, <1>4, <1>5 DEF JournalNext, BooksAtRest, Goes

LEMMA RelativeStart == JournalInit => RelativeInv
<1> SUFFICES ASSUME JournalInit, NEW a \in Accounts PROVE AddsUp(a)
  BY DEF RelativeInv
<1>1. balance[a] = 0 /\ ledger[a] = 0 /\ \A r \in Clerks : Due(r, a) = 0
  BY DEF JournalInit, Due
<1>2. SumFunctionOnSet(Dues(a), Clerks) = 0
  BY <1>1, SumZero, LedgerAssumption DEF Dues
<1> QED BY <1>1, <1>2 DEF AddsUp

\* When nobody is at a document that writes the account, nothing is due.
LEMMA NothingDue ==
  ASSUME ClerksInv, NEW a \in Accounts, AddsUp(a), \A d \in Writers(a) : Unattended(d)
  PROVE  balance[a] = ledger[a]
<1>1. \A r \in Clerks : Due(r, a) = 0
  <2> SUFFICES ASSUME NEW r \in Clerks, next[r] = "add" PROVE Total(asked[r].lines, a) = 0
    BY DEF Due
  <2>1. a \notin Touched(asked[r].doc)
    BY RequestFacts DEF Unattended, Writers, Idle, Subject
  <2> QED BY <2>1, TotalUntouched
<1>2. SumFunctionOnSet(Dues(a), Clerks) = 0
  BY <1>1, SumZero, LedgerAssumption DEF Dues
<1>3. balance[a] \in Int
  BY DEF ClerksInv, BooksOK
<1> QED BY <1>2, <1>3 DEF AddsUp

\* What the entries made by hand that count do to an account, ...
LEMMA CountedType ==
  ASSUME ClerksInv, NEW a, NEW m \in Manual
  PROVE  /\ Counted(a)[m] \in Int /\ LinesOf(m) \in Seq(EntryLine)
         /\ a \notin Touched(m) => Counted(a)[m] = 0
<1>1. LinesOf(m) = <<>> \/ LinesOf(m) = Lines[m]
  BY DEF LinesOf
<1>2. LinesOf(m) \in Seq(EntryLine)
  BY <1>1, LinesType, EmptySeq
<1>3. Total(LinesOf(m), a) \in Int
  BY <1>2, TotalType
<1>4. a \notin Touched(m) => Total(LinesOf(m), a) = 0
  <2>1. CASE LinesOf(m) = <<>>
    BY <2>1, TotalEmpty
  <2>2. CASE LinesOf(m) = Lines[m]
    BY <2>2, LinesType, TotalNone
  <2> QED BY <1>1, <2>1, <2>2
<1> QED BY <1>2, <1>3, <1>4 DEF Counted

LEMMA ManualFinite == IsFiniteSet(Manual)
BY LedgerAssumption, FS_Subset DEF Documents

\* ... which is nothing if none of them writes it.
LEMMA PostedWithoutManual ==
  ASSUME ClerksInv, NEW a \in Accounts, Writers(a) \cap Manual = {}
  PROVE  Posted(a) = ledger[a]
<1>1. \A m \in Manual : a \notin Touched(m)
  BY DEF Writers, Documents
<1>2. SumFunctionOnSet(Counted(a), Manual) = 0
  BY <1>1, CountedType, ManualFinite, SumZero
<1>3. ledger[a] \in Int
  BY DEF ClerksInv, BooksOK
<1> QED BY <1>2, <1>3 DEF Posted

\* The entry that alone writes it.
LEMMA PostedByOne ==
  ASSUME ClerksInv, NEW a \in Accounts, NEW m \in Manual, Writers(a) \subseteq {m}
  PROVE  Posted(a) = ledger[a] + Counted(a)[m]
<1>1. \A n \in Manual \ {m} : a \notin Touched(n)
  BY DEF Writers, Documents
<1>2. /\ \A n \in Manual \ {m} : Counted(a)[n] = 0
      /\ \A n \in Manual : Counted(a)[n] \in Int
  BY <1>1, CountedType
<1>3. IsFiniteSet(Manual) /\ IsFiniteSet(Manual \ {m})
  BY ManualFinite, FS_Subset
<1>4. SumFunctionOnSet(Counted(a), Manual) = Counted(a)[m] + SumFunctionOnSet(Counted(a), Manual \ {m})
  BY <1>2, <1>3, SumSplit
<1>5. SumFunctionOnSet(Counted(a), Manual \ {m}) = 0
  BY <1>2, <1>3, SumZero
<1> QED BY <1>2, <1>4, <1>5 DEF Posted

-----------------------------------------------------------------------------
(* Accounts of one entry that one person handles at a time *)

Single == Manual \ (Shared \cup Flaky)

\* What entry m does to account a in a status, with or without its lines.
Worth(m, a, s, withLines) ==
  IF s \in {"posted", "reversed"} /\ withLines THEN Total(Lines[m], a) ELSE 0
Own(m, a) == ledger[a] + Worth(m, a, status[m], lined[m])

\* The entry as request q finds it at statement s.
HandAt(q, s) ==
  /\ s = "enter" => status[q.doc] = "none" /\ q.lines = Lines[q.doc]
  /\ s = "lines" \/ (s = "fetch" /\ q.kind = "enter") =>
       status[q.doc] = q.to /\ ~ lined[q.doc] /\ q.lines = Lines[q.doc]
  /\ s = "reverse" \/ (s = "fetch" /\ q.kind = "reverse") =>
       status[q.doc] = "posted" /\ lined[q.doc] /\ q.lines = Lines[q.doc]
  /\ s = "post" => status[q.doc] = "draft"
  /\ s = "fetch" /\ q.kind = "post" => status[q.doc] = "posted"
  /\ s \in {"delete", "header"} => status[q.doc] = "draft"

\* What the request has still to write to account a.
Owed(q, s, a) ==
  IF s = "write" THEN Total(q.lines, a)
  ELSE IF s = "fetch" /\ q.kind = "post" THEN Worth(q.doc, a, "posted", lined[q.doc]) ELSE 0
BalanceAt(q, s, a) ==
  /\ balance[a] + Owed(q, s, a) = Own(q.doc, a)
  /\ s \in {"lines", "write", "reverse"} => q.seen[a] = balance[a]

HandInv ==
  /\ \A m \in Single : status[m] = "none" => ~ lined[m]
  /\ \A r \in Clerks : Subject(r) \in Single => HandAt(asked[r], next[r])
  /\ \A m \in Single, a \in Accounts \ (CreditNormal \cup Repaired) : Writers(a) = {m} =>
       /\ Unattended(m) => balance[a] = Own(m, a)
       /\ \A r \in Clerks : Subject(r) = m /\ ~ Idle(r) => BalanceAt(asked[r], next[r], a)

LEMMA WorthFacts ==
  ASSUME ClerksInv, NEW m \in Manual, NEW a
  PROVE  /\ Total(Lines[m], a) \in Int
         /\ Counted(a)[m] = Worth(m, a, status[m], lined[m])
         /\ Total(LinesOf(m), a) = Worth(m, a, "posted", lined[m])
<1>1. Total(LinesOf(m), a) = IF lined[m] THEN Total(Lines[m], a) ELSE 0
  BY TotalEmpty DEF LinesOf
<1> QED BY <1>1, LinesType, TotalType DEF Counted, Worth

\* A step of a request about x leaves the other entries as they are.
LEMMA HandFrame ==
  ASSUME ClerksInv, HandInv, NEW r \in Clerks, Goes(r), NEW x, x = asked[r].doc,
         x \in Single =>
           /\ status'[x] = "none" => ~ lined'[x]
           /\ HandAt(asked[r], next[r])'
           /\ \A a \in Accounts \ (CreditNormal \cup Repaired) : Writers(a) = {x} =>
                /\ next'[r] = "idle" => balance'[a] = Own(x, a)'
                /\ next'[r] # "idle" => BalanceAt(asked[r], next[r], a)'
  PROVE  HandInv'
<1>1. /\ Others(r) /\ ~ Idle(r)
      /\ asked'[r].doc = x \/ next'[r] = "idle"
  BY GoesShape
<1>2. \A m \in Single \ {x} : status'[m] = status[m] /\ lined'[m] = lined[m]
  BY GoesElsewhere DEF Single
<1>3. ASSUME NEW m \in Single \ {x}, NEW a \in Accounts, Writers(a) = {m}
      PROVE  balance'[a] = balance[a] /\ Own(m, a)' = Own(m, a)
  <2>1. x \in Documents
    BY RequestFacts
  <2>2. a \notin Touched(x)
    BY <1>3, <2>1 DEF Writers
  <2>3. balance'[a] = balance[a] /\ ledger'[a] = ledger[a]
    BY <2>2, GoesElsewhere
  <2> QED BY <1>2, <2>3 DEF Own, Worth, Total, Changes, Change
<1>4. \A m \in Single : status'[m] = "none" => ~ lined'[m]
  BY <1>2 DEF HandInv
<1>5. ASSUME NEW t \in Clerks, Subject(t)' \in Single PROVE HandAt(asked[t], next[t])'
  <2>1. CASE t = r
    <3>1. CASE asked'[r].doc = x
      BY <1>5, <2>1, <3>1 DEF Subject
    <3>2. CASE next'[r] = "idle"
      BY <2>1, <3>2 DEF HandAt
    <3> QED BY <1>1, <3>1, <3>2
  <2>2. CASE t # r
    <3>1. asked'[t] = asked[t] /\ next'[t] = next[t] /\ asked[t].doc \in Single /\ HandAt(asked[t], next[t])
      BY <1>1, <1>5, <2>2 DEF Others, HandInv, Subject
    <3>2. CASE next[t] = "idle"
      BY <3>1, <3>2 DEF HandAt
    <3>3. CASE next[t] # "idle"
      <4>1. asked[t].doc \in Single \ {x}
        BY <1>1, <2>2, <3>1, <3>3 DEF ClerksInv, RequestsOK, OneAtATime, Idle, Subject, Single
      <4> QED BY <1>2, <3>1, <4>1 DEF HandAt
    <3> QED BY <3>2, <3>3
  <2> QED BY <2>1, <2>2
<1>6. ASSUME NEW m \in Single, NEW a \in Accounts \ (CreditNormal \cup Repaired), Writers(a) = {m}
      PROVE  /\ Unattended(m)' => balance'[a] = Own(m, a)'
             /\ \A t \in Clerks : Subject(t)' = m /\ ~ Idle(t)' => BalanceAt(asked[t], next[t], a)'
  <2>1. CASE m = x
    <3>1. Unattended(m)' => next'[r] = "idle"
      BY <1>1, <2>1 DEF Unattended, Idle, Subject
    <3>2. ASSUME NEW t \in Clerks, Subject(t)' = m, ~ Idle(t)' PROVE t = r
      BY <1>1, <2>1, <3>2 DEF ClerksInv, RequestsOK, OneAtATime, Others, Idle, Subject, Single
    <3>3. next'[r] # "idle" => BalanceAt(asked[r], next[r], a)'
      BY <1>6, <2>1
    <3> QED BY <1>6, <2>1, <3>1, <3>2, <3>3 DEF Idle
  <2>2. CASE m # x
    <3>1. balance'[a] = balance[a] /\ Own(m, a)' = Own(m, a)
      BY <1>3, <1>6, <2>2
    <3>2. Unattended(m)' => Unattended(m)
      BY <1>1, <2>2 DEF Unattended, Others, Idle, Subject
    <3>3. ASSUME NEW t \in Clerks, Subject(t)' = m, ~ Idle(t)' PROVE BalanceAt(asked[t], next[t], a)'
      <4>1. /\ t # r /\ asked'[t] = asked[t] /\ next'[t] = next[t] /\ asked[t].doc = m
            /\ BalanceAt(asked[t], next[t], a)
        BY <1>1, <1>6, <2>2, <3>3 DEF Others, Idle, Subject, HandInv
      <4>2. Owed(asked[t], next[t], a)' = Owed(asked[t], next[t], a)
        BY <1>2, <2>2, <4>1 DEF Owed, Worth, Total, Changes, Change
      <4>3. Own(asked[t].doc, a)' = Own(asked[t].doc, a)
        BY <3>1, <4>1 DEF Own, Worth, Total, Changes, Change
      <4> QED BY <3>1, <4>1, <4>2, <4>3 DEF BalanceAt
    <3> QED BY <1>6, <3>1, <3>2, <3>3 DEF HandInv
  <2> QED BY <2>1, <2>2
<1> QED BY <1>4, <1>5, <1>6 DEF HandInv, Writers, Touched

LEMMA HandBefore ==
  ASSUME ClerksInv, HandInv, NEW r \in Clerks, ~ Idle(r), NEW x \in Single, x = asked[r].doc
  PROVE  /\ HandAt(asked[r], next[r]) /\ x \in Manual /\ asked[r].to \in {"draft", "posted"}
         /\ status[x] = "none" => ~ lined[x]
         /\ \A a \in Accounts \ (CreditNormal \cup Repaired) : Writers(a) = {x} => BalanceAt(asked[r], next[r], a)
         /\ \A a \in Accounts : balance[a] \in Int /\ ledger[a] \in Int /\ Total(Lines[x], a) \in Int
  BY RequestFacts, WorthFacts DEF HandInv, Subject, Single, ClerksInv, BooksOK

LEMMA HandEnter ==
  ASSUME ClerksInv, HandInv, NEW r \in Clerks, InsertEntry(r)
  PROVE  HandInv'
<1>1. PICK x : x = asked[r].doc
  OBVIOUS
<1>2. /\ next[r] = "enter" /\ asked[r].kind = "enter" /\ Goes(r) /\ ~ Idle(r)
      /\ status' = [status EXCEPT ![x] = asked[r].to]
      /\ UNCHANGED <<lined, ledger, balance>> /\ next'[r] = "fetch" /\ asked'[r] = asked[r]
  BY <1>1, RequestFacts, GotoFacts DEF InsertEntry, Goes, Proceed, Subject, FitsAt, Idle, bookVars
<1>3. ASSUME x \in Single
      PROVE  /\ status'[x] = "none" => ~ lined'[x]
             /\ HandAt(asked[r], next[r])'
             /\ \A a \in Accounts \ (CreditNormal \cup Repaired) : Writers(a) = {x} => BalanceAt(asked[r], next[r], a)'
  <2>1. HandAt(asked[r], "enter") /\ x \in Manual /\ asked[r].to \in {"draft", "posted"}
    BY <1>1, <1>2, <1>3, HandBefore
  <2>2. status[x] = "none" /\ ~ lined[x] /\ asked[r].lines = Lines[x]
    BY <1>1, <1>2, <1>3, <2>1, HandBefore DEF HandAt
  <2>3. status'[x] = asked[r].to /\ ~ lined'[x]
    BY <1>2, <2>1, <2>2 DEF ClerksInv, BooksOK
  <2>4. HandAt(asked[r], next[r])'
    BY <1>1, <1>2, <2>2, <2>3 DEF HandAt
  <2>5. ASSUME NEW a \in Accounts \ (CreditNormal \cup Repaired), Writers(a) = {x} PROVE BalanceAt(asked[r], next[r], a)'
    <3>1. BalanceAt(asked[r], "enter", a) /\ balance[a] \in Int /\ ledger[a] \in Int
      BY <1>1, <1>2, <1>3, <2>5, HandBefore
    <3>2. balance[a] = ledger[a]
      BY <1>1, <2>2, <3>1 DEF BalanceAt, Owed, Own, Worth
    <3>3. Own(asked[r].doc, a)' = ledger'[a] + 0
      BY <1>1, <1>2, <2>3 DEF Own, Worth
    <3>4. Owed(asked[r], next[r], a)' = 0
      BY <1>2 DEF Owed
    <3> QED BY <1>2, <3>1, <3>2, <3>3, <3>4 DEF BalanceAt
  <2> QED BY <2>1, <2>3, <2>4, <2>5
<1> QED BY <1>1, <1>2, <1>3, HandFrame

LEMMA HandPost ==
  ASSUME ClerksInv, HandInv, NEW r \in Clerks, SetPosted(r)
  PROVE  HandInv'
<1>1. PICK x : x = asked[r].doc
  OBVIOUS
<1>2. /\ next[r] = "post" /\ asked[r].kind = "post" /\ Goes(r) /\ ~ Idle(r)
      /\ status' = [status EXCEPT ![x] = "posted"]
      /\ UNCHANGED <<lined, ledger, balance>> /\ next'[r] = "fetch" /\ asked'[r] = asked[r]
  BY <1>1, RequestFacts, GotoFacts DEF SetPosted, Goes, Proceed, Subject, FitsAt, Idle, bookVars
<1>3. ASSUME x \in Single
      PROVE  /\ status'[x] = "none" => ~ lined'[x]
             /\ HandAt(asked[r], next[r])'
             /\ \A a \in Accounts \ (CreditNormal \cup Repaired) : Writers(a) = {x} => BalanceAt(asked[r], next[r], a)'
  <2>1. HandAt(asked[r], "post") /\ x \in Manual
    BY <1>1, <1>2, <1>3, HandBefore
  <2>2. status[x] = "draft"
    BY <1>1, <2>1 DEF HandAt
  <2>3. status'[x] = "posted" /\ lined'[x] = lined[x]
    BY <1>2, <2>1 DEF ClerksInv, BooksOK
  <2>4. HandAt(asked[r], next[r])'
    BY <1>1, <1>2, <2>3 DEF HandAt
  <2>5. ASSUME NEW a \in Accounts \ (CreditNormal \cup Repaired), Writers(a) = {x} PROVE BalanceAt(asked[r], next[r], a)'
    <3>1. BalanceAt(asked[r], "post", a) /\ balance[a] \in Int /\ ledger[a] \in Int
      BY <1>1, <1>2, <1>3, <2>5, HandBefore
    <3>2. balance[a] = ledger[a]
      BY <1>1, <2>2, <3>1 DEF BalanceAt, Owed, Own, Worth
    <3>3. Own(asked[r].doc, a)' = ledger'[a] + Worth(x, a, "posted", lined'[x])
      BY <1>1, <1>2, <2>3 DEF Own
    <3>4. Owed(asked[r], next[r], a)' = Worth(x, a, "posted", lined'[x])
      BY <1>1, <1>2 DEF Owed
    <3> QED BY <1>2, <3>1, <3>2, <3>3, <3>4 DEF BalanceAt
  <2> QED BY <2>3, <2>4, <2>5
<1> QED BY <1>1, <1>2, <1>3, HandFrame

LEMMA HandFetch ==
  ASSUME ClerksInv, HandInv, NEW r \in Clerks, FetchAccounts(r)
  PROVE  HandInv'
<1>1. PICK x : x = asked[r].doc
  OBVIOUS
<1>2. /\ next[r] = "fetch" /\ asked[r].kind \in {"enter", "post", "reverse"} /\ Goes(r) /\ ~ Idle(r)
      /\ UNCHANGED <<status, lined, ledger, balance>>
  BY FetchFacts DEF Goes, Proceed, Idle, entryVars, bookVars
<1>3. CASE Answer(r)
  <2>1. next'[r] = "idle"
    BY <1>3, AnswerFacts
  <2>2. ASSUME asked[r].kind = "post" PROVE LinesOf(x) = <<>>
    <3>1. CASE LinesOf(x) = <<>>
      BY <3>1
    <3>2. CASE LinesOf(x) # <<>>
      BY <1>1, <1>2, <2>1, <2>2, <3>2 DEF FetchAccounts, Goto, ClerksInv, RequestsOK, Subject
    <3> QED BY <3>1, <3>2
  <2>3. ASSUME x \in Single
        PROVE  /\ status'[x] = "none" => ~ lined'[x]
               /\ HandAt(asked[r], next[r])'
               /\ \A a \in Accounts \ (CreditNormal \cup Repaired) : Writers(a) = {x} => balance'[a] = Own(x, a)'
    <3>1. status'[x] = "none" => ~ lined'[x]
      BY <1>1, <1>2, <2>3, HandBefore
    <3>2. HandAt(asked[r], next[r])'
      BY <2>1 DEF HandAt
    <3>3. ASSUME NEW a \in Accounts \ (CreditNormal \cup Repaired), Writers(a) = {x} PROVE balance'[a] = Own(x, a)'
      <4>1. BalanceAt(asked[r], "fetch", a) /\ balance[a] \in Int /\ x \in Manual
        BY <1>1, <1>2, <2>3, <3>3, HandBefore
      <4>2. Owed(asked[r], "fetch", a) = 0
        <5>1. asked[r].kind = "post" => Worth(x, a, "posted", lined[x]) = 0
          BY <2>2, <4>1, WorthFacts, TotalEmpty
        <5> QED BY <1>1, <5>1 DEF Owed
      <4>3. balance[a] = Own(x, a)
        BY <1>1, <4>1, <4>2 DEF BalanceAt
      <4> QED BY <1>2, <4>3 DEF Own
    <3> QED BY <3>1, <3>2, <3>3
  <2> QED BY <1>1, <1>2, <2>1, <2>3, HandFrame
<1>4. CASE ~ Answer(r)
  <2> DEFINE Q(lines) == [asked[r] EXCEPT !.seen = balance, !.lines = lines]
  <2>1. PICK lines \in Seq(EntryLine) :
          /\ lines = IF asked[r].kind = "post" THEN LinesOf(Subject(r)) ELSE asked[r].lines
          /\ asked' = [asked EXCEPT ![r] = Q(lines)]
          /\ Q(lines).kind = asked[r].kind /\ Q(lines).doc = asked[r].doc /\ Q(lines).lines = lines
          /\ Q(lines).seen = balance /\ Q(lines).to = asked[r].to
          /\ \E s \in {"lines", "write", "reverse"} :
               /\ next' = [next EXCEPT ![r] = s]
               /\ s = "lines" <=> asked[r].kind = "enter"
               /\ s = "write" <=> asked[r].kind = "post"
    BY <1>4, FetchFacts
  <2> DEFINE q == Q(lines)
  <2> HIDE DEF Q
  <2>2. PICK s \in {"lines", "write", "reverse"} :
          /\ next' = [next EXCEPT ![r] = s]
          /\ s = "lines" <=> asked[r].kind = "enter"
          /\ s = "write" <=> asked[r].kind = "post"
    BY <2>1
  <2>3. /\ asked'[r].kind = asked[r].kind /\ asked'[r].doc = x /\ asked'[r].lines = lines
        /\ asked'[r].seen = balance /\ asked'[r].to = asked[r].to /\ next'[r] = s
    BY <1>1, <2>1, <2>2 DEF ClerksInv, RequestsOK
  <2>4. ASSUME x \in Single
        PROVE  /\ status'[x] = "none" => ~ lined'[x]
               /\ HandAt(asked[r], next[r])'
               /\ \A a \in Accounts \ (CreditNormal \cup Repaired) : Writers(a) = {x} => BalanceAt(asked[r], next[r], a)'
    <3>1. status'[x] = "none" => ~ lined'[x]
      BY <1>1, <1>2, <2>4, HandBefore
    <3>2. HandAt(asked[r], "fetch") /\ x \in Manual
      BY <1>1, <1>2, <2>4, HandBefore
    <3>3. HandAt(asked[r], next[r])'
      BY <1>1, <1>2, <2>1, <2>2, <2>3, <3>2 DEF HandAt
    <3>4. ASSUME NEW a \in Accounts \ (CreditNormal \cup Repaired), Writers(a) = {x} PROVE BalanceAt(asked[r], next[r], a)'
      <4>1. BalanceAt(asked[r], "fetch", a) /\ balance[a] \in Int
        BY <1>1, <1>2, <2>4, <3>4, HandBefore
      <4>2. Owed(asked[r], next[r], a)' = Owed(asked[r], "fetch", a)
        <5>1. Owed(asked[r], next[r], a)' = IF s = "write" THEN Total(lines, a) ELSE 0
          BY <2>2, <2>3 DEF Owed, Total, Changes, Change
        <5>2. CASE s = "write"
          <6>1. asked[r].kind = "post" /\ lines = LinesOf(x)
            BY <1>1, <2>1, <2>2, <5>2 DEF Subject
          <6>2. Total(lines, a) = Worth(x, a, "posted", lined[x])
            BY <3>2, <6>1, WorthFacts
          <6> QED BY <1>1, <5>1, <5>2, <6>1, <6>2 DEF Owed
        <5>3. CASE s # "write"
          BY <2>2, <5>1, <5>3 DEF Owed
        <5> QED BY <5>2, <5>3
      <4>3. Own(x, a)' = Own(x, a)
        BY <1>2 DEF Own
      <4> QED BY <1>1, <1>2, <2>3, <4>1, <4>2, <4>3 DEF BalanceAt, Own
    <3> QED BY <3>1, <3>3, <3>4
  <2> QED BY <1>1, <1>2, <2>2, <2>3, <2>4, HandFrame
<1> QED BY <1>3, <1>4

LEMMA HandLines ==
  ASSUME ClerksInv, HandInv, NEW r \in Clerks, InsertLines(r)
  PROVE  HandInv'
<1>1. PICK x : x = asked[r].doc
  OBVIOUS
<1>2. /\ next[r] = "lines" /\ Goes(r) /\ ~ Idle(r)
      /\ lined' = [lined EXCEPT ![x] = TRUE]
      /\ UNCHANGED <<status, ledger, balance>>
  BY <1>1 DEF InsertLines, Goes, Proceed, Subject, Idle, bookVars
<1>3. \/ asked[r].to = "posted" /\ next'[r] = "write" /\ asked'[r] = asked[r]
      \/ asked[r].to # "posted" /\ next'[r] = "idle"
  BY GotoFacts, AnswerFacts DEF InsertLines
<1>4. ASSUME x \in Single
      PROVE  /\ status'[x] = "none" => ~ lined'[x]
             /\ HandAt(asked[r], next[r])'
             /\ \A a \in Accounts \ (CreditNormal \cup Repaired) : Writers(a) = {x} =>
                  /\ next'[r] = "idle" => balance'[a] = Own(x, a)'
                  /\ next'[r] # "idle" => BalanceAt(asked[r], next[r], a)'
  <2>1. HandAt(asked[r], "lines") /\ x \in Manual /\ asked[r].to \in {"draft", "posted"}
    BY <1>1, <1>2, <1>4, HandBefore
  <2>2. status[x] = asked[r].to /\ ~ lined[x] /\ asked[r].lines = Lines[x]
    BY <1>1, <2>1 DEF HandAt
  <2>3. status'[x] = asked[r].to /\ lined'[x]
    BY <1>2, <2>1, <2>2 DEF ClerksInv, BooksOK
  <2>4. HandAt(asked[r], next[r])'
    BY <1>3 DEF HandAt
  <2>5. ASSUME NEW a \in Accounts \ (CreditNormal \cup Repaired), Writers(a) = {x}
        PROVE  /\ next'[r] = "idle" => balance'[a] = Own(x, a)'
               /\ next'[r] # "idle" => BalanceAt(asked[r], next[r], a)'
    <3>1. /\ BalanceAt(asked[r], "lines", a) /\ balance[a] \in Int /\ ledger[a] \in Int
          /\ Total(Lines[x], a) \in Int
      BY <1>1, <1>2, <1>4, <2>5, HandBefore
    <3>2. balance[a] = ledger[a] /\ asked[r].seen[a] = balance[a]
      BY <1>1, <2>2, <3>1 DEF BalanceAt, Owed, Own, Worth
    <3>3. Own(x, a)' = ledger[a] + (IF asked[r].to = "posted" THEN Total(Lines[x], a) ELSE 0)
      BY <1>2, <2>1, <2>3 DEF Own, Worth
    <3>4. CASE asked[r].to = "posted"
      <4>1. asked'[r] = asked[r] /\ next'[r] = "write"
        BY <1>3, <3>4
      <4>2. Owed(asked[r], next[r], a)' = Total(Lines[x], a)
        BY <2>2, <4>1 DEF Owed, Total, Changes, Change
      <4> QED BY <1>1, <1>2, <3>1, <3>2, <3>3, <3>4, <4>1, <4>2 DEF BalanceAt
    <3>5. CASE asked[r].to # "posted"
      BY <1>2, <1>3, <3>1, <3>2, <3>3, <3>5
    <3> QED BY <3>4, <3>5
  <2> QED BY <2>1, <2>3, <2>4, <2>5
<1> QED BY <1>1, <1>2, <1>4, HandFrame

LEMMA HandWrite ==
  ASSUME ClerksInv, HandInv, NEW r \in Clerks, WriteAccount(r)
  PROVE  HandInv'
<1> DEFINE l == Head(asked[r].lines)
           new == asked[r].seen[l.account] + Sign(l.account) * l.amount
           q == [asked[r] EXCEPT !.lines = Tail(@), !.seen[l.account] = new]
<1>1. PICK x : x = asked[r].doc
  OBVIOUS
<1>2. /\ next[r] = "write" /\ l \in EntryLine /\ new \in Int
      /\ balance' = [balance EXCEPT ![l.account] = new]
      /\ UNCHANGED <<status, lined, ledger>>
      /\ \/ Answer(r) /\ Len(asked[r].lines) = 1
         \/ /\ Len(asked[r].lines) # 1 /\ asked' = [asked EXCEPT ![r] = q] /\ UNCHANGED next
            /\ q.lines = Tail(asked[r].lines) /\ q.doc = asked[r].doc
            /\ q.seen = [asked[r].seen EXCEPT ![l.account] = new]
  BY WriteFacts DEF entryVars
<1>3. Goes(r) /\ ~ Idle(r)
  BY <1>2 DEF Goes, Proceed, Idle
<1>4. /\ asked[r].lines \in Seq(EntryLine) /\ asked[r].lines # <<>>
      /\ asked[r].seen \in [Accounts -> Int]
  BY <1>2, RequestFacts DEF FitsAt
<1>5. new = asked[r].seen[l.account] + Sign(l.account) * l.amount
  OBVIOUS
<1> HIDE DEF q, new, l
<1>6. \/ next'[r] = "idle" /\ Tail(asked[r].lines) = <<>>
      \/ /\ next'[r] = "write" /\ asked'[r].lines = Tail(asked[r].lines) /\ asked'[r].doc = x
         /\ asked'[r].seen = [asked[r].seen EXCEPT ![l.account] = new]
  <2>1. CASE Answer(r) /\ Len(asked[r].lines) = 1
    BY <1>4, <2>1, AnswerFacts, TailFacts
  <2>2. CASE ~ (Answer(r) /\ Len(asked[r].lines) = 1)
    BY <1>1, <1>2, <2>2 DEF ClerksInv, RequestsOK
  <2> QED BY <2>1, <2>2
<1>7. ASSUME x \in Single
      PROVE  /\ status'[x] = "none" => ~ lined'[x]
             /\ HandAt(asked[r], next[r])'
             /\ \A a \in Accounts \ (CreditNormal \cup Repaired) : Writers(a) = {x} =>
                  /\ next'[r] = "idle" => balance'[a] = Own(x, a)'
                  /\ next'[r] # "idle" => BalanceAt(asked[r], next[r], a)'
  <2>1. status'[x] = "none" => ~ lined'[x]
    BY <1>1, <1>2, <1>3, <1>7, HandBefore
  <2>2. HandAt(asked[r], next[r])'
    BY <1>6 DEF HandAt
  <2>3. ASSUME NEW a \in Accounts \ (CreditNormal \cup Repaired), Writers(a) = {x}
        PROVE  /\ next'[r] = "idle" => balance'[a] = Own(x, a)'
               /\ next'[r] # "idle" => BalanceAt(asked[r], next[r], a)'
    <3>1. BalanceAt(asked[r], "write", a) /\ balance[a] \in Int /\ ledger[a] \in Int
      BY <1>1, <1>2, <1>3, <1>7, <2>3, HandBefore
    <3>2. asked[r].seen[a] = balance[a] /\ balance[a] + Total(asked[r].lines, a) = Own(x, a)
      BY <1>1, <3>1 DEF BalanceAt, Owed
    <3>3. balance'[a] = balance[a] + Change(l, a)
      <4>1. CASE l.account = a
        <5>1. Sign(l.account) = 1 /\ l.amount \in Int
          BY <1>2, <4>1 DEF Sign, EntryLine
        <5>2. new = balance[a] + l.amount
          BY <1>5, <3>1, <3>2, <4>1, <5>1
        <5> QED BY <1>2, <4>1, <5>2 DEF Change, ClerksInv, BooksOK
      <4>2. CASE l.account # a
        BY <1>2, <3>1, <4>2 DEF Change, ClerksInv, BooksOK
      <4> QED BY <4>1, <4>2
    <3>4. /\ Total(asked[r].lines, a) = Change(l, a) + Total(Tail(asked[r].lines), a)
          /\ Tail(asked[r].lines) \in Seq(EntryLine)
      BY <1>4, TotalFirst DEF l
    <3>5. Change(l, a) \in Int /\ Total(Tail(asked[r].lines), a) \in Int
      <4>1. Change(l, a) \in Int
        BY <1>2 DEF Change, EntryLine
      <4> QED BY <3>4, <4>1, TotalType
    <3>6. balance'[a] + Total(Tail(asked[r].lines), a) = Own(x, a)
      BY <3>1, <3>2, <3>3, <3>4, <3>5
    <3>7. Own(x, a)' = Own(x, a)
      BY <1>2 DEF Own
    <3>8. CASE next'[r] = "idle"
      <4>1. Total(Tail(asked[r].lines), a) = 0
        BY <1>6, <3>8, TotalEmpty
      <4> QED BY <3>1, <3>3, <3>5, <3>6, <3>7, <3>8, <4>1
    <3>9. CASE next'[r] # "idle"
      <4>1. /\ next'[r] = "write" /\ asked'[r].lines = Tail(asked[r].lines) /\ asked'[r].doc = x
            /\ asked'[r].seen = [asked[r].seen EXCEPT ![l.account] = new]
        BY <1>6, <3>9
      <4>2. Owed(asked[r], next[r], a)' = Total(Tail(asked[r].lines), a)
        BY <4>1 DEF Owed, Total, Changes, Change
      <4>3. asked'[r].seen[a] = balance'[a]
        BY <1>2, <1>4, <3>2, <4>1 DEF ClerksInv, BooksOK
      <4> QED BY <3>6, <3>7, <3>9, <4>1, <4>2, <4>3 DEF BalanceAt
    <3> QED BY <3>8, <3>9
  <2> QED BY <2>1, <2>2, <2>3
<1> QED BY <1>1, <1>3, <1>7, HandFrame

LEMMA HandReverse ==
  ASSUME ClerksInv, HandInv, NEW r \in Clerks, ReverseEntry(r)
  PROVE  HandInv'
<1>1. PICK x : x = asked[r].doc
  OBVIOUS
<1>2. /\ next[r] = "reverse" /\ next'[r] = "idle" /\ Goes(r) /\ ~ Idle(r)
      /\ ledger' = [a \in Accounts |-> ledger[a] - Total(asked[r].lines, a)]
      /\ balance' = [a \in Accounts |->
           IF \E i \in DOMAIN asked[r].lines : asked[r].lines[i].account = a
           THEN asked[r].seen[a] - Sign(a) * Total(asked[r].lines, a) ELSE balance[a]]
      /\ status' = [status EXCEPT ![x] = IF @ = "deleted" THEN @ ELSE "reversed"]
      /\ lined' = lined
  BY <1>1, AnswerFacts DEF ReverseEntry, Goes, Proceed, Subject, Idle
<1>3. ASSUME x \in Single
      PROVE  /\ status'[x] = "none" => ~ lined'[x]
             /\ HandAt(asked[r], next[r])'
             /\ \A a \in Accounts \ (CreditNormal \cup Repaired) : Writers(a) = {x} => balance'[a] = Own(x, a)'
  <2>1. HandAt(asked[r], "reverse") /\ x \in Manual
    BY <1>1, <1>2, <1>3, HandBefore
  <2>2. status[x] = "posted" /\ lined[x] /\ asked[r].lines = Lines[x]
    BY <1>1, <2>1 DEF HandAt
  <2>3. status'[x] = "reversed" /\ lined'[x]
    BY <1>2, <2>1, <2>2 DEF ClerksInv, BooksOK
  <2>4. HandAt(asked[r], next[r])'
    BY <1>2 DEF HandAt
  <2>5. ASSUME NEW a \in Accounts \ (CreditNormal \cup Repaired), Writers(a) = {x} PROVE balance'[a] = Own(x, a)'
    <3> DEFINE n == Total(Lines[x], a)
    <3>1. BalanceAt(asked[r], "reverse", a) /\ balance[a] \in Int /\ ledger[a] \in Int /\ n \in Int
      BY <1>1, <1>2, <1>3, <2>5, HandBefore
    <3>2. balance[a] = ledger[a] + n /\ asked[r].seen[a] = balance[a]
      BY <1>1, <2>2, <3>1 DEF BalanceAt, Owed, Own, Worth
    <3>3. Own(x, a)' = (ledger[a] - n) + n
      BY <1>2, <2>2, <2>3 DEF Own, Worth
    <3>4. balance'[a] = balance[a] - n
      <4>1. CASE \E i \in DOMAIN Lines[x] : Lines[x][i].account = a
        <5>1. balance'[a] = balance[a] - Sign(a) * n /\ Sign(a) = 1
          BY <1>2, <2>2, <3>2, <4>1 DEF Sign
        <5> HIDE DEF n
        <5> QED BY <3>1, <5>1
      <4>2. CASE ~ \E i \in DOMAIN Lines[x] : Lines[x][i].account = a
        <5>1. n = 0
          BY <2>1, <4>2, LinesType, TotalNone
        <5>2. balance'[a] = balance[a]
          BY <1>2, <2>2, <4>2
        <5> HIDE DEF n
        <5> QED BY <3>1, <5>1, <5>2
      <4> QED BY <4>1, <4>2
    <3> HIDE DEF n
    <3> QED BY <3>1, <3>2, <3>3, <3>4
  <2> QED BY <2>1, <2>3, <2>4, <2>5
<1>4. Goes(r) /\ next'[r] = "idle"
  BY <1>2
<1> QED BY <1>1, <1>3, <1>4, HandFrame

LEMMA HandDelete ==
  ASSUME ClerksInv, HandInv, NEW r \in Clerks, DeleteLines(r) \/ DeleteEntry(r)
  PROVE  HandInv'
<1>1. PICK x : x = asked[r].doc
  OBVIOUS
<1>2. /\ next[r] \in {"delete", "header"} /\ Goes(r) /\ ~ Idle(r) /\ UNCHANGED <<ledger, balance>>
  BY DEF DeleteLines, DeleteEntry, Goes, Proceed, Idle, bookVars
<1>3. ASSUME x \in Single
      PROVE  /\ status'[x] = "none" => ~ lined'[x]
             /\ HandAt(asked[r], next[r])'
             /\ \A a \in Accounts \ (CreditNormal \cup Repaired) : Writers(a) = {x} =>
                  /\ next'[r] = "idle" => balance'[a] = Own(x, a)'
                  /\ next'[r] # "idle" => BalanceAt(asked[r], next[r], a)'
  <2>1. HandAt(asked[r], next[r]) /\ x \in Manual
    BY <1>1, <1>2, <1>3, HandBefore
  <2>2. status[x] = "draft"
    BY <1>1, <1>2, <2>1 DEF HandAt
  <2>3. \/ status'[x] = "draft" /\ next'[r] = "header" /\ asked'[r] = asked[r]
        \/ status'[x] \in {"draft", "deleted"} /\ next'[r] = "idle"
    <3>1. CASE DeleteLines(r)
      BY <2>2, <3>1, GotoFacts DEF DeleteLines
    <3>2. CASE DeleteEntry(r)
      BY <1>1, <2>1, <2>2, <3>2, AnswerFacts DEF DeleteEntry, Subject, ClerksInv, BooksOK
    <3> QED BY <3>1, <3>2
  <2>4. HandAt(asked[r], next[r])'
    BY <1>1, <2>3 DEF HandAt
  <2>5. ASSUME NEW a \in Accounts \ (CreditNormal \cup Repaired), Writers(a) = {x}
        PROVE  /\ next'[r] = "idle" => balance'[a] = Own(x, a)'
               /\ next'[r] # "idle" => BalanceAt(asked[r], next[r], a)'
    <3>1. BalanceAt(asked[r], next[r], a) /\ balance[a] \in Int /\ ledger[a] \in Int
      BY <1>1, <1>2, <1>3, <2>5, HandBefore
    <3>2. balance[a] = ledger[a]
      BY <1>1, <1>2, <2>2, <3>1 DEF BalanceAt, Owed, Own, Worth
    <3>3. Own(x, a)' = ledger[a] + 0
      BY <1>2, <2>3 DEF Own, Worth
    <3>4. next'[r] # "idle" => Owed(asked[r], next[r], a)' = 0
      BY <2>3 DEF Owed
    <3>5. next'[r] # "idle" => asked'[r].doc = x /\ next'[r] = "header"
      BY <1>1, <2>3
    <3> QED BY <1>2, <3>1, <3>2, <3>3, <3>4, <3>5 DEF BalanceAt
  <2> QED BY <2>3, <2>4, <2>5
<1> QED BY <1>1, <1>2, <1>3, HandFrame

LEMMA HandBroken ==
  ASSUME ClerksInv, HandInv, NEW r \in Clerks, EntryGone(r) \/ BreakOff(r)
  PROVE  HandInv'
<1>1. PICK x : x = asked[r].doc
  OBVIOUS
<1>2. /\ Goes(r) /\ ~ Idle(r) /\ next'[r] = "idle" /\ UNCHANGED <<status, lined, ledger, balance>>
  BY AnswerFacts DEF EntryGone, BreakOff, Abandon, Goes, Proceed, Idle, entryVars, bookVars
<1>3. ASSUME x \in Single
      PROVE  /\ status'[x] = "none" => ~ lined'[x]
             /\ HandAt(asked[r], next[r])'
             /\ \A a \in Accounts \ (CreditNormal \cup Repaired) : Writers(a) = {x} => balance'[a] = Own(x, a)'
  <2>1. HandAt(asked[r], next[r]) /\ x \in Manual /\ x \notin Flaky /\ (status[x] = "none" => ~ lined[x])
    BY <1>1, <1>2, <1>3, HandBefore DEF Single
  <2>2. next[r] # "write" /\ ~ (next[r] = "fetch" /\ asked[r].kind = "post")
    BY <1>1, <2>1 DEF EntryGone, BreakOff, Midway, Subject
  <2>3. HandAt(asked[r], next[r])'
    BY <1>2 DEF HandAt
  <2>4. ASSUME NEW a \in Accounts \ (CreditNormal \cup Repaired), Writers(a) = {x} PROVE balance'[a] = Own(x, a)'
    <3>1. BalanceAt(asked[r], next[r], a) /\ balance[a] \in Int
      BY <1>1, <1>2, <1>3, <2>4, HandBefore
    <3>2. balance[a] = Own(x, a)
      BY <1>1, <2>2, <3>1 DEF BalanceAt, Owed
    <3> QED BY <1>2, <3>2 DEF Own
  <2> QED BY <1>2, <2>1, <2>3, <2>4
<1> QED BY <1>1, <1>2, <1>3, HandFrame

LEMMA HandAccepted ==
  ASSUME ClerksInv, HandInv, NEW r \in Clerks, NEW q, NEW s, Accepted(r, q, s)
  PROVE  HandInv'
<1>1. /\ Idle(r) /\ next'[r] = s /\ asked'[r] = q /\ Others(r)
      /\ q.doc \notin Shared => Unattended(q.doc)
      /\ UNCHANGED <<status, lined, ledger, balance>>
      /\ s # "idle" /\ q \in Asking
  BY AcceptedFacts DEF Accepted, entryVars, bookVars
<1>2. ASSUME q.doc \in Single
      PROVE  HandAt(q, s) /\ s \notin {"write", "lines", "reverse"} /\ ~ (s = "fetch" /\ q.kind = "post")
  <2>1. q.doc \in Manual /\ q.doc \notin Shared /\ q.doc \notin Schedules
    BY <1>2, LedgerAssumption DEF Single
  <2>2. Enters(q, s) \/ Posts(q, s) \/ Reverses(q, s) \/ Deletes(q, s)
    BY <2>1 DEF Accepted, Charges, Disposes, Removes, Schedules
  <2>3. CASE Enters(q, s)
    BY <2>1, <2>3 DEF Enters, HandAt
  <2>4. CASE Posts(q, s)
    BY <2>1, <2>4 DEF Posts, HandAt
  <2>5. CASE Reverses(q, s)
    BY <2>1, <2>5 DEF Reverses, HandAt
  <2>6. CASE Deletes(q, s)
    BY <2>1, <2>6 DEF Deletes, HandAt
  <2> QED BY <2>2, <2>3, <2>4, <2>5, <2>6
<1>3. \A m \in Single : status'[m] = "none" => ~ lined'[m]
  BY <1>1 DEF HandInv
<1>4. ASSUME NEW t \in Clerks, Subject(t)' \in Single PROVE HandAt(asked[t], next[t])'
  <2>1. CASE t = r
    BY <1>1, <1>2, <1>4, <2>1 DEF Subject, HandAt
  <2>2. CASE t # r
    BY <1>1, <1>4, <2>2 DEF Subject, HandAt, Others, HandInv
  <2> QED BY <2>1, <2>2
<1>5. \A m \in Single : \A a : Own(m, a)' = Own(m, a)
  BY <1>1 DEF Own
<1>6. ASSUME NEW m \in Single, NEW a \in Accounts \ (CreditNormal \cup Repaired), Writers(a) = {m}
      PROVE  /\ Unattended(m)' => balance'[a] = Own(m, a)'
             /\ \A t \in Clerks : Subject(t)' = m /\ ~ Idle(t)' => BalanceAt(asked[t], next[t], a)'
  <2>1. Unattended(m)' => Unattended(m)
    BY <1>1 DEF Unattended, Others, Idle, Subject
  <2>2. ASSUME NEW t \in Clerks, Subject(t)' = m, ~ Idle(t)' PROVE BalanceAt(asked[t], next[t], a)'
    <3>1. CASE t = r
      <4>1. q.doc = m /\ Unattended(m)
        BY <1>1, <2>2, <3>1 DEF Subject, Single
      <4>2. balance[a] = Own(m, a) /\ balance[a] \in Int
        BY <1>6, <4>1 DEF HandInv, ClerksInv, BooksOK
      <4>3. s \notin {"write", "lines", "reverse"} /\ ~ (s = "fetch" /\ q.kind = "post")
        BY <1>2, <4>1
      <4>4. Owed(asked[t], next[t], a)' = 0
        BY <1>1, <3>1, <4>3 DEF Owed
      <4>5. Own(asked[t].doc, a)' = Own(m, a)
        BY <1>1, <3>1, <4>1 DEF Own
      <4> QED BY <1>1, <3>1, <4>2, <4>3, <4>4, <4>5 DEF BalanceAt
    <3>2. CASE t # r
      <4>1. /\ asked'[t] = asked[t] /\ next'[t] = next[t] /\ asked[t].doc = m
            /\ BalanceAt(asked[t], next[t], a)
        BY <1>1, <1>6, <2>2, <3>2 DEF Others, Idle, Subject, HandInv
      <4>2. /\ Owed(asked[t], next[t], a)' = Owed(asked[t], next[t], a)
            /\ Own(asked[t].doc, a)' = Own(asked[t].doc, a)
        BY <1>1, <4>1 DEF Owed, Own, Worth, Total, Changes, Change
      <4> QED BY <1>1, <4>1, <4>2 DEF BalanceAt
    <3> QED BY <3>1, <3>2
  <2> QED BY <1>1, <1>5, <1>6, <2>1, <2>2 DEF HandInv
<1> QED BY <1>3, <1>4, <1>6 DEF HandInv, Writers, Touched

LEMMA HandStep ==
  ClerksInv /\ HandInv /\ [JournalNext]_journalVars => HandInv'
<1> SUFFICES ASSUME ClerksInv, HandInv, [JournalNext]_journalVars PROVE HandInv'
  OBVIOUS
<1>1. CASE UNCHANGED journalVars \/ Repair
  <2>1. /\ status' = status /\ lined' = lined /\ ledger' = ledger /\ asked' = asked /\ next' = next
        /\ \A a \in Accounts \ Repaired : balance'[a] = balance[a]
    BY <1>1 DEF journalVars, entryVars, bookVars, Repair, ClerksInv, BooksOK
  <2>2. \A m \in Single : status'[m] = "none" => ~ lined'[m]
    BY <2>1 DEF HandInv
  <2>3. \A t \in Clerks : Subject(t)' \in Single => HandAt(asked[t], next[t])'
    BY <2>1 DEF Subject, HandAt, HandInv
  <2>4. \A m \in Single : \A a : Own(m, a)' = Own(m, a)
    BY <2>1 DEF Own
  <2>5. \A m : Unattended(m)' <=> Unattended(m)
    BY <2>1 DEF Unattended, Idle, Subject
  <2>6. ASSUME NEW m \in Single, NEW a \in Accounts \ (CreditNormal \cup Repaired), Writers(a) = {m},
               NEW t \in Clerks, Subject(t)' = m, ~ Idle(t)'
        PROVE  BalanceAt(asked[t], next[t], a)'
    <3>1. asked[t].doc = m /\ BalanceAt(asked[t], next[t], a)
      BY <2>1, <2>6 DEF Subject, Idle, HandInv
    <3>2. /\ Owed(asked[t], next[t], a)' = Owed(asked[t], next[t], a)
          /\ Own(asked[t].doc, a)' = Own(asked[t].doc, a)
      BY <2>1, <3>1 DEF Owed, Own, Worth, Total, Changes, Change
    <3> QED BY <2>1, <3>1, <3>2 DEF BalanceAt
  <2>7. ASSUME NEW m \in Single, NEW a \in Accounts \ (CreditNormal \cup Repaired), Writers(a) = {m}
        PROVE  Unattended(m)' => balance'[a] = Own(m, a)'
    BY <2>1, <2>4, <2>5, <2>7 DEF HandInv
  <2> QED BY <2>2, <2>3, <2>6, <2>7 DEF HandInv, Writers, Touched
<1>2. ASSUME NEW r \in Clerks, Accept(r) PROVE HandInv'
  BY <1>2, AcceptFacts, HandAccepted
<1>3. ASSUME NEW r \in Clerks, Goes(r),
             \/ PostEntry(r) \/ AddToAccount(r) \/ Accumulate(r) \/ InsertRun(r) \/ Recognize(r)
             \/ Close(r) \/ RemoveAccrual(r) \/ AccrualGone(r)
      PROVE  HandInv'
  <2>1. next[r] \in OnAsset \cup OnAccrual
    BY <1>3 DEF PostEntry, AddToAccount, Accumulate, InsertRun, Recognize, Close, RemoveAccrual,
                AccrualGone, OnAsset, OnAccrual
  <2>2. asked[r].doc \notin Single
    BY <2>1, RequestFacts, LedgerAssumption DEF FitsAt, Single, Schedules
  <2> QED BY <1>3, <2>2, HandFrame
<1>4. ASSUME NEW r \in Clerks, Proceed(r) PROVE HandInv'
  BY <1>3, <1>4, HandEnter, HandPost, HandFetch, HandLines, HandWrite, HandReverse, HandDelete,
     HandBroken DEF Proceed, Goes
<1>5. ASSUME NEW r \in Clerks, BreakOff(r) PROVE HandInv'
  BY <1>5, HandBroken
<1> QED BY <1>1, <1>2, <1>4, <1>5 DEF JournalNext, BooksAtRest

LEMMA HandStart == JournalInit => HandInv
<1> SUFFICES ASSUME JournalInit PROVE HandInv
  OBVIOUS
<1>1. /\ \A m \in Manual : status[m] = "none" /\ ~ lined[m]
      /\ \A a \in Accounts : ledger[a] = 0 /\ balance[a] = 0
      /\ \A r \in Clerks : next[r] = "idle"
  BY DEF JournalInit
<1>2. \A m \in Single, a \in Accounts : Own(m, a) = 0
  BY <1>1 DEF Own, Worth, Single
<1> QED BY <1>1, <1>2 DEF HandInv, HandAt, Idle, Single

\* The balance of an exact account is the sum of its posted lines whenever no request
\* for it is in progress.
THEOREM AccountsAlwaysAddUp == JournalSpec => []AccountsAddUp
<1>1. JournalInit => ClerksInv /\ RelativeInv /\ HandInv
  BY ClerksStart, RelativeStart, HandStart
<1>2. ClerksInv /\ RelativeInv /\ HandInv /\ [JournalNext]_journalVars
        => (ClerksInv /\ RelativeInv /\ HandInv)'
  BY ClerksStep, RelativeStep, HandStep
<1>3. ClerksInv /\ RelativeInv /\ HandInv => AccountsAddUp
  <2> SUFFICES ASSUME ClerksInv, RelativeInv, HandInv, NEW a \in Accounts, ExactAccount(a), Calm(a)
               PROVE  balance[a] = Posted(a)
    BY DEF AccountsAddUp, ExactAccounts
  <2>1. CASE Relative(a)
    <3>1. balance[a] = ledger[a]
      BY <2>1, NothingDue DEF RelativeInv, Calm
    <3>2. Writers(a) \cap Manual = {}
      BY <2>1, LedgerAssumption DEF Relative, Schedules
    <3> QED BY <3>1, <3>2, PostedWithoutManual
  <2>2. CASE ~ Relative(a)
    <3>1. a \notin CreditNormal \cup Repaired /\ \E m \in Single : Writers(a) = {m}
      BY <2>2 DEF ExactAccount, Relative, Single
    <3>2. PICK m \in Single : Writers(a) = {m}
      BY <3>1
    <3>3. balance[a] = Own(m, a)
      BY <3>1, <3>2 DEF HandInv, Calm
    <3>4. Posted(a) = ledger[a] + Counted(a)[m]
      BY <3>2, PostedByOne DEF Single
    <3>5. Counted(a)[m] = Worth(m, a, status[m], lined[m])
      BY WorthFacts DEF Single
    <3> QED BY <3>3, <3>4, <3>5 DEF Own
  <2> QED BY <2>1, <2>2
<1> QED BY <1>1, <1>2, <1>3, PTL DEF JournalSpec

-----------------------------------------------------------------------------
(* Accounts of accumulated depreciation *)

\* The first line of several does its amount, ...
LEMMA TotalAfter ==
  ASSUME NEW b \in Accounts, NEW n \in Int, NEW rest \in Seq(EntryLine), NEW a
  PROVE  Total(LineUnlessZero(b, n) \o rest, a) = (IF b = a THEN n ELSE 0) + Total(rest, a)
<1>1. Total(rest, a) \in Int
  BY TotalType
<1>2. CASE n = 0
  <2>1. LineUnlessZero(b, n) \o rest = rest
    BY <1>2, ConcatEmptySeq DEF LineUnlessZero
  <2>2. (IF b = a THEN n ELSE 0) = 0
    BY <1>2
  <2>3. Total(LineUnlessZero(b, n) \o rest, a) = Total(rest, a)
    BY <2>1
  <2> QED BY <1>1, <2>2, <2>3
<1>3. CASE n # 0
  <2> DEFINE l == LineFor(b, n)
             s == <<l>> \o rest
  <2>1. l \in EntryLine /\ l.account = b /\ l.amount = n
    BY <1>3, LineForType
  <2>2. LineUnlessZero(b, n) \o rest = s
    BY <1>3 DEF LineUnlessZero
  <2> HIDE DEF l
  <2>3. <<l>> \in Seq(EntryLine) /\ Len(<<l>>) = 1 /\ <<l>>[1] = l
    BY <2>1
  <2>4. s \in Seq(EntryLine) /\ s # <<>> /\ Head(s) = l /\ Tail(s) = rest
    <3>1. /\ s \in Seq(EntryLine) /\ Len(s) = 1 + Len(rest)
          /\ \A i \in 1 .. 1 + Len(rest) : s[i] = IF i <= 1 THEN l ELSE rest[i - 1]
      BY <2>3, ConcatProperties
    <3> HIDE DEF s
    <3>2. Len(rest) \in Nat
      BY LenProperties
    <3>3. s # <<>> /\ s[1] = l
      BY <3>1, <3>2, EmptySeq
    <3>4. Head(s) = l
      BY <3>1, <3>3, HeadTailProperties
    <3>5. /\ Tail(s) \in Seq(EntryLine) /\ Len(Tail(s)) = Len(rest)
          /\ \A i \in 1 .. Len(rest) : Tail(s)[i] = s[i + 1]
      BY <3>1, <3>2, <3>3, HeadTailProperties
    <3>6. \A i \in 1 .. Len(rest) : s[i + 1] = rest[i]
      BY <3>1, <3>2
    <3>7. Tail(s) = rest
      BY <3>5, <3>6, SeqEqual
    <3> QED BY <3>1, <3>3, <3>4, <3>7
  <2> HIDE DEF s
  <2>5. Total(s, a) = Change(l, a) + Total(rest, a)
    BY <2>4, TotalFirst
  <2> QED BY <2>1, <2>2, <2>5 DEF Change
<1> QED BY <1>2, <1>3

\* ... so that a charge takes its amount from the account, and a disposal what it accumulated.
LEMMA ChargeTakes ==
  ASSUME NEW x \in Assets, NEW amount \in Nat \ {0}, Credit[x] # Debit[x]
  PROVE  Total(ChargeLines(x, amount), Credit[x]) = -amount
<1>1. Debit[x] \in Accounts /\ Credit[x] \in Accounts
  BY LedgerAssumption DEF Schedules
<1> DEFINE l1 == LineFor(Debit[x], amount)
           l2 == LineFor(Credit[x], -amount)
<1>2. /\ l1 \in EntryLine /\ l2 \in EntryLine
      /\ Change(l1, Credit[x]) = 0 /\ Change(l2, Credit[x]) = -amount
  BY <1>1, LineForType DEF Change
<1>3. ChargeLines(x, amount) = <<l1, l2>>
  BY DEF ChargeLines
<1> HIDE DEF l1, l2
<1>4. Total(<<l1, l2>>, Credit[x]) = Change(l1, Credit[x]) + Total(<<l2>>, Credit[x])
  <2>1. <<l1, l2>> \in Seq(EntryLine) /\ <<l1, l2>> # <<>>
        /\ Head(<<l1, l2>>) = l1 /\ Tail(<<l1, l2>>) = <<l2>>
    BY <1>2
  <2> QED BY <2>1, TotalFirst
<1>5. Total(<<l2>>, Credit[x]) = Change(l2, Credit[x]) + Total(<<>>, Credit[x])
  <2>1. <<l2>> \in Seq(EntryLine) /\ <<l2>> # <<>>
        /\ Head(<<l2>>) = l2 /\ Tail(<<l2>>) = <<>>
    BY <1>2
  <2> QED BY <2>1, TotalFirst
<1> QED BY <1>2, <1>3, <1>4, <1>5, TotalEmpty

LEMMA DisposalReturns ==
  ASSUME NEW x \in Assets, NEW accumulated \in Nat, NEW price \in Nat,
         Credit[x] \notin {AssetAccount[x], Proceeds, Gain, Loss}
  PROVE  Total(DisposalLines(x, accumulated, price), Credit[x]) = accumulated
<1> DEFINE a == Credit[x]
           result == price - (Cost[x] - accumulated)
           s1 == LineUnlessZero(a, accumulated)
           s2 == LineUnlessZero(AssetAccount[x], -Cost[x])
           s3 == LineUnlessZero(Proceeds, price)
           s4 == GainOrLoss(result)
           others == Accounts \ {a}
<1>1. /\ a \in Accounts /\ AssetAccount[x] \in others /\ Proceeds \in others
      /\ Gain \in others /\ Loss \in others /\ Cost[x] \in Nat \ {0}
  BY LedgerAssumption DEF Schedules
<1>2. accumulated \in Int /\ price \in Int /\ -Cost[x] \in Int /\ result \in Int /\ -result \in Int
  BY <1>1
<1> HIDE DEF result
<1>3. s1 \in Seq(EntryLine)
  BY <1>1, <1>2, LineUnlessZeroType
<1>4. s2 \in Seq(EntryLine) /\ \A i \in DOMAIN s2 : s2[i].account \in others
  <2>1. s2 \in Seq(EntryLine) /\ \A i \in DOMAIN s2 : s2[i].account = AssetAccount[x]
    BY <1>1, <1>2, LineUnlessZeroType
  <2> HIDE DEF s2
  <2> QED BY <1>1, <2>1
<1>5. s3 \in Seq(EntryLine) /\ \A i \in DOMAIN s3 : s3[i].account \in others
  <2>1. s3 \in Seq(EntryLine) /\ \A i \in DOMAIN s3 : s3[i].account = Proceeds
    BY <1>1, <1>2, LineUnlessZeroType
  <2> HIDE DEF s3
  <2> QED BY <1>1, <2>1
<1>6. s4 \in Seq(EntryLine) /\ \A i \in DOMAIN s4 : s4[i].account \in others
  <2> DEFINE other == IF result > 0 THEN Gain ELSE Loss
  <2>1. other \in others /\ other \in Accounts
    BY <1>1
  <2>2. s4 = LineUnlessZero(other, -result)
    BY DEF GainOrLoss
  <2>3. s4 \in Seq(EntryLine) /\ \A i \in DOMAIN s4 : s4[i].account = other
    <3> HIDE DEF other, s4
    <3> QED BY <1>2, <2>1, <2>2, LineUnlessZeroType
  <2> HIDE DEF s4, other
  <2> QED BY <2>1, <2>3
<1>7. DisposalLines(x, accumulated, price) = ((s1 \o s2) \o s3) \o s4
  BY DEF DisposalLines, result
<1> HIDE DEF s2, s3, s4
<1>8. /\ s2 \o s3 \in Seq(EntryLine)
      /\ \A i \in DOMAIN (s2 \o s3) : (s2 \o s3)[i].account \in others
  BY <1>4, <1>5, AppendedLines
<1>9. /\ (s2 \o s3) \o s4 \in Seq(EntryLine)
      /\ \A i \in DOMAIN ((s2 \o s3) \o s4) : ((s2 \o s3) \o s4)[i].account \in others
  BY <1>6, <1>8, AppendedLines
<1>10. ((s1 \o s2) \o s3) \o s4 = s1 \o ((s2 \o s3) \o s4)
  <2>1. /\ s1 \in Seq(EntryLine) /\ s2 \in Seq(EntryLine)
        /\ s3 \in Seq(EntryLine) /\ s4 \in Seq(EntryLine)
    BY <1>3, <1>4, <1>5, <1>6
  <2> HIDE DEF s1
  <2>2. Joined(s1, s2, s3, s4)
    <3> HIDE DEF s1
    <3> QED BY <2>1, JoinedLines
  <2> QED BY <2>2 DEF Joined
<1>11. Total((s2 \o s3) \o s4, a) = 0
  BY <1>9, TotalNone
<1>12. Total(s1 \o ((s2 \o s3) \o s4), a) = accumulated + Total((s2 \o s3) \o s4, a)
  BY <1>1, <1>2, <1>9, TotalAfter
<1> QED BY <1>2, <1>7, <1>10, <1>11, <1>12

Worn(a) == Accumulates(a) /\ Writers(a) \subseteq Steady

\* What the journal still holds of asset x: nothing once its disposal is posted.
Leaving(x) ==
  \E r \in Clerks : Subject(r) = x /\ asked[r].kind = "dispose" /\ next[r] \in {"add", "close"}
Carried(x) == IF state[x] = "disposed" \/ Leaving(x) THEN 0 ELSE charged[x]
CarriedOf(a) == [x \in Writers(a) |-> Carried(x)]
HoldsCarried(a) == ledger[a] + SumFunctionOnSet(CarriedOf(a), Writers(a)) = 0

\* The lines of what is about to be posted.
LinesAt(q, s) ==
  s = "entry" =>
    /\ q.kind = "charge" => q.lines = ChargeLines(q.doc, q.amount)
    /\ q.kind = "dispose" /\ q.doc \in Steady =>
         \E price \in Prices : q.lines = DisposalLines(q.doc, used[q.doc], price)

WornInv ==
  /\ \A a \in Accounts : Worn(a) => HoldsCarried(a)
  /\ \A r \in Clerks : LinesAt(asked[r], next[r])

LEMMA WornFacts ==
  ASSUME NEW a \in Accounts, Worn(a), NEW x \in Writers(a)
  PROVE  /\ x \in Assets /\ x \in Schedules /\ x \in Steady /\ x \notin Shared /\ x \notin Flaky
         /\ Credit[x] = a /\ a \notin {Debit[x], AssetAccount[x], Proceeds, Gain, Loss}
BY DEF Worn, Accumulates, Steady

LEMMA WritersFinite == ASSUME NEW a PROVE IsFiniteSet(Writers(a))
BY LedgerAssumption, FS_Subset DEF Writers

LEMMA CarriedType ==
  ASSUME ClerksInv, NEW a \in Accounts, Worn(a), NEW x \in Writers(a)
  PROVE  Carried(x) \in Nat /\ CarriedOf(a)[x] = Carried(x)
BY WornFacts DEF Carried, CarriedOf, ClerksInv, BooksOK

\* The journal follows when what it holds of one asset changes.
LEMMA CarriedMoves ==
  ASSUME ClerksInv, ClerksInv', NEW a \in Accounts, Worn(a), HoldsCarried(a), NEW x,
         \A y \in Writers(a) \ {x} : Carried(y)' = Carried(y),
         x \in Writers(a) => ledger'[a] + Carried(x)' = ledger[a] + Carried(x),
         x \notin Writers(a) => ledger'[a] = ledger[a]
  PROVE  HoldsCarried(a)'
<1> DEFINE S == Writers(a)
           f == CarriedOf(a)
           g == [y \in S |-> Carried(y)']
<1>1. IsFiniteSet(S)
  BY WritersFinite
<1>2. \A y \in S : f[y] = Carried(y) /\ g[y] = Carried(y)' /\ f[y] \in Int
  BY CarriedType
<1>3. \A y \in S : g[y] \in Int
  <2> SUFFICES ASSUME NEW y \in S PROVE Carried(y)' \in Int
    BY <1>2
  <2>1. charged'[y] \in Int
    BY WornFacts DEF ClerksInv, BooksOK
  <2> QED BY <2>1 DEF Carried
<1>4. CarriedOf(a)' = g /\ Writers(a)' = S
  BY DEF CarriedOf, Writers, Touched
<1>5. SumFunctionOnSet(f, S) \in Int
  BY <1>1, <1>2, SumSplit
<1>6. ledger[a] \in Int /\ ledger'[a] \in Int /\ ledger[a] + SumFunctionOnSet(f, S) = 0
  BY DEF ClerksInv, BooksOK, HoldsCarried
<1> HIDE DEF f, g
<1>7. CASE x \in S
  <2>1. SumFunctionOnSet(g, S) = SumFunctionOnSet(f, S) - f[x] + g[x]
    <3>1. \A y \in S : f[y] \in Int /\ g[y] \in Int
      BY <1>2, <1>3
    <3>2. \A y \in S \ {x} : g[y] = f[y]
      BY <1>2
    <3> HIDE DEF S
    <3> QED BY <1>1, <1>7, <3>1, <3>2, SumUpdate
  <2>2. f[x] \in Int /\ g[x] \in Int /\ ledger'[a] + g[x] = ledger[a] + f[x]
    BY <1>2, <1>3, <1>7
  <2>3. ledger'[a] + SumFunctionOnSet(g, S) = 0
    BY <1>5, <1>6, <2>1, <2>2
  <2> QED BY <1>4, <2>3 DEF HoldsCarried
<1>8. CASE x \notin S
  <2>1. \A y \in S : g[y] = f[y]
    BY <1>2, <1>8
  <2>2. SumFunctionOnSet(g, S) = SumFunctionOnSet(f, S)
    BY <1>1, <2>1, SumSame
  <2> QED BY <1>4, <1>6, <1>8, <2>2 DEF HoldsCarried
<1> QED BY <1>7, <1>8

\* A step of one request leaves the records of other assets and accruals alone.
LEMMA RecordsElsewhere ==
  ASSUME ClerksInv, NEW r \in Clerks, Goes(r)
  PROVE  Elsewhere(asked[r].doc)
<1> DEFINE x == asked[r].doc
<1>1. CASE \/ InsertEntry(r) \/ SetPosted(r) \/ FetchAccounts(r) \/ InsertLines(r) \/ WriteAccount(r)
           \/ ReverseEntry(r) \/ DeleteLines(r) \/ DeleteEntry(r) \/ EntryGone(r)
  BY <1>1, ManualFacts DEF scheduleVars, Elsewhere
<1>2. CASE AddToAccount(r)
  BY <1>2, AddFacts DEF scheduleVars, Elsewhere
<1>3. CASE AccrualGone(r) \/ BreakOff(r)
  BY <1>3 DEF AccrualGone, BreakOff, Abandon, scheduleVars, Elsewhere
<1>4. CASE \/ PostEntry(r) \/ Accumulate(r) \/ InsertRun(r) \/ Recognize(r) \/ Close(r)
           \/ RemoveAccrual(r)
  <2>1. /\ state' = state \/ \E v : state' = [state EXCEPT ![x] = v]
        /\ used' = used \/ \E v : used' = [used EXCEPT ![x] = v]
        /\ charged' = charged \/ \E v : charged' = [charged EXCEPT ![x] = v]
        /\ times' = times \/ \E v : times' = [times EXCEPT ![x] = v]
    <3>1. CASE PostEntry(r)
      BY <3>1 DEF PostEntry, Subject
    <3>2. CASE Accumulate(r)
      BY <3>2 DEF Accumulate, Subject
    <3>3. CASE InsertRun(r)
      BY <3>3 DEF InsertRun, Subject
    <3>4. CASE Recognize(r)
      BY <3>4 DEF Recognize, Subject
    <3>5. CASE Close(r)
      BY <3>5 DEF Close, Subject
    <3>6. CASE RemoveAccrual(r)
      BY <3>6 DEF RemoveAccrual, Subject
    <3> QED BY <1>4, <3>1, <3>2, <3>3, <3>4, <3>5, <3>6
  <2>2. /\ state \in [Schedules -> {"active", "completed", "disposed", "deleted"}]
        /\ used \in [Schedules -> Nat] /\ charged \in [Schedules -> Nat]
        /\ times \in [Schedules -> [Months -> Nat]]
    BY DEF ClerksInv, BooksOK
  <2> HIDE DEF x
  <2> QED BY <2>1, <2>2 DEF Elsewhere, x
<1> QED BY <1>1, <1>2, <1>3, <1>4 DEF Goes, Proceed

\* Nor does it begin or end their disposal.
LEMMA CarriedElsewhere ==
  ASSUME ClerksInv, NEW r \in Clerks, Goes(r), NEW y \in Schedules, y # asked[r].doc
  PROVE  Carried(y)' = Carried(y)
<1>1. /\ Others(r)
      /\ asked'[r].doc = asked[r].doc \/ next'[r] = "idle"
  BY GoesShape
<1>2. state'[y] = state[y] /\ charged'[y] = charged[y]
  BY RecordsElsewhere DEF Elsewhere
<1>3. Leaving(y)' <=> Leaving(y)
  BY <1>1 DEF Leaving, Subject, Others
<1> QED BY <1>2, <1>3 DEF Carried

\* An asset that is handled by one request alone leaves with it.
LEMMA LeavingAlone ==
  ASSUME ClerksInv, NEW r \in Clerks, Goes(r), NEW x, x = asked[r].doc, x \notin Shared
  PROVE  /\ Leaving(x) <=> asked[r].kind = "dispose" /\ next[r] \in {"add", "close"}
         /\ Leaving(x)' <=>
              asked'[r].doc = x /\ asked'[r].kind = "dispose" /\ next'[r] \in {"add", "close"}
<1>1. Others(r) /\ ~ Idle(r)
  BY GoesShape
<1>2. \A t \in Clerks \ {r} : Idle(t) \/ asked[t].doc # x
  BY <1>1 DEF ClerksInv, RequestsOK, OneAtATime, Subject
<1>3. \A t \in Clerks \ {r} : ~ (asked[t].doc = x /\ next[t] \in {"add", "close"})
  BY <1>2 DEF Idle
<1>4. \A t \in Clerks \ {r} : asked'[t] = asked[t] /\ next'[t] = next[t]
  BY <1>1 DEF Others
<1>5. Leaving(x) <=> asked[r].kind = "dispose" /\ next[r] \in {"add", "close"}
  BY <1>3 DEF Leaving, Subject
<1>6. Leaving(x)' <=>
        asked'[r].doc = x /\ asked'[r].kind = "dispose" /\ next'[r] \in {"add", "close"}
  BY <1>3, <1>4 DEF Leaving, Subject
<1> QED BY <1>5, <1>6

\* Posting, and all that follows it, keeps the account equal to what it holds of the asset.
LEMMA CarriedPosted ==
  ASSUME ClerksInv, ChargeInv, WornInv, NEW r \in Clerks, PostEntry(r), NEW a \in Accounts, Worn(a),
         NEW x, x = asked[r].doc, x \in Writers(a)
  PROVE  ledger'[a] + Carried(x)' = ledger[a] + Carried(x)
<1> DEFINE q == asked[r]
           n == Total(q.lines, a)
<1>1. /\ x \in Assets /\ x \in Schedules /\ x \in Steady /\ x \notin Shared
      /\ Credit[x] = a /\ a \notin {Debit[x], AssetAccount[x], Proceeds, Gain, Loss}
  BY WornFacts
<1>2. /\ next[r] = "entry" /\ next'[r] = "add" /\ asked'[r] = q /\ state' = state
      /\ charged' = [charged EXCEPT ![x] = @ + q.amount]
      /\ ledger'[a] = ledger[a] + n
  BY GotoFacts DEF PostEntry, Subject
<1>3. charged'[x] = charged[x] + q.amount /\ charged[x] \in Nat /\ q.amount \in Nat /\ ledger[a] \in Int
  BY <1>1, <1>2, RequestFacts DEF ClerksInv, BooksOK
<1>4. SteadyAt(q, "entry") /\ LinesAt(q, "entry") /\ q.kind \in {"charge", "dispose"}
  BY <1>1, <1>2, RequestFacts DEF ChargeInv, WornInv, Subject, FitsAt
<1>5. state[x] = "active" /\ used[x] = charged[x]
  BY <1>4 DEF SteadyAt, Settled
<1>6. ~ Leaving(x) /\ (Leaving(x)' <=> q.kind = "dispose")
  BY <1>1, <1>2, LeavingAlone DEF Goes, Proceed
<1>7. Carried(x) = charged[x]
  BY <1>5, <1>6 DEF Carried
<1>8. CASE q.kind = "charge"
  <2>1. q.amount \in Nat \ {0} /\ q.lines = ChargeLines(x, q.amount)
    BY <1>3, <1>4, <1>8 DEF SteadyAt, LinesAt
  <2>2. n = -q.amount
    BY <1>1, <2>1, ChargeTakes
  <2>3. Carried(x)' = charged'[x]
    BY <1>2, <1>5, <1>6, <1>8 DEF Carried
  <2> HIDE DEF n, q
  <2> QED BY <1>2, <1>3, <1>7, <2>2, <2>3
<1>9. CASE q.kind = "dispose"
  <2>1. PICK price \in Prices : q.lines = DisposalLines(x, used[x], price)
    BY <1>1, <1>4, <1>9 DEF LinesAt
  <2>2. price \in Nat /\ used[x] \in Nat
    BY <1>3, <1>5, LedgerAssumption
  <2>3. n = used[x]
    BY <1>1, <2>1, <2>2, DisposalReturns
  <2>4. Carried(x)' = 0
    BY <1>6, <1>9 DEF Carried
  <2> HIDE DEF n, q
  <2> QED BY <1>2, <1>3, <1>5, <1>7, <2>3, <2>4
<1> QED BY <1>4, <1>8, <1>9

LEMMA CarriedOn ==
  ASSUME ClerksInv, ChargeInv, WornInv, NEW r \in Clerks, Goes(r), ~ PostEntry(r),
         NEW a \in Accounts, Worn(a), NEW x, x = asked[r].doc, x \in Writers(a)
  PROVE  ledger'[a] + Carried(x)' = ledger[a] + Carried(x)
<1>1. /\ x \in Assets /\ x \in Schedules /\ x \in Steady /\ x \notin Shared /\ x \notin Flaky
      /\ x \notin Manual /\ x \notin Accruals
  BY WornFacts, ScheduleTypes
<1>2. /\ FitsAt(asked[r], next[r]) /\ asked[r].kind \in Kinds
      /\ next[r] \notin OnManual \cup OnAccrual
  BY <1>1, RequestFacts DEF FitsAt
<1>3. /\ Leaving(x) <=> asked[r].kind = "dispose" /\ next[r] \in {"add", "close"}
      /\ Leaving(x)' <=>
           asked'[r].doc = x /\ asked'[r].kind = "dispose" /\ next'[r] \in {"add", "close"}
  BY <1>1, LeavingAlone
<1>4. /\ state \in [Schedules -> {"active", "completed", "disposed", "deleted"}]
      /\ charged[x] \in Nat /\ ledger[a] \in Int
  BY <1>1 DEF ClerksInv, BooksOK
<1>5. CASE AddToAccount(r)
  <2> DEFINE q == [asked[r] EXCEPT !.lines = Tail(@)]
  <2>1. /\ next[r] = "add" /\ asked' = [asked EXCEPT ![r] = q]
        /\ q.doc = asked[r].doc /\ q.kind = asked[r].kind
        /\ \E s \in {"add", "accumulate", "close"} :
             /\ next' = [next EXCEPT ![r] = s]
             /\ s = "accumulate" => q.kind = "charge"
        /\ UNCHANGED <<ledger, scheduleVars>>
    BY <1>5, AddFacts
  <2> HIDE DEF q
  <2>2. asked'[r] = q /\ next'[r] \in {"add", "accumulate", "close"}
        /\ (next'[r] = "accumulate" => q.kind = "charge")
    BY <2>1 DEF ClerksInv, RequestsOK
  <2>3. Leaving(x)' <=> Leaving(x)
    BY <1>3, <2>1, <2>2
  <2> QED BY <2>1, <2>3 DEF Carried, scheduleVars
<1>6. CASE Accumulate(r)
  <2>1. next[r] = "accumulate" /\ next'[r] = "run" /\ UNCHANGED <<ledger, state, charged>>
    BY <1>6, GotoFacts DEF Accumulate, bookVars
  <2>2. ~ Leaving(x)' /\ ~ Leaving(x)
    BY <1>3, <2>1
  <2> QED BY <2>1, <2>2 DEF Carried
<1>7. CASE InsertRun(r)
  <2>1. next[r] = "run" /\ next'[r] = "idle" /\ UNCHANGED <<ledger, state, charged>>
    BY <1>7, AnswerFacts DEF InsertRun, bookVars
  <2>2. ~ Leaving(x)' /\ ~ Leaving(x)
    BY <1>3, <2>1
  <2> QED BY <2>1, <2>2 DEF Carried
<1>8. CASE Close(r)
  <2>1. /\ next[r] = "close" /\ state' = [state EXCEPT ![x] = "disposed"]
        /\ ledger' = ledger
    BY <1>8 DEF Close, Subject, bookVars
  <2>2. asked[r].kind = "dispose"
    BY <1>2, <2>1 DEF FitsAt
  <2>3. Leaving(x) /\ state'[x] = "disposed"
    BY <1>1, <1>3, <1>4, <2>1, <2>2
  <2> QED BY <2>1, <2>3 DEF Carried
<1>9. CASE BreakOff(r)
  <2>1. /\ ~ Midway(r) /\ next'[r] = "idle" /\ UNCHANGED <<ledger, state, charged>>
    BY <1>1, <1>9, AnswerFacts DEF BreakOff, Abandon, Subject, bookVars, scheduleVars
  <2>2. ~ Leaving(x)' /\ ~ Leaving(x)
    BY <1>3, <2>1 DEF Midway
  <2> QED BY <2>1, <2>2 DEF Carried
<1>10. \/ AddToAccount(r) \/ Accumulate(r) \/ InsertRun(r) \/ Close(r) \/ BreakOff(r)
  <2>1. next[r] \notin {"enter", "post", "fetch", "lines", "write", "reverse", "delete", "header",
                        "recognize", "remove"}
    BY <1>2 DEF OnManual, OnAccrual
  <2> QED BY <2>1 DEF Goes, Proceed, InsertEntry, SetPosted, FetchAccounts, InsertLines, WriteAccount,
                ReverseEntry, DeleteLines, DeleteEntry, EntryGone, Recognize, RemoveAccrual,
                AccrualGone
<1> QED BY <1>5, <1>6, <1>7, <1>8, <1>9, <1>10

\* What is about to be posted stays as it was worked out: nobody else is at the asset.
LEMMA LinesKept ==
  ASSUME ClerksInv, WornInv, NEW r \in Clerks, Goes(r), NEW t \in Clerks
  PROVE  LinesAt(asked[t], next[t])'
<1>1. Others(r) /\ ~ Idle(r)
  BY GoesShape
<1>2. CASE t = r
  <2>1. next'[r] # "entry"
    <3>1. CASE \/ InsertEntry(r) \/ SetPosted(r) \/ FetchAccounts(r) \/ InsertLines(r)
               \/ WriteAccount(r) \/ ReverseEntry(r) \/ DeleteLines(r) \/ DeleteEntry(r)
               \/ EntryGone(r)
      BY <3>1, ManualFacts DEF OnManual
    <3>2. CASE PostEntry(r) \/ Accumulate(r)
      BY <3>2, GotoFacts DEF PostEntry, Accumulate
    <3>3. CASE AddToAccount(r)
      <4>1. \E s \in {"add", "accumulate", "close"} : next' = [next EXCEPT ![r] = s]
        BY <3>3, AddFacts
      <4> QED BY <4>1 DEF ClerksInv, RequestsOK
    <3>4. CASE \/ InsertRun(r) \/ Recognize(r) \/ Close(r) \/ RemoveAccrual(r) \/ AccrualGone(r)
               \/ BreakOff(r)
      BY <3>4, AnswerFacts DEF InsertRun, Recognize, Close, RemoveAccrual, AccrualGone, BreakOff,
                               Abandon
    <3> QED BY <3>1, <3>2, <3>3, <3>4 DEF Goes, Proceed
  <2> QED BY <1>2, <2>1 DEF LinesAt
<1>3. CASE t # r
  <2>1. asked'[t] = asked[t] /\ next'[t] = next[t] /\ LinesAt(asked[t], next[t])
    BY <1>1, <1>3 DEF Others, WornInv
  <2>2. ASSUME next[t] = "entry", asked[t].doc \in Steady PROVE used'[asked[t].doc] = used[asked[t].doc]
    <3>1. asked[t].doc # asked[r].doc
      BY <1>1, <1>3, <2>2 DEF ClerksInv, RequestsOK, OneAtATime, Subject, Idle, Steady
    <3> QED BY <2>2, <3>1, RecordsElsewhere DEF Elsewhere, Steady
  <2> QED BY <2>1, <2>2 DEF LinesAt
<1> QED BY <1>2, <1>3

LEMMA WornAccepted ==
  ASSUME ClerksInv, ClerksInv', WornInv, NEW r \in Clerks, NEW q, NEW s, Accepted(r, q, s)
  PROVE  WornInv'
<1>1. /\ Idle(r) /\ next'[r] = s /\ asked'[r] = q /\ Others(r)
      /\ ledger' = ledger /\ state' = state /\ used' = used /\ charged' = charged
  BY AcceptedFacts DEF bookVars, scheduleVars
<1>2. s \notin {"add", "close"}
  BY DEF Accepted, Enters, Posts, Reverses, Deletes, Charges, Disposes, Removes
<1>3. LinesAt(q, s)
  BY DEF LinesAt, Accepted, Enters, Posts, Reverses, Deletes, Charges, Disposes, Removes
<1>4. \A t \in Clerks : LinesAt(asked[t], next[t])'
  BY <1>1, <1>3 DEF LinesAt, WornInv, Others
<1>5. \A y : Carried(y)' = Carried(y)
  BY <1>1, <1>2 DEF Carried, Leaving, Others, Subject, Idle
<1>6. ASSUME NEW a \in Accounts, Worn(a) PROVE HoldsCarried(a)'
  BY <1>1, <1>5, <1>6, CarriedMoves DEF WornInv
<1>7. \A a \in Accounts : Worn(a)' => Worn(a)
  BY DEF Worn, Accumulates, Writers, Touched
<1> QED BY <1>4, <1>6, <1>7 DEF WornInv

LEMMA WornStep == ClerksInv /\ ChargeInv /\ WornInv /\ [JournalNext]_journalVars => WornInv'
<1> SUFFICES ASSUME ClerksInv, ChargeInv, WornInv, [JournalNext]_journalVars PROVE WornInv'
  OBVIOUS
<1>1. ClerksInv' /\ \A a \in Accounts : Worn(a)' => Worn(a)
  BY ClerksStep DEF Worn, Accumulates, Writers, Touched
<1>2. CASE UNCHANGED journalVars \/ Repair
  <2>1. /\ ledger' = ledger /\ state' = state /\ used' = used /\ charged' = charged
        /\ asked' = asked /\ next' = next
    BY <1>2 DEF journalVars, bookVars, scheduleVars, Repair
  <2>2. \A t \in Clerks : LinesAt(asked[t], next[t])'
    BY <2>1 DEF LinesAt, WornInv
  <2>3. \A y : Carried(y)' = Carried(y)
    BY <2>1 DEF Carried, Leaving, Subject
  <2>4. ASSUME NEW a \in Accounts, Worn(a) PROVE HoldsCarried(a)'
    BY <1>1, <2>1, <2>3, <2>4, CarriedMoves DEF WornInv
  <2> QED BY <1>1, <2>2, <2>4 DEF WornInv
<1>3. ASSUME NEW r \in Clerks, Accept(r) PROVE WornInv'
  BY <1>1, <1>3, AcceptFacts, WornAccepted
<1>4. ASSUME NEW r \in Clerks, Goes(r) PROVE WornInv'
  <2>1. \A t \in Clerks : LinesAt(asked[t], next[t])'
    BY <1>4, LinesKept
  <2>2. ASSUME NEW a \in Accounts, Worn(a) PROVE HoldsCarried(a)'
    <3>1. PICK x : x = asked[r].doc
      OBVIOUS
    <3>2. \A y \in Writers(a) \ {x} : Carried(y)' = Carried(y)
      BY <1>4, <2>2, <3>1, WornFacts, CarriedElsewhere
    <3>3. x \in Writers(a) => ledger'[a] + Carried(x)' = ledger[a] + Carried(x)
      BY <1>4, <2>2, <3>1, CarriedPosted, CarriedOn
    <3>4. x \notin Writers(a) => ledger'[a] = ledger[a]
      BY <1>4, <3>1, RequestFacts, GoesElsewhere DEF Writers
    <3>5. HoldsCarried(a)
      BY <2>2 DEF WornInv
    <3> QED BY <1>1, <2>2, <3>2, <3>3, <3>4, <3>5, CarriedMoves
  <2> QED BY <1>1, <2>1, <2>2 DEF WornInv
<1> QED BY <1>2, <1>3, <1>4 DEF JournalNext, BooksAtRest, Goes

LEMMA WornStart == JournalInit => WornInv
<1> SUFFICES ASSUME JournalInit PROVE WornInv
  OBVIOUS
<1>1. /\ \A a \in Accounts : ledger[a] = 0
      /\ \A x \in Schedules : charged[x] = 0
      /\ \A r \in Clerks : next[r] = "idle"
  BY DEF JournalInit
<1>2. \A r \in Clerks : LinesAt(asked[r], next[r])
  BY <1>1 DEF LinesAt
<1>3. ASSUME NEW a \in Accounts, Worn(a) PROVE HoldsCarried(a)
  <2>1. \A x \in Writers(a) : CarriedOf(a)[x] = 0
    BY <1>1, <1>3, WornFacts DEF CarriedOf, Carried
  <2>2. SumFunctionOnSet(CarriedOf(a), Writers(a)) = 0
    BY <2>1, WritersFinite, SumZero
  <2> QED BY <1>1, <2>2 DEF HoldsCarried
<1> QED BY <1>2, <1>3 DEF WornInv

\* In every state an account that only accumulates depreciation holds what was accumulated
\* for the assets that are not disposed of, when nobody is at one of them.
THEOREM BookValueAlwaysInJournal == JournalSpec => []BookValueInJournal
<1>1. JournalInit => ClerksInv /\ ChargeInv /\ WornInv
  BY ClerksStart, ChargesStart, WornStart
<1>2. ClerksInv /\ ChargeInv /\ WornInv /\ [JournalNext]_journalVars
        => (ClerksInv /\ ChargeInv /\ WornInv)'
  BY ClerksStep, ChargesStep, WornStep
<1>3. ClerksInv /\ ChargeInv /\ WornInv => BookValueInJournal
  <2> SUFFICES ASSUME ClerksInv, ChargeInv, WornInv, NEW a \in Accounts, Worn(a),
                      \A x \in Writers(a) : Unattended(x)
               PROVE  -Posted(a) = SumFunctionOnSet(used, {x \in Writers(a) : state[x] # "disposed"})
    BY DEF BookValueInJournal, DepreciationAccounts, Calm, Worn
  <2> DEFINE S == Writers(a)
             W == {x \in S : state[x] # "disposed"}
             f == CarriedOf(a)
  <2>1. Posted(a) = ledger[a]
    <3>1. S \cap Manual = {}
      BY WornFacts, ScheduleTypes
    <3> QED BY <3>1, PostedWithoutManual
  <2>2. \A x \in S : f[x] \in Int /\ f[x] = IF x \in W THEN used[x] ELSE 0
    <3> SUFFICES ASSUME NEW x \in S PROVE f[x] \in Int /\ f[x] = IF x \in W THEN used[x] ELSE 0
      OBVIOUS
    <3>1. f[x] \in Int /\ f[x] = Carried(x)
      BY CarriedType
    <3>2. ~ Leaving(x)
      BY DEF Leaving, Unattended, Idle
    <3>3. used[x] = charged[x]
      BY WornFacts DEF ChargeInv, Settled
    <3> QED BY <3>1, <3>2, <3>3 DEF Carried
  <2>3. IsFiniteSet(S)
    BY WritersFinite
  <2>4. SumFunctionOnSet(f, S) = SumFunctionOnSet(used, {x \in S : x \in W})
    <3> HIDE DEF S, W, f
    <3> QED BY <2>2, <2>3, SumWithin
  <2>5. {x \in S : x \in W} = W
    OBVIOUS
  <2>6. SumFunctionOnSet(f, S) \in Int
    <3> HIDE DEF S, W, f
    <3> QED BY <2>2, <2>3, SumSplit
  <2>7. ledger[a] + SumFunctionOnSet(f, S) = 0 /\ ledger[a] \in Int
    BY DEF WornInv, HoldsCarried, ClerksInv, BooksOK
  <2>8. -Posted(a) = SumFunctionOnSet(f, S)
    <3> HIDE DEF S, f
    <3> QED BY <2>1, <2>6, <2>7
  <2> QED BY <2>4, <2>5, <2>8
<1> QED BY <1>1, <1>2, <1>3, PTL DEF JournalSpec

=============================================================================
