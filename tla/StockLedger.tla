----------------------------- MODULE StockLedger -----------------------------
(***************************************************************************)
(* The quantity of a product, products.quantity, and the log of its        *)
(* movements, stock_movements.quantity, under every handler that posts a   *)
(* document with stock lines: sales, purchases, their cancellations and    *)
(* returns, repair parts, stock counts, adjustments, opening balances.     *)
(*                                                                         *)
(* Each request is one PostgreSQL transaction at READ COMMITTED that works *)
(* through the lines of its document in order.  The handlers differ in how *)
(* they learn the quantity they start from, in what they do when it does   *)
(* not suffice, and in how they notice that the document was posted before *)
(* (see Postings).  The other tables a handler writes belong to the other  *)
(* modules; whatever fails there rolls the stock back too (Fail).          *)
(***************************************************************************)
EXTENDS Integers, Sequences

CONSTANTS
  Products,    \* ids of the rows of table products
  Opening,     \* Opening[p]: the quantity, and opening movement, of a product
  Requests,    \* the HTTP requests
  Jobs,        \* what a request may ask for: [post, doc, lines]
  NoRequest,   \* not a request: nobody holds a lock
  NoJob        \* not a job: the request has not arrived

VARIABLES
  qty,         \* qty[p]: committed value of products.quantity
  work,        \* work[p]: the value the transaction holding the row sees
  lockedBy,    \* lockedBy[p]: the transaction that holds the row lock
  moves,       \* moves[p]: sum of the committed movements of the product
  applied,     \* applied[d]: transactions committed for document d
  docLock,     \* docLock[d]: the transaction that claims document d
  job,         \* job[r]: what request r asks for
  at,          \* at[r]: the line the handler works on
  seen,        \* seen[r]: the quantities the handler remembers
  pend,        \* pend[r][p]: movements r has inserted and not committed
  pc           \* pc[r]: where the handler is

rowVars == <<qty, work, lockedBy, moves>>
docVars == <<applied, docLock>>
vars == <<qty, work, lockedBy, moves, applied, docLock, job, at, seen, pend, pc>>

-----------------------------------------------------------------------------
(* The kinds of posting *)

\* sign: whether a line adds (1), takes (-1) or sets (0) the quantity.
\* reads: the UPDATE is relative to the row ("none"), or absolute, from one
\*   SELECT before the first line ("prefetch"), a plain SELECT at each line
\*   ("each") or a SELECT ... FOR UPDATE at each line ("lock").
\* floor: below zero the line is refused by the WHERE clause ("enough"), cut
\*   off at zero by Math.max(0, ...) ("clamp"), or allowed ("free").
\* claim: that the document was posted before shows in a status read before
\*   the transaction ("status"), in a unique index or a conditional UPDATE that
\*   locks ("row"), or not at all ("none").
\* precheck: the quantities are also compared before the transaction.
Postings == [sign : {1, 0, -1}, reads : {"none", "prefetch", "each", "lock"},
             floor : {"enough", "clamp", "free"}, claim : {"status", "row", "none"},
             precheck : BOOLEAN]

\* Mutant: the sale computes the new quantity from its prefetched products.
SaleFromPrefetch == [sign |-> -1, reads |-> "prefetch", floor |-> "enough",
                     claim |-> "status", precheck |-> FALSE]

Sale == [sign |-> -1, reads |-> "none", floor |-> "enough",
         claim |-> "status", precheck |-> FALSE]

\* Mutant: the cancellation reads without FOR UPDATE.
SaleCancelUnlocked == [sign |-> 1, reads |-> "each", floor |-> "free",
                       claim |-> "status", precheck |-> FALSE]

SaleCancel == [sign |-> 1, reads |-> "lock", floor |-> "free",
               claim |-> "status", precheck |-> FALSE]
SaleReturn == [sign |-> 1, reads |-> "each", floor |-> "free",
               claim |-> "row", precheck |-> FALSE]
SaleReturnDelete == [sign |-> -1, reads |-> "none", floor |-> "enough",
                     claim |-> "status", precheck |-> FALSE]

Purchase == [sign |-> 1, reads |-> "prefetch", floor |-> "free",
             claim |-> "row", precheck |-> FALSE]
PurchaseCancel == [sign |-> -1, reads |-> "lock", floor |-> "clamp",
                   claim |-> "status", precheck |-> TRUE]

\* Mutant: the return is not cut off at zero.
PurchaseReturnUnclamped == [sign |-> -1, reads |-> "each", floor |-> "free",
                            claim |-> "row", precheck |-> FALSE]

PurchaseReturn == [sign |-> -1, reads |-> "each", floor |-> "clamp",
                   claim |-> "row", precheck |-> FALSE]
PurchaseReturnDelete == [sign |-> 1, reads |-> "each", floor |-> "free",
                         claim |-> "status", precheck |-> FALSE]

RepairPart == [sign |-> -1, reads |-> "each", floor |-> "clamp",
               claim |-> "none", precheck |-> FALSE]

PartReturn == [sign |-> 1, reads |-> "each", floor |-> "free",
               claim |-> "row", precheck |-> FALSE]

Adjustment == [sign |-> 0, reads |-> "prefetch", floor |-> "free",
               claim |-> "none", precheck |-> FALSE]
\* A line of a count carries the difference physical - system, negative for a
\* shortage.  It is added to the prefetched quantity without a floor, although
\* system is the quantity at the start of the session (inventory-control.ts:327).
StockCount == [sign |-> 1, reads |-> "prefetch", floor |-> "free",
               claim |-> "status", precheck |-> FALSE]
OpeningBalance == [sign |-> 1, reads |-> "prefetch", floor |-> "free",
                   claim |-> "status", precheck |-> FALSE]

Line == [product : Products, quantity : Int]
Docs == {j.doc : j \in Jobs}

ASSUME StockAssumption ==
  /\ Opening \in [Products -> Nat]
  /\ NoRequest \notin Requests
  /\ NoJob \notin Jobs
  /\ \A j \in Jobs : /\ j.post \in Postings
                     /\ j.lines \in Seq(Line)
                     /\ j.lines # << >>

-----------------------------------------------------------------------------
(* Rows, locks and transactions *)

Post(r) == job[r].post
Doc(r) == job[r].doc
Current(r) == job[r].lines[at[r]]

Available(r, p) == lockedBy[p] \in {NoRequest, r}

\* A SELECT sees the committed row, or the version its own transaction wrote.
View(r, p) == IF lockedBy[p] = r THEN work[p] ELSE qty[p]

Nothing == [p \in Products |-> 0]

InTransaction(r) == pc[r] \in {"claim", "read", "write", "commit"}
Answered(r) == pc[r] \in {"committed", "rejected", "failed"}

\* Mutant: the row lock of a failed transaction is never released.
RollbackKeepsLocks(r, outcome) ==
  /\ work' = [p \in Products |-> IF lockedBy[p] = r THEN qty[p] ELSE work[p]]
  /\ docLock' = [d \in Docs |-> IF docLock[d] = r THEN NoRequest ELSE docLock[d]]
  /\ pend' = [pend EXCEPT ![r] = Nothing]
  /\ pc' = [pc EXCEPT ![r] = outcome]
  /\ UNCHANGED <<qty, lockedBy, moves, applied, job, at, seen>>

Rollback(r, outcome) ==
  /\ work' = [p \in Products |-> IF lockedBy[p] = r THEN qty[p] ELSE work[p]]
  /\ lockedBy' = [p \in Products |-> IF lockedBy[p] = r THEN NoRequest ELSE lockedBy[p]]
  /\ docLock' = [d \in Docs |-> IF docLock[d] = r THEN NoRequest ELSE docLock[d]]
  /\ pend' = [pend EXCEPT ![r] = Nothing]
  /\ pc' = [pc EXCEPT ![r] = outcome]
  /\ UNCHANGED <<qty, moves, applied, job, at, seen>>

\* Where a transaction with this posting starts on its first line, and on each
\* of the others.
Entry(post) == IF post.reads = "none" THEN "write" ELSE "read"
Again(post) == IF post.reads \in {"each", "lock"} THEN "read" ELSE "write"

-----------------------------------------------------------------------------
(* The handlers, one action per statement *)

Init ==
  /\ qty = Opening
  /\ work = Opening
  /\ lockedBy = [p \in Products |-> NoRequest]
  /\ moves = Opening
  /\ applied = [d \in Docs |-> 0]
  /\ docLock = [d \in Docs |-> NoRequest]
  /\ job = [r \in Requests |-> NoJob]
  /\ at = [r \in Requests |-> 1]
  /\ seen = [r \in Requests |-> Nothing]
  /\ pend = [r \in Requests |-> Nothing]
  /\ pc = [r \in Requests |-> "idle"]

\* What is looked at before the transaction, without a lock.
PassesChecks(j) ==
  /\ j.post.claim = "status" => applied[j.doc] = 0
  /\ j.post.precheck =>
       \A i \in DOMAIN j.lines : qty[j.lines[i].product] >= j.lines[i].quantity

Receive(r) ==
  /\ pc[r] = "idle"
  /\ \E j \in Jobs :
       /\ job' = [job EXCEPT ![r] = j]
       /\ pc' = [pc EXCEPT ![r] =
            IF ~ PassesChecks(j) THEN "rejected"
            ELSE IF j.post.claim = "row" THEN "claim" ELSE Entry(j.post)]
  /\ UNCHANGED <<rowVars, docVars, at, seen, pend>>

\* Mutant: is_returned is read first and set unconditionally later.
ClaimUnlocked(r) ==
  /\ pc[r] = "claim"
  /\ applied[Doc(r)] = 0
  /\ pc' = [pc EXCEPT ![r] = Entry(Post(r))]
  /\ UNCHANGED <<rowVars, docVars, job, at, seen, pend>>

\* INSERT with a unique request_id, or UPDATE ... WHERE is_returned = false:
\* either waits for a transaction that has claimed the document and not ended.
Claim(r) ==
  /\ pc[r] = "claim"
  /\ docLock[Doc(r)] = NoRequest
  /\ applied[Doc(r)] = 0
  /\ docLock' = [docLock EXCEPT ![Doc(r)] = r]
  /\ pc' = [pc EXCEPT ![r] = Entry(Post(r))]
  /\ UNCHANGED <<rowVars, applied, job, at, seen, pend>>

\* The unique index refuses the INSERT, or the UPDATE matches no row.
AlreadyPosted(r) ==
  /\ pc[r] = "claim"
  /\ docLock[Doc(r)] = NoRequest
  /\ applied[Doc(r)] > 0
  /\ Rollback(r, "rejected")

\* One SELECT ... WHERE id IN (...) for all the lines.
Prefetch(r) ==
  /\ pc[r] = "read"
  /\ Post(r).reads = "prefetch"
  /\ seen' = [seen EXCEPT ![r] = [p \in Products |-> View(r, p)]]
  /\ pc' = [pc EXCEPT ![r] = "write"]
  /\ UNCHANGED <<rowVars, docVars, job, at, pend>>

\* A plain SELECT of the product of the line.
ReadLine(r) ==
  LET p == Current(r).product
  IN /\ pc[r] = "read"
     /\ Post(r).reads = "each"
     /\ seen' = [seen EXCEPT ![r] = [seen[r] EXCEPT ![p] = View(r, p)]]
     /\ pc' = [pc EXCEPT ![r] = "write"]
     /\ UNCHANGED <<rowVars, docVars, job, at, pend>>

\* SELECT ... FOR UPDATE of the product of the line.
LockLine(r) ==
  LET p == Current(r).product
  IN /\ pc[r] = "read"
     /\ Post(r).reads = "lock"
     /\ Available(r, p)
     /\ lockedBy' = [lockedBy EXCEPT ![p] = r]
     /\ seen' = [seen EXCEPT ![r] = [seen[r] EXCEPT ![p] = work[p]]]
     /\ pc' = [pc EXCEPT ![r] = "write"]
     /\ UNCHANGED <<qty, work, moves, docVars, job, at, pend>>

\* The quantity the line starts from, the movement it records, and the new
\* quantity.
Base(r) == IF Post(r).reads = "none" THEN work[Current(r).product]
                                     ELSE seen[r][Current(r).product]
Delta(r) == IF Post(r).sign = 0 THEN Current(r).quantity - Base(r)
            ELSE IF Post(r).sign = 1 THEN Current(r).quantity ELSE - Current(r).quantity
Result(r) == IF Post(r).floor = "clamp" /\ Base(r) + Delta(r) < 0
             THEN 0 ELSE Base(r) + Delta(r)
Enough(r) == Post(r).floor = "enough" => work[Current(r).product] >= Current(r).quantity

\* UPDATE products and INSERT INTO stock_movements for one line.
Write(r) ==
  LET p == Current(r).product
  IN /\ pc[r] = "write"
     /\ Available(r, p)
     /\ Enough(r)
     /\ lockedBy' = [lockedBy EXCEPT ![p] = r]
     /\ work' = [work EXCEPT ![p] = Result(r)]
     /\ pend' = [pend EXCEPT ![r] = [pend[r] EXCEPT ![p] = pend[r][p] + Delta(r)]]
     /\ seen' = [seen EXCEPT ![r] = [seen[r] EXCEPT ![p] = Result(r)]]
     /\ at' = [at EXCEPT ![r] = at[r] + 1]
     /\ pc' = [pc EXCEPT ![r] =
                 IF at[r] = Len(job[r].lines) THEN "commit" ELSE Again(Post(r))]
     /\ UNCHANGED <<qty, moves, docVars, job>>

\* The conditional UPDATE matched no row: 400 and rollback.
Short(r) ==
  /\ pc[r] = "write"
  /\ Available(r, Current(r).product)
  /\ ~ Enough(r)
  /\ Rollback(r, "rejected")

\* The status or the new row of the document is written with the COMMIT.
Commit(r) ==
  /\ pc[r] = "commit"
  /\ qty' = [p \in Products |-> IF lockedBy[p] = r THEN work[p] ELSE qty[p]]
  /\ lockedBy' = [p \in Products |-> IF lockedBy[p] = r THEN NoRequest ELSE lockedBy[p]]
  /\ docLock' = [d \in Docs |-> IF docLock[d] = r THEN NoRequest ELSE docLock[d]]
  /\ moves' = [p \in Products |-> moves[p] + pend[r][p]]
  /\ pend' = [pend EXCEPT ![r] = Nothing]
  /\ applied' = [applied EXCEPT ![Doc(r)] =
                   IF Post(r).claim = "none" THEN applied[Doc(r)] ELSE applied[Doc(r)] + 1]
  /\ pc' = [pc EXCEPT ![r] = "committed"]
  /\ UNCHANGED <<work, job, at, seen>>

\* An error in another table, statement_timeout, a lost connection or a crash
\* of the process: PostgreSQL rolls the transaction back.
Fail(r) == InTransaction(r) /\ Rollback(r, "failed")

\* PostgreSQL aborts a transaction of a circular wait.
WaitsFor(r) ==
  CASE pc[r] = "claim" -> {docLock[Doc(r)]} \ {NoRequest}
    [] pc[r] = "write" \/ (pc[r] = "read" /\ Post(r).reads = "lock") ->
         {lockedBy[Current(r).product]} \ {NoRequest, r}
    [] OTHER -> {}
Deadlocked(r) ==
  \E group \in SUBSET Requests :
    r \in group /\ \A q \in group : WaitsFor(q) \cap group # {}
DeadlockVictim(r) == Deadlocked(r) /\ Rollback(r, "failed")

Step(r) ==
  \/ Claim(r)
  \/ AlreadyPosted(r)
  \/ Prefetch(r)
  \/ ReadLine(r)
  \/ LockLine(r)
  \/ Write(r)
  \/ Short(r)
  \/ Commit(r)

\* Every request has its answer: nothing is left to do.
Quiescent == (\A r \in Requests : Answered(r)) /\ UNCHANGED vars

Next ==
  \/ \E r \in Requests : Receive(r) \/ Step(r) \/ Fail(r) \/ DeadlockVictim(r)
  \/ Quiescent

Spec == Init /\ [][Next]_vars

\* A handler that can take its next statement takes it, and the deadlock
\* detector of the server runs; other failures are never forced.
FairSpec == /\ Spec
            /\ \A r \in Requests : WF_vars(Step(r)) /\ WF_vars(DeadlockVictim(r))

-----------------------------------------------------------------------------
(* Properties *)

\* The shape of the state; a transaction reaches its COMMIT only after its last
\* line.
TypeOK ==
  /\ qty \in [Products -> Int]
  /\ work \in [Products -> Int]
  /\ lockedBy \in [Products -> Requests \cup {NoRequest}]
  /\ moves \in [Products -> Int]
  /\ applied \in [Docs -> Nat]
  /\ docLock \in [Docs -> Requests \cup {NoRequest}]
  /\ job \in [Requests -> Jobs \cup {NoJob}]
  /\ at \in [Requests -> Nat \ {0}]
  /\ seen \in [Requests -> [Products -> Int]]
  /\ pend \in [Requests -> [Products -> Int]]
  /\ pc \in [Requests -> {"idle", "claim", "read", "write", "commit",
                          "committed", "rejected", "failed"}]
  /\ \A r \in Requests :
       /\ IF pc[r] = "idle" THEN at[r] = 1 ELSE job[r] \in Jobs
       /\ pc[r] \in {"claim", "read", "write"} => at[r] <= Len(job[r].lines)
       /\ pc[r] = "commit" => at[r] = Len(job[r].lines) + 1

\* "Selling more than the available stock is not possible" (create.ts:326): no
\* interleaving takes a product below zero, committed or in a transaction.  It
\* holds when what takes stock is cut off, or guarded in a relative UPDATE
\* (NeverBelowZero): all postings but the count that found a shortage, which
\* takes again what was sold after the session had started.
NeverBelowZero(j) ==
  \A i \in DOMAIN j.lines :
    \/ j.post.floor = "clamp"
    \/ j.post.floor = "enough" /\ j.post.reads = "none" /\ j.post.sign = -1
    \/ j.lines[i].quantity >= 0 /\ j.post.sign # -1
StockNeverNegative == \A p \in Products : qty[p] >= 0 /\ work[p] >= 0

\* Check 4 of lib/integrity.ts: products.quantity is the sum of the movements.
\* It holds when every handler writes relative to the row it updates or to one
\* it has locked, and cuts nothing off (Exact).
Exact(j) == j.post.reads \in {"none", "lock"} /\ j.post.floor # "clamp"
                                              /\ j.post.sign # 0
MovementsExplainStock == \A p \in Products : qty[p] = moves[p]

\* A document whose claim locks, a purchase, a return, a part that goes back to
\* stock ("RACE-FIX: claim atomically", repairs/parts.ts:77), is applied at most
\* once, however often its request is sent.  It holds when all requests for a
\* document claim it alike (OneClaimPerDoc).
OneClaimPerDoc == \A j, k \in Jobs : j.doc = k.doc => j.post.claim = k.post.claim
ClaimedOnce == \A j \in Jobs : j.post.claim = "row" => applied[j.doc] <= 1

\* Stock and movements change together, in one step, with an answered request.
Outcome(r) == CASE pc[r] = "committed" -> "done"
                [] pc[r] \in {"rejected", "failed"} -> "refused"
                [] OTHER -> "open"
Book == INSTANCE StockBook
          WITH onHand <- qty, recorded <- moves, outcome <- [r \in Requests |-> Outcome(r)]
ImplementsBook == Book!Spec

\* Every request that starts its transaction is answered, circular waits
\* included.
EveryRequestAnswered == \A r \in Requests : InTransaction(r) ~> Answered(r)

=============================================================================
