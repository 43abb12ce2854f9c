------------------------- MODULE CustomerMoneyProofs -------------------------
(***************************************************************************)
(* Proofs about CustomerMoney for any invoices, customers, safes, amounts, *)
(* requests and number of requests sent.                                   *)
(***************************************************************************)
EXTENDS CustomerMoney, TLAPS

-----------------------------------------------------------------------------
(* Programs *)

\* Every program ends in its only commit, reads the customer before that, and
\* the documents that lock the product first do so before they read.
LEMMA ProgramShape ==
  ASSUME NEW kind \in Kinds
  PROVE  /\ Len(Programs[kind]) \in 3..8
         /\ \A i \in 1..Len(Programs[kind]) :
              /\ Programs[kind][i] = "commit" <=> i = Len(Programs[kind])
              /\ Programs[kind][i] = "lines" => kind \in Undoing /\ i = 2
              /\ Programs[kind][i] = "commit" =>
                   \E k \in 1..(i - 1) : Programs[kind][k] = "readCustomer"
              /\ kind \in {"sell", "buy", "cancel", "return"}
                   /\ Programs[kind][i] = "readCustomer" =>
                     \E k \in 1..(i - 1) : Programs[kind][k] = "product"
         /\ kind \in Undoing => Programs[kind][1] = "stillThere" /\ Programs[kind][2] = "lines"
<1>1. CASE kind = "sell"
  <2>1. Programs[kind] = <<"readSafes", "product", "readCustomer", "customer", "safe", "safe2", "commit">>
    BY <1>1 DEF Programs
  <2>2. kind \notin Undoing
    BY <1>1 DEF Undoing
  <2> QED BY <2>1, <2>2
<1>2. CASE kind = "buy"
  <2>1. Programs[kind] = <<"product", "readSafes", "safe", "readCustomer", "customer", "commit">>
    BY <1>2 DEF Programs
  <2>2. kind \notin Undoing
    BY <1>2 DEF Undoing
  <2> QED BY <2>1, <2>2
<1>3. CASE kind = "cancel"
  <2>1. Programs[kind] = <<"noReturns", "product", "readCustomer", "customer", "readSafes", "safe", "commit">>
    BY <1>3 DEF Programs
  <2>2. kind \notin Undoing
    BY <1>3 DEF Undoing
  <2> QED BY <2>1, <2>2
<1>4. CASE kind = "return"
  <2>1. Programs[kind] = <<"product", "readCustomer", "customer", "readSafes", "safe", "commit">>
    BY <1>4 DEF Programs
  <2>2. kind \notin Undoing
    BY <1>4 DEF Undoing
  <2> QED BY <2>1, <2>2
<1>5. CASE kind = "sendBack"
  <2>1. Programs[kind] = <<"readSafes", "safe", "readCustomer", "customer", "product", "commit">>
    BY <1>5 DEF Programs
  <2>2. kind \notin Undoing \cup {"sell", "buy", "cancel", "return"}
    BY <1>5 DEF Undoing
  <2> QED BY <2>1, <2>2
<1>6. CASE kind = "undo"
  <2>1. Programs[kind] = <<"stillThere", "lines", "product", "readCustomer", "customer", "readSafes",
                           "safe", "commit">>
    BY <1>6 DEF Programs
  <2>2. kind \in Undoing /\ kind \notin {"sell", "buy", "cancel", "return"}
    BY <1>6 DEF Undoing
  <2> QED BY <2>1, <2>2
<1>7. CASE kind = "undoEmpty"
  <2>1. Programs[kind] = <<"stillThere", "lines", "readCustomer", "customer", "readSafes", "safe",
                           "commit">>
    BY <1>7 DEF Programs
  <2>2. kind \in Undoing /\ kind \notin {"sell", "buy", "cancel", "return"}
    BY <1>7 DEF Undoing
  <2> QED BY <2>1, <2>2
<1>8. CASE kind = "receipt"
  <2>1. Programs[kind] = <<"readCustomer", "customer", "commit">>
    BY <1>8 DEF Programs
  <2>2. kind \notin Undoing \cup {"sell", "buy", "cancel", "return"}
    BY <1>8 DEF Undoing
  <2> QED BY <2>1, <2>2
<1>9. CASE kind \in {"payment", "supplierPayment"}
  <2>1. Programs[kind] = <<"readCustomer", "readSafes", "safe", "customer", "commit">>
    BY <1>9 DEF Programs
  <2>2. kind \notin Undoing \cup {"sell", "buy", "cancel", "return"}
    BY <1>9 DEF Undoing
  <2> QED BY <2>1, <2>2
<1> QED BY <1>1, <1>2, <1>3, <1>4, <1>5, <1>6, <1>7, <1>8, <1>9
        DEF Kinds, Creating, Returning, Undoing, Paying

\* No program is shorter than three statements.
LEMMA ProgramLength == \A kind \in Kinds : Len(Programs[kind]) \in Nat /\ 3 <= Len(Programs[kind])
<1> SUFFICES ASSUME NEW kind \in Kinds
             PROVE Len(Programs[kind]) \in Nat /\ 3 <= Len(Programs[kind])
  OBVIOUS
<1>1. Len(Programs[kind]) \in 3..8
  BY ProgramShape
<1>2. \A x \in 3..8 : x \in Nat /\ 3 <= x
  OBVIOUS
<1> QED BY <1>1, <1>2, Zenon

\* A request is at a statement of its program, and only the last is the commit.
LEMMA CanAdvance ==
  ASSUME TypeOK, NEW r \in Requests, NEW statement, At(r, statement)
  PROVE  /\ job[r].kind \in Kinds
         /\ at[r] \in 1..Len(Program(job[r]))
         /\ Len(Program(job[r])) \in Nat
         /\ statement # "commit" => at[r] + 1 <= Len(Program(job[r]))
<1>1. job[r].kind \in Kinds /\ at[r] \in Nat /\ at[r] # 0 /\ at[r] <= Len(Program(job[r]))
  BY DEF TypeOK, At, Idle, Job
<1>2. Len(Program(job[r])) \in 3..8
  BY <1>1, ProgramShape DEF Program
<1>3. at[r] \in 1..Len(Program(job[r]))
  BY <1>1, <1>2
<1>4. statement # "commit" => at[r] # Len(Program(job[r]))
  BY <1>1, <1>3, ProgramShape DEF At, Program
<1> QED BY <1>1, <1>2, <1>3, <1>4

-----------------------------------------------------------------------------
(* Type correctness *)

LEMMA NoJobType == NoJob \in Job
  BY MoneyAssumption DEF NoJob, Job, AnyDoc, Kinds, Paying, Parties, Places

LEMMA ChangesType ==
  ASSUME NEW j \in Job
  PROVE  /\ Sign(j.doc) \in {1, -1}
         /\ Entry(j) \in Int
         /\ DebtChange(j) \in Int
         /\ LedgerChange(j) \in Int
         /\ \A s \in Safes : CashChange(j, s) \in Int
<1>1. j.doc \in Docs /\ j.amount \in Nat /\ j.kind \in Kinds
  BY DEF Job
<1>2. Terms[j.doc].credit \in Nat /\ Terms[j.doc].cash \in Nat /\ Terms[j.doc].cash2 \in Nat
  BY <1>1, MoneyAssumption
<1>3. Sign(j.doc) \in {1, -1}
  BY DEF Sign
<1>4. ASSUME NEW x \in Nat PROVE Sign(j.doc) * x \in Int /\ - Sign(j.doc) * x \in Int
  BY <1>3
<1>5. Entry(j) \in Int
  <2>1. CASE j.kind \in Creating
    <3>1. Entry(j) = Sign(j.doc) * Terms[j.doc].credit
      BY <2>1 DEF Entry, Creating, Returning, Undoing
    <3> QED BY <3>1, <1>2, <1>4
  <2>2. CASE j.kind = "cancel"
    <3>1. Entry(j) = - Sign(j.doc) * Terms[j.doc].credit
      BY <2>2 DEF Entry, Creating, Returning, Undoing
    <3> QED BY <3>1, <1>2, <1>4
  <2>3. CASE j.kind \in Returning BY <2>3, <1>1, <1>4 DEF Entry, Creating, Returning
  <2>4. CASE j.kind \in Undoing BY <2>4, <1>1, <1>4 DEF Entry, Creating, Returning, Undoing
  <2>5. CASE j.kind \in {"receipt", "payment"}
    BY <2>5, <1>1 DEF Entry, Creating, Returning, Undoing
  <2>6. CASE j.kind = "supplierPayment" BY <2>6, <1>1 DEF Entry, Creating, Returning, Undoing
  <2> QED BY <1>1, <2>1, <2>2, <2>3, <2>4, <2>5, <2>6 DEF Kinds, Paying
<1>6. DebtChange(j) \in Int
  BY <1>5 DEF DebtChange
<1>7. LedgerChange(j) \in Int
  BY <1>5, <1>6 DEF LedgerChange
<1>8. ASSUME NEW s \in Safes PROVE CashChange(j, s) \in Int
  <2>1. Paid(j.doc) \in Nat
    BY <1>2 DEF Paid
  <2>2. CASE j.kind \in Creating
    <3> DEFINE cash == (IF s = j.via THEN Terms[j.doc].cash ELSE 0)
                         + (IF s = Terms[j.doc].safe2 THEN Terms[j.doc].cash2 ELSE 0)
    <3>1. CashChange(j, s) = Sign(j.doc) * cash
      BY <2>2 DEF CashChange, Creating, Returning, Undoing, Paying
    <3>2. cash \in Nat
      BY <1>2
    <3> HIDE DEF cash
    <3> QED BY <3>1, <3>2, <1>4
  <2>3. CASE j.kind = "cancel"
    <3>1. CashChange(j, s) = (IF s = j.via THEN - Sign(j.doc) * Paid(j.doc) ELSE 0)
      BY <2>3 DEF CashChange, Creating, Returning, Undoing, Paying
    <3> QED BY <3>1, <2>1, <1>4
  <2>4. CASE j.kind \in Returning \cup Undoing
    BY <2>4, <1>5 DEF CashChange, Creating, Returning, Undoing
  <2>5. CASE j.kind \in Paying
    BY <2>5, <1>5 DEF CashChange, Creating, Returning, Undoing, Paying
  <2> QED BY <1>1, <2>2, <2>3, <2>4, <2>5 DEF Kinds
<1> QED BY <1>3, <1>5, <1>6, <1>7, <1>8

LEMMA InitTypeOK == Init => TypeOK
<1> SUFFICES ASSUME Init PROVE TypeOK
  OBVIOUS
<1>1. job \in [Requests -> Job] /\ \A r \in Requests : job[r] = NoJob
  BY NoJobType DEF Init
<1>2. \A r \in Requests : 0 <= Len(Program(job[r]))
  <2>1. NoJob.kind = "receipt" /\ "receipt" \in Kinds
    BY DEF NoJob, Kinds, Paying
  <2> QED BY <1>1, <2>1, ProgramShape DEF Program
<1>3. \A r \in Requests : job[r].kind \notin Returning /\ job[r].kind # "supplierPayment"
  BY <1>1 DEF NoJob, Returning
<1> QED BY <1>1, <1>2, <1>3, MoneyAssumption DEF Init, TypeOK, NothingSeen

\* A request that is sent starts its program.
LEMMA SendTypeOK ==
  ASSUME TypeOK, NEW r \in Requests, NEW j \in Job, Send(r, j),
         j.kind \in Returning => j.id > 0,
         j.kind = "supplierPayment" => j.via \in Safes
  PROVE  TypeOK'
<1>1. j.kind \in Kinds
  BY DEF Job
<1>2. Len(Program(j)) \in Nat /\ 3 <= Len(Program(j))
  BY <1>1, ProgramLength DEF Program
<1>3. job' = [job EXCEPT ![r] = j] /\ at' = [at EXCEPT ![r] = 1]
  BY DEF Send
<1>4. job' \in [Requests -> Job] /\ at' \in [Requests -> Nat]
  BY <1>3 DEF TypeOK
<1>8. job'[r] = j /\ at'[r] = 1 /\ \A q \in Requests \ {r} : job'[q] = job[q] /\ at'[q] = at[q]
  BY <1>3 DEF TypeOK
<1>5. ASSUME NEW q \in Requests
      PROVE  /\ at'[q] <= Len(Program(job'[q]))
             /\ job'[q].kind \in Returning => job'[q].id > 0
             /\ job'[q].kind = "supplierPayment" => job'[q].via \in Safes
  <2>1. CASE q = r
    <3>1. job'[q] = j /\ at'[q] = 1
      BY <2>1, <1>8
    <3>2. 1 <= Len(Program(j))
      BY <1>2
    <3>3. at'[q] <= Len(Program(job'[q]))
      BY <3>1, <3>2
    <3>4. job'[q].kind \in Returning => job'[q].id > 0
      BY <3>1
    <3>5. job'[q].kind = "supplierPayment" => job'[q].via \in Safes
      BY <3>1
    <3> QED BY <3>3, <3>4, <3>5
  <2>2. CASE q # r BY <2>2, <1>8 DEF TypeOK
  <2> QED BY <2>1, <2>2
<1>6. sent' \in 0..MaxSent
  BY MoneyAssumption DEF TypeOK, Send, MaySend
<1>7. UNCHANGED <<status, debt, ledger, balance, returns, lockedBy, seenDebt, seenCash>>
  BY DEF Send, moneyVars
<1> QED BY <1>4, <1>5, <1>6, <1>7 DEF TypeOK

\* A request that ends leaves nothing behind.
LEMMA FinishTypeOK ==
  ASSUME TypeOK, NEW r \in Requests, Finish(r), Release(r)
  PROVE  /\ lockedBy' \in [Rows -> Requests \cup {NoRequest}]
         /\ job' \in [Requests -> Job]
         /\ at' \in [Requests -> Nat]
         /\ \A q \in Requests :
              /\ at'[q] <= Len(Program(job'[q]))
              /\ job'[q].kind \in Returning => job'[q].id > 0
              /\ job'[q].kind = "supplierPayment" => job'[q].via \in Safes
         /\ seenDebt' \in [Requests -> Int]
         /\ seenCash' \in [Requests -> [Safes -> Int]]
<1>1. job' \in [Requests -> Job] /\ job'[r] = NoJob
      /\ \A q \in Requests \ {r} : job'[q] = job[q]
  BY NoJobType DEF TypeOK, Finish
<1>2. NoJob.kind = "receipt" /\ "receipt" \in Kinds /\ "receipt" \notin Returning
  BY DEF NoJob, Kinds, Paying, Returning
<1>3. Len(Program(NoJob)) \in 3..8
  BY <1>2, ProgramShape DEF Program
<1>4. at' \in [Requests -> Nat] /\ at'[r] = 0 /\ \A q \in Requests \ {r} : at'[q] = at[q]
  BY DEF TypeOK, Finish
<1>5. lockedBy' \in [Rows -> Requests \cup {NoRequest}]
  BY DEF TypeOK, Release
<1>6. seenDebt' \in [Requests -> Int] /\ seenCash' \in [Requests -> [Safes -> Int]]
  BY DEF TypeOK, Finish, NothingSeen
<1>7. ASSUME NEW q \in Requests
      PROVE  /\ at'[q] <= Len(Program(job'[q]))
             /\ job'[q].kind \in Returning => job'[q].id > 0
             /\ job'[q].kind = "supplierPayment" => job'[q].via \in Safes
  <2>1. CASE q = r BY <2>1, <1>1, <1>2, <1>3, <1>4
  <2>2. CASE q # r BY <2>2, <1>1, <1>4 DEF TypeOK
  <2> QED BY <2>1, <2>2
<1> QED BY <1>1, <1>4, <1>5, <1>6, <1>7

LEMMA AbandonTypeOK ==
  ASSUME TypeOK, NEW r \in Requests, Abandon(r)
  PROVE  TypeOK'
<1>1. UNCHANGED <<status, debt, ledger, balance, returns, sent>>
  BY DEF Abandon, moneyVars
<1>2. Finish(r) /\ Release(r)
  BY DEF Abandon
<1> QED BY <1>1, <1>2, FinishTypeOK DEF TypeOK

\* Nor does the next statement.
LEMMA AdvanceTypeOK ==
  ASSUME TypeOK, NEW r \in Requests, NEW statement, At(r, statement),
         statement # "commit", Advance(r), UNCHANGED <<moneyVars, job, sent>>,
         lockedBy' \in [Rows -> Requests \cup {NoRequest}],
         seenDebt' \in [Requests -> Int], seenCash' \in [Requests -> [Safes -> Int]]
  PROVE  TypeOK'
<1>1. at[r] \in Nat /\ at[r] + 1 <= Len(Program(job[r]))
  BY CanAdvance
<1>2. at' \in [Requests -> Nat] /\ \A q \in Requests : at'[q] <= Len(Program(job'[q]))
  BY <1>1 DEF TypeOK, Advance
<1> QED BY <1>2 DEF TypeOK, moneyVars

LEMMA AboutType ==
  ASSUME NEW kind \in Kinds, NEW d \in Docs, NEW amount \in Nat, NEW via \in Places,
         NEW id \in 0..MaxSent
  PROVE  About(kind, d, amount, via, id) \in Job
  BY MoneyAssumption DEF About, Job

\* What a request may be when it arrives.
Arriving(j) ==
  /\ j.kind \in Returning => j.id > 0
  /\ j.kind = "supplierPayment" => j.via \in Safes
  /\ j.kind # "undoEmpty"
  /\ j.kind \notin Paying => Terms[j.doc].customer = j.customer
  /\ j.kind = "return" => j.via \in Ways[j.customer]

LEMMA ReceiveSends ==
  ASSUME TypeOK, NEW r \in Requests, Receive(r)
  PROVE  \E j \in Job : Send(r, j) /\ Arriving(j)
<1> USE MoneyAssumption
<1>1. ASSUME NEW d \in Docs, ReceiveCreate(r, d) PROVE \E j \in Job : Send(r, j) /\ Arriving(j)
  <2> DEFINE kind == IF IsSale(d) THEN "sell" ELSE "buy"
             j == About(kind, d, 0, Terms[d].safe, 0)
  <2>1. kind \in Kinds /\ kind \notin Returning \cup {"supplierPayment", "undoEmpty", "return"}
    BY DEF Kinds, Creating, Returning
  <2>2. Terms[d].safe \in Places /\ 0 \in 0..MaxSent
    BY DEF Places
  <2>3. Send(r, j)
    BY <1>1 DEF ReceiveCreate
  <2>4. j.kind = kind /\ j.customer = Terms[j.doc].customer
    BY DEF About
  <2> HIDE DEF kind
  <2>5. j \in Job
    BY <2>1, <2>2, AboutType
  <2> HIDE DEF j
  <2> QED BY <2>1, <2>3, <2>4, <2>5 DEF Arriving
<1>2. ASSUME NEW d \in Docs, ReceiveCancel(r, d) PROVE \E j \in Job : Send(r, j) /\ Arriving(j)
  <2>1. PICK via \in SafesFound(d) : Send(r, About("cancel", d, 0, via, 0))
    BY <1>2 DEF ReceiveCancel
  <2>2. via \in Places /\ 0 \in 0..MaxSent
    BY DEF SafesFound, Places
  <2> DEFINE j == About("cancel", d, 0, via, 0)
  <2>3. j \in Job
    BY <2>2, AboutType DEF Kinds
  <2>4. j.kind = "cancel" /\ j.customer = Terms[j.doc].customer
    BY DEF About
  <2>5. Send(r, j)
    BY <2>1
  <2> HIDE DEF j
  <2> QED BY <2>3, <2>4, <2>5 DEF Returning, Arriving
<1>3. ASSUME NEW d \in Docs, ReceiveReturn(r, d) PROVE \E j \in Job : Send(r, j) /\ Arriving(j)
  <2> DEFINE kind == IF IsSale(d) THEN "return" ELSE "sendBack"
  <2>1. PICK amount \in 1..Total(d), via \in Ways[Terms[d].customer] :
          Send(r, About(kind, d, amount, via, sent + 1))
    BY <1>3 DEF ReceiveReturn
  <2> DEFINE j == About(kind, d, amount, via, sent + 1)
  <2>2. sent + 1 \in 1..MaxSent
    BY <2>1 DEF Send, MaySend, TypeOK
  <2>3. via \in Places /\ amount \in Nat
    <3>1. Terms[d].customer \in Parties
      OBVIOUS
    <3>2. Ways[Terms[d].customer] \subseteq Places
      BY <3>1
    <3> QED BY <3>2
  <2>4. kind \in Kinds /\ kind # "supplierPayment" /\ kind # "undoEmpty"
    BY DEF Kinds, Returning
  <2>5. /\ j.kind = kind /\ j.id = sent + 1 /\ j.customer = Terms[j.doc].customer
        /\ j.via \in Ways[j.customer]
    BY DEF About
  <2>6. Send(r, j)
    BY <2>1
  <2> HIDE DEF kind
  <2>7. j \in Job
    BY <2>2, <2>3, <2>4, AboutType
  <2> HIDE DEF j
  <2>8. j.id > 0
    BY <2>2, <2>5
  <2> QED BY <2>4, <2>5, <2>6, <2>7, <2>8 DEF Arriving
<1>4. ASSUME ReceiveUndo(r) PROVE \E j \in Job : Send(r, j) /\ Arriving(j)
  <2>1. PICK b \in returns : Send(r, About("undo", b.doc, b.amount, b.via, b.id))
    BY <1>4 DEF ReceiveUndo
  <2> DEFINE j == About("undo", b.doc, b.amount, b.via, b.id)
  <2>2. b.doc \in Docs /\ b.amount \in Nat /\ b.via \in Places /\ b.id \in 0..MaxSent
    BY DEF TypeOK, Return
  <2>3. j \in Job
    BY <2>2, AboutType DEF Kinds, Undoing
  <2>4. j.kind = "undo" /\ j.customer = Terms[j.doc].customer
    BY DEF About
  <2>5. Send(r, j)
    BY <2>1
  <2> HIDE DEF j
  <2> QED BY <2>3, <2>4, <2>5 DEF Returning, Arriving
<1>5. ASSUME NEW c \in Customers, ReceivePayment(r, c)
      PROVE \E j \in Job : Send(r, j) /\ Arriving(j)
  <2>1. PICK kind \in Paying, amount \in Amounts, via \in Ways[c] \ {OnAccount} :
          /\ kind = "receipt" => via = NoSafe
          /\ kind = "supplierPayment" => via # NoSafe
          /\ Send(r, [kind |-> kind, doc |-> AnyDoc, customer |-> c,
                      amount |-> amount, via |-> via, id |-> 0])
    BY <1>5 DEF ReceivePayment
  <2> DEFINE j == [kind |-> kind, doc |-> AnyDoc, customer |-> c,
                   amount |-> amount, via |-> via, id |-> 0]
  <2>2. via \in Places /\ via # OnAccount /\ c \in Parties
    <3>1. c \in Parties
      BY DEF Parties
    <3>2. Ways[c] \subseteq Places
      BY <3>1
    <3> QED BY <3>1, <3>2
  <2>3. j \in Job /\ j.kind = kind /\ j.via = via
    BY <2>2 DEF Job, Kinds, AnyDoc
  <2>4. Send(r, j)
    BY <2>1
  <2>5. kind \notin Returning \cup {"undoEmpty", "return"}
    BY DEF Paying, Returning
  <2>6. kind = "supplierPayment" => via \in Safes
    BY <2>1, <2>2 DEF Places
  <2> HIDE DEF j
  <2> QED BY <2>3, <2>4, <2>5, <2>6 DEF Arriving
<1> QED BY <1>1, <1>2, <1>3, <1>4, <1>5 DEF Receive

LEMMA ReceiveTypeOK ==
  ASSUME TypeOK, NEW r \in Requests, Receive(r)
  PROVE  TypeOK'
  BY ReceiveSends, SendTypeOK DEF Arriving

\* The lines of a return are looked for before anything is locked.
LEMMA LinesTypeOK ==
  ASSUME TypeOK, NEW r \in Requests, ReadLines(r)
  PROVE  /\ TypeOK'
         /\ at[r] = 2 /\ at'[r] = 3
         /\ job[r].kind \in Undoing /\ job'[r].kind \in Undoing
         /\ job'[r] = [job[r] EXCEPT !.kind = job'[r].kind]
         /\ \A q \in Requests \ {r} : job'[q] = job[q] /\ at'[q] = at[q]
<1> DEFINE kind == IF IsThere(r) THEN "undo" ELSE "undoEmpty"
<1>1. kind \in Undoing /\ kind \in Kinds /\ kind \notin Returning /\ kind # "supplierPayment"
  BY DEF Undoing, Kinds, Returning
<1>2. At(r, "lines") /\ Advance(r) /\ job' = [job EXCEPT ![r].kind = kind]
  BY DEF ReadLines
<1> HIDE DEF kind
<1>3. at[r] = 2 /\ job[r].kind \in Undoing
  BY <1>2, CanAdvance, ProgramShape DEF At, Program
<1>4. job[r] \in Job
  BY DEF TypeOK
<1> DEFINE j == [job[r] EXCEPT !.kind = kind]
<1>5. j \in Job /\ j.kind = kind
  BY <1>1, <1>4 DEF Job
<1>6. job'[r] = j /\ \A q \in Requests \ {r} : job'[q] = job[q]
  BY <1>2 DEF TypeOK
<1>13. job'[r] = [job[r] EXCEPT !.kind = job'[r].kind]
  BY <1>5, <1>6
<1>8. job' \in [Requests -> Job] /\ at' \in [Requests -> Nat]
  BY <1>2, <1>3, <1>5 DEF TypeOK, Advance
<1> HIDE DEF j
<1>7. at'[r] = 3 /\ \A q \in Requests \ {r} : at'[q] = at[q]
  BY <1>2, <1>3 DEF Advance, TypeOK
<1>9. Len(Program(job'[r])) \in Nat /\ 3 <= Len(Program(job'[r]))
  BY <1>1, <1>5, <1>6, ProgramLength DEF Program
<1>10. ASSUME NEW q \in Requests
       PROVE  /\ at'[q] <= Len(Program(job'[q]))
              /\ job'[q].kind \in Returning => job'[q].id > 0
              /\ job'[q].kind = "supplierPayment" => job'[q].via \in Safes
  <2>1. job'[r].kind = kind
    BY <1>5, <1>6
  <2>4. at'[r] <= Len(Program(job'[r]))
    BY <1>7, <1>9
  <2>5. job'[r].kind \notin Returning /\ job'[r].kind # "supplierPayment"
    BY <1>1, <2>1
  <2>3. CASE q = r BY <2>3, <2>4, <2>5
  <2>2. CASE q # r BY <2>2, <1>6, <1>7 DEF TypeOK
  <2> QED BY <2>2, <2>3
<1>11. UNCHANGED <<status, debt, ledger, balance, returns, lockedBy, seenDebt, seenCash, sent>>
  BY DEF ReadLines, moneyVars
<1>12. TypeOK'
  BY <1>8, <1>10, <1>11 DEF TypeOK
<1> QED BY <1>1, <1>3, <1>5, <1>6, <1>7, <1>12, <1>13

\* What a commit publishes is a number again.
LEMMA CommitTypeOK ==
  ASSUME TypeOK, NEW r \in Requests, Commit(r)
  PROVE  TypeOK'
<1> DEFINE j == job[r]
<1>1. j \in Job /\ j.doc \in Docs
  BY DEF TypeOK, Job
<1>2. /\ DebtChange(j) \in Int /\ LedgerChange(j) \in Int
      /\ \A s \in Safes : CashChange(j, s) \in Int
  BY <1>1, ChangesType
<1>3. Finish(r) /\ Release(r) /\ sent' = sent
  BY DEF Commit
<1>4. status' \in [Docs -> {"none", "active", "cancelled"}]
  <2>1. \/ status' = [status EXCEPT ![j.doc] = "active"]
        \/ status' = [status EXCEPT ![j.doc] = "cancelled"]
        \/ status' = status
    BY DEF Commit
  <2> QED BY <1>1, <2>1 DEF TypeOK
<1>5. returns' \subseteq Return
  <2>1. CASE j.kind \in Returning
    <3> DEFINE b == [id |-> j.id, doc |-> j.doc, amount |-> j.amount, via |-> j.via]
    <3>1. j.id > 0 /\ j.id \in 0..MaxSent
      BY <1>1, <2>1 DEF TypeOK, Job
    <3>4. j.id \in 1..MaxSent
      BY <3>1, MoneyAssumption
    <3>5. j.amount \in Nat /\ j.via \in Places
      BY <1>1 DEF Job
    <3>3. returns' = returns \cup {b}
      BY <2>1 DEF Commit, Returning, Undoing
    <3> HIDE DEF j
    <3>2. b \in Return
      BY <1>1, <3>4, <3>5 DEF Return
    <3> QED BY <3>2, <3>3 DEF TypeOK
  <2>2. CASE j.kind \notin Returning
    <3>1. returns' = {b \in returns : b.id # j.id} \/ returns' = returns
      BY <2>2 DEF Commit
    <3> QED BY <3>1 DEF TypeOK
  <2> QED BY <2>1, <2>2
<1>6. debt' \in [Customers -> Int]
  BY <1>2 DEF Commit, TypeOK
<1>7. ledger' \in [Customers -> Int]
  BY <1>2 DEF Commit, TypeOK
<1>8. balance' \in [Safes -> Int]
  BY <1>2 DEF Commit, TypeOK
<1> HIDE DEF j
<1> QED BY <1>3, <1>4, <1>5, <1>6, <1>7, <1>8, FinishTypeOK DEF TypeOK

LEMMA StepTypeOK ==
  ASSUME TypeOK, NEW r \in Requests, Step(r)
  PROVE  TypeOK'
<1> USE MoneyAssumption
<1>1. CASE CheckNoReturns(r)
  BY <1>1, AdvanceTypeOK, AbandonTypeOK DEF CheckNoReturns, TypeOK
<1>2. CASE CheckStillThere(r)
  BY <1>2, AdvanceTypeOK, AbandonTypeOK DEF CheckStillThere, TypeOK
<1>3. CASE ReadLines(r)
  BY <1>3, LinesTypeOK
<1>4. CASE ReadCustomer(r)
  <2>1. job[r].customer # NoCustomer => debt[job[r].customer] \in Int
    BY DEF TypeOK, Job, Parties
  <2>2. seenDebt' \in [Requests -> Int]
    BY <1>4, <2>1 DEF ReadCustomer, TypeOK
  <2>3. /\ At(r, "readCustomer") /\ Advance(r)
        /\ UNCHANGED <<moneyVars, lockedBy, job, seenCash, sent>>
    BY <1>4 DEF ReadCustomer
  <2> QED BY <2>2, <2>3, AdvanceTypeOK DEF TypeOK
<1>5. CASE ReadSafes(r)
  <2>1. CASE Abandon(r)
    BY <2>1, AbandonTypeOK
  <2>2. CASE ~ Abandon(r)
    <3>1. /\ At(r, "readSafes") /\ Advance(r)
          /\ seenCash' = [seenCash EXCEPT ![r] = balance]
          /\ UNCHANGED <<moneyVars, lockedBy, job, seenDebt, sent>>
      BY <1>5, <2>2 DEF ReadSafes
    <3>2. seenCash' \in [Requests -> [Safes -> Int]]
      BY <3>1 DEF TypeOK
    <3> QED BY <3>1, <3>2, AdvanceTypeOK DEF TypeOK
  <2> QED BY <2>1, <2>2
<1>6. CASE Lock(r)
  <2>1. PICK statement \in Locking :
          /\ At(r, statement) /\ Advance(r)
          /\ \/ lockedBy' = [lockedBy EXCEPT ![RowOf(job[r], statement)] = r]
             \/ lockedBy' = lockedBy
          /\ UNCHANGED <<moneyVars, job, seenDebt, seenCash, sent>>
    BY <1>6 DEF Lock
  <2>2. statement # "commit"
    BY DEF Locking
  <2>3. lockedBy' \in [Rows -> Requests \cup {NoRequest}]
    BY <2>1 DEF TypeOK
  <2> QED BY <2>1, <2>2, <2>3, AdvanceTypeOK DEF TypeOK
<1>7. CASE Commit(r)
  BY <1>7, CommitTypeOK
<1> QED BY <1>1, <1>2, <1>3, <1>4, <1>5, <1>6, <1>7 DEF Step

LEMMA NextTypeOK == TypeOK /\ [Next]_vars => TypeOK'
<1> SUFFICES ASSUME TypeOK, [Next]_vars PROVE TypeOK'
  OBVIOUS
<1>1. ASSUME NEW r \in Requests, Receive(r) PROVE TypeOK'
  BY <1>1, ReceiveTypeOK
<1>2. ASSUME NEW r \in Requests, Step(r) PROVE TypeOK'
  BY <1>2, StepTypeOK
<1>3. ASSUME NEW r \in Requests, Fail(r) \/ DeadlockVictim(r) PROVE TypeOK'
  BY <1>3, AbandonTypeOK DEF Fail, DeadlockVictim
<1>4. CASE UNCHANGED vars
  BY <1>4 DEF TypeOK, vars
<1> QED BY <1>1, <1>2, <1>3, <1>4 DEF Next, Quiescent

\* Every reachable state is well formed: a request is at a statement its kind
\* has, and what customers owe and safes hold stay numbers.
THEOREM TypeCorrect == Spec => []TypeOK
  BY InitTypeOK, NextTypeOK, PTL DEF Spec

-----------------------------------------------------------------------------
(* The balance is the sum of the ledger *)

\* The statements of its program that request r has behind it.
Past(r, statement) == \E i \in 1..(at[r] - 1) : Program(job[r])[i] = statement

\* What the client asked for: the server finds out about the lines later.
Wanted(kind) == IF kind = "undoEmpty" THEN "undo" ELSE kind

\* A request is one of those its customer's clients make, about his document.
JobsAsked ==
  \A r \in Requests : ~ Idle(r) =>
    /\ Wanted(job[r].kind) \in Asked[job[r].customer]
    /\ job[r].kind \notin Paying => Terms[job[r].doc].customer = job[r].customer
    /\ job[r].kind = "return" => job[r].via \in Ways[job[r].customer]

\* The requests of a Serial customer do not overlap.
SerialAlone ==
  \A r, q \in Requests :
    r # q /\ ~ Idle(r) /\ ~ Idle(q) /\ job[r].customer = job[q].customer
      => job[r].customer \notin Serial

\* The row of the product stays locked until the commit.
HoldsProduct ==
  \A r \in Requests :
    Past(r, "product") => lockedBy[<<"product", Terms[job[r].doc].product>>] = r

\* What was read of a customer the code protects is still there at the commit.
Protected(c) == c \in Serial \/ OneProduct(c)
Fresh ==
  \A r \in Requests :
    job[r].customer \in Customers /\ Protected(job[r].customer) /\ Past(r, "readCustomer")
      => seenDebt[r] = debt[job[r].customer]

DebtInv == JobsAsked /\ SerialAlone /\ HoldsProduct /\ Fresh /\ DebtIsLedger

LEMMA PastAdvance ==
  ASSUME TypeOK, NEW r \in Requests, NEW statement, At(r, statement), Advance(r), job' = job,
         NEW other
  PROVE  Past(r, other)' <=> Past(r, other) \/ other = statement
<1>1. at[r] \in Nat /\ at[r] # 0 /\ at'[r] = at[r] + 1 /\ Program(job[r])[at[r]] = statement
  BY DEF TypeOK, At, Idle, Advance
<1>2. 1..(at'[r] - 1) = 1..(at[r] - 1) \cup {at[r]}
  BY <1>1
<1>3. Past(r, other)' <=> \E i \in 1..(at'[r] - 1) : Program(job[r])[i] = other
  BY DEF Past, Program
<1> QED BY <1>1, <1>2, <1>3 DEF Past

LEMMA PastOther ==
  ASSUME NEW q \in Requests, at'[q] = at[q], job'[q] = job[q], NEW statement
  PROVE  Past(q, statement)' <=> Past(q, statement)
  BY DEF Past, Program

LEMMA PastStart ==
  ASSUME NEW r \in Requests, at'[r] \in {0, 1}, NEW statement
  PROVE  ~ Past(r, statement)'
  BY DEF Past

\* Before a request has read the customer it has locked the product, when the
\* customer is about one product.
LEMMA ReadersHold ==
  ASSUME TypeOK, JobsAsked, NEW r \in Requests, job[r].customer \in Customers,
         OneProduct(job[r].customer), Past(r, "readCustomer")
  PROVE  /\ ~ Idle(r)
         /\ Past(r, "product")
         /\ job[r].doc \in DocsOf(job[r].customer)
<1>1. at[r] \in Nat /\ job[r] \in Job /\ at[r] <= Len(Program(job[r]))
  BY DEF TypeOK
<1>2. PICK i \in 1..(at[r] - 1) : Program(job[r])[i] = "readCustomer"
  BY DEF Past
<1>3. ~ Idle(r)
  BY <1>1, <1>2 DEF Idle
<1>4. Wanted(job[r].kind) \in {"sell", "buy", "cancel", "return"}
  BY <1>3 DEF JobsAsked, OneProduct
<1>5. job[r].kind \in {"sell", "buy", "cancel", "return"}
  BY <1>4 DEF Wanted
<1>6. job[r].kind \in Kinds /\ job[r].kind \notin Paying /\ job[r].doc \in Docs
  BY <1>1, <1>5 DEF Job, Paying
<1>7. Len(Program(job[r])) \in Nat
  BY <1>6, ProgramLength DEF Program
<1>8. i \in 1..Len(Program(job[r]))
  BY <1>1, <1>2, <1>7
<1>9. \E k \in 1..(i - 1) : Program(job[r])[k] = "product"
  BY <1>2, <1>5, <1>6, <1>8, ProgramShape DEF Program
<1>10. \A k \in 1..(i - 1) : k \in 1..(at[r] - 1)
  BY <1>1, <1>2
<1>11. Past(r, "product")
  BY <1>9, <1>10 DEF Past
<1>12. job[r].doc \in DocsOf(job[r].customer)
  BY <1>3, <1>6 DEF JobsAsked, DocsOf
<1> QED BY <1>3, <1>11, <1>12

\* Two requests that have both read a customer the code protects are the same.
LEMMA ReadersAlone ==
  ASSUME TypeOK, DebtInv, NEW r \in Requests, NEW q \in Requests,
         Past(r, "readCustomer"), Past(q, "readCustomer"),
         job[r].customer \in Customers, job[q].customer = job[r].customer,
         Protected(job[r].customer)
  PROVE  q = r
<1>1. ~ Idle(r) /\ ~ Idle(q)
  BY DEF Past, Idle, TypeOK
<1>2. CASE job[r].customer \in Serial
  BY <1>1, <1>2 DEF DebtInv, SerialAlone
<1>3. CASE OneProduct(job[r].customer)
  <2>1. /\ Past(r, "product") /\ job[r].doc \in DocsOf(job[r].customer)
        /\ Past(q, "product") /\ job[q].doc \in DocsOf(job[r].customer)
    BY <1>3, ReadersHold DEF DebtInv
  <2>2. Terms[job[r].doc].product = Terms[job[q].doc].product
    BY <1>3, <2>1 DEF OneProduct
  <2> QED BY <2>1, <2>2 DEF DebtInv, HoldsProduct
<1> QED BY <1>2, <1>3 DEF Protected

LEMMA InitDebtInv == Init => DebtInv
<1> SUFFICES ASSUME Init PROVE DebtInv
  OBVIOUS
<1>1. \A r \in Requests : at[r] = 0 /\ Idle(r)
  BY DEF Init, Idle
<1>2. \A r \in Requests, statement \in {"product", "readCustomer"} : ~ Past(r, statement)
  BY <1>1 DEF Past
<1>3. DebtIsLedger
  BY DEF Init, DebtIsLedger
<1> QED BY <1>1, <1>2, <1>3 DEF DebtInv, JobsAsked, SerialAlone, HoldsProduct, Fresh

\* A request that is sent has nothing behind it.
LEMMA SendDebtInv ==
  ASSUME TypeOK, DebtInv, NEW r \in Requests, NEW j \in Job, Send(r, j),
         Arriving(j)
  PROVE  DebtInv'
<1>1. /\ job'[r] = j /\ at'[r] = 1
      /\ \A q \in Requests \ {r} : job'[q] = job[q] /\ at'[q] = at[q]
      /\ Idle(r) /\ j.kind \in Asked[j.customer]
      /\ \A q \in Requests : ~ Idle(q) /\ job[q].customer = j.customer => j.customer \notin Serial
  BY DEF Send, MaySend, TypeOK
<1>2. UNCHANGED <<debt, ledger, lockedBy, seenDebt>>
  BY DEF Send, moneyVars
<1>3. \A q \in Requests \ {r} : Idle(q)' <=> Idle(q)
  BY <1>1 DEF Idle
<1>4. JobsAsked'
  BY <1>1, <1>3 DEF DebtInv, JobsAsked, Wanted, Arriving
<1>5. SerialAlone'
  BY <1>1, <1>3 DEF DebtInv, SerialAlone
<1>6. /\ \A statement \in {"product", "readCustomer"} : ~ Past(r, statement)'
      /\ \A q \in Requests \ {r}, statement \in {"product", "readCustomer"} :
           Past(q, statement)' <=> Past(q, statement)
  BY <1>1, PastStart, PastOther
<1>7. HoldsProduct'
  BY <1>1, <1>2, <1>6 DEF DebtInv, HoldsProduct
<1>8. Fresh'
  BY <1>1, <1>2, <1>6 DEF DebtInv, Fresh, Protected, OneProduct
<1>9. DebtIsLedger'
  BY <1>2 DEF DebtInv, DebtIsLedger, BothMove, OneProduct
<1> QED BY <1>4, <1>5, <1>7, <1>8, <1>9 DEF DebtInv

LEMMA ReceiveDebtInv ==
  ASSUME TypeOK, DebtInv, NEW r \in Requests, Receive(r)
  PROVE  DebtInv'
  BY ReceiveSends, SendDebtInv

\* A statement that is not the commit changes nothing that counts: it takes the
\* lock of the product or reads the customer when it says so.
LEMMA AdvanceDebtInv ==
  ASSUME TypeOK, DebtInv, NEW r \in Requests, NEW statement, At(r, statement),
         statement # "commit", Advance(r), UNCHANGED <<moneyVars, job>>,
         \A row \in Rows : lockedBy[row] \in Requests => lockedBy'[row] = lockedBy[row],
         statement = "product" => lockedBy'[<<"product", Terms[job[r].doc].product>>] = r,
         \A q \in Requests \ {r} : seenDebt'[q] = seenDebt[q],
         IF statement = "readCustomer"
         THEN job[r].customer \in Customers => seenDebt'[r] = debt[job[r].customer]
         ELSE seenDebt'[r] = seenDebt[r]
  PROVE  DebtInv'
<1>1. UNCHANGED <<debt, ledger>>
  BY DEF moneyVars
<1>2. \A q \in Requests \ {r} : at'[q] = at[q]
  BY DEF Advance, TypeOK
<1>3. \A q \in Requests : Idle(q)' <=> Idle(q)
  BY <1>2 DEF Advance, At, Idle, TypeOK
<1>4. JobsAsked' /\ SerialAlone'
  BY <1>3 DEF DebtInv, JobsAsked, SerialAlone
<1>5. \A other : Past(r, other)' <=> Past(r, other) \/ other = statement
  BY PastAdvance
<1>6. \A q \in Requests \ {r}, other \in {"product", "readCustomer"} :
        Past(q, other)' <=> Past(q, other)
  BY <1>2, PastOther
<1>7. ASSUME NEW q \in Requests, Past(q, "product")'
      PROVE  lockedBy'[<<"product", Terms[job[q].doc].product>>] = q
  <2>1. <<"product", Terms[job[q].doc].product>> \in Rows
    BY MoneyAssumption DEF TypeOK, Job, Rows
  <2>2. CASE Past(q, "product")
    BY <2>1, <2>2 DEF DebtInv, HoldsProduct
  <2>3. CASE ~ Past(q, "product")
    BY <2>3, <1>5, <1>6, <1>7
  <2> QED BY <2>2, <2>3
<1>8. HoldsProduct'
  BY <1>7 DEF HoldsProduct
<1>9. ASSUME NEW q \in Requests, job[q].customer \in Customers, Protected(job[q].customer),
             Past(q, "readCustomer")'
      PROVE  seenDebt'[q] = debt[job[q].customer]
  <2>1. CASE q = r /\ statement = "readCustomer"
    BY <2>1, <1>9
  <2>2. CASE ~ (q = r /\ statement = "readCustomer")
    <3>1. Past(q, "readCustomer") /\ seenDebt'[q] = seenDebt[q]
      BY <2>2, <1>5, <1>6, <1>9
    <3> QED BY <3>1, <1>9 DEF DebtInv, Fresh
  <2> QED BY <2>1, <2>2
<1>10. Fresh'
  BY <1>1, <1>9 DEF Fresh, Protected, OneProduct
<1>11. DebtIsLedger'
  BY <1>1 DEF DebtInv, DebtIsLedger, BothMove, OneProduct
<1> QED BY <1>4, <1>8, <1>10, <1>11 DEF DebtInv

\* A request that ends leaves the others what they asked for and hold.
LEMMA FinishDebtInv ==
  ASSUME TypeOK, DebtInv, NEW r \in Requests, Finish(r), Release(r)
  PROVE  /\ JobsAsked' /\ SerialAlone' /\ HoldsProduct'
         /\ ~ Past(r, "readCustomer")'
         /\ \A q \in Requests \ {r} :
              /\ job'[q] = job[q] /\ seenDebt'[q] = seenDebt[q]
              /\ Past(q, "readCustomer")' <=> Past(q, "readCustomer")
<1>1. /\ at'[r] = 0
      /\ \A q \in Requests \ {r} : job'[q] = job[q] /\ seenDebt'[q] = seenDebt[q] /\ at'[q] = at[q]
  BY DEF Finish, TypeOK
<1>2. Idle(r)' /\ \A q \in Requests \ {r} : Idle(q)' <=> Idle(q)
  BY <1>1 DEF Idle
<1>3. JobsAsked'
  BY <1>1, <1>2 DEF DebtInv, JobsAsked
<1>4. SerialAlone'
  BY <1>1, <1>2 DEF DebtInv, SerialAlone
<1>5. /\ \A statement \in {"product", "readCustomer"} : ~ Past(r, statement)'
      /\ \A q \in Requests \ {r}, statement \in {"product", "readCustomer"} :
           Past(q, statement)' <=> Past(q, statement)
  BY <1>1, PastStart, PastOther
<1>6. ASSUME NEW q \in Requests, Past(q, "product")'
      PROVE  lockedBy'[<<"product", Terms[job'[q].doc].product>>] = q
  <2>1. q # r /\ Past(q, "product") /\ job'[q] = job[q]
    BY <1>1, <1>5, <1>6
  <2>2. <<"product", Terms[job[q].doc].product>> \in Rows
    BY MoneyAssumption DEF TypeOK, Job, Rows
  <2>3. lockedBy[<<"product", Terms[job[q].doc].product>>] = q
    BY <2>1 DEF DebtInv, HoldsProduct
  <2> QED BY <2>1, <2>2, <2>3 DEF Release
<1>7. HoldsProduct'
  BY <1>6 DEF HoldsProduct
<1> QED BY <1>1, <1>3, <1>4, <1>5, <1>7

LEMMA AbandonDebtInv ==
  ASSUME TypeOK, DebtInv, NEW r \in Requests, Abandon(r)
  PROVE  DebtInv'
<1>1. UNCHANGED <<debt, ledger>> /\ Finish(r) /\ Release(r)
  BY DEF Abandon, moneyVars
<1>2. Fresh'
  BY <1>1, FinishDebtInv DEF DebtInv, Fresh, Protected, OneProduct
<1>3. DebtIsLedger'
  BY <1>1 DEF DebtInv, DebtIsLedger, BothMove, OneProduct
<1> QED BY <1>1, <1>2, <1>3, FinishDebtInv DEF DebtInv

\* A document of a customer with orderly returns changes both by the same.
LEMMA SameChange ==
  ASSUME TypeOK, JobsAsked, NEW r \in Requests, ~ Idle(r), job[r].customer \in Customers,
         BothMove(job[r].customer)
  PROVE  LedgerChange(job[r]) = DebtChange(job[r])
<1> DEFINE j == job[r]
<1>1. j \in Job /\ j.customer # NoCustomer /\ j.doc \in Docs
  BY MoneyAssumption DEF TypeOK, Job
<1>2. CASE j.kind = "return"
  <2>1. Wanted(j.kind) = "return"
    BY <1>2 DEF Wanted
  <2>2. j.via = OnAccount
    BY <1>2, <2>1 DEF JobsAsked, BothMove
  <2> QED BY <1>1, <1>2, <2>2 DEF LedgerChange, DebtChange
<1>3. CASE j.kind \in Undoing
  <2>1. Wanted(j.kind) = "undo" /\ j.kind # "return" /\ j.kind \notin Paying
    BY <1>3 DEF Wanted, Undoing, Paying
  <2>2. j.doc \in DocsOf(j.customer)
    BY <1>1, <2>1 DEF JobsAsked, DocsOf
  <2>3. ~ IsSale(j.doc)
    BY <2>1, <2>2 DEF JobsAsked, BothMove
  <2> QED BY <2>1, <2>3 DEF LedgerChange
<1>4. CASE j.kind # "return" /\ j.kind \notin Undoing
  BY <1>4 DEF LedgerChange
<1> QED BY <1>2, <1>3, <1>4

LEMMA CommitDebtInv ==
  ASSUME TypeOK, DebtInv, NEW r \in Requests, Commit(r)
  PROVE  DebtInv'
<1> DEFINE j == job[r]
<1>1. At(r, "commit") /\ Finish(r) /\ Release(r)
  BY DEF Commit
<1>2. j \in Job /\ j.kind \in Kinds /\ ~ Idle(r)
  BY <1>1 DEF TypeOK, Job, At
<1>3. DebtChange(j) \in Int /\ LedgerChange(j) \in Int
  BY <1>2, ChangesType
<1>4. /\ \A c \in Customers :
           /\ debt'[c] = IF c = j.customer /\ DebtChange(j) # 0
                         THEN seenDebt[r] + DebtChange(j) ELSE debt[c]
           /\ ledger'[c] = IF c = j.customer THEN ledger[c] + LedgerChange(j) ELSE ledger[c]
  BY DEF Commit
<1>5. Past(r, "readCustomer")
  <2>1. at[r] \in 1..Len(Program(j)) /\ Program(j)[at[r]] = "commit"
    BY <1>1, CanAdvance DEF At
  <2>2. \E k \in 1..(at[r] - 1) : Program(j)[k] = "readCustomer"
    BY <1>2, <2>1, ProgramShape DEF Program
  <2> QED BY <2>2 DEF Past
<1>6. ASSUME NEW q \in Requests, job'[q].customer \in Customers, Protected(job'[q].customer),
             Past(q, "readCustomer")'
      PROVE  seenDebt'[q] = debt'[job'[q].customer]
  <2>1. /\ q # r /\ job'[q] = job[q] /\ seenDebt'[q] = seenDebt[q]
        /\ Past(q, "readCustomer")
    BY <1>1, <1>6, FinishDebtInv
  <2>2. Protected(job[q].customer) /\ job[q].customer \in Customers
    BY <1>6, <2>1
  <2>3. job[q].customer # j.customer
    BY <1>5, <2>1, <2>2, ReadersAlone
  <2>4. seenDebt[q] = debt[job[q].customer]
    BY <2>1, <2>2 DEF DebtInv, Fresh
  <2>5. debt'[job[q].customer] = debt[job[q].customer]
    BY <1>4, <2>2, <2>3
  <2> QED BY <2>1, <2>4, <2>5
<1>7. Fresh'
  BY <1>6 DEF Fresh, Protected, OneProduct
<1>8. ASSUME NEW c \in Customers, BothMove(c), Protected(c)
      PROVE  debt'[c] = ledger'[c]
  <2>1. debt[c] = ledger[c] /\ debt[c] \in Int
    BY <1>8 DEF DebtInv, DebtIsLedger, Protected, TypeOK
  <2>2. CASE c # j.customer
    BY <1>4, <2>1, <2>2
  <2>3. CASE c = j.customer
    <3>1. LedgerChange(j) = DebtChange(j)
      BY <1>2, <1>8, <2>3, SameChange DEF DebtInv
    <3>2. seenDebt[r] = debt[c]
      BY <1>5, <1>8, <2>3 DEF DebtInv, Fresh
    <3>3. debt'[c] = IF DebtChange(j) # 0 THEN debt[c] + DebtChange(j) ELSE debt[c]
      BY <1>4, <2>3, <3>2
    <3>4. ledger'[c] = debt[c] + DebtChange(j)
      BY <1>4, <2>1, <2>3, <3>1
    <3> HIDE DEF j
    <3> QED BY <1>3, <2>1, <3>3, <3>4
  <2> QED BY <2>2, <2>3
<1>9. DebtIsLedger'
  BY <1>8 DEF DebtIsLedger, Protected, BothMove, OneProduct
<1> QED BY <1>1, <1>7, <1>9, FinishDebtInv DEF DebtInv

\* Looking for the lines neither locks nor reads, and asks for nothing new.
LEMMA LinesDebtInv ==
  ASSUME TypeOK, DebtInv, NEW r \in Requests, ReadLines(r)
  PROVE  DebtInv'
<1>1. /\ TypeOK' /\ at[r] = 2 /\ at'[r] = 3
      /\ job[r].kind \in Undoing /\ job'[r].kind \in Undoing
      /\ \A q \in Requests \ {r} : job'[q] = job[q] /\ at'[q] = at[q]
  BY LinesTypeOK
<1>2. job'[r].customer = job[r].customer /\ job'[r].doc = job[r].doc
  BY LinesTypeOK DEF TypeOK, Job
<1>3. UNCHANGED <<debt, ledger, lockedBy, seenDebt>>
  BY DEF ReadLines, moneyVars
<1>4. \A q \in Requests : Idle(q)' <=> Idle(q)
  BY <1>1 DEF Idle
<1>5. \A kind \in Undoing : Wanted(kind) = "undo" /\ kind # "return" /\ kind \notin Paying
  BY DEF Wanted, Undoing, Paying
<1>6. JobsAsked'
  BY <1>1, <1>2, <1>4, <1>5 DEF DebtInv, JobsAsked
<1>7. SerialAlone'
  BY <1>1, <1>2, <1>4 DEF DebtInv, SerialAlone
<1>8. \A statement \in {"product", "readCustomer"} : ~ Past(r, statement)'
  <2>1. job'[r].kind \in Kinds
    BY <1>1 DEF TypeOK, Job
  <2>2. Program(job'[r])[1] = "stillThere" /\ Program(job'[r])[2] = "lines"
    BY <1>1, <2>1, ProgramShape DEF Program
  <2>3. \A i \in 1..(at'[r] - 1) : i = 1 \/ i = 2
    BY <1>1
  <2> QED BY <2>2, <2>3 DEF Past, Program
<1>9. \A q \in Requests \ {r}, statement \in {"product", "readCustomer"} :
        Past(q, statement)' <=> Past(q, statement)
  BY <1>1, PastOther
<1>10. HoldsProduct'
  BY <1>1, <1>3, <1>8, <1>9 DEF DebtInv, HoldsProduct
<1>11. Fresh'
  BY <1>1, <1>3, <1>8, <1>9 DEF DebtInv, Fresh, Protected, OneProduct
<1>12. DebtIsLedger'
  BY <1>3 DEF DebtInv, DebtIsLedger, BothMove, OneProduct
<1> QED BY <1>6, <1>7, <1>10, <1>11, <1>12 DEF DebtInv

LEMMA StepDebtInv ==
  ASSUME TypeOK, DebtInv, NEW r \in Requests, Step(r)
  PROVE  DebtInv'
<1>1. CASE CheckNoReturns(r)
  BY <1>1, AdvanceDebtInv, AbandonDebtInv DEF CheckNoReturns
<1>2. CASE CheckStillThere(r)
  BY <1>2, AdvanceDebtInv, AbandonDebtInv DEF CheckStillThere
<1>3. CASE ReadLines(r)
  BY <1>3, LinesDebtInv
<1>4. CASE ReadCustomer(r)
  <2>1. /\ At(r, "readCustomer") /\ Advance(r)
        /\ UNCHANGED <<moneyVars, lockedBy, job, seenCash, sent>>
        /\ \A q \in Requests \ {r} : seenDebt'[q] = seenDebt[q]
        /\ job[r].customer \in Customers => seenDebt'[r] = debt[job[r].customer]
    BY <1>4, MoneyAssumption DEF ReadCustomer, TypeOK
  <2> QED BY <2>1, AdvanceDebtInv
<1>5. CASE ReadSafes(r)
  <2>1. CASE Abandon(r)
    BY <2>1, AbandonDebtInv
  <2>2. CASE ~ Abandon(r)
    <3>1. /\ At(r, "readSafes") /\ Advance(r)
          /\ UNCHANGED <<moneyVars, lockedBy, job, seenDebt, sent>>
      BY <1>5, <2>2 DEF ReadSafes
    <3> QED BY <3>1, AdvanceDebtInv
  <2> QED BY <2>1, <2>2
<1>6. CASE Lock(r)
  <2>1. PICK statement \in Locking :
          LET row == RowOf(job[r], statement)
          IN /\ At(r, statement)
             /\ IF row \in Rows
                THEN lockedBy[row] \in {NoRequest, r} /\ lockedBy' = [lockedBy EXCEPT ![row] = r]
                ELSE UNCHANGED lockedBy
             /\ Advance(r)
             /\ UNCHANGED <<moneyVars, job, seenDebt, seenCash, sent>>
    BY <1>6 DEF Lock
  <2>2. statement # "commit" /\ statement # "readCustomer"
    BY DEF Locking
  <2>3. \A row \in Rows : lockedBy[row] \in Requests => lockedBy'[row] = lockedBy[row]
    BY <2>1, MoneyAssumption DEF TypeOK
  <2>4. ASSUME statement = "product"
        PROVE  lockedBy'[<<"product", Terms[job[r].doc].product>>] = r
    <3>1. RowOf(job[r], statement) = <<"product", Terms[job[r].doc].product>>
      BY <2>4 DEF RowOf
    <3>2. <<"product", Terms[job[r].doc].product>> \in Rows
      BY MoneyAssumption DEF TypeOK, Job, Rows
    <3> QED BY <2>1, <3>1, <3>2 DEF TypeOK
  <2> QED BY <2>1, <2>2, <2>3, <2>4, AdvanceDebtInv
<1>7. CASE Commit(r)
  BY <1>7, CommitDebtInv
<1> QED BY <1>1, <1>2, <1>3, <1>4, <1>5, <1>6, <1>7 DEF Step

LEMMA NextDebtInv == TypeOK /\ DebtInv /\ [Next]_vars => DebtInv'
<1> SUFFICES ASSUME TypeOK, DebtInv, [Next]_vars PROVE DebtInv'
  OBVIOUS
<1>1. ASSUME NEW r \in Requests, Receive(r) PROVE DebtInv'
  BY <1>1, ReceiveDebtInv
<1>2. ASSUME NEW r \in Requests, Step(r) PROVE DebtInv'
  BY <1>2, StepDebtInv
<1>3. ASSUME NEW r \in Requests, Fail(r) \/ DeadlockVictim(r) PROVE DebtInv'
  BY <1>3, AbandonDebtInv DEF Fail, DeadlockVictim
<1>4. CASE UNCHANGED vars
  BY <1>4 DEF vars, DebtInv, JobsAsked, SerialAlone, HoldsProduct, Fresh, DebtIsLedger, Idle,
              Past, Program, Protected, BothMove, OneProduct
<1> QED BY <1>1, <1>2, <1>3, <1>4 DEF Next, Quiescent

\* The balance of a customer whose requests do not overlap, or whose documents
\* are about one product, is the sum of his ledger, refunds in cash and deleted
\* returns of sales apart.
THEOREM DebtAlwaysLedger == Spec => []DebtIsLedger
<1>1. Init => TypeOK /\ DebtInv
  BY InitTypeOK, InitDebtInv
<1>2. TypeOK /\ DebtInv /\ [Next]_vars => (TypeOK /\ DebtInv)'
  BY NextTypeOK, NextDebtInv
<1>3. TypeOK /\ DebtInv => DebtIsLedger
  BY DEF DebtInv
<1> QED BY <1>1, <1>2, <1>3, PTL DEF Spec

-----------------------------------------------------------------------------
(* Refinement *)

\* Before its commit a request has looked at the safes, unless it moves no cash,
\* and a cancellation has looked for returns.
LEMMA LooksFirst ==
  ASSUME NEW kind \in Kinds
  PROVE  /\ kind # "receipt" =>
              \E k \in 1..(Len(Programs[kind]) - 1) : Programs[kind][k] = "readSafes"
         /\ kind = "cancel" =>
              \E k \in 1..(Len(Programs[kind]) - 1) : Programs[kind][k] = "noReturns"
<1>1. CASE kind \in {"sell", "buy"}
  <2>1. CASE kind = "sell"
    <3>1. Len(Programs[kind]) = 7 /\ Programs[kind][1] = "readSafes"
      BY <2>1 DEF Programs
    <3> QED BY <2>1, <3>1
  <2>2. CASE kind = "buy"
    <3>1. Len(Programs[kind]) = 6 /\ Programs[kind][2] = "readSafes"
      BY <2>2 DEF Programs
    <3> QED BY <2>2, <3>1
  <2> QED BY <1>1, <2>1, <2>2
<1>2. CASE kind = "cancel"
  <2>1. Len(Programs[kind]) = 7 /\ Programs[kind][1] = "noReturns" /\ Programs[kind][5] = "readSafes"
    BY <1>2 DEF Programs
  <2> QED BY <1>2, <2>1
<1>3. CASE kind = "return"
  <2>1. Len(Programs[kind]) = 6 /\ Programs[kind][4] = "readSafes"
    BY <1>3 DEF Programs
  <2> QED BY <1>3, <2>1
<1>4. CASE kind = "sendBack"
  <2>1. Len(Programs[kind]) = 6 /\ Programs[kind][1] = "readSafes"
    BY <1>4 DEF Programs
  <2> QED BY <1>4, <2>1
<1>5. CASE kind = "undo"
  <2>1. Len(Programs[kind]) = 8 /\ Programs[kind][6] = "readSafes"
    BY <1>5 DEF Programs
  <2> QED BY <1>5, <2>1
<1>6. CASE kind = "undoEmpty"
  <2>1. Len(Programs[kind]) = 7 /\ Programs[kind][5] = "readSafes"
    BY <1>6 DEF Programs
  <2> QED BY <1>6, <2>1
<1>7. CASE kind \in {"payment", "supplierPayment"}
  <2>1. Len(Programs[kind]) = 5 /\ Programs[kind][2] = "readSafes"
    BY <1>7 DEF Programs
  <2> QED BY <1>7, <2>1
<1>8. CASE kind = "receipt"
  BY <1>8
<1> QED BY <1>1, <1>2, <1>3, <1>4, <1>5, <1>6, <1>7, <1>8
        DEF Kinds, Creating, Returning, Undoing, Paying

LEMMA LookedBeforeCommit ==
  ASSUME TypeOK, NEW r \in Requests, At(r, "commit")
  PROVE  /\ job[r].kind # "receipt" => Past(r, "readSafes")
         /\ job[r].kind = "cancel" => Past(r, "noReturns")
         /\ Past(r, "readCustomer")
<1>1. job[r].kind \in Kinds /\ at[r] \in 1..Len(Program(job[r])) /\ Program(job[r])[at[r]] = "commit"
  BY CanAdvance DEF At
<1>2. at[r] = Len(Programs[job[r].kind])
  BY <1>1, ProgramShape DEF Program
<1>3. \E k \in 1..(at[r] - 1) : Program(job[r])[k] = "readCustomer"
  BY <1>1, ProgramShape DEF Program
<1> QED BY <1>1, <1>2, <1>3, LooksFirst DEF Past, Program

\* What a request asks for, as far as it does not change.
Sound(j) ==
  /\ j.kind \in Creating => j.via = Terms[j.doc].safe
  /\ j.kind = "cancel" => j.via \in SafesFound(j.doc)
  /\ j.kind \in Returning \cup Undoing \cup Paying => j.via \in Ways[j.customer]
  /\ j.kind \in Paying => j.amount \in Amounts /\ j.via # OnAccount
  /\ j.kind = "receipt" => j.via = NoSafe
JobsSound == \A r \in Requests : ~ Idle(r) => Sound(job[r])

\* The refund of a return goes where the customer's money goes.
ReturnsSound == \A b \in returns : b.via \in Ways[Terms[b.doc].customer]

\* The ids of returns are theirs alone, and whoever deletes a return knows it.
Entered(j) == [id |-> j.id, doc |-> j.doc, amount |-> j.amount, via |-> j.via]
OwnNumber(r) ==
  /\ \A b \in returns : b.id # job[r].id
  /\ \A q \in Requests \ {r} : ~ Idle(q) => job[q].id # job[r].id
Numbered ==
  /\ \A b \in returns : b.id <= sent
  /\ \A a, b \in returns : a.id = b.id => a = b
  /\ \A r \in Requests : ~ Idle(r) =>
       /\ job[r].id <= sent
       /\ job[r].kind \in Returning => OwnNumber(r)
       /\ job[r].kind \in Undoing =>
            \A b \in returns : b.id = job[r].id => b = Entered(job[r])

\* What a request of the regular customer has checked is still so, since nobody
\* else changes his documents and the safes of his home.
Prepared(r) ==
  /\ job[r].kind \in Creating => status[job[r].doc] = "none"
  /\ job[r].kind = "cancel" => status[job[r].doc] = "active"
  /\ job[r].kind \in Returning => status[job[r].doc] # "none"
  /\ job[r].kind \in Undoing => \E b \in Given : b.id = job[r].id
  /\ Past(r, "noReturns") => \A b \in Given : b.doc # job[r].doc
  /\ Past(r, "readSafes") => \A s \in Home : seenCash[r][s] = balance[s]
RegularPrepared ==
  \A r \in Requests : ~ Idle(r) /\ job[r].customer = Regular => Prepared(r)

HomeInv == JobsSound /\ ReturnsSound /\ Numbered /\ RegularPrepared

\* The document of a request that is not a payment is one of its customer.
LEMMA JobsDoc ==
  ASSUME TypeOK, JobsAsked, NEW r \in Requests, ~ Idle(r), job[r].kind \notin Paying
  PROVE  job[r].doc \in Docs /\ Terms[job[r].doc].customer = job[r].customer
  BY DEF TypeOK, Job, JobsAsked

LEMMA KindsApart ==
  /\ Creating \cap (Returning \cup Undoing \cup Paying \cup {"cancel"}) = {}
  /\ Returning \cap (Undoing \cup Paying \cup {"cancel"}) = {}
  /\ Undoing \cap (Paying \cup {"cancel"}) = {}
  /\ "cancel" \notin Paying
  /\ Kinds = Creating \cup {"cancel"} \cup Returning \cup Undoing \cup Paying
  BY DEF Creating, Returning, Undoing, Paying, Kinds

\* What a commit does to the four parts of the book, by kind.
LEMMA CommitBooks ==
  ASSUME TypeOK, NEW r \in Requests, Commit(r)
  PROVE  LET j == job[r]
         IN /\ At(r, "commit") /\ ~ Idle(r) /\ Finish(r) /\ sent' = sent
            /\ j \in Job /\ j.kind \in Kinds /\ j.doc \in Docs
            /\ j.kind \in Creating => status' = [status EXCEPT ![j.doc] = "active"]
            /\ j.kind = "cancel" => status' = [status EXCEPT ![j.doc] = "cancelled"]
            /\ j.kind \notin Creating \cup {"cancel"} => status' = status
            /\ j.kind \in Returning => returns' = returns \cup {Entered(j)}
            /\ j.kind \in Undoing => returns' = {b \in returns : b.id # j.id}
            /\ j.kind \notin Returning \cup Undoing => returns' = returns
            /\ \A c \in Customers : debt'[c] = IF c = j.customer /\ DebtChange(j) # 0
                                               THEN seenDebt[r] + DebtChange(j) ELSE debt[c]
            /\ \A s \in Safes : balance'[s] = IF CashChange(j, s) # 0
                                              THEN seenCash[r][s] + CashChange(j, s) ELSE balance[s]
<1> DEFINE j == job[r]
<1>1. /\ At(r, "commit") /\ ~ Idle(r) /\ Finish(r) /\ sent' = sent
      /\ j \in Job /\ j.kind \in Kinds /\ j.doc \in Docs
  BY DEF Commit, At, TypeOK, Job
<1>2. /\ j.kind \in Creating => status' = [status EXCEPT ![j.doc] = "active"]
      /\ j.kind = "cancel" => status' = [status EXCEPT ![j.doc] = "cancelled"]
      /\ j.kind \notin Creating \cup {"cancel"} => status' = status
  BY KindsApart DEF Commit
<1>3. /\ j.kind \in Returning => returns' = returns \cup {Entered(j)}
      /\ j.kind \in Undoing => returns' = {b \in returns : b.id # j.id}
      /\ j.kind \notin Returning \cup Undoing => returns' = returns
  BY KindsApart DEF Commit, Entered
<1>4. /\ \A c \in Customers : debt'[c] = IF c = j.customer /\ DebtChange(j) # 0
                                         THEN seenDebt[r] + DebtChange(j) ELSE debt[c]
      /\ \A s \in Safes : balance'[s] = IF CashChange(j, s) # 0
                                        THEN seenCash[r][s] + CashChange(j, s) ELSE balance[s]
  BY DEF Commit
<1> QED BY <1>1, <1>2, <1>3, <1>4

\* The changes of each kind of request.
LEMMA ChangesByKind ==
  ASSUME NEW j \in Job
  PROVE  /\ j.kind \in Creating =>
              /\ Entry(j) = Sign(j.doc) * Terms[j.doc].credit
              /\ \A s \in Safes : CashChange(j, s) =
                   Sign(j.doc) * ((IF s = j.via THEN Terms[j.doc].cash ELSE 0)
                                    + (IF s = Terms[j.doc].safe2 THEN Terms[j.doc].cash2 ELSE 0))
         /\ j.kind = "cancel" =>
              /\ Entry(j) = - Sign(j.doc) * Terms[j.doc].credit
              /\ \A s \in Safes : CashChange(j, s) =
                   IF s = j.via THEN - Sign(j.doc) * Paid(j.doc) ELSE 0
         /\ j.kind \in Returning => Entry(j) = - Sign(j.doc) * j.amount
         /\ j.kind \in Undoing => Entry(j) = Sign(j.doc) * j.amount
         /\ j.kind \in Returning \cup Undoing =>
              \A s \in Safes : CashChange(j, s) = IF s = j.via THEN Entry(j) ELSE 0
         /\ j.kind \in Paying =>
              /\ Entry(j) \in {j.amount, - j.amount}
              /\ \A s \in Safes : CashChange(j, s) = IF s = j.via THEN - Entry(j) ELSE 0
<1>0. j.amount \in Nat /\ Sign(j.doc) \in {1, -1} /\ Entry(j) \in Int
  BY ChangesType DEF Job
<1>1. CASE j.kind \in Creating
  <2>1. Entry(j) = Sign(j.doc) * Terms[j.doc].credit
    BY <1>1 DEF Entry, Creating, Returning, Undoing
  <2>2. \A s \in Safes : CashChange(j, s) =
          Sign(j.doc) * ((IF s = j.via THEN Terms[j.doc].cash ELSE 0)
                           + (IF s = Terms[j.doc].safe2 THEN Terms[j.doc].cash2 ELSE 0))
    BY <1>1 DEF CashChange, Creating, Returning, Undoing, Paying
  <2> QED BY <1>1, <2>1, <2>2, KindsApart
<1>2. CASE j.kind = "cancel"
  <2>1. Entry(j) = - Sign(j.doc) * Terms[j.doc].credit
    BY <1>2 DEF Entry, Creating, Returning, Undoing
  <2>2. \A s \in Safes : CashChange(j, s) = IF s = j.via THEN - Sign(j.doc) * Paid(j.doc) ELSE 0
    BY <1>2 DEF CashChange, Creating, Returning, Undoing, Paying
  <2> QED BY <1>2, <2>1, <2>2, KindsApart
<1>3. CASE j.kind \in Returning
  <2>1. Entry(j) = - Sign(j.doc) * j.amount
    BY <1>0, <1>3 DEF Entry, Creating, Returning, Undoing
  <2>2. \A s \in Safes : CashChange(j, s) = IF s = j.via THEN Entry(j) ELSE 0
    BY <1>0, <1>3 DEF CashChange, Creating, Returning, Undoing, Paying
  <2> QED BY <1>3, <2>1, <2>2, KindsApart
<1>4. CASE j.kind \in Undoing
  <2>1. Entry(j) = Sign(j.doc) * j.amount
    BY <1>4 DEF Entry, Creating, Returning, Undoing
  <2>2. \A s \in Safes : CashChange(j, s) = IF s = j.via THEN Entry(j) ELSE 0
    BY <1>0, <1>4 DEF CashChange, Creating, Returning, Undoing, Paying
  <2> QED BY <1>4, <2>1, <2>2, KindsApart
<1>5. CASE j.kind \in Paying
  <2>1. Entry(j) \in {j.amount, - j.amount}
    BY <1>5 DEF Entry, Creating, Returning, Undoing, Paying
  <2>2. \A s \in Safes : CashChange(j, s) = IF s = j.via THEN - Entry(j) ELSE 0
    BY <1>5 DEF CashChange, Creating, Returning, Undoing, Paying
  <2> QED BY <1>5, <2>1, <2>2, KindsApart
<1>6. j.kind \in Kinds
  BY DEF Job
<1> QED BY <1>1, <1>2, <1>3, <1>4, <1>5, <1>6, KindsApart

\* No other customer's request moves cash at home.
LEMMA OthersStayAway ==
  ASSUME OrderlyHome, TypeOK, JobsAsked, JobsSound, NEW r \in Requests, ~ Idle(r),
         job[r].customer # Regular, NEW s \in Home
  PROVE  CashChange(job[r], s) = 0
<1> DEFINE j == job[r]
<1>1. j \in Job /\ j.doc \in Docs /\ j.customer \in Parties /\ j.kind \in Kinds
  BY DEF TypeOK, Job
<1>2. s \in Safes /\ s # NoSafe
  BY MoneyAssumption
<1>3. Sound(j)
  BY DEF JobsSound
<1>4. Sign(j.doc) \in {1, -1} /\ Sign(j.doc) * 0 = 0
  BY DEF Sign
<1>5. CASE j.kind \in Creating \cup {"cancel"}
  <2>1. Terms[j.doc].customer # Regular
    BY <1>5, JobsDoc, KindsApart
  <2>2. s # Terms[j.doc].safe /\ s # Terms[j.doc].safe2
    BY <1>1, <2>1 DEF OrderlyHome
  <2>3. s # j.via
    BY <1>2, <1>3, <1>5, <2>2 DEF Sound, SafesFound
  <2>4. ASSUME j.kind \in Creating PROVE CashChange(j, s) = Sign(j.doc) * (0 + 0)
    <3>1. CashChange(j, s) = Sign(j.doc) * ((IF s = j.via THEN Terms[j.doc].cash ELSE 0)
                               + (IF s = Terms[j.doc].safe2 THEN Terms[j.doc].cash2 ELSE 0))
      BY <1>1, <1>2, <2>4, ChangesByKind
    <3> QED BY <2>2, <2>3, <3>1
  <2>5. ASSUME j.kind = "cancel" PROVE CashChange(j, s) = 0
    <3>1. CashChange(j, s) = IF s = j.via THEN - Sign(j.doc) * Paid(j.doc) ELSE 0
      BY <1>1, <1>2, <2>5, ChangesByKind
    <3> QED BY <2>3, <3>1
  <2> QED BY <1>4, <1>5, <2>4, <2>5
<1>6. CASE j.kind \in Returning \cup Undoing \cup Paying
  <2>1. s # j.via
    BY <1>1, <1>3, <1>6 DEF Sound, OrderlyHome
  <2>2. \/ CashChange(j, s) = IF s = j.via THEN Entry(j) ELSE 0
        \/ CashChange(j, s) = IF s = j.via THEN - Entry(j) ELSE 0
    BY <1>1, <1>2, <1>6, ChangesByKind
  <2> QED BY <2>1, <2>2
<1> QED BY <1>1, <1>5, <1>6, KindsApart

\* The commit of another customer's request leaves the book alone.
LEMMA OthersLeaveBook ==
  ASSUME OrderlyHome, TypeOK, JobsAsked, HomeInv, NEW r \in Requests, Commit(r),
         job[r].customer # Regular
  PROVE  /\ debt'[Regular] = debt[Regular]
         /\ \A s \in Home : balance'[s] = balance[s]
         /\ \A d \in DocsOf(Regular) : status'[d] = status[d]
         /\ Given' = Given
<1> DEFINE j == job[r]
<1>1. ~ Idle(r) /\ j.kind \in Kinds
  BY CommitBooks
<1>2. debt'[Regular] = debt[Regular]
  BY MoneyAssumption, CommitBooks
<1>3. ASSUME NEW s \in Home PROVE balance'[s] = balance[s]
  <2>1. CashChange(j, s) = 0 /\ s \in Safes
    BY <1>1, OthersStayAway, MoneyAssumption DEF HomeInv
  <2> QED BY <2>1, CommitBooks
<1>4. j.kind \notin Paying => j.doc \notin DocsOf(Regular)
  BY <1>1, JobsDoc DEF DocsOf
<1>5. ASSUME NEW d \in DocsOf(Regular) PROVE status'[d] = status[d]
  <2>1. CASE j.kind \in Creating \cup {"cancel"}
    <3>1. d # j.doc
      BY <1>4, <2>1, KindsApart
    <3>2. status' = [status EXCEPT ![j.doc] = "active"] \/ status' = [status EXCEPT ![j.doc] = "cancelled"]
      BY <2>1, CommitBooks
    <3> QED BY <3>1, <3>2 DEF TypeOK, DocsOf
  <2>2. CASE j.kind \notin Creating \cup {"cancel"}
    BY <2>2, CommitBooks
  <2> QED BY <2>1, <2>2
<1>6. Given' = {b \in returns' : b.doc \in DocsOf(Regular)}
  BY DEF Given
<1>7. Given' = Given
  <2>1. CASE j.kind \in Returning
    <3>1. returns' = returns \cup {Entered(j)}
      BY <2>1, CommitBooks
    <3>2. Entered(j).doc = j.doc /\ j.doc \notin DocsOf(Regular)
      BY <1>4, <2>1, KindsApart DEF Entered
    <3> QED BY <1>6, <3>1, <3>2 DEF Given
  <2>2. CASE j.kind \in Undoing
    <3>1. returns' = {b \in returns : b.id # j.id}
      BY <2>2, CommitBooks
    <3>2. ASSUME NEW b \in returns, b.id = j.id PROVE b.doc \notin DocsOf(Regular)
      <4>1. b = Entered(j)
        BY <1>1, <2>2, <3>2 DEF HomeInv, Numbered
      <4>2. b.doc = j.doc
        BY <4>1 DEF Entered
      <4> QED BY <1>4, <2>2, <4>2, KindsApart
    <3> QED BY <1>6, <3>1, <3>2 DEF Given
  <2>3. CASE j.kind \notin Returning \cup Undoing
    <3>1. returns' = returns
      BY <2>3, CommitBooks
    <3> QED BY <1>6, <3>1 DEF Given
  <2> QED BY <2>1, <2>2, <2>3
<1> QED BY <1>2, <1>3, <1>5, <1>7

LEMMA InitHomeInv == Init => HomeInv
<1> SUFFICES ASSUME Init PROVE HomeInv
  OBVIOUS
<1>1. \A r \in Requests : Idle(r)
  BY DEF Init, Idle
<1>2. returns = {}
  BY DEF Init
<1> QED BY <1>1, <1>2 DEF HomeInv, JobsSound, ReturnsSound, Numbered, RegularPrepared

\* A request that ends leaves those in progress as they are.
LEMMA FinishLeavesOthers ==
  ASSUME TypeOK, NEW r \in Requests, Finish(r)
  PROVE  /\ Idle(r)'
         /\ \A q \in Requests \ {r} :
              /\ job'[q] = job[q] /\ seenCash'[q] = seenCash[q]
              /\ Idle(q)' <=> Idle(q)
              /\ Past(q, "noReturns")' <=> Past(q, "noReturns")
              /\ Past(q, "readSafes")' <=> Past(q, "readSafes")
<1>1. /\ at'[r] = 0
      /\ \A q \in Requests \ {r} : job'[q] = job[q] /\ seenCash'[q] = seenCash[q] /\ at'[q] = at[q]
  BY DEF Finish, TypeOK
<1> QED BY <1>1, PastOther DEF Idle

LEMMA AbandonHomeInv ==
  ASSUME TypeOK, HomeInv, NEW r \in Requests, Abandon(r)
  PROVE  HomeInv'
<1>1. UNCHANGED <<status, balance, returns, sent>> /\ Finish(r)
  BY DEF Abandon, moneyVars
<1>2. Given' = Given
  BY <1>1 DEF Given
<1>3. JobsSound'
  BY <1>1, FinishLeavesOthers DEF HomeInv, JobsSound
<1>4. ReturnsSound'
  BY <1>1 DEF HomeInv, ReturnsSound
<1>5. Numbered'
  BY <1>1, FinishLeavesOthers DEF HomeInv, Numbered, OwnNumber
<1>6. RegularPrepared'
  <2> SUFFICES ASSUME NEW q \in Requests, ~ Idle(q)', job'[q].customer = Regular
               PROVE  Prepared(q)'
    BY DEF RegularPrepared
  <2>1. q # r
    BY <1>1, FinishLeavesOthers
  <2>2. Prepared(q)
    BY <1>1, <2>1, FinishLeavesOthers DEF HomeInv, RegularPrepared
  <2> QED BY <1>1, <1>2, <2>1, <2>2, FinishLeavesOthers DEF Prepared
<1> QED BY <1>3, <1>4, <1>5, <1>6 DEF HomeInv

\* A statement that is not the commit looks at the returns or reads the safes when
\* it says so, and changes nothing else that counts.
LEMMA AdvanceHomeInv ==
  ASSUME TypeOK, HomeInv, NEW r \in Requests, NEW statement, At(r, statement),
         Advance(r), UNCHANGED <<moneyVars, job, sent>>,
         statement = "noReturns" => ReturnsOf(job[r].doc) = {},
         \A q \in Requests \ {r} : seenCash'[q] = seenCash[q],
         IF statement = "readSafes" THEN seenCash'[r] = balance ELSE seenCash'[r] = seenCash[r]
  PROVE  HomeInv'
<1>1. UNCHANGED <<status, balance, returns>>
  BY DEF moneyVars
<1>2. \A q \in Requests \ {r} : at'[q] = at[q]
  BY DEF Advance, TypeOK
<1>3. \A q \in Requests : Idle(q)' <=> Idle(q)
  BY <1>2 DEF Advance, At, Idle, TypeOK
<1>4. \A other : Past(r, other)' <=> Past(r, other) \/ other = statement
  BY PastAdvance
<1>5. \A q \in Requests \ {r}, other \in {"noReturns", "readSafes"} :
        Past(q, other)' <=> Past(q, other)
  BY <1>2, PastOther
<1>6. Given' = Given
  BY <1>1 DEF Given
<1>7. JobsSound' /\ ReturnsSound'
  BY <1>1, <1>3 DEF HomeInv, JobsSound, ReturnsSound
<1>8. Numbered'
  BY <1>1, <1>3 DEF HomeInv, Numbered, OwnNumber
<1>9. RegularPrepared'
  <2> SUFFICES ASSUME NEW q \in Requests, ~ Idle(q), job[q].customer = Regular
               PROVE  Prepared(q)'
    BY <1>3 DEF RegularPrepared
  <2>1. Prepared(q)
    BY DEF HomeInv, RegularPrepared
  <2>2. ASSUME Past(q, "noReturns")' PROVE \A b \in Given : b.doc # job[q].doc
    <3>1. CASE Past(q, "noReturns")
      BY <2>1, <3>1 DEF Prepared
    <3>2. CASE ~ Past(q, "noReturns")
      <4>1. q = r /\ statement = "noReturns"
        BY <1>4, <1>5, <2>2, <3>2
      <4> QED BY <4>1 DEF ReturnsOf, Given
    <3> QED BY <3>1, <3>2
  <2>3. ASSUME Past(q, "readSafes")' PROVE \A s \in Home : seenCash'[q][s] = balance[s]
    <3>1. CASE q = r /\ statement = "readSafes"
      BY <3>1
    <3>2. CASE ~ (q = r /\ statement = "readSafes")
      <4>1. Past(q, "readSafes") /\ seenCash'[q] = seenCash[q]
        BY <1>4, <1>5, <2>3, <3>2
      <4> QED BY <2>1, <4>1 DEF Prepared
    <3> QED BY <3>1, <3>2
  <2>4. /\ job[q].kind \in Creating => status[job[q].doc] = "none"
        /\ job[q].kind = "cancel" => status[job[q].doc] = "active"
        /\ job[q].kind \in Returning => status[job[q].doc] # "none"
        /\ job[q].kind \in Undoing => \E b \in Given : b.id = job[q].id
    BY <2>1 DEF Prepared
  <2> QED BY <1>1, <1>6, <2>2, <2>3, <2>4 DEF Prepared
<1> QED BY <1>7, <1>8, <1>9 DEF HomeInv

\* Whoever looks for the lines of a return deletes it all the same.
LEMMA LinesHomeInv ==
  ASSUME TypeOK, HomeInv, NEW r \in Requests, ReadLines(r)
  PROVE  HomeInv'
<1>1. /\ TypeOK' /\ at[r] = 2 /\ at'[r] = 3
      /\ job[r].kind \in Undoing /\ job'[r].kind \in Undoing
      /\ \A q \in Requests \ {r} : job'[q] = job[q] /\ at'[q] = at[q]
  BY LinesTypeOK
<1>2. /\ job'[r].customer = job[r].customer /\ job'[r].doc = job[r].doc
      /\ job'[r].via = job[r].via /\ job'[r].id = job[r].id /\ job'[r].amount = job[r].amount
  BY LinesTypeOK DEF TypeOK, Job
<1>3. UNCHANGED <<status, balance, returns, seenCash, sent>>
  BY DEF ReadLines, moneyVars
<1>4. \A q \in Requests : Idle(q)' <=> Idle(q)
  BY <1>1 DEF Idle
<1>5. Given' = Given
  BY <1>3 DEF Given
<1>6. Entered(job'[r]) = Entered(job[r])
  BY <1>2 DEF Entered
<1>7. Sound(job[r]) => Sound(job'[r])
  BY <1>1, <1>2, KindsApart DEF Sound, Paying
<1>8. JobsSound'
  BY <1>1, <1>4, <1>7 DEF HomeInv, JobsSound
<1>9. ReturnsSound'
  BY <1>3 DEF HomeInv, ReturnsSound
<1>10. Numbered'
  <2>1. \A q \in Requests : job'[q].id = job[q].id /\ Entered(job'[q]) = Entered(job[q])
    BY <1>1, <1>2, <1>6
  <2>2. \A q \in Requests : /\ job'[q].kind \in Returning <=> job[q].kind \in Returning
                            /\ job'[q].kind \in Undoing <=> job[q].kind \in Undoing
    BY <1>1, KindsApart
  <2>3. \A q \in Requests : OwnNumber(q)' <=> OwnNumber(q)
    BY <1>3, <1>4, <2>1 DEF OwnNumber
  <2> QED BY <1>3, <1>4, <2>1, <2>2, <2>3 DEF HomeInv, Numbered
<1>11. \A statement \in {"noReturns", "readSafes"} : ~ Past(r, statement)'
  <2>1. job'[r].kind \in Kinds
    BY <1>1 DEF TypeOK, Job
  <2>2. Program(job'[r])[1] = "stillThere" /\ Program(job'[r])[2] = "lines"
    BY <1>1, <2>1, ProgramShape DEF Program
  <2>3. \A i \in 1..(at'[r] - 1) : i = 1 \/ i = 2
    BY <1>1
  <2> QED BY <2>2, <2>3 DEF Past, Program
<1>12. \A q \in Requests \ {r}, statement \in {"noReturns", "readSafes"} :
         Past(q, statement)' <=> Past(q, statement)
  BY <1>1, PastOther
<1>13. RegularPrepared'
  <2> SUFFICES ASSUME NEW q \in Requests, ~ Idle(q), job[q].customer = Regular
               PROVE  Prepared(q)'
    BY <1>1, <1>2, <1>4 DEF RegularPrepared
  <2>1. Prepared(q)
    BY DEF HomeInv, RegularPrepared
  <2>2. CASE q = r
    <3>1. \E b \in Given : b.id = job'[r].id
      BY <1>1, <1>2, <2>1, <2>2 DEF Prepared
    <3> QED BY <1>1, <1>5, <1>11, <2>2, <3>1, KindsApart DEF Prepared
  <2>3. CASE q # r
    BY <1>1, <1>3, <1>5, <1>12, <2>1, <2>3 DEF Prepared
  <2> QED BY <2>2, <2>3
<1> QED BY <1>8, <1>9, <1>10, <1>13 DEF HomeInv

\* What arrives is sound, has a number of its own or none, and its checks hold.
Ready(j) ==
  /\ j.kind \in Creating => status[j.doc] = "none"
  /\ j.kind = "cancel" => status[j.doc] = "active"
  /\ j.kind \in Returning => status[j.doc] # "none" /\ j.id = sent + 1
  /\ j.kind \in Undoing => \E b \in returns : b = Entered(j)
  /\ j.kind \in Creating \cup Paying \cup {"cancel"} => j.id = 0

LEMMA ReceiveReady ==
  ASSUME TypeOK, ReturnsSound, NEW r \in Requests, Receive(r)
  PROVE  \E j \in Job : Send(r, j) /\ Sound(j) /\ Ready(j) /\ Arriving(j)
<1>1. PICK j \in Job : Send(r, j) /\ Arriving(j)
  BY ReceiveSends
<1>2. ASSUME NEW i, Send(r, i) PROVE i = j
  BY <1>1, <1>2 DEF Send, TypeOK
<1>3. ASSUME NEW d \in Docs, ReceiveCreate(r, d) PROVE Sound(j) /\ Ready(j)
  <2>1. j = About(IF IsSale(d) THEN "sell" ELSE "buy", d, 0, Terms[d].safe, 0) /\ status[d] = "none"
    BY <1>2, <1>3 DEF ReceiveCreate
  <2>2. /\ j.kind \in Creating /\ j.doc = d /\ j.via = Terms[d].safe /\ j.id = 0
    BY <2>1 DEF About, Creating
  <2> QED BY <2>1, <2>2, KindsApart DEF Sound, Ready, Paying
<1>4. ASSUME NEW d \in Docs, ReceiveCancel(r, d) PROVE Sound(j) /\ Ready(j)
  <2>1. PICK via \in SafesFound(d) : Send(r, About("cancel", d, 0, via, 0))
    BY <1>4 DEF ReceiveCancel
  <2>2. j = About("cancel", d, 0, via, 0) /\ status[d] = "active"
    BY <1>2, <1>4, <2>1 DEF ReceiveCancel
  <2>3. j.kind = "cancel" /\ j.doc = d /\ j.via = via /\ j.id = 0
    BY <2>2 DEF About
  <2> QED BY <2>1, <2>2, <2>3, KindsApart DEF Sound, Ready
<1>5. ASSUME NEW d \in Docs, ReceiveReturn(r, d) PROVE Sound(j) /\ Ready(j)
  <2> DEFINE kind == IF IsSale(d) THEN "return" ELSE "sendBack"
  <2>1. PICK amount \in 1..Total(d), via \in Ways[Terms[d].customer] :
          Send(r, About(kind, d, amount, via, sent + 1))
    BY <1>5 DEF ReceiveReturn
  <2>2. j = About(kind, d, amount, via, sent + 1) /\ status[d] # "none"
    BY <1>2, <1>5, <2>1 DEF ReceiveReturn
  <2>3. /\ j.kind \in Returning /\ j.doc = d /\ j.via = via /\ j.id = sent + 1
        /\ j.customer = Terms[d].customer
    BY <2>2 DEF About, Returning
  <2> HIDE DEF kind
  <2> QED BY <2>1, <2>2, <2>3, KindsApart DEF Sound, Ready, Paying
<1>6. ASSUME ReceiveUndo(r) PROVE Sound(j) /\ Ready(j)
  <2>1. PICK b \in returns : Send(r, About("undo", b.doc, b.amount, b.via, b.id))
    BY <1>6 DEF ReceiveUndo
  <2>2. j = About("undo", b.doc, b.amount, b.via, b.id)
    BY <1>2, <2>1
  <2>3. /\ j.kind = "undo" /\ j.doc = b.doc /\ j.via = b.via /\ j.id = b.id /\ j.amount = b.amount
        /\ j.customer = Terms[b.doc].customer
    BY <2>2 DEF About
  <2>4. b = Entered(j)
    BY <2>3 DEF Entered, TypeOK, Return
  <2>5. j.kind \in Undoing /\ j.kind # "receipt"
    BY <2>3 DEF Undoing
  <2>6. Sound(j)
    BY <2>3, <2>5, KindsApart DEF Sound, ReturnsSound
  <2> QED BY <2>4, <2>5, <2>6, KindsApart DEF Ready
<1>7. ASSUME NEW c \in Customers, ReceivePayment(r, c) PROVE Sound(j) /\ Ready(j)
  <2>1. PICK kind \in Paying, amount \in Amounts, via \in Ways[c] \ {OnAccount} :
          /\ kind = "receipt" => via = NoSafe
          /\ Send(r, [kind |-> kind, doc |-> AnyDoc, customer |-> c,
                      amount |-> amount, via |-> via, id |-> 0])
    BY <1>7 DEF ReceivePayment
  <2>2. j = [kind |-> kind, doc |-> AnyDoc, customer |-> c, amount |-> amount, via |-> via, id |-> 0]
    BY <1>2, <2>1
  <2>3. /\ j.kind = kind /\ j.customer = c /\ j.amount = amount /\ j.via = via /\ j.id = 0
    BY <2>2
  <2>4. Sound(j)
    BY <2>1, <2>3, KindsApart DEF Sound
  <2> QED BY <2>1, <2>3, <2>4, KindsApart DEF Ready
<1> QED BY <1>1, <1>3, <1>4, <1>5, <1>6, <1>7 DEF Receive

\* The numbers stay apart when a request is sent.
LEMMA SendNumbered ==
  ASSUME TypeOK, Numbered, NEW r \in Requests, NEW j \in Job, Send(r, j), Ready(j)
  PROVE  Numbered'
<1>1. /\ job'[r] = j /\ at'[r] = 1 /\ Idle(r)
      /\ \A q \in Requests \ {r} : job'[q] = job[q] /\ at'[q] = at[q]
      /\ returns' = returns /\ sent' = sent + 1 /\ sent \in Nat
  BY MoneyAssumption DEF Send, MaySend, TypeOK, moneyVars
<1>2. \A q \in Requests \ {r} : Idle(q)' <=> Idle(q)
  BY <1>1 DEF Idle
<1>3. /\ j.id \in Nat
      /\ \A b \in returns : b.id \in Nat /\ b.id > 0 /\ b.id <= sent
      /\ \A q \in Requests : job[q].id \in Nat /\ (job[q].kind \in Returning => job[q].id > 0)
  <2>1. \A x \in 0..MaxSent : x \in Nat
    BY MoneyAssumption
  <2>2. \A x \in 1..MaxSent : x \in Nat /\ x > 0
    BY MoneyAssumption
  <2>3. \A i \in Job : i.id \in Nat
    BY <2>1 DEF Job
  <2>4. \A b \in Return : b.id \in Nat /\ b.id > 0
    BY <2>2 DEF Return
  <2>5. \A b \in returns : b.id \in Nat /\ b.id > 0 /\ b.id <= sent
    BY <2>4 DEF TypeOK, Numbered
  <2> QED BY <2>3, <2>5 DEF TypeOK
<1>4. j.id <= sent + 1
  <2>1. CASE j.kind \in Undoing
    BY <1>1, <1>3, <2>1 DEF Ready, Entered
  <2>2. CASE j.kind \in Returning \/ j.kind \in Creating \cup Paying \cup {"cancel"}
    BY <1>1, <2>2 DEF Ready
  <2> QED BY <2>1, <2>2, KindsApart DEF Job
<1>5. ASSUME j.kind \in Returning
      PROVE  /\ \A b \in returns : b.id # j.id
             /\ \A q \in Requests \ {r} : ~ Idle(q) => job[q].id # j.id
  <2>1. j.id = sent + 1
    BY <1>5 DEF Ready
  <2>2. \A q \in Requests : ~ Idle(q) => job[q].id <= sent
    BY DEF Numbered
  <2> QED BY <1>1, <1>3, <2>1, <2>2
<1>6. ASSUME NEW q \in Requests \ {r}, ~ Idle(q), job[q].kind \in Returning
      PROVE  j.id # job[q].id
  <2>1. OwnNumber(q) /\ job[q].id <= sent /\ job[q].id > 0
    BY <1>3, <1>6 DEF Numbered
  <2>2. CASE j.kind \in Undoing
    BY <2>1, <2>2 DEF Ready, Entered, OwnNumber
  <2>3. CASE j.kind \in Returning
    BY <1>1, <1>3, <2>1, <2>3 DEF Ready
  <2>4. CASE j.kind \in Creating \cup Paying \cup {"cancel"}
    BY <1>3, <2>1, <2>4 DEF Ready
  <2> QED BY <2>2, <2>3, <2>4, KindsApart DEF Job
<1>7. ASSUME j.kind \in Undoing, NEW b \in returns, b.id = j.id PROVE b = Entered(j)
  <2>1. PICK a \in returns : a = Entered(j)
    BY <1>7 DEF Ready
  <2>2. a.id = j.id
    BY <2>1 DEF Entered
  <2> QED BY <1>7, <2>1, <2>2 DEF Numbered
<1>8. (\A b \in returns : b.id <= sent)' /\ (\A a, b \in returns : a.id = b.id => a = b)'
  BY <1>1, <1>3 DEF Numbered
<1>9. ASSUME NEW q \in Requests, ~ Idle(q)'
      PROVE  /\ job'[q].id <= sent'
             /\ job'[q].kind \in Returning => OwnNumber(q)'
             /\ job'[q].kind \in Undoing =>
                  \A b \in returns : b.id = job'[q].id => b = Entered(job'[q])
  <2>1. CASE q = r
    BY <1>1, <1>2, <1>4, <1>5, <1>7, <2>1 DEF OwnNumber
  <2>2. CASE q # r
    <3>1. ~ Idle(q) /\ job'[q] = job[q]
      BY <1>1, <1>2, <1>9, <2>2
    <3>2. job[q].id <= sent'
      BY <1>1, <1>3, <3>1 DEF Numbered
    <3>3. job[q].kind \in Returning => OwnNumber(q)'
      BY <1>1, <1>2, <1>6, <2>2, <3>1 DEF Numbered, OwnNumber
    <3> QED BY <3>1, <3>2, <3>3 DEF Numbered
  <2> QED BY <2>1, <2>2
<1>10. (\A q \in Requests : ~ Idle(q) =>
          /\ job[q].id <= sent
          /\ job[q].kind \in Returning => OwnNumber(q)
          /\ job[q].kind \in Undoing =>
               \A b \in returns : b.id = job[q].id => b = Entered(job[q]))'
  BY <1>1, <1>9
<1> QED BY <1>8, <1>10 DEF Numbered

LEMMA ReceiveHomeInv ==
  ASSUME TypeOK, HomeInv, NEW r \in Requests, Receive(r)
  PROVE  HomeInv'
<1>1. PICK j \in Job : Send(r, j) /\ Sound(j) /\ Ready(j) /\ Arriving(j)
  BY ReceiveReady DEF HomeInv
<1>2. /\ job'[r] = j /\ at'[r] = 1 /\ Idle(r)
      /\ \A q \in Requests \ {r} : job'[q] = job[q] /\ at'[q] = at[q]
      /\ UNCHANGED <<status, balance, returns, seenCash>>
  BY <1>1 DEF Send, MaySend, TypeOK, moneyVars
<1>3. \A q \in Requests \ {r} : Idle(q)' <=> Idle(q)
  BY <1>2 DEF Idle
<1>4. Given' = Given
  BY <1>2 DEF Given
<1>5. JobsSound'
  BY <1>1, <1>2, <1>3 DEF HomeInv, JobsSound
<1>6. ReturnsSound'
  BY <1>2 DEF HomeInv, ReturnsSound
<1>7. Numbered'
  BY <1>1, SendNumbered DEF HomeInv
<1>8. \A statement \in {"noReturns", "readSafes"} :
        /\ ~ Past(r, statement)'
        /\ \A q \in Requests \ {r} : Past(q, statement)' <=> Past(q, statement)
  BY <1>2, PastStart, PastOther
<1>9. RegularPrepared'
  <2> SUFFICES ASSUME NEW q \in Requests, ~ Idle(q)', job'[q].customer = Regular
               PROVE  Prepared(q)'
    BY DEF RegularPrepared
  <2>1. CASE q = r
    <3>1. j.kind \in Undoing => \E b \in Given : b.id = j.id
      <4> SUFFICES ASSUME j.kind \in Undoing PROVE \E b \in Given : b.id = j.id
        OBVIOUS
      <4>1. PICK b \in returns : b = Entered(j)
        BY <1>1 DEF Ready
      <4>2. Terms[j.doc].customer = Regular /\ j.doc \in Docs
        BY <1>1, <1>2, <2>1, KindsApart DEF Arriving, Job
      <4>3. b.id = j.id /\ b.doc = j.doc
        BY <4>1 DEF Entered
      <4> QED BY <4>2, <4>3 DEF Given, DocsOf
    <3>2. /\ j.kind \in Creating => status[j.doc] = "none"
          /\ j.kind = "cancel" => status[j.doc] = "active"
          /\ j.kind \in Returning => status[j.doc] # "none"
      BY <1>1 DEF Ready
    <3> QED BY <1>2, <1>4, <1>8, <2>1, <3>1, <3>2 DEF Prepared
  <2>2. CASE q # r
    <3>1. Prepared(q)
      BY <1>2, <1>3, <2>2 DEF HomeInv, RegularPrepared
    <3> QED BY <1>2, <1>4, <1>8, <2>2, <3>1 DEF Prepared
  <2> QED BY <2>1, <2>2
<1> QED BY <1>5, <1>6, <1>7, <1>9 DEF HomeInv

\* A return that is entered takes its number with it, one that is deleted is gone.
LEMMA CommitNumbered ==
  ASSUME TypeOK, Numbered, NEW r \in Requests, Commit(r)
  PROVE  Numbered'
<1> DEFINE j == job[r]
<1>1. Finish(r) /\ sent' = sent /\ ~ Idle(r)
  BY CommitBooks
<1>2. Idle(r)' /\ \A q \in Requests \ {r} : job'[q] = job[q] /\ (Idle(q)' <=> Idle(q))
  BY <1>1, FinishLeavesOthers
<1>3. returns' \subseteq returns \cup {Entered(j)}
  BY CommitBooks
<1>4. returns' \subseteq returns \/ (j.kind \in Returning /\ returns' = returns \cup {Entered(j)})
  BY CommitBooks
<1>5. Entered(j).id = j.id /\ j.id <= sent
  BY <1>1 DEF Entered, Numbered
<1>6. \A b \in returns' : b.id <= sent'
  BY <1>1, <1>3, <1>5 DEF Numbered
<1>7. j.kind \in Returning => OwnNumber(r)
  BY <1>1 DEF Numbered
<1>8. \A a, b \in returns' : a.id = b.id => a = b
  <2>1. CASE returns' \subseteq returns
    BY <2>1 DEF Numbered
  <2>2. CASE j.kind \in Returning /\ returns' = returns \cup {Entered(j)}
    <3>1. \A b \in returns : b.id # Entered(j).id
      BY <1>5, <1>7, <2>2 DEF OwnNumber
    <3> QED BY <2>2, <3>1 DEF Numbered
  <2> QED BY <1>4, <2>1, <2>2
<1>9. ASSUME NEW q \in Requests, ~ Idle(q)'
      PROVE  /\ job'[q].id <= sent'
             /\ job'[q].kind \in Returning => OwnNumber(q)'
             /\ job'[q].kind \in Undoing =>
                  \A b \in returns' : b.id = job'[q].id => b = Entered(job'[q])
  <2>1. q # r /\ job'[q] = job[q] /\ ~ Idle(q)
    BY <1>2, <1>9
  <2>2. job[q].id <= sent'
    BY <1>1, <2>1 DEF Numbered
  <2>3. ASSUME job[q].kind \in Returning PROVE OwnNumber(q)'
    <3>1. OwnNumber(q)
      BY <2>1, <2>3 DEF Numbered
    <3>2. job[q].id # j.id
      BY <1>1, <2>1, <3>1 DEF OwnNumber
    <3>3. \A b \in returns' : b.id # job'[q].id
      BY <1>3, <1>5, <2>1, <3>1, <3>2 DEF OwnNumber
    <3>4. \A x \in Requests \ {q} : ~ Idle(x)' => job'[x].id # job'[q].id
      BY <1>2, <2>1, <3>1 DEF OwnNumber
    <3> QED BY <3>3, <3>4 DEF OwnNumber
  <2>4. ASSUME job[q].kind \in Undoing, NEW b \in returns', b.id = job[q].id
        PROVE  b = Entered(job[q])
    <3>1. CASE b \in returns
      BY <2>1, <2>4, <3>1 DEF Numbered
    <3>2. CASE b \notin returns
      <4>1. b = Entered(j) /\ OwnNumber(r)
        BY <1>4, <1>7, <2>4, <3>2
      <4> QED BY <1>5, <2>1, <2>4, <4>1 DEF OwnNumber
    <3> QED BY <3>1, <3>2
  <2> QED BY <2>1, <2>2, <2>3, <2>4
<1>10. (\A q \in Requests : ~ Idle(q) =>
          /\ job[q].id <= sent
          /\ job[q].kind \in Returning => OwnNumber(q)
          /\ job[q].kind \in Undoing =>
               \A b \in returns : b.id = job[q].id => b = Entered(job[q]))'
  BY <1>9
<1> QED BY <1>6, <1>8, <1>10 DEF Numbered

LEMMA CommitHomeInv ==
  ASSUME OrderlyHome, TypeOK, DebtInv, HomeInv, NEW r \in Requests, Commit(r)
  PROVE  HomeInv'
<1> DEFINE j == job[r]
<1>1. Finish(r) /\ ~ Idle(r) /\ j.kind \in Kinds
  BY CommitBooks
<1>2. JobsSound'
  BY <1>1, FinishLeavesOthers DEF HomeInv, JobsSound
<1>3. ReturnsSound'
  <2> SUFFICES ASSUME NEW b \in returns' PROVE b.via \in Ways[Terms[b.doc].customer]
    BY DEF ReturnsSound
  <2>1. CASE b \in returns
    BY <2>1 DEF HomeInv, ReturnsSound
  <2>2. CASE b \notin returns
    <3>1. j.kind \in Returning /\ b = Entered(j)
      BY <2>2, CommitBooks
    <3>2. b.via = j.via /\ b.doc = j.doc
      BY <3>1 DEF Entered
    <3>3. Terms[j.doc].customer = j.customer
      BY <1>1, <3>1, JobsDoc, KindsApart DEF DebtInv
    <3> QED BY <1>1, <3>1, <3>2, <3>3 DEF HomeInv, JobsSound, Sound
  <2> QED BY <2>1, <2>2
<1>4. Numbered'
  BY CommitNumbered DEF HomeInv
<1>5. RegularPrepared'
  <2> SUFFICES ASSUME NEW q \in Requests, ~ Idle(q)', job'[q].customer = Regular
               PROVE  Prepared(q)'
    BY DEF RegularPrepared
  <2>1. /\ q # r /\ ~ Idle(q) /\ job'[q] = job[q] /\ seenCash'[q] = seenCash[q]
        /\ Past(q, "noReturns")' <=> Past(q, "noReturns")
        /\ Past(q, "readSafes")' <=> Past(q, "readSafes")
    BY <1>1, FinishLeavesOthers
  <2>2. Prepared(q)
    BY <2>1 DEF HomeInv, RegularPrepared
  <2>3. j.customer # Regular
    BY <1>1, <2>1 DEF DebtInv, SerialAlone, OrderlyHome
  <2>4. /\ \A s \in Home : balance'[s] = balance[s]
        /\ \A d \in DocsOf(Regular) : status'[d] = status[d]
        /\ Given' = Given
    BY <2>3, OthersLeaveBook DEF DebtInv
  <2>5. job[q].kind \notin Paying => job[q].doc \in DocsOf(Regular)
    BY <2>1, JobsDoc DEF DebtInv, DocsOf
  <2>6. job[q].kind \in Creating \cup Returning \cup {"cancel"}
          => status'[job[q].doc] = status[job[q].doc]
    BY <2>4, <2>5, KindsApart
  <2> QED BY <2>1, <2>2, <2>4, <2>6 DEF Prepared
<1> QED BY <1>2, <1>3, <1>4, <1>5 DEF HomeInv

LEMMA NextHomeInv ==
  ASSUME OrderlyHome, TypeOK, DebtInv, HomeInv, [Next]_vars
  PROVE  HomeInv'
<1>1. ASSUME NEW r \in Requests, Receive(r) PROVE HomeInv'
  BY <1>1, ReceiveHomeInv
<1>2. ASSUME NEW r \in Requests, Abandon(r) PROVE HomeInv'
  BY <1>2, AbandonHomeInv
<1>3. ASSUME NEW r \in Requests, Step(r) PROVE HomeInv'
  <2>1. CASE CheckNoReturns(r)
    BY <1>2, <2>1, AdvanceHomeInv DEF CheckNoReturns
  <2>2. CASE CheckStillThere(r)
    BY <1>2, <2>2, AdvanceHomeInv DEF CheckStillThere
  <2>3. CASE ReadLines(r)
    BY <2>3, LinesHomeInv
  <2>4. CASE ReadCustomer(r)
    BY <2>4, AdvanceHomeInv DEF ReadCustomer
  <2>5. CASE ReadSafes(r)
    <3>1. CASE Abandon(r)
      BY <1>2, <3>1
    <3>2. CASE ~ Abandon(r)
      <4>1. /\ At(r, "readSafes") /\ Advance(r)
            /\ seenCash' = [seenCash EXCEPT ![r] = balance]
            /\ UNCHANGED <<moneyVars, job, sent>>
        BY <2>5, <3>2 DEF ReadSafes
      <4>2. seenCash'[r] = balance /\ \A q \in Requests \ {r} : seenCash'[q] = seenCash[q]
        BY <4>1 DEF TypeOK
      <4> QED BY <4>1, <4>2, AdvanceHomeInv
    <3> QED BY <3>1, <3>2
  <2>6. CASE Lock(r)
    <3>1. PICK statement \in Locking :
            At(r, statement) /\ Advance(r) /\ UNCHANGED <<moneyVars, job, seenDebt, seenCash, sent>>
      BY <2>6 DEF Lock
    <3>2. statement # "noReturns" /\ statement # "readSafes"
      BY DEF Locking
    <3> QED BY <3>1, <3>2, AdvanceHomeInv
  <2>7. CASE Commit(r)
    BY <2>7, CommitHomeInv
  <2> QED BY <1>3, <2>1, <2>2, <2>3, <2>4, <2>5, <2>6, <2>7 DEF Step
<1>4. CASE UNCHANGED vars
  <2>1. Given' = Given
    BY <1>4 DEF vars, Given
  <2> QED BY <1>4, <2>1 DEF vars, HomeInv, JobsSound, ReturnsSound, Numbered, OwnNumber, RegularPrepared,
                             Prepared, Idle, Past, Program
<1> QED BY <1>1, <1>2, <1>3, <1>4 DEF Next, Quiescent, Fail, DeadlockVictim

\* What the regular customer owes and his safes change by what his request says.
LEMMA RegularChanges ==
  ASSUME OrderlyHome, TypeOK, DebtInv, HomeInv, NEW r \in Requests, Commit(r),
         job[r].customer = Regular
  PROVE  /\ DebtChange(job[r]) \in Int
         /\ debt'[Regular] = debt[Regular] + DebtChange(job[r])
         /\ \A s \in Home : /\ CashChange(job[r], s) \in Int
                            /\ balance'[s] = balance[s] + CashChange(job[r], s)
<1> DEFINE j == job[r]
<1>1. /\ At(r, "commit") /\ ~ Idle(r) /\ j \in Job /\ j.kind \in Kinds
  BY CommitBooks
<1>2. DebtChange(j) \in Int /\ \A s \in Safes : CashChange(j, s) \in Int
  BY <1>1, ChangesType
<1>3. Regular \in Customers /\ debt[Regular] \in Int /\ Home \subseteq Safes
  BY MoneyAssumption DEF TypeOK
<1>4. seenDebt[r] = debt[Regular]
  <2>1. Protected(Regular)
    BY DEF OrderlyHome, Protected
  <2> QED BY <1>1, <1>3, <2>1, LookedBeforeCommit DEF DebtInv, Fresh
<1>5. debt'[Regular] = IF DebtChange(j) # 0 THEN seenDebt[r] + DebtChange(j) ELSE debt[Regular]
  BY <1>3, CommitBooks
<1>6. debt'[Regular] = debt[Regular] + DebtChange(j)
  <2> HIDE DEF j
  <2> QED BY <1>2, <1>3, <1>4, <1>5
<1>7. ASSUME NEW s \in Home PROVE balance'[s] = balance[s] + CashChange(j, s)
  <2>1. s \in Safes /\ balance[s] \in Int /\ CashChange(j, s) \in Int
    BY <1>2, <1>3 DEF TypeOK
  <2>2. balance'[s] = IF CashChange(j, s) # 0 THEN seenCash[r][s] + CashChange(j, s) ELSE balance[s]
    BY <2>1, CommitBooks
  <2>3. CASE j.kind = "receipt"
    <3>1. s # j.via
      BY <1>1, <2>1, <2>3, MoneyAssumption DEF HomeInv, JobsSound, Sound
    <3>2. CashChange(j, s) = IF s = j.via THEN - Entry(j) ELSE 0
      BY <1>1, <2>1, <2>3, ChangesByKind DEF Paying
    <3>3. CashChange(j, s) = 0
      BY <3>1, <3>2
    <3> HIDE DEF j
    <3> QED BY <2>1, <2>2, <3>3
  <2>4. CASE j.kind # "receipt"
    <3>1. seenCash[r][s] = balance[s]
      BY <1>1, <2>4, LookedBeforeCommit DEF HomeInv, RegularPrepared, Prepared
    <3> HIDE DEF j
    <3> QED BY <2>1, <2>2, <3>1
  <2> QED BY <2>3, <2>4
<1> QED BY <1>2, <1>3, <1>6, <1>7

\* An invoice, entered or cancelled, moves what the book says.
LEMMA InvoiceChanges ==
  ASSUME OrderlyHome, TypeOK, NEW j \in Job, Sound(j), j.customer = Regular,
         Terms[j.doc].customer = Regular
  PROVE  /\ j.doc \in DocsOf(Regular)
         /\ Owing[j.doc] \in Int
         /\ \A s \in Home : Cashing[j.doc][s] \in Int
         /\ j.kind \in Creating =>
              /\ DebtChange(j) = Owing[j.doc]
              /\ \A s \in Home : CashChange(j, s) = Cashing[j.doc][s]
         /\ j.kind = "cancel" =>
              /\ DebtChange(j) = - Owing[j.doc]
              /\ \A s \in Home : CashChange(j, s) = - Cashing[j.doc][s]
<1> DEFINE d == j.doc
<1>1. d \in Docs /\ d \in DocsOf(Regular)
  BY DEF Job, DocsOf
<1>2. /\ Terms[d].credit \in Nat /\ Terms[d].cash \in Nat /\ Terms[d].cash2 \in Nat
      /\ Terms[d].safe2 \in Safes \cup {NoSafe}
      /\ Home \subseteq Safes /\ NoSafe \notin Safes /\ Regular # NoCustomer
      /\ Terms[d].cash > 0 <=> Terms[d].safe # NoSafe
      /\ Terms[d].cash2 > 0 <=> Terms[d].safe2 # NoSafe
  BY <1>1, MoneyAssumption
<1>3. /\ Terms[d].cash2 = 0
      /\ IsSale(d) \/ Terms[d].credit = 0 \/ Terms[d].cash = 0
  BY <1>1 DEF OrderlyHome
<1>4. Sign(d) \in {1, -1}
  BY DEF Sign
<1>5. ASSUME NEW x \in Nat PROVE Sign(d) * x \in Int /\ - Sign(d) * x = - (Sign(d) * x)
                                 /\ Sign(d) * 0 = 0
  BY <1>4
<1>6. Owing[d] = Sign(d) * Terms[d].credit
  BY <1>1 DEF Owing
<1>7. \A s \in Home : Cashing[d][s] = IF s = Terms[d].safe THEN Sign(d) * Terms[d].cash ELSE 0
  BY <1>1 DEF Cashing
<1>8. Owing[d] \in Int /\ \A s \in Home : Cashing[d][s] \in Int
  BY <1>2, <1>5, <1>6, <1>7
<1>9. ASSUME j.kind \in Creating
      PROVE  /\ DebtChange(j) = Owing[d]
             /\ \A s \in Home : CashChange(j, s) = Cashing[d][s]
  <2>1. DebtChange(j) = Entry(j)
    BY <1>2, <1>9, KindsApart DEF DebtChange
  <2>2. Entry(j) = Sign(d) * Terms[d].credit
    BY <1>9, ChangesByKind
  <2>3. ASSUME NEW s \in Home PROVE CashChange(j, s) = Cashing[d][s]
    <3>1. j.via = Terms[d].safe
      BY <1>9 DEF Sound
    <3>2. CashChange(j, s) = Sign(d) * ((IF s = j.via THEN Terms[d].cash ELSE 0)
                                          + (IF s = Terms[d].safe2 THEN Terms[d].cash2 ELSE 0))
      BY <1>2, <1>9, ChangesByKind
    <3>3. (IF s = j.via THEN Terms[d].cash ELSE 0)
            + (IF s = Terms[d].safe2 THEN Terms[d].cash2 ELSE 0)
          = IF s = j.via THEN Terms[d].cash ELSE 0
      BY <1>2, <1>3
    <3>4. CashChange(j, s) = Sign(d) * (IF s = j.via THEN Terms[d].cash ELSE 0)
      BY <3>2, <3>3
    <3> QED BY <1>2, <1>5, <1>7, <3>1, <3>4
  <2> QED BY <1>6, <2>1, <2>2, <2>3
<1>10. ASSUME j.kind = "cancel"
       PROVE  /\ DebtChange(j) = - Owing[d]
              /\ \A s \in Home : CashChange(j, s) = - Cashing[d][s]
  <2>1. DebtChange(j) = Entry(j)
    BY <1>2, <1>10, KindsApart DEF DebtChange
  <2>2. Entry(j) = - Sign(d) * Terms[d].credit
    BY <1>10, ChangesByKind
  <2>3. Entry(j) = - Owing[d]
    BY <1>2, <1>5, <1>6, <2>2
  <2>4. Paid(d) = Terms[d].cash
    BY <1>2, <1>3 DEF Paid
  <2>5. ASSUME NEW s \in Home PROVE CashChange(j, s) = - Cashing[d][s]
    <3>1. CashChange(j, s) = IF s = j.via THEN - Sign(d) * Paid(d) ELSE 0
      BY <1>2, <1>10, ChangesByKind
    <3>2. CASE j.via = Terms[d].safe
      <4>1. CASE s = j.via
        <5>1. CashChange(j, s) = - Sign(d) * Terms[d].cash
          BY <2>4, <3>1, <4>1
        <5>2. Cashing[d][s] = Sign(d) * Terms[d].cash
          BY <1>7, <3>2, <4>1
        <5> QED BY <1>2, <1>5, <5>1, <5>2
      <4>2. CASE s # j.via
        BY <1>7, <3>1, <3>2, <4>2
      <4> QED BY <4>1, <4>2
    <3>3. CASE j.via # Terms[d].safe
      <4>1. j.via = NoSafe /\ ~ IsSale(d) /\ Terms[d].credit > 0
        BY <1>10, <3>3 DEF Sound, SafesFound
      <4>2. Terms[d].safe = NoSafe
        BY <1>2, <1>3, <4>1
      <4> QED BY <3>3, <4>1, <4>2
    <3> QED BY <3>2, <3>3
  <2> QED BY <2>1, <2>3, <2>5
<1> QED BY <1>1, <1>8, <1>9, <1>10

LEMMA CommitImplementsBook ==
  ASSUME OrderlyHome, TypeOK, DebtInv, HomeInv, NEW r \in Requests, Commit(r)
  PROVE  [Book!Next]_(Book!vars)
<1>1. PICK j \in Job : j = job[r]
  BY CommitBooks
<1>2. /\ ~ Idle(r) /\ j.kind \in Kinds /\ j.doc \in Docs
      /\ Sound(j) /\ (j.kind \notin Paying => Terms[j.doc].customer = j.customer)
  BY <1>1, CommitBooks DEF HomeInv, JobsSound, DebtInv, JobsAsked
<1>3. Given' = {b \in returns' : b.doc \in DocsOf(Regular)}
  BY DEF Given
<1>4. CASE j.customer # Regular
  <2>1. /\ debt'[Regular] = debt[Regular]
        /\ \A s \in Home : balance'[s] = balance[s]
        /\ \A d \in DocsOf(Regular) : status'[d] = status[d]
        /\ Given' = Given
    BY <1>1, <1>4, OthersLeaveBook DEF DebtInv
  <2>2. Till' = Till /\ Papers' = Papers
    BY <2>1 DEF Till, Papers
  <2> QED BY <2>1, <2>2 DEF Book!vars
<1>5. CASE j.customer = Regular
  <2>1. /\ DebtChange(j) \in Int /\ debt[Regular] \in Int
        /\ debt'[Regular] = debt[Regular] + DebtChange(j)
    BY <1>1, <1>5, RegularChanges, MoneyAssumption DEF TypeOK
  <2>2. \A s \in Home : CashChange(j, s) \in Int /\ balance'[s] = balance[s] + CashChange(j, s)
    BY <1>1, <1>5, RegularChanges
  <2>3. Till' = [s \in Home |-> Till[s] + CashChange(j, s)]
    BY <2>2 DEF Till
  <2>4. Prepared(r)
    BY <1>1, <1>2, <1>5 DEF HomeInv, RegularPrepared
  <2>5. \A s \in Home : Till[s] \in Int /\ s \in Safes
    BY MoneyAssumption DEF Till, TypeOK
  <2>6. j.kind \notin Creating \cup {"cancel"} => Papers' = Papers
    BY <1>1, CommitBooks DEF Papers
  <2>7. j.kind \notin Returning \cup Undoing => Given' = Given
    BY <1>1, <1>3, CommitBooks DEF Given
  <2>8. CASE j.kind \in Creating
    <3>1. /\ j.doc \in DocsOf(Regular) /\ DebtChange(j) = Owing[j.doc]
          /\ \A s \in Home : CashChange(j, s) = Cashing[j.doc][s]
      BY <1>2, <1>5, <2>8, InvoiceChanges, KindsApart
    <3>2. Papers[j.doc] = "none"
      BY <1>1, <2>4, <2>8, <3>1 DEF Prepared, Papers
    <3>3. status' = [status EXCEPT ![j.doc] = "active"]
      BY <1>1, <2>8, CommitBooks
    <3>4. Papers' = [Papers EXCEPT ![j.doc] = "active"]
      BY <3>1, <3>3 DEF Papers, TypeOK, DocsOf
    <3>5. Till' = [s \in Home |-> Till[s] + Cashing[j.doc][s]]
      BY <2>3, <3>1
    <3>6. Given' = Given
      BY <2>7, <2>8, KindsApart
    <3>7. Book!Enter(j.doc)
      BY <2>1, <3>1, <3>2, <3>4, <3>5, <3>6 DEF Book!Enter
    <3> QED BY <3>1, <3>7 DEF Book!Next
  <2>9. CASE j.kind = "cancel"
    <3>1. /\ j.doc \in DocsOf(Regular) /\ DebtChange(j) = - Owing[j.doc] /\ Owing[j.doc] \in Int
          /\ \A s \in Home : CashChange(j, s) = - Cashing[j.doc][s] /\ Cashing[j.doc][s] \in Int
      BY <1>2, <1>5, <2>9, InvoiceChanges, KindsApart
    <3>2. Papers[j.doc] = "active" /\ \A b \in Given : b.doc # j.doc
      BY <1>1, <2>4, <2>9, <3>1, CommitBooks, LookedBeforeCommit DEF Prepared, Papers
    <3>3. status' = [status EXCEPT ![j.doc] = "cancelled"]
      BY <1>1, <2>9, CommitBooks
    <3>4. Papers' = [Papers EXCEPT ![j.doc] = "cancelled"]
      BY <3>1, <3>3 DEF Papers, TypeOK, DocsOf
    <3>5. Till' = [s \in Home |-> Till[s] - Cashing[j.doc][s]]
      BY <2>3, <2>5, <3>1
    <3>6. Given' = Given
      BY <2>7, <2>9, KindsApart
    <3>8. debt'[Regular] = debt[Regular] - Owing[j.doc]
      BY <2>1, <3>1
    <3>7. Book!Cancel(j.doc)
      BY <3>2, <3>4, <3>5, <3>6, <3>8 DEF Book!Cancel
    <3> QED BY <3>1, <3>7 DEF Book!Next
  <2>10. CASE j.kind \in Returning \cup Undoing
    <3>1. /\ j.doc \in DocsOf(Regular)
          /\ DebtChange(j) = IF j.via = OnAccount THEN Entry(j) ELSE 0
          /\ \A s \in Home : CashChange(j, s) = IF s = j.via THEN Entry(j) ELSE 0
      <4>1. j.doc \in DocsOf(Regular)
        BY <1>2, <1>5, <2>10, KindsApart DEF DocsOf
      <4>2. j.customer # NoCustomer
        BY <1>5, MoneyAssumption
      <4>3. DebtChange(j) = IF j.via = OnAccount THEN Entry(j) ELSE 0
        BY <2>10, <4>2 DEF DebtChange
      <4>4. \A s \in Home : CashChange(j, s) = IF s = j.via THEN Entry(j) ELSE 0
        BY <2>5, <2>10, ChangesByKind
      <4> QED BY <4>1, <4>3, <4>4
    <3>2. PICK b : b = Entered(j)
      OBVIOUS
    <3>3. b.doc = j.doc /\ b.id = j.id /\ b.via = j.via /\ b.amount = j.amount
      BY <3>2 DEF Entered
    <3>4. Signs[j.doc] = Sign(j.doc)
      BY <3>1 DEF Signs
    <3>5. Entry(j) \in Int
      BY ChangesType
    <3>6. ASSUME NEW x, x = Entry(j) PROVE Book!Move(x, b.via)
      <4>1. debt'[Regular] = IF b.via = OnAccount THEN debt[Regular] + x ELSE debt[Regular]
        BY <2>1, <3>1, <3>3, <3>6
      <4>2. Till' = [s \in Home |-> IF s = b.via THEN Till[s] + x ELSE Till[s]]
        BY <2>3, <2>5, <3>1, <3>3, <3>6
      <4> QED BY <4>1, <4>2 DEF Book!Move
    <3>7. Papers' = Papers
      BY <2>6, <2>10, KindsApart
    <3>8. CASE j.kind \in Returning
      <4>1. returns' = returns \cup {b}
        BY <1>1, <3>2, <3>8, CommitBooks
      <4>2. Given' = Given \cup {b}
        BY <1>3, <3>1, <3>3, <4>1 DEF Given
      <4>3. \A other \in Given : other.id # b.id
        BY <1>1, <1>2, <3>3, <3>8 DEF HomeInv, Numbered, OwnNumber, Given
      <4>4. Papers[b.doc] # "none"
        BY <1>1, <2>4, <3>1, <3>3, <3>8 DEF Prepared, Papers
      <4>5. - Signs[b.doc] * b.amount = Entry(j)
        BY <3>3, <3>4, <3>8, ChangesByKind
      <4>6. Book!Move(- Signs[b.doc] * b.amount, b.via)
        BY <3>6, <4>5
      <4>7. Book!GiveBack
        BY <3>7, <4>2, <4>3, <4>4, <4>6 DEF Book!GiveBack
      <4> QED BY <4>7 DEF Book!Next
    <3>9. CASE j.kind \in Undoing
      <4>1. returns' = {a \in returns : a.id # b.id}
        BY <1>1, <3>3, <3>9, CommitBooks
      <4>2. b \in Given
        <5>1. PICK a \in Given : a.id = j.id
          BY <1>1, <2>4, <3>9 DEF Prepared
        <5>2. a = b
          BY <1>1, <1>2, <3>2, <3>9, <5>1 DEF HomeInv, Numbered, Given
        <5> QED BY <5>1, <5>2
      <4>3. Given' = Given \ {b}
        BY <1>3, <4>1, <4>2 DEF HomeInv, Numbered, Given
      <4>4. Signs[b.doc] * b.amount = Entry(j)
        BY <3>3, <3>4, <3>9, ChangesByKind
      <4>5. Book!Move(Signs[b.doc] * b.amount, b.via)
        BY <3>6, <4>4
      <4>6. Book!TakeBack
        BY <3>7, <4>2, <4>3, <4>5 DEF Book!TakeBack
      <4> QED BY <4>6 DEF Book!Next
    <3> QED BY <2>10, <3>8, <3>9
  <2>11. CASE j.kind \in Paying
    <3>1. j.amount \in Nat \ {0}
      BY <1>2, <2>11, MoneyAssumption DEF Sound
    <3>2. Entry(j) \in Int /\ Entry(j) # 0
      BY <2>11, <3>1, ChangesByKind
    <3>3. DebtChange(j) = Entry(j)
      BY <1>5, <2>11, KindsApart, MoneyAssumption DEF DebtChange
    <3>4. debt'[Regular] # debt[Regular] /\ - Entry(j) = debt[Regular] - debt'[Regular]
      BY <2>1, <3>2, <3>3
    <3>5. \A s \in Home : CashChange(j, s) = IF s = j.via THEN - Entry(j) ELSE 0
      BY <2>5, <2>11, ChangesByKind
    <3>6. Till' = [s \in Home |-> IF s = j.via THEN Till[s] + (debt[Regular] - debt'[Regular])
                                               ELSE Till[s]]
      BY <2>3, <2>5, <3>2, <3>4, <3>5
    <3>7. Till' = Till \/ j.via \in Home
      BY <3>6 DEF Till
    <3>8. Papers' = Papers /\ Given' = Given
      BY <2>6, <2>7, <2>11, KindsApart
    <3>9. Book!Settle
      BY <3>4, <3>6, <3>7, <3>8 DEF Book!Settle
    <3> QED BY <3>9 DEF Book!Next
  <2> QED BY <1>2, <2>8, <2>9, <2>10, <2>11, KindsApart
<1> QED BY <1>4, <1>5

\* Every other step leaves the money alone.
LEMMA NextImplementsBook ==
  ASSUME OrderlyHome, TypeOK, DebtInv, HomeInv, [Next]_vars
  PROVE  [Book!Next]_(Book!vars)
<1>1. ASSUME UNCHANGED moneyVars PROVE [Book!Next]_(Book!vars)
  <2>1. UNCHANGED <<status, debt, balance, returns>>
    BY <1>1 DEF moneyVars
  <2>2. Till' = Till /\ Papers' = Papers /\ Given' = Given /\ debt'[Regular] = debt[Regular]
    BY <2>1 DEF Till, Papers, Given
  <2> QED BY <2>2 DEF Book!vars
<1>2. ASSUME NEW r \in Requests, Receive(r) PROVE UNCHANGED moneyVars
  BY <1>2, ReceiveSends DEF Send
<1>3. ASSUME NEW r \in Requests, Abandon(r) PROVE UNCHANGED moneyVars
  BY <1>3 DEF Abandon
<1>4. ASSUME NEW r \in Requests, Step(r), ~ Commit(r) PROVE UNCHANGED moneyVars
  BY <1>3, <1>4 DEF Step, CheckNoReturns, CheckStillThere, ReadLines, ReadCustomer, ReadSafes, Lock
<1>5. CASE UNCHANGED vars
  BY <1>1, <1>5 DEF vars, moneyVars
<1> QED BY <1>1, <1>2, <1>3, <1>4, <1>5, CommitImplementsBook DEF Next, Quiescent, Fail, DeadlockVictim

\* The handlers implement the account of a customer whose requests do not overlap
\* and whose safes nobody else pays into: though the balance of the customer and
\* the safes are read without a lock and written back, each document moves both by
\* what it says, in one step, and cancelling and deleting undo exactly that.
THEOREM MoneyImplementsBook ==
  ASSUME OrderlyHome
  PROVE  Spec => ImplementsCustomerBook
<1>1. Init => Book!Init /\ TypeOK /\ DebtInv /\ HomeInv
  <2> SUFFICES ASSUME Init PROVE Book!Init
    BY InitTypeOK, InitDebtInv, InitHomeInv
  <2>1. debt[Regular] = 0 /\ Given = {}
    BY MoneyAssumption DEF Init, Given
  <2>2. Till = [s \in Home |-> Opening[s]] /\ Papers = [d \in DocsOf(Regular) |-> "none"]
    BY MoneyAssumption DEF Init, Till, Papers, DocsOf
  <2> QED BY <2>1, <2>2 DEF Book!Init
<1>2. TypeOK /\ DebtInv /\ HomeInv /\ [Next]_vars
        => (TypeOK /\ DebtInv /\ HomeInv)' /\ [Book!Next]_(Book!vars)
  BY NextTypeOK, NextDebtInv, NextHomeInv, NextImplementsBook
<1> QED BY <1>1, <1>2, PTL DEF Spec, ImplementsCustomerBook, Book!Spec

=============================================================================
