---------------------------- MODULE GeneralLedger ----------------------------
(***************************************************************************)
(* The journal and the balances of its accounts: entries made by hand,     *)
(* the monthly depreciation and the disposal of fixed assets, the monthly  *)
(* recognition of accruals, and the repair of the balances.                *)
(*                                                                         *)
(* Only the reversal of an entry and the recognition are transactions.     *)
(* All other statements commit one by one.  A transaction is one step from *)
(* its first UPDATE on.                                                    *)
(***************************************************************************)
EXTENDS Integers, Sequences, FiniteSets, FiniteSetsExt, Functions

CONSTANTS
  Accounts,         \* the accounts
  CreditNormal,     \* the liability, equity and revenue accounts
  Manual,           \* the entries made by hand
  Lines,            \* Lines[m]: the lines of entry m, debits above and credits below zero
  Assets, Accruals, \* what is charged month by month
  Limit,            \* Limit[x]: what may be charged for x in all
  Portion,          \* Portion[x][u]: a month's charge when u has been charged
  Debit, Credit,    \* the accounts a charge for x is posted to
  Cost,             \* Cost[x]: purchase_cost of asset x
  AssetAccount,     \* AssetAccount[x]: the account of asset x
  Proceeds, Gain, Loss, \* the other accounts of a disposal
  Prices,           \* what an asset may be sold for
  Months,           \* the periods
  Shared,           \* documents whose requests may overlap in time
  Flaky,            \* documents a request for which may stop between its statements
  Repaired,         \* the accounts of the companies that have their balances repaired
  MaxSent,          \* bound: requests sent
  Clerks          \* the requests in progress at a time

Schedules == Assets \cup Accruals
Documents == Manual \cup Schedules
EntryLine == [account : Accounts, amount : Int \ {0}]

ASSUME LedgerAssumption ==
  /\ IsFiniteSet(Documents) /\ Documents # {} /\ Months # {} /\ IsFiniteSet(Clerks)
  /\ Manual \cap Schedules = {} /\ Assets \cap Accruals = {}
  /\ CreditNormal \subseteq Accounts
  /\ Lines \in [Manual -> Seq(EntryLine)]
  /\ Limit \in [Schedules -> Nat \ {0}]
  /\ \A x \in Schedules : \A u \in 0..Limit[x] - 1 : Portion[x][u] \in Nat \ {0}
  /\ Debit \in [Schedules -> Accounts] /\ Credit \in [Schedules -> Accounts]
  /\ Cost \in [Assets -> Nat \ {0}] /\ \A x \in Assets : Limit[x] <= Cost[x]
  /\ AssetAccount \in [Assets -> Accounts]
  /\ {Proceeds, Gain, Loss} \subseteq Accounts
  /\ Prices \subseteq Nat
  /\ Shared \subseteq Documents /\ Flaky \subseteq Documents
  /\ Repaired \subseteq Accounts
  /\ MaxSent \in Nat

VARIABLES
  status,   \* status[m]: journal_entries.status; "none" before and "deleted" after
  lined,    \* lined[m]: the lines of entry m are in the table
  ledger,   \* ledger[a]: the sum of the lines of account a in all other entries
  balance,  \* balance[a]: accounts.current_balance
  state,    \* state[x]: the status of asset or accrual x
  used,     \* used[x]: accumulated_depreciation or amount_recognized
  charged,  \* charged[x]: the sum of the entries that charge x
  times,    \* times[x][p]: the rows of depreciation_runs or accrual_runs
  asked, next,  \* asked[r], next[r]: what request r asks for and its next statement
  sent      \* requests sent so far

entryVars == <<status, lined>>
bookVars == <<ledger, balance>>
scheduleVars == <<state, used, charged, times>>
journalVars == <<entryVars, bookVars, scheduleVars, asked, next, sent>>

-----------------------------------------------------------------------------
(* Lines *)

LineFor(a, n) == [account |-> a, amount |-> n]

\* What the lines do to account a.
Change(l, a) == IF l.account = a THEN l.amount ELSE 0
Changes(lines, a) == [i \in DOMAIN lines |-> Change(lines[i], a)]
Total(lines, a) == SumFunctionOnSet(Changes(lines, a), DOMAIN lines)

\* By hand an account grows on its normal side.
Sign(a) == IF a \in CreditNormal THEN -1 ELSE 1

LinesOf(m) == IF lined[m] THEN Lines[m] ELSE <<>>

ChargeLines(x, amount) == <<LineFor(Debit[x], amount), LineFor(Credit[x], -amount)>>

\* An account whose balance does not change has no line.
LineUnlessZero(a, n) == IF n = 0 THEN <<>> ELSE <<LineFor(a, n)>>

GainOrLoss(n) == LineUnlessZero(IF n > 0 THEN Gain ELSE Loss, -n)

\* Mutant: the accumulated depreciation is left where it is.
DisposalAtCost(x, accumulated, proceeds) ==
  LineUnlessZero(AssetAccount[x], -Cost[x]) \o LineUnlessZero(Proceeds, proceeds)
    \o GainOrLoss(proceeds - Cost[x])

\* The accumulated depreciation and the cost are taken out; the rest of the price is a gain or a loss.
DisposalLines(x, accumulated, proceeds) ==
  LineUnlessZero(Credit[x], accumulated) \o LineUnlessZero(AssetAccount[x], -Cost[x])
    \o LineUnlessZero(Proceeds, proceeds) \o GainOrLoss(proceeds - (Cost[x] - accumulated))

-----------------------------------------------------------------------------
(* Requests *)

Idle(r) == next[r] = "idle"
Subject(r) == asked[r].doc
Goto(r, statement) == next' = [next EXCEPT ![r] = statement]
Unattended(d) == \A r \in Clerks : Idle(r) \/ Subject(r) # d
Alone(d) == d \in Shared \/ Unattended(d)

Ask(kind, d) ==
  [kind |-> kind, doc |-> d, to |-> "draft", month |-> CHOOSE p \in Months : TRUE,
   amount |-> 0, base |-> 0, lines |-> <<>>, seen |-> [a \in Accounts |-> 0]]

\* What is remembered of a request that was answered.
Rest == Ask("post", CHOOSE d \in Documents : TRUE)
Answer(r) == Goto(r, "idle") /\ asked' = [asked EXCEPT ![r] = Rest] /\ UNCHANGED sent

Send(r, request, first) ==
  /\ Idle(r)
  /\ sent < MaxSent
  /\ Alone(request.doc)
  /\ asked' = [asked EXCEPT ![r] = request]
  /\ Goto(r, first)
  /\ sent' = sent + 1
  /\ UNCHANGED <<entryVars, bookVars, scheduleVars>>

\* An error, a timeout or a crash; what was committed before stays.
Abandon(r) == Answer(r) /\ UNCHANGED <<entryVars, bookVars, scheduleVars>>
Midway(r) ==
  \/ next[r] \in {"lines", "write", "header", "add", "accumulate", "run", "close"}
  \/ next[r] = "fetch" /\ asked[r].kind \in {"enter", "post"}
BreakOff(r) == ~ Idle(r) /\ (Midway(r) => Subject(r) \in Flaky) /\ Abandon(r)

-----------------------------------------------------------------------------
(* Entries made by hand *)

ReceiveEntry(r, m, to) ==
  /\ status[m] = "none" /\ Unattended(m)
  /\ Send(r, [Ask("enter", m) EXCEPT !.to = to, !.lines = Lines[m]], "enter")

InsertEntry(r) ==
  /\ next[r] = "enter"
  /\ status' = [status EXCEPT ![Subject(r)] = asked[r].to]
  /\ Goto(r, "fetch")
  /\ UNCHANGED <<lined, bookVars, scheduleVars, asked, sent>>

\* The page offers to post a draft it has loaded; the handler posts whatever is there.
ReceivePost(r, m) ==
  /\ status[m] = "draft" \/ (m \in Shared /\ status[m] # "none")
  /\ Send(r, Ask("post", m), "post")

SetPosted(r) ==
  /\ next[r] = "post"
  /\ status[Subject(r)] # "deleted"
  /\ status' = [status EXCEPT ![Subject(r)] = "posted"]
  /\ Goto(r, "fetch")
  /\ UNCHANGED <<lined, bookVars, scheduleVars, asked, sent>>

\* The balances are read before the first is written, without a lock.
FetchAccounts(r) ==
  LET kind == asked[r].kind
      lines == IF kind = "post" THEN LinesOf(Subject(r)) ELSE asked[r].lines
  IN /\ next[r] = "fetch"
     /\ IF lines = <<>>
        THEN Answer(r)
        ELSE /\ asked' = [asked EXCEPT ![r].seen = balance, ![r].lines = lines]
             /\ Goto(r, CASE kind = "enter" -> "lines" [] kind = "post" -> "write"
                          [] OTHER -> "reverse")
             /\ UNCHANGED sent
     /\ UNCHANGED <<entryVars, bookVars, scheduleVars>>

\* The foreign key refuses lines of an entry that is gone; only a posted entry
\* goes on to the balances.
InsertLines(r) ==
  /\ next[r] = "lines"
  /\ status[Subject(r)] # "deleted"
  /\ lined' = [lined EXCEPT ![Subject(r)] = TRUE]
  /\ IF asked[r].to = "posted" THEN Goto(r, "write") /\ UNCHANGED <<asked, sent>> ELSE Answer(r)
  /\ UNCHANGED <<status, bookVars, scheduleVars>>

\* One absolute write per line, from the balance that was read.
WriteAccount(r) ==
  LET l == Head(asked[r].lines)
      new == asked[r].seen[l.account] + Sign(l.account) * l.amount
  IN /\ next[r] = "write"
     /\ balance' = [balance EXCEPT ![l.account] = new]
     /\ IF Len(asked[r].lines) = 1
        THEN Answer(r)
        ELSE /\ asked' = [asked EXCEPT ![r].lines = Tail(@), ![r].seen[l.account] = new]
             /\ UNCHANGED <<next, sent>>
     /\ UNCHANGED <<entryVars, ledger, scheduleVars>>

ReceiveReversal(r, m) ==
  /\ status[m] = "posted"
  /\ lined[m]
  /\ Send(r, [Ask("reverse", m) EXCEPT !.lines = Lines[m]], "fetch")

\* The transaction of the reversal; the UPDATE of the entry names it by its id alone.
ReverseEntry(r) ==
  LET lines == asked[r].lines seen == asked[r].seen
  IN /\ next[r] = "reverse"
     /\ ledger' = [a \in Accounts |-> ledger[a] - Total(lines, a)]
     /\ balance' = [a \in Accounts |->
          IF \E i \in DOMAIN lines : lines[i].account = a
          THEN seen[a] - Sign(a) * Total(lines, a) ELSE balance[a]]
     /\ status' = [status EXCEPT ![Subject(r)] = IF @ = "deleted" THEN @ ELSE "reversed"]
     /\ Answer(r)
     /\ UNCHANGED <<lined, scheduleVars>>

\* The status is read once; the page offers to delete drafts only.
ReceiveDelete(r, m) ==
  /\ status[m] = "draft" \/ (m \in Shared /\ status[m] = "reversed")
  /\ Send(r, Ask("delete", m), "delete")

DeleteLines(r) ==
  /\ next[r] = "delete"
  /\ lined' = [lined EXCEPT ![Subject(r)] = FALSE]
  /\ Goto(r, "header")
  /\ UNCHANGED <<status, bookVars, scheduleVars, asked, sent>>

\* The foreign key keeps an entry that has got lines meanwhile.
DeleteEntry(r) ==
  /\ next[r] = "header"
  /\ status' = IF lined[Subject(r)] THEN status ELSE [status EXCEPT ![Subject(r)] = "deleted"]
  /\ Answer(r)
  /\ UNCHANGED <<lined, bookVars, scheduleVars>>

\* A row that is gone: the request is answered with an error.
EntryGone(r) ==
  /\ next[r] \in {"post", "lines"}
  /\ status[Subject(r)] = "deleted"
  /\ Abandon(r)

-----------------------------------------------------------------------------
(* Charges month by month *)

\* Mutant: the last charge is as high as the others.
FullAmount(x) == Portion[x][used[x]]

\* A month's charge, at most the rest.
Amount(x) ==
  LET rest == Limit[x] - used[x] IN IF Portion[x][used[x]] < rest THEN Portion[x][used[x]] ELSE rest

\* Mutant: the month is not looked up in the runs.
ReceiveAnyCharge(r, x, p) ==
  /\ state[x] = "active"
  /\ used[x] < Limit[x]
  /\ Send(r, [Ask("charge", x) EXCEPT !.month = p, !.amount = Amount(x), !.base = used[x],
                !.lines = ChargeLines(x, Amount(x))],
          IF x \in Assets THEN "entry" ELSE "recognize")

\* Row and runs are read once, before the first write.
ReceiveCharge(r, x, p) ==
  /\ state[x] = "active"
  /\ times[x][p] = 0
  /\ used[x] < Limit[x]
  /\ Send(r, [Ask("charge", x) EXCEPT !.month = p, !.amount = Amount(x), !.base = used[x],
                !.lines = ChargeLines(x, Amount(x))],
          IF x \in Assets THEN "entry" ELSE "recognize")

\* postEntry: the entry with its lines (an entry that has none yet holds no amount) ...
PostEntry(r) ==
  /\ next[r] = "entry"
  /\ ledger' = [a \in Accounts |-> ledger[a] + Total(asked[r].lines, a)]
  /\ charged' = [charged EXCEPT ![Subject(r)] = @ + asked[r].amount]
  /\ Goto(r, "add")
  /\ UNCHANGED <<entryVars, balance, state, used, times, asked, sent>>

\* ... then the accounts, one relative UPDATE each.
AddToAccount(r) ==
  LET l == Head(asked[r].lines)
  IN /\ next[r] = "add"
     /\ balance' = [balance EXCEPT ![l.account] = @ + l.amount]
     /\ asked' = [asked EXCEPT ![r].lines = Tail(@)]
     /\ IF Len(asked[r].lines) > 1 THEN UNCHANGED next
        ELSE Goto(r, IF asked[r].kind = "charge" THEN "accumulate" ELSE "close")
     /\ UNCHANGED <<entryVars, ledger, scheduleVars, sent>>

\* Mutant: what is left is recorded as what was charged.
AccumulateDown(r) ==
  /\ next[r] = "accumulate"
  /\ used' = [used EXCEPT ![Subject(r)] = asked[r].base - asked[r].amount]
  /\ Goto(r, "run")
  /\ UNCHANGED <<entryVars, bookVars, state, charged, times, asked, sent>>

\* The accumulated depreciation is what was read and the charge.
Accumulate(r) ==
  /\ next[r] = "accumulate"
  /\ used' = [used EXCEPT ![Subject(r)] = asked[r].base + asked[r].amount]
  /\ Goto(r, "run")
  /\ UNCHANGED <<entryVars, bookVars, state, charged, times, asked, sent>>

InsertRun(r) ==
  /\ next[r] = "run"
  /\ times' = [times EXCEPT ![Subject(r)][asked[r].month] = @ + 1]
  /\ Answer(r)
  /\ UNCHANGED <<entryVars, bookVars, state, used, charged>>

\* Mutant: the accounts grow on their normal side, as they do by hand.
PostNaturally(lines) ==
  /\ ledger' = [a \in Accounts |-> ledger[a] + Total(lines, a)]
  /\ balance' = [a \in Accounts |-> balance[a] + Sign(a) * Total(lines, a)]

\* Entry, lines and relative UPDATEs of the accounts in one transaction.
PostAtOnce(lines) ==
  /\ ledger' = [a \in Accounts |-> ledger[a] + Total(lines, a)]
  /\ balance' = [a \in Accounts |-> balance[a] + Total(lines, a)]

\* The transaction of the recognition; the foreign key refuses a run of an accrual
\* that is gone.
Recognize(r) ==
  LET x == Subject(r) now == asked[r].base + asked[r].amount
  IN /\ next[r] = "recognize"
     /\ state[x] # "deleted"
     /\ PostAtOnce(asked[r].lines)
     /\ charged' = [charged EXCEPT ![x] = @ + asked[r].amount]
     /\ used' = [used EXCEPT ![x] = now]
     /\ state' = [state EXCEPT ![x] = IF now = Limit[x] THEN "completed" ELSE "active"]
     /\ times' = [times EXCEPT ![x][asked[r].month] = @ + 1]
     /\ Answer(r)
     /\ UNCHANGED entryVars

ReceiveDisposal(r, x, price) ==
  /\ state[x] = "active"
  /\ Send(r, [Ask("dispose", x) EXCEPT !.lines = DisposalLines(x, used[x], price)], "entry")

Close(r) ==
  /\ next[r] = "close"
  /\ state' = [state EXCEPT ![Subject(r)] = "disposed"]
  /\ Answer(r)
  /\ UNCHANGED <<entryVars, bookVars, used, charged, times>>

ReceiveRemoval(r, x) ==
  /\ state[x] \in {"active", "completed"}
  /\ used[x] = 0
  /\ Send(r, Ask("remove", x), "remove")

\* The foreign key keeps an accrual that has runs.
RemoveAccrual(r) ==
  LET x == Subject(r)
  IN /\ next[r] = "remove"
     /\ state' = IF \A p \in Months : times[x][p] = 0
                 THEN [state EXCEPT ![x] = "deleted"] ELSE state
     /\ Answer(r)
     /\ UNCHANGED <<entryVars, bookVars, used, charged, times>>

AccrualGone(r) == next[r] = "recognize" /\ state[Subject(r)] = "deleted" /\ Abandon(r)

-----------------------------------------------------------------------------
(* The repair of the balances *)

\* What the lines of all entries do to account a.  The status of the entry is asked
\* for in a LEFT JOIN, which keeps the lines of drafts.
Recounted(a) ==
  ledger[a] + SumFunctionOnSet([m \in Manual |-> Total(LinesOf(m), a)], Manual)

\* Mutant: the accounts are counted on their normal side.
RepairNaturally ==
  /\ Repaired # {} /\ sent < MaxSent
  /\ balance' = [a \in Accounts |-> IF a \in Repaired THEN Sign(a) * Recounted(a) ELSE balance[a]]
  /\ sent' = sent + 1
  /\ UNCHANGED <<entryVars, ledger, scheduleVars, asked, next>>

\* One UPDATE of all accounts of the company whose balance is not what their lines add
\* up to.
Repair ==
  /\ Repaired # {} /\ sent < MaxSent
  /\ balance' = [a \in Accounts |-> IF a \in Repaired THEN Recounted(a) ELSE balance[a]]
  /\ sent' = sent + 1
  /\ UNCHANGED <<entryVars, ledger, scheduleVars, asked, next>>

-----------------------------------------------------------------------------
\* Assets and accruals as they are created, with their accounts, which are taken by
\* their codes if they exist.  The creation posts nothing.
JournalInit ==
  /\ status = [m \in Manual |-> "none"]
  /\ lined = [m \in Manual |-> FALSE]
  /\ ledger = [a \in Accounts |-> 0]
  /\ balance = [a \in Accounts |-> 0]
  /\ state = [x \in Schedules |-> "active"]
  /\ used = [x \in Schedules |-> 0]
  /\ charged = [x \in Schedules |-> 0]
  /\ times = [x \in Schedules |-> [p \in Months |-> 0]]
  /\ asked = [r \in Clerks |-> Rest]
  /\ next = [r \in Clerks |-> "idle"]
  /\ sent = 0

Accept(r) ==
  \/ \E m \in Manual : \/ \E to \in {"draft", "posted"} : ReceiveEntry(r, m, to)
                       \/ ReceivePost(r, m) \/ ReceiveReversal(r, m) \/ ReceiveDelete(r, m)
  \/ \E x \in Schedules, p \in Months : ReceiveCharge(r, x, p)
  \/ \E x \in Assets, price \in Prices : ReceiveDisposal(r, x, price)
  \/ \E x \in Accruals : ReceiveRemoval(r, x)

Proceed(r) ==
  \/ InsertEntry(r) \/ SetPosted(r) \/ FetchAccounts(r) \/ InsertLines(r) \/ WriteAccount(r)
  \/ ReverseEntry(r) \/ DeleteLines(r) \/ DeleteEntry(r) \/ EntryGone(r)
  \/ PostEntry(r) \/ AddToAccount(r) \/ Accumulate(r) \/ InsertRun(r)
  \/ Recognize(r) \/ Close(r) \/ RemoveAccrual(r) \/ AccrualGone(r)

\* The clients have sent all they may: nothing is left to do.
BooksAtRest == (\A r \in Clerks : Idle(r)) /\ UNCHANGED journalVars

JournalNext ==
  \/ \E r \in Clerks : Accept(r) \/ Proceed(r) \/ BreakOff(r)
  \/ Repair
  \/ BooksAtRest

JournalSpec == JournalInit /\ [][JournalNext]_journalVars

-----------------------------------------------------------------------------
(* Properties *)

Statements ==
  {"idle", "enter", "fetch", "lines", "write", "post", "reverse", "delete", "header", "entry",
   "add", "accumulate", "run", "close", "recognize", "remove"}

JournalTypeOK ==
  /\ status \in [Manual -> {"none", "draft", "posted", "reversed", "deleted"}]
  /\ lined \in [Manual -> BOOLEAN]
  /\ ledger \in [Accounts -> Int] /\ balance \in [Accounts -> Int]
  /\ state \in [Schedules -> {"active", "completed", "disposed", "deleted"}]
  /\ used \in [Schedules -> Nat] /\ charged \in [Schedules -> Nat]
  /\ times \in [Schedules -> [Months -> Nat]]
  /\ asked \in [Clerks ->
       [kind : {"enter", "post", "reverse", "delete", "charge", "dispose", "remove"},
        doc : Documents, to : {"draft", "posted"}, month : Months, amount : Nat, base : Nat,
        lines : Seq(EntryLine), seen : [Accounts -> Int]]]
  /\ next \in [Clerks -> Statements]
  /\ sent \in 0..MaxSent

\* A draft has moved no balance yet: the entries that are posted or reversed count.
Counted(a) ==
  [m \in Manual |-> IF status[m] \in {"posted", "reversed"} THEN Total(LinesOf(m), a) ELSE 0]
Posted(a) == ledger[a] + SumFunctionOnSet(Counted(a), Manual)

\* The accounts document d writes.
Touched(d) ==
  IF d \in Manual THEN {Lines[d][i].account : i \in DOMAIN Lines[d]}
  ELSE {Debit[d], Credit[d]} \cup IF d \in Assets THEN {AssetAccount[d], Proceeds, Gain, Loss} ELSE {}
Writers(a) == {d \in Documents : a \in Touched(d)}

Calm(a) == \A d \in Writers(a) : Unattended(d)

\* Accounts with relative writes alone, none of which is left out by an interruption,
\* and debit-normal accounts of one entry that one person handles at a time.  A repair
\* counts drafts, and what a depreciation in progress has still to add, a second time:
\* where balances are repaired, only the transactions of accruals are exact.
ExactAccount(a) ==
  \/ Writers(a) \subseteq Accruals
  \/ a \notin Repaired /\ Writers(a) \subseteq Accruals \cup (Assets \ Flaky)
  \/ a \notin CreditNormal \cup Repaired
       /\ \E m \in Manual \ (Shared \cup Flaky) : Writers(a) = {m}
ExactAccounts == {a \in Accounts : ExactAccount(a)}

\* What a balance stands for, the lines "after each entry is posted" (integrity.ts:87):
\* the balance of an exact account is the sum of its posted lines whenever no request
\* for it is in progress, even when depreciations, disposals and recognitions that share
\* it overlap.
AccountsAddUp ==
  \A a \in ExactAccounts : Calm(a) => balance[a] = Posted(a)

\* "current_balance = SUM(debit) - SUM(credit)" (integrity.ts:89) of posted lines, for
\* every account.  It fails for credit-normal accounts of entries made by hand, for
\* entries that two people post, and after a repair that finds a draft.
EveryAccountAddsUp ==
  \A a \in Accounts : Calm(a) => balance[a] = Posted(a)

Steady == Schedules \ (Shared \cup (Assets \cap Flaky))

\* A recorded depreciation or recognition is in the journal, wherever requests overlap
\* or stop, and never more than there is to charge; if they do not, the record says what
\* the journal says, once per month, and an accrual is completed with the last of it.
ChargesAddUp ==
  /\ \A x \in Schedules : used[x] <= charged[x] /\ used[x] <= Limit[x]
  /\ \A x \in Steady :
       Unattended(x) =>
         /\ used[x] = charged[x]
         /\ \A p \in Months : times[x][p] <= 1
         /\ x \in Accruals => (state[x] = "completed" <=> used[x] = Limit[x])

\* Only charges and disposals of assets post to account a, and only what they accumulate.
Accumulates(a) ==
  \A x \in Writers(a) :
    x \in Assets /\ Credit[x] = a /\ a \notin {Debit[x], AssetAccount[x], Proceeds, Gain, Loss}
DepreciationAccounts == {a \in Accounts : Accumulates(a) /\ Writers(a) \subseteq Steady}

\* The accounts of an asset are named by its code (fixed-assets.ts:224), which other
\* assets may have too: an account of accumulated depreciation holds what was
\* accumulated for those of them that are not disposed of.
BookValueInJournal ==
  \A a \in DepreciationAccounts :
    Calm(a) => -Posted(a) = SumFunctionOnSet(used, {x \in Writers(a) : state[x] # "disposed"})

\* A month of schedule x is charged with its entry, the record may follow.
Charging(r, x, p) ==
  /\ next[r] \in {"add", "accumulate", "run"} /\ asked[r].kind = "charge"
  /\ Subject(r) = x /\ asked[r].month = p
Booked == [x \in Steady |-> charged[x]]
MonthsBooked ==
  [x \in Steady |-> {p \in Months : times[x][p] > 0 \/ \E r \in Clerks : Charging(r, x, p)}]
StillOpen == [x \in Steady |-> state[x] = "active"]

\* Every schedule whose requests do not overlap nor stop half-way is charged as planned.
Plan == INSTANCE ChargePlan WITH
          Schedules <- Steady, charged <- Booked, months <- MonthsBooked, open <- StillOpen
ImplementsChargePlan == Plan!Spec

=============================================================================
