--------------------------- MODULE ConnectionPool ---------------------------
(***************************************************************************)
(* The connections of the server.  The pool owns a few; every              *)
(* authentication of a request borrows one to look the user up, then pins  *)
(* one until the response ends, sets the company of the user on it for the *)
(* row policies of PostgreSQL, and clears it before it goes back.  The     *)
(* handler does not use the pinned connections: it borrows others.  A      *)
(* request whose route is mounted behind a router that authenticates again *)
(* is authenticated, and pins a connection, as many times.                 *)
(***************************************************************************)
EXTENDS Integers, FiniteSets

CONSTANTS
  Conns,        \* the connections of the pool
  HttpRequests, \* the requests the server works on at a time
  Companies,
  CompanyOf,    \* CompanyOf[r]: the company of the user who sends request r
  Layers,       \* Layers[r]: how many times request r is authenticated
  Needs,        \* Needs[r]: connections its handler uses at a time
  Leavers,      \* requests whose response may end before they are authenticated
  MaxSent       \* bound: requests sent

None == "none"

ASSUME PoolAssumption ==
  /\ IsFiniteSet(Conns)
  /\ CompanyOf \in [HttpRequests -> Companies]
  /\ None \notin Companies
  /\ Layers \in [HttpRequests -> Nat \ {0}]
  /\ Needs \in [HttpRequests -> Nat \ {0}]
  /\ Leavers \subseteq HttpRequests
  /\ MaxSent \in Nat

VARIABLES
  free,         \* the idle connections of the pool
  pinned,       \* pinned[r]: the connections r has pinned
  watched,      \* watched[r]: those of them a listener on the response will release
  clearing,     \* clearing[r]: those that are being cleared to be released
  borrowed,     \* borrowed[r]: the connections r has borrowed for a query or a transaction
  company,      \* company[c]: app.current_company_id of connection c
  phase,        \* phase[r]: what request r does next
  layer,        \* layer[r]: how many authentications r has behind it
  response,     \* response[r]: "open", "finished" or "closed"
  fallback,     \* fallback[r]: a pin of r failed and its context is being set on the pool
  openly,       \* a context was set on the pool
  sent          \* requests sent so far

poolVars == <<free, pinned, watched, clearing, borrowed, company, phase, layer, response,
              fallback, openly, sent>>

Goto(r, step) == phase' = [phase EXCEPT ![r] = step]

-----------------------------------------------------------------------------
(* Authentication *)

\* The client sends a request when the one before has been dealt with.
Arrive(r) ==
  /\ phase[r] = "done" /\ ~ fallback[r]
  /\ pinned[r] = {} /\ clearing[r] = {}
  /\ sent < MaxSent
  /\ sent' = sent + 1
  /\ Goto(r, "lookup")
  /\ response' = [response EXCEPT ![r] = "open"]
  /\ layer' = [layer EXCEPT ![r] = 0]
  /\ UNCHANGED <<free, pinned, watched, clearing, borrowed, company, fallback, openly>>

\* A query, or a transaction, takes an idle connection.
Borrow(r) ==
  /\ phase[r] \in {"lookup", "handler"}
  /\ \E c \in free :
       /\ free' = free \ {c}
       /\ borrowed' = [borrowed EXCEPT ![r] = @ \cup {c}]
  /\ IF phase[r] = "lookup" THEN Goto(r, "looking")
     ELSE IF Cardinality(borrowed[r]) + 1 = Needs[r] THEN Goto(r, "working")
     ELSE UNCHANGED phase
  /\ UNCHANGED <<pinned, watched, clearing, company, layer, response, fallback, openly, sent>>

GiveBack(r) ==
  /\ free' = free \cup borrowed[r]
  /\ borrowed' = [borrowed EXCEPT ![r] = {}]

LookedUp(r) ==
  /\ phase[r] = "looking"
  /\ GiveBack(r)
  /\ Goto(r, "pin")
  /\ UNCHANGED <<pinned, watched, clearing, company, layer, response, fallback, openly, sent>>

Pin(r) ==
  /\ phase[r] = "pin"
  /\ \E c \in free :
       /\ free' = free \ {c}
       /\ pinned' = [pinned EXCEPT ![r] = @ \cup {c}]
       /\ company' = [company EXCEPT ![c] = CompanyOf[r]]
  /\ Goto(r, "listen")
  /\ UNCHANGED <<watched, clearing, borrowed, layer, response, fallback, openly, sent>>

NextLayer(r) ==
  /\ layer' = [layer EXCEPT ![r] = @ + 1]
  /\ Goto(r, IF layer[r] + 1 = Layers[r] THEN "handler" ELSE "lookup")

\* The listeners are set after the context; an end of the response that came before
\* is not heard.
Listen(r) ==
  /\ phase[r] = "listen"
  /\ watched' = IF response[r] = "open" THEN [watched EXCEPT ![r] = pinned[r]] ELSE watched
  /\ NextLayer(r)
  /\ UNCHANGED <<free, pinned, clearing, borrowed, company, response, fallback, openly, sent>>

\* connectionTimeoutMillis: no connection became idle in time.  The request goes on
\* without a pin, and its context is set on whatever connection the pool gives.
TimeoutPin(r) ==
  /\ phase[r] = "pin"
  /\ free = {}
  /\ fallback' = [fallback EXCEPT ![r] = TRUE]
  /\ NextLayer(r)
  /\ UNCHANGED <<free, pinned, watched, clearing, borrowed, company, response, openly, sent>>

SetContextOnPool(r) ==
  /\ fallback[r]
  /\ fallback' = [fallback EXCEPT ![r] = FALSE]
  /\ \/ /\ \E c \in free : company' = [company EXCEPT ![c] = CompanyOf[r]]
        /\ openly' = TRUE
     \/ free = {} /\ UNCHANGED <<company, openly>>
  /\ UNCHANGED <<free, pinned, watched, clearing, borrowed, phase, layer, response, sent>>

-----------------------------------------------------------------------------
(* The handler and the response *)

\* Mutant: a request waits for a connection as long as it takes.
WaitOn(r) == phase[r] \in {"lookup", "handler"} /\ free = {} /\ UNCHANGED poolVars

\* The wait for a connection ends with an error, which is answered with status 500.
TimeoutBorrow(r) ==
  /\ phase[r] \in {"lookup", "handler"}
  /\ free = {}
  /\ GiveBack(r)
  /\ Goto(r, "answer")
  /\ UNCHANGED <<pinned, watched, clearing, company, layer, response, fallback, openly, sent>>

Worked(r) ==
  /\ phase[r] = "working"
  /\ GiveBack(r)
  /\ Goto(r, "answer")
  /\ UNCHANGED <<pinned, watched, clearing, company, layer, response, fallback, openly, sent>>

\* Mutant: the second event of a response releases its connections again.
EndTwice(r, event) ==
  /\ response' = [response EXCEPT ![r] = event]
  /\ clearing' = [clearing EXCEPT ![r] = @ \cup watched[r]]
  /\ pinned' = [pinned EXCEPT ![r] = @ \ watched[r]]
  /\ UNCHANGED watched

\* "finish" and "close" call the same listener, which works once.
End(r, event) ==
  /\ response' = [response EXCEPT ![r] = event]
  /\ clearing' = [clearing EXCEPT ![r] = @ \cup watched[r]]
  /\ pinned' = [pinned EXCEPT ![r] = @ \ watched[r]]
  /\ watched' = [watched EXCEPT ![r] = {}]

\* An answer to a client that has left, or that was told the time is up, goes nowhere.
Answer(r) ==
  /\ phase[r] = "answer"
  /\ Goto(r, "done")
  /\ IF response[r] = "open" THEN End(r, "finished")
     ELSE UNCHANGED <<response, clearing, pinned, watched>>
  /\ UNCHANGED <<free, borrowed, company, layer, fallback, openly, sent>>

\* The client leaves, or the request has taken 30 seconds and is answered with 503,
\* while its handler works on.
EndEarly(r) ==
  /\ response[r] = "open"
  /\ \/ phase[r] \in {"handler", "working"}
     \/ r \in Leavers /\ phase[r] # "done"
  /\ \E event \in {"finished", "closed"} : End(r, event)
  /\ UNCHANGED <<free, borrowed, company, phase, layer, fallback, openly, sent>>

\* The socket closes after the response was finished.
Close(r) ==
  /\ response[r] = "finished"
  /\ End(r, "closed")
  /\ UNCHANGED <<free, borrowed, company, phase, layer, fallback, openly, sent>>

\* Mutant: the context stays on the connection that is released.
ReleaseOnly(r) ==
  /\ \E c \in clearing[r] :
       /\ free' = free \cup {c}
       /\ clearing' = [clearing EXCEPT ![r] = @ \ {c}]
  /\ UNCHANGED <<pinned, watched, borrowed, company, phase, layer, response, fallback,
                 openly, sent>>

ClearAndRelease(r) ==
  /\ \E c \in clearing[r] :
       /\ company' = [company EXCEPT ![c] = None]
       /\ free' = free \cup {c}
       /\ clearing' = [clearing EXCEPT ![r] = @ \ {c}]
  /\ UNCHANGED <<pinned, watched, borrowed, phase, layer, response, fallback, openly, sent>>

-----------------------------------------------------------------------------
PoolInit ==
  /\ free = Conns
  /\ pinned = [r \in HttpRequests |-> {}]
  /\ watched = [r \in HttpRequests |-> {}]
  /\ clearing = [r \in HttpRequests |-> {}]
  /\ borrowed = [r \in HttpRequests |-> {}]
  /\ company = [c \in Conns |-> None]
  /\ phase = [r \in HttpRequests |-> "done"]
  /\ layer = [r \in HttpRequests |-> 0]
  /\ response = [r \in HttpRequests |-> "closed"]
  /\ fallback = [r \in HttpRequests |-> FALSE]
  /\ openly = FALSE
  /\ sent = 0

\* What the server does by itself: it is never stopped for ever, and its timers ring.
Work(r) ==
  \/ Borrow(r) \/ LookedUp(r) \/ Pin(r) \/ Listen(r) \/ TimeoutPin(r) \/ SetContextOnPool(r)
  \/ TimeoutBorrow(r) \/ Worked(r) \/ Answer(r) \/ ClearAndRelease(r)

\* The clients have sent all they may: nothing is left to do.
PoolQuiescent ==
  /\ sent = MaxSent
  /\ \A r \in HttpRequests : phase[r] = "done" /\ response[r] = "closed" /\ clearing[r] = {}
  /\ UNCHANGED poolVars

PoolNext ==
  \/ \E r \in HttpRequests : Arrive(r) \/ Work(r) \/ EndEarly(r) \/ Close(r)
  \/ PoolQuiescent

PoolFairness == \A r \in HttpRequests : WF_poolVars(Work(r))

PoolSpec == PoolInit /\ [][PoolNext]_poolVars /\ PoolFairness

-----------------------------------------------------------------------------
(* Properties *)

Holds(r) == pinned[r] \cup clearing[r] \cup borrowed[r]

PoolTypeOK ==
  /\ free \subseteq Conns
  /\ \A f \in {pinned, watched, clearing, borrowed} : f \in [HttpRequests -> SUBSET Conns]
  /\ company \in [Conns -> Companies \cup {None}]
  /\ phase \in [HttpRequests -> {"done", "lookup", "looking", "pin", "listen", "handler", "working",
                          "answer"}]
  /\ layer \in [HttpRequests -> Nat] /\ \A r \in HttpRequests : layer[r] <= Layers[r]
  /\ response \in [HttpRequests -> {"open", "finished", "closed"}]
  /\ fallback \in [HttpRequests -> BOOLEAN]
  /\ openly \in BOOLEAN
  /\ sent \in 0..MaxSent

\* "guard against double-release on finish+close" (auth.ts:261): a connection is idle
\* or in the hands of one request, for one purpose.
HeldOnce ==
  \A r \in HttpRequests :
    /\ Holds(r) \cap free = {}
    /\ pinned[r] \cap clearing[r] = {} /\ borrowed[r] \cap (pinned[r] \cup clearing[r]) = {}
    /\ \A q \in HttpRequests \ {r} : Holds(r) \cap Holds(q) = {}

\* "so that the context of a company does not leak to other requests that use the
\* same connection" (auth.ts:55): no query runs in the context of another request,
\* as long as every request got its pin.
ContextIsOwn ==
  ~ openly => \A r \in HttpRequests : \A c \in borrowed[r] : company[c] = None

\* Requests that hold connections while they wait for others do not wait for ever:
\* each is dealt with, and the connections it pinned come back.
EveryRequestDealtWith ==
  \A r \in HttpRequests : phase[r] = "lookup" ~> (phase[r] = "done" /\ Holds(r) = {})

=============================================================================
