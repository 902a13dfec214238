------------------------------- MODULE AgentSeat -------------------------------
(* One worker thread of POST /decide and the agent in the seat: AgentBrain      *)
(* parks a decision and waits for it under two clocks (agent_brain.py), the     *)
(* agent submits and listens for what became of its choice (service.py), and    *)
(* the thread-local _current.pending carries the outcome from one to the other. *)
(* The queue itself is DecisionQueue; here a posted decision can be answered    *)
(* until its wait runs out.  Time passes in sixteenths of a second and only     *)
(* where the code spends it.                                                    *)
EXTENDS Integers, FiniteSetsExt

CONSTANTS SeatActions,  \* ids an action space holds
          EngineLimits, \* decision_deadline_ms an adapter may state, 0 for none
          Timeouts,     \* NA_AGENT_TIMEOUT, 0 for none
          Margin,       \* ABANDON_MARGIN_SECONDS
          Delays,       \* time the loop may take before the brain is asked
          Spends,       \* time an agent may take to answer
          SeatRepairs,  \* Orchestrator.repair_attempts
          MaxRequests,  \* bound: requests the thread serves
          MaxPosts      \* bound: decisions it posts

ASSUME SeatOK ==
    /\ EngineLimits \subseteq Nat /\ Timeouts \subseteq Nat /\ Delays \cup Spends \subseteq Nat
    /\ \A e \in EngineLimits : e % 2 = 0
    /\ Margin \in Nat \ {0} /\ SeatRepairs \in Nat /\ MaxRequests \in Nat /\ MaxPosts \in Nat

Requests == 1..MaxRequests
Posts == 1..MaxPosts

VARIABLES timeout,   \* AgentBrain.timeout
          doorbell,  \* is NA_TMUX_TARGET set
          at,        \* where the thread is
          request,   \* the request it serves, 0 before the first
          engine,    \* the deadline the request states, 0 for none
          age,       \* time since the engine sent the request
          again,     \* repairs of the request
          current,   \* _current.pending, 0 for None
          limit,     \* how long the present wait lasts, 0 for ever
          blames,    \* whose clock the present wait's reason names
          posted,    \* decisions posted so far
          origin,    \* the request each was posted for
          born,      \* the age of that request at the post
          rang,      \* what the last ring() returned
          wanted,    \* the action submitted for it, "none" before
          told,      \* what its submitter heard
          crashed    \* the requests whose handler raised
clock == <<engine, age>>
waitVars == <<limit, blames>>
handles == <<posted, origin, born, rang>>
seatVars == <<timeout, doorbell, at, request, clock, again, current, waitVars, handles,
              wanted, told, crashed>>

Silence == [says |-> "nothing", of |-> 0, inTime |-> TRUE]

SeatInit ==
    /\ timeout \in Timeouts /\ doorbell \in BOOLEAN
    /\ at = "idle" /\ request = 0 /\ engine = 0 /\ age = 0 /\ again = 0
    /\ current = 0 /\ limit = 0 /\ blames = "nobody" /\ posted = 0
    /\ origin = [p \in Posts |-> 0] /\ born = [p \in Posts |-> 0]
    /\ rang = FALSE /\ wanted = [p \in Posts |-> "none"]
    /\ told = [p \in Posts |-> Silence] /\ crashed = {}

-------------------------------------------------------------------------------
(* What a submitter hears (agent_submit).  It listens from its submit until an *)
(* outcome is published on its decision or ten seconds are gone.               *)
Listening(p) == wanted[p] # "none" /\ told[p] = Silence

\* _accepted_status: an applied choice is reported accepted unless the engine's
\* deadline, counted from the post, is over.
Verdict(p, applied) ==
    IF wanted[p] \in applied
    THEN IF engine # 0 /\ age - born[p] >= engine THEN "too late" ELSE "accepted"
    ELSE IF applied # {} THEN "replaced" ELSE "nothing survived"

\* publish, and the submit it releases: the outcome is that of the request the
\* thread is serving.
Publish(p, says) ==
    told' = [told EXCEPT ![p] =
        IF Listening(p)
        THEN [says |-> says, of |-> request, inTime |-> engine = 0 \/ age < engine]
        ELSE @]

-------------------------------------------------------------------------------
\* The handler returns or raises: its locals are gone, the thread-local is not.
Rest ==
    /\ at' = "idle" /\ engine' = 0 /\ age' = 0 /\ again' = 0
    /\ limit' = 0 /\ blames' = "nobody"

\* A world view arrives; redaction, grounding and the plan take their time, and
\* a request that needs no agent (a plan, a standing answer, a tier) goes by.
Receive(e, d, forAgent) ==
    /\ at = "idle" /\ request < MaxRequests
    /\ request' = request + 1 /\ engine' = e /\ age' = d /\ again' = 0
    /\ at' = IF forAgent THEN "asking" ELSE "recording"
    /\ UNCHANGED <<timeout, doorbell, current, waitVars, handles, wanted, told, crashed>>

\* Mutant: the margin is taken off whole, however tight the deadline.
FixedShave == engine - Margin

\* The engine's deadline less the margin, but at least half of it.
Shaved == Max({engine - Margin, engine \div 2})

\* _deadline: the tighter of the two clocks, and whose it is.
Deadline ==
    IF engine # 0 /\ (timeout = 0 \/ timeout > Shaved)
    THEN limit' = Shaved /\ blames' = "engine"
    ELSE limit' = timeout /\ blames' = "agent"

\* Mutant: whoever submitted the thrown-out answer is not told of the repair.
TellNobody == UNCHANGED told

\* A pending left on the thread is taken for a repair's: its submitter is told.
TellOfRepair == IF current = 0 THEN UNCHANGED told ELSE Publish(current, "repair follows")

\* Doorbell.ring: delivered only if one is set and tmux takes the keys; nothing
\* waits for the answer, and an agent that polls needs none.
Ring == \E typed \in BOOLEAN : rang' = (doorbell /\ typed)

\* AgentBrain.decide up to its wait: the view is posted and the doorbell rung.
Decide ==
    /\ at = "asking" /\ posted < MaxPosts
    /\ TellOfRepair
    /\ posted' = posted + 1 /\ current' = posted'
    /\ origin' = [origin EXCEPT ![posted'] = request]
    /\ born' = [born EXCEPT ![posted'] = age]
    /\ Ring
    /\ Deadline /\ at' = "waiting"
    /\ UNCHANGED <<timeout, doorbell, request, clock, again, wanted, crashed>>

\* The queue is full: the brain fails, and the pending it superseded is gone.
QueueFull ==
    /\ at = "asking"
    /\ TellOfRepair
    /\ current' = 0 /\ at' = "recording"
    /\ UNCHANGED <<timeout, doorbell, request, clock, again, waitVars, handles, wanted, crashed>>

\* /agent/submit takes the orders within the wait, after spent of it.
Submit(a, spent) ==
    /\ at = "waiting" /\ (limit # 0 => spent < limit)
    /\ wanted' = [wanted EXCEPT ![posted] = a] /\ age' = age + spent
    /\ at' = "judging"
    /\ UNCHANGED <<timeout, doorbell, request, engine, again, current, waitVars, handles,
                   told, crashed>>

\* The wait runs out: the decision degrades.
Abandon ==
    /\ at = "waiting" /\ limit # 0
    /\ age' = age + limit /\ at' = "recording"
    /\ UNCHANGED <<timeout, doorbell, request, engine, again, current, waitVars, handles,
                   wanted, told, crashed>>

\* Validation and the guard throw the answer out: it is asked again while a
\* repair is left.
Throw ==
    /\ at = "judging"
    /\ IF again < SeatRepairs
       THEN again' = again + 1 /\ at' = "asking"
       ELSE at' = "recording" /\ UNCHANGED again
    /\ UNCHANGED <<timeout, doorbell, request, clock, current, waitVars, handles, wanted, told,
                   crashed>>

Keep ==
    /\ at = "judging" /\ at' = "kept"
    /\ UNCHANGED <<timeout, doorbell, request, clock, again, current, waitVars, handles,
                   wanted, told, crashed>>

\* publish_outcome: the outcome goes to whatever the thread last posted.
PublishOutcome(applied) ==
    /\ IF current = 0 THEN UNCHANGED told ELSE Publish(current, Verdict(current, applied))
    /\ current' = 0

\* The orders are recorded and returned: an answer kept, or a plan's or the
\* fallback's action.
Record(applied) ==
    /\ at \in {"kept", "recording"} /\ (at = "kept" => wanted[current] \in applied)
    /\ PublishOutcome(applied) /\ Rest
    /\ UNCHANGED <<timeout, doorbell, request, handles, wanted, crashed>>

\* The view of a repair cannot be stored, or the plan store cannot be saved:
\* the handler raises before it publishes.
HandlerRaises ==
    /\ at \in {"judging", "kept", "recording"} /\ (at = "judging" => again < SeatRepairs)
    /\ Rest /\ crashed' = crashed \cup {request}
    /\ UNCHANGED <<timeout, doorbell, request, current, handles, wanted, told>>

\* Ten seconds without an outcome end the submit call.
StopListening(p) ==
    /\ Listening(p)
    /\ told' = [told EXCEPT ![p] = [says |-> "no outcome", of |-> 0, inTime |-> TRUE]]
    /\ UNCHANGED <<timeout, doorbell, at, request, clock, again, current, waitVars, handles,
                   wanted, crashed>>

SeatNext ==
    \/ \E e \in EngineLimits, d \in Delays, forAgent \in BOOLEAN : Receive(e, d, forAgent)
    \/ Decide \/ QueueFull \/ Abandon \/ Throw \/ Keep
    \/ \E a \in SeatActions, spent \in Spends : Submit(a, spent)
    \/ \E applied \in {{}} \cup {{a} : a \in SeatActions} : Record(applied)
    \/ HandlerRaises
    \/ \E p \in Posts : StopListening(p)

SeatSpec == SeatInit /\ [][SeatNext]_seatVars
-------------------------------------------------------------------------------
SeatTypeOK ==
    /\ at \in {"idle", "asking", "waiting", "judging", "kept", "recording"}
    /\ request \in 0..MaxRequests /\ again \in 0..SeatRepairs
    /\ current \in 0..posted /\ posted \in 0..MaxPosts
    /\ wanted \in [Posts -> SeatActions \cup {"none"}]
    /\ crashed \subseteq Requests

\* A thread that waits under the engine's deadline gives up before it and never
\* at once, however tight the deadline (agent_brain.py:154-159): a wait that was
\* over before it began would offer the agent nothing.
GivesUpFirst == at = "waiting" /\ engine # 0 => limit > 0 /\ limit < engine

\* Every submitter hears what became of its answer, through however many repairs:
\* only a handler that raised leaves one listening when its request is over.
SubmittersHear ==
    \A p \in Posts : Listening(p) /\ (origin[p] # request \/ at = "idle") => origin[p] \in crashed

\* service.py:427-428 and docs/contract.md:222-226: the orchestrator gives up
\* first, so a submitter told "accepted" was in time.  The wait and the check
\* both count from the post; what grounding and an earlier attempt took is not
\* in them.
AcceptedInTime == \A p \in Posts : told[p].says = "accepted" => told[p].inTime

\* agent_brain.py:97: called again on this thread, the loop is repairing.  After
\* a handler that raised it serves another request, and the submitter of the
\* first is told that request's outcome as its own.
ToldOfItsOwn == \A p \in Posts : told[p].of \in {0, origin[p]}
===============================================================================
