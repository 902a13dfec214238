----------------------------- MODULE DecisionQueue -----------------------------
(* The queue on which a game and an agent meet (pending.py), with the threads  *)
(* that use it: the POST /decide workers, which answer a world view themselves  *)
(* or post it through AgentBrain.decide and block for its answer, and the       *)
(* agents, which claim and answer over /agent/next and /agent/submit.  A step is one region under the   *)
(* queue's lock, or one unlocked effect between two of them (setting or waiting *)
(* on an event, publishing an outcome).                                         *)
(*                                                                              *)
(* Decision ids come from one counter under the lock, so the list _order is     *)
(* always increasing and "oldest" is "least id"; _by_id is the set Indexed.     *)
EXTENDS Naturals, FiniteSets

CONSTANTS Workers,       \* threads that serve POST /decide
          Agents,        \* clients of the agent endpoints
          MaxId,         \* bound: decisions ever posted
          MaxRun,        \* bound: starts of the game process
          Unstamped,     \* the runs whose adapter states no run_id
          Deadlines,     \* may a wait be bounded (TRUE) or unbounded (FALSE)
          MaxDepth,      \* MAX_DEPTH
          SettledMemory, \* SETTLED_MEMORY
          RepairAttempts \* Orchestrator.repair_attempts

ASSUME ConstantsOK ==
    /\ MaxId \in Nat
    /\ MaxRun \in Nat
    /\ Unstamped \subseteq 1..MaxRun
    /\ Deadlines \subseteq BOOLEAN
    /\ MaxDepth \in Nat \ {0}
    /\ SettledMemory \in Nat
    /\ RepairAttempts \in Nat

Ids == 1..MaxId

VARIABLES
    game,      \* the run of the game process that is alive
    runId,     \* DecisionQueue.run_id, 0 for None
    nextId,    \* the id counter
    status,    \* Pending.status, "none" before the post
    run,       \* the game process that raised the decision
    done,      \* is Pending._done set
    outcome,   \* Pending.outcome
    closedAt,  \* when the decision left the index, 0 while it is in it
    epitaph,   \* the tombstone _forget wrote for it
    taken,     \* decisions whose orders a worker returned to the loop
    kept,      \* history: those of them whose orders the loop let stand
    adrift,    \* history: those whose orders it threw out in a handler that raised
    pc,        \* where each worker is
    req,       \* the run whose request a worker serves
    cur,       \* the worker's thread-local _current.pending, 0 for None
    timed,     \* is the worker's present wait bounded
    repairs,   \* repairs of the request so far
    orphans,   \* retired decisions the worker has yet to wake
    apc,       \* where each agent is
    held       \* the decision an agent holds or is submitting, 0 for none

verdictVars == <<kept, adrift>>
decisionVars == <<status, run, done, outcome, closedAt, epitaph, taken, verdictVars>>
workerVars == <<pc, req, cur, timed, repairs, orphans>>
agentVars == <<apc, held>>
vars == <<game, runId, nextId, decisionVars, workerVars, agentVars>>

-------------------------------------------------------------------------------
(* The index, its tombstones, and what both sides read off them. *)

Posted == {d \in Ids : status[d] # "none"}
Indexed == {d \in Posted : closedAt[d] = 0}
Live == {d \in Indexed : status[d] \in {"pending", "claimed"}}
Pending == {d \in Indexed : status[d] = "pending"}

\* _forget for each decision of S, oldest first: it leaves the index, and a
\* tombstone says how it ended.
Forget(S) ==
    LET gone == Cardinality({d \in Ids : closedAt[d] # 0})
        new  == {d \in S : closedAt[d] = 0}
    IN  /\ closedAt' = [d \in Ids |->
               IF d \in new THEN gone + Cardinality({e \in new : e <= d})
               ELSE closedAt[d]]
        /\ epitaph' = [d \in Ids |->
               IF d \notin new THEN epitaph[d]
               ELSE IF status'[d] = "answered" THEN "answered" ELSE "abandoned"]

\* Mutant: the bound on tombstones is off by one.
ForgottenEarly(d) ==
    /\ closedAt[d] # 0
    /\ Cardinality({e \in Ids : closedAt[e] > closedAt[d]}) + 1 < SettledMemory

\* A tombstone lasts until SettledMemory younger ones have pushed it out.
Remembered(d) ==
    /\ closedAt[d] # 0
    /\ Cardinality({e \in Ids : closedAt[e] > closedAt[d]}) < SettledMemory

\* What answer() says of a posted decision it takes no orders for.
Refusal(d) == IF d \in Indexed THEN status[d]
              ELSE IF Remembered(d) THEN epitaph[d] ELSE "no such decision"

\* Mutant: a claimed decision survives the arrival of another run.
SupersededPending(r) == IF r = 0 \/ r = runId \/ runId = 0 THEN {} ELSE Pending

\* _supersede: the live decisions a post stamped r retires.
Superseded(r) == IF r = 0 \/ r = runId \/ runId = 0 THEN {} ELSE Live

\* The run_id a run's adapter states, 0 for an adapter that states none.
Stamp(r) == IF r \in Unstamped THEN 0 ELSE r

-------------------------------------------------------------------------------
Init ==
    /\ game = 1
    /\ runId = 0
    /\ nextId = 1
    /\ status = [d \in Ids |-> "none"]
    /\ run = [d \in Ids |-> 0]
    /\ done = [d \in Ids |-> FALSE]
    /\ outcome = [d \in Ids |-> "none"]
    /\ closedAt = [d \in Ids |-> 0]
    /\ epitaph = [d \in Ids |-> "none"]
    /\ taken = {} /\ kept = {} /\ adrift = {}
    /\ pc = [w \in Workers |-> "idle"]
    /\ req = [w \in Workers |-> 0]
    /\ cur = [w \in Workers |-> 0]
    /\ timed = [w \in Workers |-> FALSE]
    /\ repairs = [w \in Workers |-> 0]
    /\ orphans = [w \in Workers |-> {}]
    /\ apc = [a \in Agents |-> "idle"]
    /\ held = [a \in Agents |-> 0]

-------------------------------------------------------------------------------
(* The game and the workers that serve it. *)

\* The process is killed and started again; requests of the old one may still
\* be with a worker.
Restart ==
    /\ game < MaxRun
    /\ game' = game + 1
    /\ UNCHANGED <<runId, nextId, decisionVars, workerVars, agentVars>>

\* A world view arrives; the worker redacts and grounds it before anything is
\* decided, which may take long.
Request(w) ==
    /\ pc[w] = "idle"
    /\ pc' = [pc EXCEPT ![w] = "asked"]
    /\ req' = [req EXCEPT ![w] = game]
    /\ UNCHANGED <<game, runId, nextId, decisionVars, cur, timed, repairs,
                   orphans, agentVars>>

\* The handler returns or raises, and its locals are gone; _current outlives it.
EndRequest(w) ==
    /\ pc' = [pc EXCEPT ![w] = "idle"]
    /\ req' = [req EXCEPT ![w] = 0]
    /\ timed' = [timed EXCEPT ![w] = FALSE]
    /\ repairs' = [repairs EXCEPT ![w] = 0]

\* publish_outcome, then the HTTP reply to the game.  What is published goes to
\* the decision _current names, whoever left it there.
PublishAndReply(w, says) ==
    /\ outcome' = [d \in Ids |-> IF d = cur[w] THEN says ELSE outcome[d]]
    /\ cur' = [cur EXCEPT ![w] = 0]
    /\ EndRequest(w)

\* A request that asks no brain: the policy keeps the surface for the engine
\* (nothing is applied), or a plan entry or a standing answer is (which may be
\* what the agent named by _current chose, or not).
Unasked(w) ==
    /\ pc[w] = "asked" /\ repairs[w] = 0
    /\ \E says \in {"applied", "fallback"} : PublishAndReply(w, says)
    /\ UNCHANGED <<game, runId, nextId, status, run, done, closedAt, epitaph,
                   taken, verdictVars, orphans, agentVars>>

\* Storing the world view raises, before any tier is looked at.
Unstored(w) ==
    /\ pc[w] = "asked" /\ repairs[w] = 0
    /\ EndRequest(w)
    /\ UNCHANGED <<game, runId, nextId, decisionVars, cur, orphans, agentVars>>

\* Asked again on a thread that still has a pending decision: whoever answered
\* that one is told to choose again.
AnnounceRepair(w) ==
    /\ pc[w] = "asked"
    /\ cur[w] # 0
    /\ outcome' = [outcome EXCEPT ![cur[w]] = "repair"]
    /\ cur' = [cur EXCEPT ![w] = 0]
    /\ UNCHANGED <<game, runId, nextId, status, run, done, closedAt, epitaph,
                   taken, verdictVars, pc, req, timed, repairs, orphans,
                   agentVars>>

\* The status a post leaves behind: dead are retired, new (if any) is pending.
AfterPost(new, dead) ==
    [d \in Ids |-> IF d \in new THEN "pending"
                   ELSE IF d \in dead THEN "abandoned" ELSE status[d]]

\* Mutant: notify only when the queue was drained.
NotifiedWhenDrained ==
    IF Live # {} THEN apc
    ELSE [a \in Agents |-> IF apc[a] = "asleep" THEN "idle" ELSE apc[a]]

\* _arrived.notify_all: every blocked claim looks at the queue again.
Notified == [a \in Agents |-> IF apc[a] = "asleep" THEN "idle" ELSE apc[a]]

\* post, under the lock: a new run_id retires every live decision first, then
\* the depth is checked, then the decision is indexed and sleepers notified.
Post(w) ==
    LET stamp == Stamp(req[w])
        dead  == Superseded(stamp)
    IN
    /\ pc[w] = "asked"
    /\ cur[w] = 0
    /\ nextId \in Ids
    /\ runId' = IF stamp = 0 THEN runId ELSE stamp
    /\ orphans' = [orphans EXCEPT ![w] = dead]
    /\ \/ /\ Cardinality(Live \ dead) < MaxDepth
          /\ status' = AfterPost({nextId}, dead)
          /\ run' = [run EXCEPT ![nextId] = req[w]]
          /\ nextId' = nextId + 1
          /\ cur' = [cur EXCEPT ![w] = nextId]
          /\ \E t \in Deadlines : timed' = [timed EXCEPT ![w] = t]
          /\ pc' = [pc EXCEPT ![w] = "posted"]
          /\ apc' = Notified
       \/ /\ Cardinality(Live \ dead) >= MaxDepth   \* QueueFull
          /\ status' = AfterPost({}, dead)
          /\ pc' = [pc EXCEPT ![w] = "degraded"]
          /\ UNCHANGED <<run, nextId, cur, timed, apc>>
    /\ Forget(dead)
    /\ UNCHANGED <<game, done, outcome, taken, verdictVars, req, repairs, held>>

\* Mutant: the retired decisions' workers are not woken.
WakeNobody(w) ==
    /\ pc[w] = "posted"
    /\ orphans' = [orphans EXCEPT ![w] = {}]
    /\ pc' = [pc EXCEPT ![w] = "waiting"]
    /\ UNCHANGED <<game, runId, nextId, decisionVars, req, cur, timed, repairs,
                   agentVars>>

\* The rest of post, outside the lock; then the doorbell, then the wait.
WakeOrphans(w) ==
    /\ pc[w] = "posted"
    /\ done' = [d \in Ids |-> done[d] \/ d \in orphans[w]]
    /\ orphans' = [orphans EXCEPT ![w] = {}]
    /\ pc' = [pc EXCEPT ![w] = "waiting"]
    /\ UNCHANGED <<game, runId, nextId, status, run, outcome, closedAt, epitaph,
                   taken, verdictVars, req, cur, timed, repairs, agentVars>>

\* _done.wait returns False: the lock is not held yet.
TimeOut(w) ==
    /\ pc[w] = "waiting"
    /\ timed[w]
    /\ ~done[cur[w]]
    /\ pc' = [pc EXCEPT ![w] = "expired"]
    /\ UNCHANGED <<game, runId, nextId, decisionVars, req, cur, timed, repairs,
                   orphans, agentVars>>

\* Mutant: the decision is not marked abandoned on the way out.
ExpireSilently(w) ==
    /\ pc[w] = "expired"
    /\ pc' = [pc EXCEPT ![w] = "degraded"]
    /\ UNCHANGED <<game, runId, nextId, decisionVars, req, cur, timed, repairs,
                   orphans, agentVars>>

\* Mutant: the status is not looked at again under the lock.
ExpireRegardless(w) ==
    /\ pc[w] = "expired"
    /\ status' = [status EXCEPT ![cur[w]] = "abandoned"]
    /\ Forget({cur[w]})
    /\ pc' = [pc EXCEPT ![w] = "degraded"]
    /\ UNCHANGED <<game, runId, nextId, run, done, outcome, taken, verdictVars, req,
                   cur, timed, repairs, orphans, agentVars>>

\* await_answer's timeout branch: Unanswered, whatever happened in between.
Expire(w) ==
    LET mine == {cur[w]} \cap Live
    IN
    /\ pc[w] = "expired"
    /\ status' = [d \in Ids |-> IF d \in mine THEN "abandoned" ELSE status[d]]
    /\ Forget(mine)
    /\ pc' = [pc EXCEPT ![w] = "degraded"]
    /\ UNCHANGED <<game, runId, nextId, run, done, outcome, taken, verdictVars, req,
                   cur, timed, repairs, orphans, agentVars>>

\* await_answer's other branch: the event is set, the decision is forgotten,
\* and its orders are returned, or there are none and Unanswered is raised.
Collect(w) ==
    /\ pc[w] = "waiting"
    /\ done[cur[w]]
    /\ \/ /\ status[cur[w]] = "answered"
          /\ taken' = taken \cup {cur[w]}
          /\ pc' = [pc EXCEPT ![w] = "loop"]
       \/ /\ status[cur[w]] # "answered"
          /\ pc' = [pc EXCEPT ![w] = "degraded"]
          /\ UNCHANGED taken
    /\ UNCHANGED <<game, runId, nextId, status, run, done, outcome, verdictVars, req,
                   cur, timed, repairs, orphans, agentVars>>
    /\ Forget({cur[w]})

\* The loop has the orders.  They stand; or nothing of them survived and the
\* brain is asked again, or storing the repair view raises and the request fails
\* with _current still set; or none is applied, for want of a repair or because
\* the agent deferred.
Judge(w) ==
    /\ pc[w] = "loop"
    /\ \/ /\ pc' = [pc EXCEPT ![w] = "reply"]
          /\ kept' = kept \cup {cur[w]}
          /\ UNCHANGED <<adrift, req, timed, repairs>>
       \/ /\ repairs[w] < RepairAttempts
          /\ \/ /\ repairs' = [repairs EXCEPT ![w] = @ + 1]
                /\ pc' = [pc EXCEPT ![w] = "asked"]
                /\ UNCHANGED <<adrift, req, timed>>
             \/ /\ EndRequest(w)
                /\ adrift' = adrift \cup {cur[w]}
          /\ UNCHANGED kept
       \/ /\ pc' = [pc EXCEPT ![w] = "degraded"]
          /\ UNCHANGED <<verdictVars, req, timed, repairs>>
    /\ UNCHANGED <<game, runId, nextId, status, run, done, outcome, closedAt, epitaph,
                   taken, cur, orphans, agentVars>>

\* Mutant: _current survives the reply.
ReplyKeepsCurrent(w) ==
    /\ pc[w] \in {"reply", "degraded"}
    /\ outcome' = [d \in Ids |->
           IF d # cur[w] THEN outcome[d]
           ELSE IF pc[w] = "reply" THEN "applied" ELSE "fallback"]
    /\ EndRequest(w)
    /\ UNCHANGED <<game, runId, nextId, status, run, done, closedAt, epitaph,
                   taken, verdictVars, cur, orphans, agentVars>>

\* The loop ends: the submitter is told whether its orders were applied.
Reply(w) ==
    /\ pc[w] \in {"reply", "degraded"}
    /\ PublishAndReply(w, IF pc[w] = "reply" THEN "applied" ELSE "fallback")
    /\ UNCHANGED <<game, runId, nextId, status, run, done, closedAt, epitaph,
                   taken, verdictVars, orphans, agentVars>>

-------------------------------------------------------------------------------
(* The agents. *)

\* claim: the oldest pending decision, or sleep until a post notifies.
Claim(a) ==
    /\ apc[a] = "idle"
    /\ \/ \E d \in Pending :
             /\ \A e \in Pending : d <= e
             /\ status' = [status EXCEPT ![d] = "claimed"]
             /\ held' = [held EXCEPT ![a] = d]
             /\ apc' = [apc EXCEPT ![a] = "holding"]
       \/ /\ Pending = {}
          /\ apc' = [apc EXCEPT ![a] = "asleep"]
          /\ UNCHANGED <<status, held>>
    /\ UNCHANGED <<game, runId, nextId, run, done, outcome, closedAt, epitaph,
                   taken, verdictVars, workerVars>>

\* The wait runs out with nothing to take, or an agent that holds a decision
\* dies or forgets it, or its submit is refused.
GoIdle(a) ==
    /\ apc' = [apc EXCEPT ![a] = "idle"]
    /\ held' = [held EXCEPT ![a] = 0]

GiveUp(a) ==
    /\ apc[a] \in {"asleep", "holding"}
    /\ GoIdle(a)
    /\ UNCHANGED <<game, runId, nextId, decisionVars, workerVars>>

\* answer, under the lock.  An agent may name any id it has ever seen: answer
\* asks neither that it was claimed nor by whom.
Submit(a, d) ==
    /\ apc[a] \in {"idle", "holding"}
    /\ d \in Posted
    /\ \/ /\ d \in Live
          /\ status' = [status EXCEPT ![d] = "answered"]
          /\ held' = [held EXCEPT ![a] = d]
          /\ apc' = [apc EXCEPT ![a] = "releasing"]
       \/ /\ d \notin Live
          /\ GoIdle(a)
          /\ UNCHANGED status
    /\ UNCHANGED <<game, runId, nextId, run, done, outcome, closedAt, epitaph,
                   taken, verdictVars, workerVars>>

\* The rest of answer, outside the lock: the waiting worker is released.
Release(a) ==
    /\ apc[a] = "releasing"
    /\ done' = [done EXCEPT ![held[a]] = TRUE]
    /\ apc' = [apc EXCEPT ![a] = "listening"]
    /\ UNCHANGED <<game, runId, nextId, status, run, outcome, closedAt, epitaph,
                   taken, verdictVars, workerVars, held>>

\* await_outcome: the outcome, or nothing in time.
Hear(a) ==
    /\ apc[a] = "listening"
    /\ GoIdle(a)
    /\ UNCHANGED <<game, runId, nextId, decisionVars, workerVars>>

-------------------------------------------------------------------------------
WorkerStep(w) == \/ Unasked(w) \/ Unstored(w)
                 \/ AnnounceRepair(w) \/ Post(w) \/ WakeOrphans(w) \/ Expire(w)
                 \/ Collect(w) \/ Judge(w) \/ Reply(w)

Next == \/ Restart
        \/ \E w \in Workers : \/ Request(w) \/ TimeOut(w) \/ WorkerStep(w)
        \/ \E a \in Agents : \/ Claim(a) \/ GiveUp(a) \/ Release(a) \/ Hear(a)
                             \/ \E d \in Ids : Submit(a, d)

Spec == Init /\ [][Next]_vars

\* A thread that can run does, a bounded wait ends, and a handler that has
\* taken the lock finishes.  Nothing makes a game ask or an agent answer.
Fairness == /\ \A w \in Workers : WF_vars(WorkerStep(w)) /\ WF_vars(TimeOut(w))
            /\ \A a \in Agents : WF_vars(Release(a)) /\ WF_vars(Hear(a))

FairSpec == Spec /\ Fairness

-------------------------------------------------------------------------------
(* Every variable keeps its type. *)
TypeOK ==
    /\ game \in Nat
    /\ runId \in Nat
    /\ nextId \in 1..MaxId + 1
    /\ status \in [Ids -> {"none", "pending", "claimed", "answered", "abandoned"}]
    /\ run \in [Ids -> Nat]
    /\ done \in [Ids -> BOOLEAN]
    /\ outcome \in [Ids -> {"none", "repair", "applied", "fallback"}]
    /\ closedAt \in [Ids -> Nat]
    /\ epitaph \in [Ids -> {"none", "answered", "abandoned"}]
    /\ taken \subseteq Ids /\ kept \subseteq Ids /\ adrift \subseteq Ids
    /\ pc \in [Workers -> {"idle", "asked", "posted", "waiting", "expired",
                           "loop", "reply", "degraded"}]
    /\ req \in [Workers -> Nat]
    /\ cur \in [Workers -> Ids \cup {0}]
    /\ timed \in [Workers -> BOOLEAN]
    /\ repairs \in [Workers -> Nat]
    /\ orphans \in [Workers -> SUBSET Ids]
    /\ apc \in [Agents -> {"idle", "asleep", "holding", "releasing", "listening"}]
    /\ held \in [Agents -> Ids \cup {0}]

(* Every decision an agent can still be offered has a worker blocked on it: the *)
(* bound that makes an in-memory queue the right answer (pending.py:19-22).     *)
LiveHasWaiter ==
    \A d \in Live : \E w \in Workers :
        cur[w] = d /\ pc[w] \in {"posted", "waiting", "expired"}

(* _supersede leaves the live decisions of one run only, so that the agent is   *)
(* never offered the boards of two game processes side by side.                 *)
LiveOfOneRun == \A d \in Live : Stamp(run[d]) \in {0, runId}

(* claim sleeps on the condition only while there is nothing to take: no        *)
(* wakeup is lost between a post and a blocked /agent/next.                     *)
NoSleeperBesideWork == (\E a \in Agents : apc[a] = "asleep") => Pending = {}

(* A late submit is told what happened to the decision, and an id is reported   *)
(* unknown only after its tombstone has been pushed out by younger ones.        *)
TruthfulRefusal ==
    \A d \in Posted \ Live :
        \/ Refusal(d) = status[d]
        \/ /\ Refusal(d) = "no such decision"
           /\ status[d] \in {"answered", "abandoned"}
           /\ Cardinality({e \in Ids : closedAt[e] # 0}) > SettledMemory

(* What a submitter is told follows what the loop did with that very answer: it *)
(* hears "applied" only of one the loop took and let stand, and hears that it   *)
(* was not applied only of one it did not let stand.  The exception is an       *)
(* answer that was thrown out by a handler that then raised: nobody is told,    *)
(* _current outlives the request, and what the thread's next request applies is *)
(* reported on it (AppliedMeansKept, below).                                    *)
OutcomeIsTrue ==
    \A d \in Ids :
        /\ outcome[d] = "applied" => d \in kept \cup adrift
        /\ outcome[d] \in {"repair", "fallback"} => d \notin kept

(* The queue implements the ledger: a decision closes once, and an answer is    *)
(* taken at most once, from a decision that was answered.                       *)
Ledger == INSTANCE DecisionLedger WITH
    phase <- [d \in Ids |-> IF status[d] \in {"pending", "claimed"} THEN "open"
                            ELSE status[d]]
KeepsLedger == Ledger!Spec

(* A worker blocked on a decision that has been settled, by an answer or by     *)
(* the arrival of another run, is released even if its wait has no bound; and a *)
(* bounded wait ends whatever the agents do.                                    *)
BlockedIsReleased ==
    \A w \in Workers :
        (/\ pc[w] = "waiting"
         /\ timed[w] \/ status[cur[w]] \in {"answered", "abandoned"})
            ~> pc[w] # "waiting"

-------------------------------------------------------------------------------
(* What the invariants above rest on: the parts of an inductive invariant.      *)

\* The posted decisions are those the counter has passed.
CounterOK == \A d \in Ids : status[d] # "none" <=> d < nextId

\* A decision leaves the index only settled, with the tombstone to match; one
\* that is abandoned leaves it in the same step.
IndexOK ==
    \A d \in Ids :
        /\ closedAt[d] # 0 => /\ status[d] \in {"answered", "abandoned"}
                             /\ epitaph[d] = status[d]
        /\ status[d] = "abandoned" => closedAt[d] # 0

\* An event is set, or about to be, only for a settled decision.
EventsOK ==
    /\ \A d \in Ids : done[d] => status[d] \in {"answered", "abandoned"}
    /\ \A w \in Workers : \A d \in orphans[w] : status[d] = "abandoned"
    /\ \A a \in Agents : apc[a] = "releasing" =>
           held[a] # 0 /\ status[held[a]] = "answered"

\* A worker has a posted decision of its own while it is blocked, and only one
\* that was taken once the loop has the orders and until it asks again.
WorkersOK ==
    /\ \A w \in Workers :
           /\ cur[w] # 0 => status[cur[w]] # "none"
           /\ pc[w] \in {"posted", "waiting", "expired", "loop", "reply"} => cur[w] # 0
           /\ pc[w] \in {"posted", "waiting", "expired"} => cur[w] \notin taken
           /\ pc[w] \in {"idle", "asked", "loop", "reply"} /\ cur[w] # 0
                 => cur[w] \in taken
           /\ pc[w] # "posted" => orphans[w] = {}
    /\ \A w, v \in Workers : cur[w] = cur[v] /\ cur[w] # 0 => w = v
    /\ \A d \in taken : status[d] = "answered"

\* Nothing was said yet of the decision a thread names; it was kept if the thread
\* is about to say so, and is adrift if a request finds it there.
VerdictsOK ==
    /\ kept \subseteq taken /\ adrift \subseteq taken \ kept
    /\ \A d \in Ids : status[d] = "none" => outcome[d] = "none"
    /\ \A w \in Workers : cur[w] # 0 =>
           /\ outcome[cur[w]] = "none"
           /\ cur[w] \in kept <=> pc[w] = "reply"
           /\ cur[w] \in adrift => pc[w] \in {"idle", "asked"}
           /\ pc[w] \in {"idle", "asked"} /\ repairs[w] = 0 => cur[w] \in adrift

IInv == /\ TypeOK /\ CounterOK /\ IndexOK /\ EventsOK /\ WorkersOK /\ VerdictsOK
        /\ LiveHasWaiter /\ LiveOfOneRun /\ NoSleeperBesideWork
        /\ OutcomeIsTrue

-------------------------------------------------------------------------------
(* Three statements of the source that the code does not keep. *)

(* "The process that was blocked on every live decision here has exited"        *)
(* (pending.py:208): a decision its own worker has not timed out is abandoned   *)
(* only if the game process that raised it is gone.                             *)
OnlyDeadRunsRetired ==
    [][\A d \in Live :
          /\ status'[d] = "abandoned"
          /\ \A w \in Workers : cur[w] = d => pc[w] # "expired"
          => run[d] # game]_vars

(* "Raises Unanswered on timeout, having marked the decision abandoned so a     *)
(* late answer is rejected" (pending.py:257): a worker that gave up on its      *)
(* decision leaves it abandoned.                                                *)
UnansweredIsAbandoned ==
    \A w \in Workers : pc[w] = "degraded" /\ cur[w] # 0 /\ cur[w] \notin taken
                          => status[cur[w]] = "abandoned"

(* publish_outcome is to say "what ran rather than what was asked for"          *)
(* (agent_brain.py:175): no answer the loop threw out is reported applied.      *)
AppliedMeansKept == \A d \in Ids : outcome[d] = "applied" => d \in kept
===============================================================================
