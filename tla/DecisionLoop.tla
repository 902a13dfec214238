------------------------------ MODULE DecisionLoop ------------------------------
(* The decision loop (orchestrator.py: Orchestrator.decide) over the two tables *)
(* an agent fills in advance: standing answers (queued.py) and the plan of one  *)
(* turn (turnplan.py).  Several requests decide at once while agents install    *)
(* answers; each lookup, miss and retirement is one critical section of its     *)
(* store, and anything may happen between two of them.                          *)
(*                                                                              *)
(* The stores are keyed by faction first; the model is one faction's share.  An *)
(* answer's predicates are one metric with a floor, and the guard may deny any  *)
(* of the legal choices: which ones depends on figures the model leaves out.    *)
EXTENDS Naturals, FiniteSets

CONSTANTS Requests,      \* requests to POST /decide, each on a thread of its own
          Keys,          \* what a decision is about: a surface, and a base or none
          Tribute,       \* the keys whose surface is diplo.tribute
          Actions,       \* action ids an engine can offer
          Comply,        \* "withdraw:comply"
          EndTurn,       \* an action that ends the turn
          MaxTurn,       \* bound: turns
          MaxMetric,     \* bound: values of the metric
          MaxRepairs,    \* repair_attempts, 0..2
          MaxInstalls,   \* bound: answers and tables ever installed
          Asked          \* the world views an engine can send

ASSUME ConstantsOK ==
    /\ Tribute \subseteq Keys
    /\ {MaxTurn, MaxMetric, MaxInstalls} \subseteq Nat
    /\ MaxRepairs \in 0..2

Turns == 1..MaxTurn
Absent == MaxMetric + 1       \* the world view does not report the metric
Missing == "no action"

\* What the engine asks: the options it offers, and the first of them.
Views == {v \in [key : Keys, turn : Turns, metric : 0..Absent,
                 space : SUBSET Actions, first : Actions \cup {Missing}] :
              IF v.space = {} THEN v.first = Missing ELSE v.first \in v.space}

ASSUME AskedOK == Asked \subseteq Views

NoEntry == [id |-> 0, action |-> Missing, floor |-> 0, until |-> 0]
Entries == [id : 1..MaxInstalls, action : Actions, floor : 1..MaxMetric, until : Turns]
EmptyPlan == [turn |-> 0, entries |-> [k \in Keys |-> NoEntry]]
NoRecord == [tier |-> "none", chosen |-> {}, degraded |-> FALSE, entry |-> NoEntry]

VARIABLES
    policy,     \* keys whose surface the policy lets the brain decide
    installs,   \* answers and tables installed so far
    standing,   \* QueueStore._items
    plan,       \* PlanStore._plans[faction]
    view,       \* the world view of each request
    pc,         \* where each request is in decide
    held,       \* the entry a lookup returned
    told,       \* ids of the overtaken entries named in the world view
    prompt,     \* what the brain is shown: told, and 0 for the reason of a repair
    repairs,    \* repairs so far
    woken,      \* requests the brain was asked about
    dropped,    \* each miss and retirement: by which request, of which entry found,
                \* and the entry that left the table
    log,        \* the record of each request
    issued,     \* the directives each request stored
    parked      \* requests in the deferral set

vars == <<policy, installs, standing, plan, view, pc, held, told,
          prompt, repairs, woken, dropped, log, issued, parked>>
tables == <<policy, installs, standing, plan>>
outcomes == <<log, issued, parked>>

-------------------------------------------------------------------------------
Init ==
    /\ policy \in SUBSET Keys
    /\ installs = 0
    /\ standing = [k \in Keys |-> NoEntry]
    /\ plan = EmptyPlan
    /\ view = [r \in Requests |-> CHOOSE v \in Asked : TRUE]
    /\ pc = [r \in Requests |-> "new"]
    /\ held = [r \in Requests |-> NoEntry]
    /\ told = [r \in Requests |-> {}]
    /\ prompt = [r \in Requests |-> {}]
    /\ repairs = [r \in Requests |-> 0]
    /\ woken = {}
    /\ dropped = {}
    /\ log = [r \in Requests |-> NoRecord]
    /\ issued = [r \in Requests |-> {}]
    /\ parked = {}

\* decide returns: the record is emitted and the thread is free for the next.
Finish(r, tier, chosen, degraded, entry) ==
    /\ log' = [log EXCEPT ![r] =
                  [tier |-> tier, chosen |-> chosen, degraded |-> degraded, entry |-> entry]]
    /\ pc' = [pc EXCEPT ![r] = "done"]
    /\ held' = [held EXCEPT ![r] = NoEntry]
    /\ told' = [told EXCEPT ![r] = {}]
    /\ prompt' = [prompt EXCEPT ![r] = {}]
    /\ repairs' = [repairs EXCEPT ![r] = 0]

\* missed and retired: what was found is told, what leaves is whatever is there.
Drop(r, leaving) ==
    dropped' = dropped \cup {[by |-> r, found |-> held[r].id, left |-> leaving.id]}

Goto(r, place) == pc' = [pc EXCEPT ![r] = place]

-------------------------------------------------------------------------------
(* The agent fills the tables. *)

\* QueueStore.install: it replaces whatever stood for that key.
InstallStanding(k, a, floor, until) ==
    /\ installs < MaxInstalls
    /\ installs' = installs + 1
    /\ standing' = [standing EXCEPT ![k] =
           [id |-> installs + 1, action |-> a, floor |-> floor, until |-> until]]
    /\ UNCHANGED <<policy, plan, view, pc, held, told, prompt, repairs,
                   woken, dropped, outcomes>>

\* PlanStore.install: the table is replaced whole; ks are the keys it covers.
InstallPlan(turn, ks, a) ==
    /\ installs < MaxInstalls
    /\ installs' = installs + 1
    /\ plan' = [turn |-> turn,
                entries |-> [k \in Keys |->
                    IF k \in ks THEN [id |-> installs + 1, action |-> a, floor |-> 0,
                                      until |-> turn]
                    ELSE NoEntry]]
    /\ UNCHANGED <<policy, standing, view, pc, held, told, prompt, repairs,
                   woken, dropped, outcomes>>

-------------------------------------------------------------------------------
(* One decision. *)

Arrive(r, v) ==
    /\ pc[r] = "new"
    /\ view' = [view EXCEPT ![r] = v]
    /\ Goto(r, "gate")
    /\ UNCHANGED <<tables, held, told, prompt, repairs, woken, dropped, outcomes>>

\* SurfacePolicy.allows
Allowed(r) == view[r].key \in policy

\* A surface that is off is left to the engine: a record, and empty orders.
Deterministic(r) ==
    /\ pc[r] = "gate"
    /\ ~Allowed(r)
    /\ Finish(r, "deterministic", {}, FALSE, NoEntry)
    /\ UNCHANGED <<tables, view, woken, dropped, issued, parked>>

\* PlanStore.find
PlanEntry(v) == IF plan.turn = v.turn THEN plan.entries[v.key] ELSE NoEntry

\* offered: the entry's action is in the space of this very ask.
Offered(e, v) == e.action \in v.space

Planned(r) ==
    LET e == PlanEntry(view[r]) IN
    /\ pc[r] = "gate"
    /\ Allowed(r)
    /\ e # NoEntry /\ Offered(e, view[r])
    /\ Finish(r, "plan", {e.action}, FALSE, e)
    /\ UNCHANGED <<tables, view, woken, dropped, issued, parked>>

\* No usable entry: on to the standing answers, by way of miss if there was one.
NotPlanned(r) ==
    LET e == PlanEntry(view[r]) IN
    /\ pc[r] = "gate"
    /\ Allowed(r)
    /\ e = NoEntry \/ ~Offered(e, view[r])
    /\ held' = [held EXCEPT ![r] = e]
    /\ Goto(r, IF e = NoEntry THEN "standing" ELSE "missing")
    /\ UNCHANGED <<tables, view, told, prompt, repairs, woken, dropped,
                   outcomes>>

\* PlanStore.miss: the entry under this key goes, of whatever table is there now.
Miss(r) ==
    LET k == view[r].key IN
    /\ pc[r] = "missing"
    /\ plan' = [plan EXCEPT !.entries[k] = NoEntry]
    /\ Drop(r, plan.entries[k])
    /\ told' = [told EXCEPT ![r] = @ \cup {held[r].id}]
    /\ Goto(r, "standing")
    /\ UNCHANGED <<policy, installs, standing, view, held, prompt, repairs,
                   woken, outcomes>>

\* Mutant: a metric the world view omits counts as satisfied.
HoldsUnread(e, v) == v.turn <= e.until /\ v.metric >= e.floor

\* QueuedAnswer.check: within the horizon, reported, and at least the floor.
Holds(e, v) == v.turn <= e.until /\ v.metric # Absent /\ v.metric >= e.floor

Stands(e, v) == Holds(e, v) /\ Offered(e, v)

Queued(r) ==
    LET e == standing[view[r].key] IN
    /\ pc[r] = "standing"
    /\ e # NoEntry /\ Stands(e, view[r])
    /\ Finish(r, "queued", {e.action}, FALSE, e)
    /\ UNCHANGED <<tables, view, woken, dropped, issued, parked>>

\* The brain is asked, with what was overtaken in front of it.
Ask(r, known) ==
    /\ Goto(r, "asking")
    /\ prompt' = [prompt EXCEPT ![r] = known]
    /\ woken' = woken \cup {r}

NotQueued(r) ==
    LET e == standing[view[r].key] IN
    /\ pc[r] = "standing"
    /\ e = NoEntry \/ ~Stands(e, view[r])
    /\ held' = [held EXCEPT ![r] = e]
    /\ IF e = NoEntry THEN Ask(r, told[r])
       ELSE Goto(r, "retiring") /\ UNCHANGED <<prompt, woken>>
    /\ UNCHANGED <<tables, view, told, repairs, dropped, outcomes>>

\* QueueStore.retire: pop by key, whichever answer is there now.
Retire(r) ==
    LET k == view[r].key IN
    /\ pc[r] = "retiring"
    /\ standing' = [standing EXCEPT ![k] = NoEntry]
    /\ Drop(r, standing[k])
    /\ told' = [told EXCEPT ![r] = @ \cup {held[r].id}]
    /\ Ask(r, told[r] \cup {held[r].id})
    /\ UNCHANGED <<policy, installs, plan, view, held, repairs, outcomes>>

-------------------------------------------------------------------------------
(* The brain's answer. *)

\* Any choice that says "defer" defers the decision: recorded, and not degraded.
Defer(r) ==
    /\ pc[r] = "asking"
    /\ log' = [log EXCEPT ![r] = [tier |-> "deferred", chosen |-> {"defer"},
                                      degraded |-> FALSE, entry |-> NoEntry]]
    /\ Goto(r, "parking")
    /\ UNCHANGED <<tables, view, held, told, prompt, repairs, woken,
                   dropped, issued, parked>>

\* DeferralSet.open, once the record exists.
Park(r) ==
    /\ pc[r] = "parking"
    /\ parked' = parked \cup {r}
    /\ Finish(r, "deferred", {"defer"}, FALSE, NoEntry)
    /\ UNCHANGED <<tables, view, woken, dropped, issued>>

Fallback(v) ==
    IF v.space = {} THEN {} ELSE IF EndTurn \in v.space THEN {EndTurn} ELSE {v.first}

\* Mutant: a degraded decision's directives are stored too.
DegradeIssuing(r, directives) ==
    /\ issued' = [issued EXCEPT ![r] = directives]
    /\ Finish(r, "llm", Fallback(view[r]), TRUE, NoEntry)

\* The safe default; whatever directives came with the answer are discarded.
Degrade(r, directives) ==
    /\ issued' = issued
    /\ Finish(r, "llm", Fallback(view[r]), TRUE, NoEntry)

BrainFails(r) ==
    /\ pc[r] = "asking"
    /\ Degrade(r, {})
    /\ UNCHANGED <<tables, view, woken, dropped, parked>>

\* Directives the answer issues; accepting a demand to withdraw is one by itself.
Promises(r, chosen, directives) ==
    directives \cup (IF view[r].key \in Tribute /\ Comply \in chosen THEN {"withdraw"} ELSE {})

\* Mutant: a repair is not counted.
RepairUncounted(r) ==
    /\ prompt' = [prompt EXCEPT ![r] = told[r] \cup {0}]
    /\ UNCHANGED repairs

\* Mutant: a repair shows its own reason and nothing else.
RepairForgets(r) ==
    /\ prompt' = [prompt EXCEPT ![r] = {0}]
    /\ repairs' = [repairs EXCEPT ![r] = @ + 1]

\* The brain answered and every answer was thrown out: ask again, saying why.
Repair(r) ==
    /\ prompt' = [prompt EXCEPT ![r] = told[r] \cup {0}]
    /\ repairs' = [repairs EXCEPT ![r] = @ + 1]

MayRepair(r) == repairs[r] < MaxRepairs

\* validate keeps what was offered; the guard, if it is up, denies some of that.
BrainAnswers(r, ids, denied, directives) ==
    LET legal == ids \cap view[r].space
        allowed == legal \ denied
    IN  /\ pc[r] = "asking"
        /\ denied \subseteq legal
        /\ \/ /\ allowed # {}
              /\ issued' = [issued EXCEPT ![r] = Promises(r, allowed, directives)]
              /\ Finish(r, "llm", allowed, FALSE, NoEntry)
           \/ /\ allowed = {}
              /\ MayRepair(r)
              /\ Repair(r)
              /\ UNCHANGED <<pc, held, told, log, issued>>
           \/ /\ allowed = {}
              /\ ~MayRepair(r)
              /\ Degrade(r, directives)
        /\ UNCHANGED <<tables, view, woken, dropped, parked>>

-------------------------------------------------------------------------------
Answers(r) ==
    \/ Defer(r)
    \/ BrainFails(r)
    \/ \E ids \in SUBSET Actions, denied \in SUBSET view[r].space,
          directives \in {{}, {"own"}} : BrainAnswers(r, ids, denied, directives)

Decide(r) ==
    \/ Deterministic(r) \/ Planned(r) \/ NotPlanned(r) \/ Miss(r)
    \/ Queued(r) \/ NotQueued(r) \/ Retire(r) \/ Park(r)
    \/ Answers(r)

Agent ==
    \/ \E k \in Keys, a \in Actions, floor \in 1..MaxMetric, until \in Turns :
           InstallStanding(k, a, floor, until)
    \/ \E turn \in Turns, ks \in SUBSET Keys, a \in Actions : InstallPlan(turn, ks, a)

Next == Agent \/ \E r \in Requests : Decide(r) \/ \E v \in Asked : Arrive(r, v)

Spec == Init /\ [][Next]_vars

-------------------------------------------------------------------------------
Places == {"new", "gate", "missing", "standing", "retiring", "asking", "parking", "done"}
Tiers == {"none", "deterministic", "plan", "queued", "deferred", "llm"}
Ids == 0..MaxInstalls

(* Every variable keeps its type, and repairs stay within their bound.          *)
TypeOK ==
    /\ policy \subseteq Keys
    /\ installs \in Ids
    /\ standing \in [Keys -> Entries \cup {NoEntry}]
    /\ plan.turn \in 0..MaxTurn
    /\ plan.entries \in [Keys -> [id : Ids, action : Actions \cup {Missing},
                                 floor : {0}, until : 0..MaxTurn]]
    /\ view \in [Requests -> Asked]
    /\ pc \in [Requests -> Places]
    /\ \A r \in Requests : held[r].id \in Ids
    /\ told \in [Requests -> SUBSET Ids]
    /\ prompt \in [Requests -> SUBSET Ids]
    /\ repairs \in [Requests -> 0..MaxRepairs]
    /\ woken \subseteq Requests
    /\ dropped \subseteq [by : Requests, found : Ids, left : Ids]
    /\ \A r \in Requests : log[r].tier \in Tiers
    /\ issued \in [Requests -> SUBSET {"own", "withdraw"}]
    /\ parked \subseteq Requests

(* Adherence: whichever tier answers, the game is only ever told to do what it  *)
(* offered for this very decision, or that the agent will come back to it.      *)
OnlyOffered ==
    \A r \in Requests : log[r].chosen \subseteq
        view[r].space \cup (IF log[r].tier = "deferred" THEN {"defer"} ELSE {})

(* A surface that is off costs nothing and decides nothing: the brain is not    *)
(* asked, no table answers it or loses an entry to it, and it is not degraded.  *)
OffIsSilent ==
    \A r \in Requests : log[r].tier # "none" /\ view[r].key \notin policy =>
        /\ log[r].tier = "deterministic" /\ ~log[r].degraded
        /\ r \notin woken /\ r \notin parked
        /\ \A x \in dropped : x.by # r

(* A standing answer is applied only to a board that satisfies what it stands   *)
(* on: its horizon has not passed and its metric is reported and high enough.   *)
StandingStands ==
    \A r \in Requests : log[r].tier = "queued" =>
        LET e == log[r].entry IN
        /\ log[r].chosen = {e.action}
        /\ view[r].turn <= e.until
        /\ view[r].metric \in e.floor..MaxMetric

(* A table for one turn answers nothing on another, however well it matches.    *)
PlanOfItsTurn ==
    \A r \in Requests : log[r].tier = "plan" => log[r].entry.until = view[r].turn

(* Degraded is honest both ways: a degraded decision plays the fallback and     *)
(* leaves no plan behind, and one that is not degraded chose something.         *)
DegradedIsHonest ==
    \A r \in Requests :
        /\ log[r].degraded => log[r].chosen = Fallback(view[r]) /\ issued[r] = {}
        /\ log[r].tier \in {"llm", "plan", "queued"} /\ ~log[r].degraded =>
               log[r].chosen # {}

(* The brain a request asks is told of each standing answer the request itself  *)
(* found overtaken and dropped, whatever answer its retire then took out, and   *)
(* on every repair of the refusal too (queued.py: retire, orchestrator.py:      *)
(* decide).  Of an answer that another request's retire took, it is not.        *)
WokenWithReason ==
    \A r \in Requests : pc[r] = "asking" =>
        /\ \A x \in dropped : x.by = r => x.found \in prompt[r]
        /\ repairs[r] > 0 => 0 \in prompt[r]

(* A deferral an agent can see was recorded as one.                             *)
ParkedIsLogged == \A r \in parked : log[r].tier = "deferred"

\* How far a request is from its reply.
Distance(r) ==
    CASE pc[r] = "new" -> 9
      [] pc[r] = "gate" -> 8
      [] pc[r] = "missing" -> 7
      [] pc[r] = "standing" -> 6
      [] pc[r] = "retiring" -> 5
      [] pc[r] = "asking" -> 4 - repairs[r]
      [] pc[r] = "parking" -> 1
      [] pc[r] = "done" -> 0

(* The game gets its answer: every step of a request brings its reply nearer,   *)
(* so that no lookup sends it back and no brain can make it repair for ever.    *)
ReplyComesNearer ==
    [][\A r \in Requests :
           \/ <<pc[r], prompt[r], repairs[r]>>' = <<pc[r], prompt[r], repairs[r]>>
           \/ Distance(r)' < Distance(r)]_vars

(* "A queued answer holds until one of its predicates stops holding"            *)
(* (queued.py:232): what leaves a table is the entry that was found overtaken.  *)
OnlyOvertakenLeave == \A x \in dropped : x.left \in {0, x.found}

(* "A withdrawal answer is intrinsically a promise about later turns ... and    *)
(* accepting it commits the native receiver to keep doing so"                   *)
(* (orchestrator.py:583-586): whoever accepts it, the promise is stored.        *)
ComplianceRemembered ==
    \A r \in Requests : log[r].tier # "none" /\ view[r].key \in Tribute
                        /\ Comply \in log[r].chosen => "withdraw" \in issued[r]
===============================================================================
