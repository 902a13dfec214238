--------------------------- MODULE DecisionLoop_proofs --------------------------
(* One call of decide among any number of them, for any keys, actions, tables,  *)
(* bounds and repairs: what its record says is so, nobody is woken in the dark, *)
(* and every step brings the reply nearer.                                      *)
EXTENDS DecisionLoop, TLAPS

\* What the records below are made of.
LoopShapes ==
    /\ installs \in Nat
    /\ standing \in [Keys -> Entries \cup {NoEntry}]
    /\ pc \in [Requests -> Places]
    /\ repairs \in [Requests -> 0..MaxRepairs]
    /\ DOMAIN view = Requests /\ DOMAIN held = Requests /\ DOMAIN told = Requests
    /\ DOMAIN prompt = Requests /\ DOMAIN log = Requests /\ DOMAIN issued = Requests

\* Not answered: nothing recorded, and all that was dropped on the way is to be told.
Open(r) == pc[r] \notin {"parking", "done"}

Unrecorded(r) ==
    /\ pc[r] # "new" => view[r] \in Views
    /\ Open(r) => log[r] = NoRecord
    /\ pc[r] # "done" => issued[r] = {}
    /\ pc[r] \notin {"asking", "parking"} => repairs[r] = 0

ToldOf(r) ==
    /\ Open(r) => \A x \in dropped : x.by = r => x.found \in told[r]
    /\ pc[r] = "asking" => /\ told[r] \subseteq prompt[r]
                           /\ repairs[r] > 0 => 0 \in prompt[r]

\* A record is true of the view it was made for, which stays.
StandsFor(r) ==
    log[r].tier = "queued" => LET e == log[r].entry
                              IN /\ log[r].chosen = {e.action}
                                 /\ view[r].turn <= e.until
                                 /\ view[r].metric \in e.floor..MaxMetric
HonestOf(r) ==
    /\ log[r].degraded => log[r].chosen = Fallback(view[r]) /\ issued[r] = {}
    /\ log[r].tier \in {"llm", "plan", "queued"} /\ ~log[r].degraded => log[r].chosen # {}

RequestOK(r) == Unrecorded(r) /\ ToldOf(r) /\ StandsFor(r) /\ HonestOf(r)

LoopInv == LoopShapes /\ \A r \in Requests : RequestOK(r)

LEMMA LoopInvInit == Init => LoopInv
<1> SUFFICES ASSUME Init PROVE LoopInv
  OBVIOUS
<1>1. LoopShapes
  <2>1. 0 \in 0..MaxRepairs
    BY ConstantsOK
  <2> QED
    BY <2>1 DEF LoopShapes, Init, Places
<1>2. ASSUME NEW r \in Requests PROVE RequestOK(r)
  <2>1. /\ pc[r] = "new" /\ log[r] = NoRecord /\ issued[r] = {} /\ repairs[r] = 0
        /\ dropped = {}
    BY DEF Init
  <2>2. NoRecord.tier = "none" /\ NoRecord.degraded = FALSE
    BY DEF NoRecord
  <2> QED
    BY <2>1, <2>2 DEF RequestOK, Unrecorded, ToldOf, StandsFor, HonestOf
<1> QED
  BY <1>1, <1>2 DEF LoopInv

\* A step of one request leaves the others as they are.
LEMMA OthersKept ==
    ASSUME LoopInv, NEW r \in Requests, LoopShapes', RequestOK(r)',
           \A e \in Requests : e # r =>
              /\ pc'[e] = pc[e] /\ view'[e] = view[e] /\ told'[e] = told[e]
              /\ prompt'[e] = prompt[e] /\ repairs'[e] = repairs[e]
              /\ log'[e] = log[e] /\ issued'[e] = issued[e],
           \A x \in dropped' : x \in dropped \/ x.by = r
    PROVE  LoopInv'
<1>1. ASSUME NEW e \in Requests, e # r PROVE RequestOK(e)'
  <2>1. RequestOK(e)
    BY DEF LoopInv
  <2>2. Unrecorded(e)'
    BY <1>1, <2>1 DEF RequestOK, Unrecorded, Open
  <2>3. ToldOf(e)'
    BY <1>1, <2>1 DEF RequestOK, ToldOf, Open
  <2>4. StandsFor(e)' /\ HonestOf(e)'
    BY <1>1, <2>1 DEF RequestOK, StandsFor, HonestOf
  <2> QED
    BY <2>2, <2>3, <2>4 DEF RequestOK
<1> QED
  BY <1>1 DEF LoopInv

\* Steps of the agent leave every request as it is.
LEMMA InstallKeepsLoopInv == ASSUME LoopInv, Agent PROVE LoopInv'
<1>1. UNCHANGED <<view, pc, held, told, prompt, repairs, dropped, log, issued>>
  BY DEF Agent, InstallStanding, InstallPlan, outcomes
<1>2. LoopShapes'
  <2>1. CASE \E k \in Keys, a \in Actions, floor \in 1..MaxMetric, until \in Turns :
                 InstallStanding(k, a, floor, until)
    <3>1. PICK k \in Keys, a \in Actions, floor \in 1..MaxMetric, until \in Turns :
                 InstallStanding(k, a, floor, until)
      BY <2>1
    <3> DEFINE new == [id |-> installs + 1, action |-> a, floor |-> floor, until |-> until]
    <3>2. /\ installs < MaxInstalls /\ installs' = installs + 1
          /\ standing' = [standing EXCEPT ![k] = new]
      BY <3>1 DEF InstallStanding
    <3>3. new \in Entries
      BY <3>2, ConstantsOK DEF Entries, LoopInv, LoopShapes
    <3> HIDE DEF new
    <3>4. standing' \in [Keys -> Entries \cup {NoEntry}]
      BY <3>2, <3>3 DEF LoopInv, LoopShapes
    <3> QED
      BY <1>1, <3>2, <3>4 DEF LoopInv, LoopShapes
  <2>2. CASE \E turn \in Turns, ks \in SUBSET Keys, a \in Actions : InstallPlan(turn, ks, a)
    <3>1. installs' = installs + 1 /\ standing' = standing
      BY <2>2 DEF InstallPlan
    <3> QED
      BY <1>1, <3>1 DEF LoopInv, LoopShapes
  <2> QED
    BY <2>1, <2>2 DEF Agent
<1>3. ASSUME NEW e \in Requests PROVE RequestOK(e)'
  BY <1>1 DEF LoopInv, RequestOK, Unrecorded, ToldOf, Open, StandsFor, HonestOf
<1> QED
  BY <1>2, <1>3 DEF LoopInv

LEMMA ArriveKeepsLoopInv ==
    ASSUME LoopInv, NEW r \in Requests, NEW v \in Asked, Arrive(r, v)
    PROVE  LoopInv'
<1>1. /\ pc[r] = "new" /\ view' = [view EXCEPT ![r] = v] /\ pc' = [pc EXCEPT ![r] = "gate"]
      /\ UNCHANGED <<installs, standing, held, told, prompt, repairs, dropped, log, issued>>
  BY DEF Arrive, Goto, tables, outcomes
<1>2. LoopShapes'
  BY <1>1 DEF LoopInv, LoopShapes, Places
<1>3. /\ pc'[r] = "gate" /\ view'[r] = v /\ v \in Views
      /\ \A e \in Requests : e # r => pc'[e] = pc[e] /\ view'[e] = view[e]
  BY <1>1, AskedOK DEF LoopInv, LoopShapes
<1>4. RequestOK(r)'
  <2>1. /\ RequestOK(r) /\ NoRecord.tier = "none" /\ NoRecord.degraded = FALSE
    BY DEF LoopInv, NoRecord
  <2>2. log[r] = NoRecord /\ issued[r] = {}
    BY <1>1, <2>1 DEF RequestOK, Unrecorded, Open
  <2> QED
    BY <1>1, <1>3, <2>1, <2>2 DEF RequestOK, Unrecorded, ToldOf, Open, StandsFor, HonestOf
<1> QED
  BY <1>1, <1>2, <1>3, <1>4, OthersKept

\* decide returns, with a record that is true.
LEMMA FinishKeepsLoopInv ==
    ASSUME LoopInv, NEW r \in Requests, pc[r] # "new",
           NEW tier, NEW chosen, NEW degraded, NEW entry,
           Finish(r, tier, chosen, degraded, entry),
           UNCHANGED <<installs, standing, view, dropped>>,
           NEW plans, issued' = issued \/ issued' = [issued EXCEPT ![r] = plans],
           tier = "queued" => /\ chosen = {entry.action}
                              /\ view[r].turn <= entry.until
                              /\ view[r].metric \in entry.floor..MaxMetric,
           degraded => chosen = Fallback(view[r]) /\ issued' = issued /\ pc[r] # "done",
           tier \in {"llm", "plan", "queued"} /\ ~degraded => chosen # {}
    PROVE  LoopInv'
<1> DEFINE record == [tier |-> tier, chosen |-> chosen, degraded |-> degraded, entry |-> entry]
<1>1. /\ log' = [log EXCEPT ![r] = record] /\ pc' = [pc EXCEPT ![r] = "done"]
      /\ held' = [held EXCEPT ![r] = NoEntry] /\ told' = [told EXCEPT ![r] = {}]
      /\ prompt' = [prompt EXCEPT ![r] = {}] /\ repairs' = [repairs EXCEPT ![r] = 0]
  BY DEF Finish
<1>2. /\ record.tier = tier /\ record.chosen = chosen /\ record.degraded = degraded
      /\ record.entry = entry
  OBVIOUS
<1> HIDE DEF record
<1>3. LoopShapes'
  <2>1. 0 \in 0..MaxRepairs
    BY ConstantsOK
  <2> QED
    BY <1>1, <2>1 DEF LoopInv, LoopShapes, Places
<1>4. /\ pc'[r] = "done" /\ repairs'[r] = 0 /\ log'[r] = record
      /\ \A e \in Requests : e # r =>
            /\ pc'[e] = pc[e] /\ told'[e] = told[e] /\ prompt'[e] = prompt[e]
            /\ repairs'[e] = repairs[e] /\ log'[e] = log[e] /\ issued'[e] = issued[e]
  BY <1>1 DEF LoopInv, LoopShapes
<1>5. Unrecorded(r)' /\ ToldOf(r)'
  BY <1>4 DEF Unrecorded, ToldOf, Open, LoopInv, RequestOK
<1>6. StandsFor(r)'
  BY <1>2, <1>4 DEF StandsFor
<1>7. HonestOf(r)'
  <2>1. degraded => issued'[r] = {}
    BY DEF LoopInv, RequestOK, Unrecorded
  <2> QED
    BY <1>2, <1>4, <2>1 DEF HonestOf
<1> QED
  BY <1>3, <1>4, <1>5, <1>6, <1>7, OthersKept DEF RequestOK

\* A request that goes on, with what it dropped told.
LEMMA StepKeepsLoopInv ==
    ASSUME LoopInv, NEW r \in Requests, NEW p \in Places \ {"new", "parking", "done"},
           pc[r] \notin {"new", "parking", "done"}, pc' = [pc EXCEPT ![r] = p],
           LoopShapes', UNCHANGED <<view, log, issued>>,
           \A e \in Requests : e # r =>
              /\ told'[e] = told[e] /\ prompt'[e] = prompt[e] /\ repairs'[e] = repairs[e],
           \A x \in dropped' : x \in dropped \/ x.by = r,
           ToldOf(r)',
           p # "asking" => repairs'[r] = 0
    PROVE  LoopInv'
<1>1. pc'[r] = p /\ \A e \in Requests : e # r => pc'[e] = pc[e]
  BY DEF LoopInv, LoopShapes
<1>2. Unrecorded(r) /\ StandsFor(r) /\ HonestOf(r)
  BY DEF LoopInv, RequestOK
<1>3. Unrecorded(r)' /\ StandsFor(r)' /\ HonestOf(r)'
  BY <1>1, <1>2 DEF Unrecorded, Open, StandsFor, HonestOf
<1> QED
  BY <1>1, <1>3, OthersKept DEF RequestOK

\* The tables: an entry that stands is the answer.
LEMMA LookupKeepsLoopInv ==
    ASSUME LoopInv, NEW r \in Requests, Deterministic(r) \/ Planned(r) \/ Queued(r)
    PROVE  LoopInv'
<1>1. CASE Deterministic(r)
  <2>1. /\ pc[r] = "gate" /\ Finish(r, "deterministic", {}, FALSE, NoEntry)
        /\ UNCHANGED <<installs, standing, view, dropped, issued>>
    BY <1>1 DEF Deterministic, tables
  <2>2. "deterministic" \notin {"llm", "plan", "queued"} /\ pc[r] # "new"
    BY <2>1
  <2> QED
    BY <2>1, <2>2, FinishKeepsLoopInv, Zenon
<1>2. CASE Planned(r)
  <2> DEFINE e == PlanEntry(view[r])
  <2>1. /\ pc[r] = "gate" /\ Finish(r, "plan", {e.action}, FALSE, e)
        /\ UNCHANGED <<installs, standing, view, dropped, issued>>
    BY <1>2 DEF Planned, tables
  <2> HIDE DEF e
  <2>2. {e.action} # {} /\ "plan" # "queued" /\ pc[r] # "new"
    BY <2>1
  <2> QED
    BY <2>1, <2>2, FinishKeepsLoopInv, Zenon
<1>3. CASE Queued(r)
  <2> DEFINE e == standing[view[r].key]
  <2>1. /\ pc[r] = "standing" /\ e # NoEntry /\ Stands(e, view[r])
        /\ Finish(r, "queued", {e.action}, FALSE, e)
        /\ UNCHANGED <<installs, standing, view, dropped, issued>>
    BY <1>3 DEF Queued, tables
  <2>2. view[r] \in Views
    BY <2>1 DEF LoopInv, RequestOK, Unrecorded
  <2>3. view[r].key \in Keys /\ view[r].metric \in 0..Absent
    BY <2>2 DEF Views
  <2>4. e \in Entries
    BY <2>1, <2>3 DEF LoopInv, LoopShapes
  <2>5. e.floor \in Nat /\ MaxMetric \in Nat
    BY <2>4, ConstantsOK DEF Entries
  <2> HIDE DEF e
  <2>6. /\ view[r].turn <= e.until
        /\ view[r].metric \in e.floor..MaxMetric
    BY <2>1, <2>3, <2>5 DEF Stands, Holds, Absent
  <2>7. {e.action} # {}
    OBVIOUS
  <2> QED
    BY <2>1, <2>6, <2>7, FinishKeepsLoopInv
<1> QED
  BY <1>1, <1>2, <1>3

LEMMA NotPlannedKeepsLoopInv ==
    ASSUME LoopInv, NEW r \in Requests, NotPlanned(r)
    PROVE  LoopInv'
<1>1. PICK p \in {"standing", "missing"} : pc' = [pc EXCEPT ![r] = p]
  BY DEF NotPlanned, Goto
<1>2. /\ pc[r] = "gate" /\ DOMAIN held' = Requests
      /\ UNCHANGED <<installs, standing, view, told, prompt, repairs, dropped, log, issued>>
  BY DEF NotPlanned, tables, outcomes, LoopInv, LoopShapes
<1>3. LoopShapes' /\ pc'[r] = p
  BY <1>1, <1>2 DEF LoopInv, LoopShapes, Places
<1>4. ToldOf(r)' /\ repairs[r] = 0
  BY <1>1, <1>2, <1>3 DEF LoopInv, RequestOK, Unrecorded, ToldOf, Open
<1> QED
  BY <1>1, <1>2, <1>3, <1>4, StepKeepsLoopInv DEF Places

\* What was found overtaken is told, whatever leaves the table.
LEMMA MissKeepsLoopInv ==
    ASSUME LoopInv, NEW r \in Requests, Miss(r)
    PROVE  LoopInv'
<1> DEFINE x0 == [by |-> r, found |-> held[r].id, left |-> plan.entries[view[r].key].id]
<1>1. /\ pc[r] = "missing" /\ pc' = [pc EXCEPT ![r] = "standing"]
      /\ told' = [told EXCEPT ![r] = @ \cup {held[r].id}]
      /\ dropped' = dropped \cup {x0}
      /\ UNCHANGED <<installs, standing, view, held, prompt, repairs, log, issued>>
  BY DEF Miss, Goto, Drop, outcomes
<1>2. x0.by = r /\ x0.found = held[r].id
  OBVIOUS
<1> HIDE DEF x0
<1>3. LoopShapes'
  BY <1>1 DEF LoopInv, LoopShapes, Places
<1>4. /\ pc'[r] = "standing" /\ told'[r] = told[r] \cup {held[r].id}
      /\ \A e \in Requests : e # r => told'[e] = told[e]
  BY <1>1 DEF LoopInv, LoopShapes
<1>5. \A x \in dropped : x.by = r => x.found \in told[r]
  BY <1>1 DEF LoopInv, RequestOK, ToldOf, Open
<1>6. ToldOf(r)' /\ repairs[r] = 0
  BY <1>1, <1>2, <1>4, <1>5 DEF ToldOf, LoopInv, RequestOK, Unrecorded
<1>7. \A x \in dropped' : x \in dropped \/ x.by = r
  BY <1>1, <1>2
<1> QED
  BY <1>1, <1>3, <1>4, <1>6, <1>7, StepKeepsLoopInv DEF Places

\* The brain is asked with all of it, the first time.
LEMMA NotQueuedKeepsLoopInv ==
    ASSUME LoopInv, NEW r \in Requests, NotQueued(r)
    PROVE  LoopInv'
<1>1. /\ pc[r] = "standing" /\ DOMAIN held' = Requests
      /\ UNCHANGED <<installs, standing, view, told, repairs, dropped, log, issued>>
  BY DEF NotQueued, tables, outcomes, LoopInv, LoopShapes
<1>2. PICK p \in {"asking", "retiring"} :
         /\ pc' = [pc EXCEPT ![r] = p]
         /\ \/ p = "asking" /\ prompt' = [prompt EXCEPT ![r] = told[r]]
            \/ p = "retiring" /\ prompt' = prompt
  BY DEF NotQueued, Ask, Goto
<1>3. LoopShapes' /\ pc'[r] = p
  BY <1>1, <1>2 DEF LoopInv, LoopShapes, Places
<1>4. /\ \A e \in Requests : e # r => prompt'[e] = prompt[e]
      /\ p = "asking" => prompt'[r] = told[r]
  BY <1>2 DEF LoopInv, LoopShapes
<1>5. repairs[r] = 0 /\ \A x \in dropped : x.by = r => x.found \in told[r]
  BY <1>1 DEF LoopInv, RequestOK, Unrecorded, ToldOf, Open
<1>6. ToldOf(r)'
  BY <1>1, <1>3, <1>4, <1>5 DEF ToldOf
<1> QED
  BY <1>1, <1>2, <1>3, <1>4, <1>5, <1>6, StepKeepsLoopInv DEF Places

LEMMA RetireKeepsLoopInv ==
    ASSUME LoopInv, NEW r \in Requests, Retire(r)
    PROVE  LoopInv'
<1> DEFINE k == view[r].key
           x0 == [by |-> r, found |-> held[r].id, left |-> standing[k].id]
           all == told[r] \cup {held[r].id}
<1>1. /\ pc[r] = "retiring" /\ pc' = [pc EXCEPT ![r] = "asking"]
      /\ told' = [told EXCEPT ![r] = @ \cup {held[r].id}]
      /\ prompt' = [prompt EXCEPT ![r] = all]
      /\ dropped' = dropped \cup {x0}
      /\ standing' = [standing EXCEPT ![k] = NoEntry]
      /\ UNCHANGED <<installs, view, held, repairs, log, issued>>
  BY DEF Retire, Ask, Goto, Drop, outcomes
<1>2. x0.by = r /\ x0.found = held[r].id
  OBVIOUS
<1> HIDE DEF x0
<1>3. LoopShapes'
  BY <1>1 DEF LoopInv, LoopShapes, Places
<1>4. /\ pc'[r] = "asking" /\ told'[r] = all /\ prompt'[r] = all
      /\ \A e \in Requests : e # r => told'[e] = told[e] /\ prompt'[e] = prompt[e]
  BY <1>1 DEF LoopInv, LoopShapes
<1>5. repairs[r] = 0 /\ \A x \in dropped : x.by = r => x.found \in told[r]
  BY <1>1 DEF LoopInv, RequestOK, Unrecorded, ToldOf, Open
<1>6. ToldOf(r)'
  BY <1>1, <1>2, <1>4, <1>5 DEF ToldOf
<1>7. \A x \in dropped' : x \in dropped \/ x.by = r
  BY <1>1, <1>2
<1> QED
  BY <1>1, <1>3, <1>4, <1>6, <1>7, StepKeepsLoopInv DEF Places

\* A deferral is on record before it is parked, and what was told stays until then.
LEMMA DeferKeepsLoopInv ==
    ASSUME LoopInv, NEW r \in Requests, Defer(r)
    PROVE  LoopInv'
<1> DEFINE record == [tier |-> "deferred", chosen |-> {"defer"}, degraded |-> FALSE,
                      entry |-> NoEntry]
<1>1. /\ pc[r] = "asking" /\ pc' = [pc EXCEPT ![r] = "parking"]
      /\ log' = [log EXCEPT ![r] = record]
      /\ UNCHANGED <<installs, standing, view, held, told, prompt, repairs, dropped, issued>>
  BY DEF Defer, Goto, tables
<1>2. record.tier = "deferred" /\ record.degraded = FALSE
  OBVIOUS
<1> HIDE DEF record
<1>3. LoopShapes'
  BY <1>1 DEF LoopInv, LoopShapes, Places
<1>4. /\ pc'[r] = "parking" /\ log'[r] = record
      /\ \A e \in Requests : e # r => pc'[e] = pc[e] /\ log'[e] = log[e]
  BY <1>1 DEF LoopInv, LoopShapes
<1>5. Unrecorded(r)' /\ ToldOf(r)'
  BY <1>1, <1>4 DEF LoopInv, RequestOK, Unrecorded, ToldOf, Open
<1>6. StandsFor(r)' /\ HonestOf(r)'
  BY <1>2, <1>4 DEF StandsFor, HonestOf
<1> QED
  BY <1>1, <1>3, <1>4, <1>5, <1>6, OthersKept DEF RequestOK

LEMMA ParkKeepsLoopInv ==
    ASSUME LoopInv, NEW r \in Requests, Park(r)
    PROVE  LoopInv'
<1>1. /\ pc[r] = "parking" /\ Finish(r, "deferred", {"defer"}, FALSE, NoEntry)
      /\ UNCHANGED <<installs, standing, view, dropped, issued>>
  BY DEF Park, tables
<1>2. "deferred" \notin {"llm", "plan", "queued"} /\ pc[r] # "new"
  BY <1>1
<1> QED
  BY <1>1, <1>2, FinishKeepsLoopInv, Zenon

LEMMA DegradeKeepsLoopInv ==
    ASSUME LoopInv, NEW r \in Requests, NEW directives, pc[r] = "asking",
           Degrade(r, directives), UNCHANGED <<installs, standing, view, dropped>>
    PROVE  LoopInv'
<1>1. issued' = issued /\ Finish(r, "llm", Fallback(view[r]), TRUE, NoEntry)
  BY DEF Degrade
<1>2. "llm" # "queued" /\ pc[r] \notin {"new", "done"}
  OBVIOUS
<1> QED
  BY <1>1, <1>2, FinishKeepsLoopInv, Zenon

\* A repair shows what was overtaken again, and the reason.
LEMMA AnswerKeepsLoopInv ==
    ASSUME LoopInv, NEW r \in Requests, NEW ids, NEW denied, NEW directives,
           BrainAnswers(r, ids, denied, directives)
    PROVE  LoopInv'
<1> DEFINE allowed == (ids \cap view[r].space) \ denied
<1>1. pc[r] = "asking" /\ UNCHANGED <<installs, standing, view, dropped>>
  BY DEF BrainAnswers, tables
<1>2. CASE allowed # {} /\ issued' = [issued EXCEPT ![r] = Promises(r, allowed, directives)]
           /\ Finish(r, "llm", allowed, FALSE, NoEntry)
  <2>1. "llm" # "queued" /\ pc[r] # "new"
    BY <1>1
  <2> QED
    BY <1>1, <1>2, <2>1, FinishKeepsLoopInv, Zenon
<1>3. CASE Degrade(r, directives)
  BY <1>1, <1>3, DegradeKeepsLoopInv
<1>4. CASE MayRepair(r) /\ Repair(r) /\ UNCHANGED <<pc, held, told, log, issued>>
  <2>1. /\ prompt' = [prompt EXCEPT ![r] = told[r] \cup {0}]
        /\ repairs' = [repairs EXCEPT ![r] = @ + 1]
    BY <1>4 DEF Repair
  <2>2. repairs[r] \in 0..MaxRepairs /\ repairs[r] < MaxRepairs /\ MaxRepairs \in Nat
    BY <1>4, ConstantsOK DEF MayRepair, LoopInv, LoopShapes
  <2>3. LoopShapes'
    <3>1. repairs[r] + 1 \in 0..MaxRepairs
      BY <2>2
    <3>2. repairs' \in [Requests -> 0..MaxRepairs]
      BY <2>1, <3>1 DEF LoopInv, LoopShapes
    <3> QED
      BY <1>1, <1>4, <2>1, <3>2 DEF LoopInv, LoopShapes
  <2>4. /\ prompt'[r] = told[r] \cup {0}
        /\ \A e \in Requests : e # r => prompt'[e] = prompt[e] /\ repairs'[e] = repairs[e]
    BY <2>1 DEF LoopInv, LoopShapes
  <2>5. ToldOf(r)'
    BY <1>1, <1>4, <2>4 DEF LoopInv, RequestOK, ToldOf, Open
  <2>6. Unrecorded(r)' /\ StandsFor(r)' /\ HonestOf(r)'
    BY <1>1, <1>4 DEF LoopInv, RequestOK, Unrecorded, Open, StandsFor, HonestOf
  <2> QED
    BY <1>1, <1>4, <2>3, <2>4, <2>5, <2>6, OthersKept DEF RequestOK
<1> QED
  BY <1>2, <1>3, <1>4 DEF BrainAnswers

LEMMA LoopInvKept == LoopInv /\ [Next]_vars => LoopInv'
<1> SUFFICES ASSUME LoopInv, [Next]_vars PROVE LoopInv'
  OBVIOUS
<1>1. CASE UNCHANGED vars
  <2>1. UNCHANGED <<installs, standing, view, pc, held, told, prompt, repairs, dropped, log,
                    issued>>
    BY <1>1 DEF vars
  <2>2. LoopShapes'
    BY <2>1 DEF LoopInv, LoopShapes
  <2>3. ASSUME NEW e \in Requests PROVE RequestOK(e)'
    BY <2>1 DEF LoopInv, RequestOK, Unrecorded, ToldOf, Open, StandsFor, HonestOf
  <2> QED
    BY <2>2, <2>3 DEF LoopInv
<1>2. CASE Agent
  BY <1>2, InstallKeepsLoopInv
<1>3. ASSUME NEW r \in Requests, NEW v \in Asked, Arrive(r, v) PROVE LoopInv'
  BY <1>3, ArriveKeepsLoopInv
<1>4. ASSUME NEW r \in Requests, Decide(r) PROVE LoopInv'
  <2>1. CASE Deterministic(r) \/ Planned(r) \/ Queued(r)
    BY <2>1, LookupKeepsLoopInv
  <2>2. CASE NotPlanned(r) \/ Miss(r) \/ NotQueued(r) \/ Retire(r) \/ Park(r)
    BY <2>2, NotPlannedKeepsLoopInv, MissKeepsLoopInv, NotQueuedKeepsLoopInv,
       RetireKeepsLoopInv, ParkKeepsLoopInv
  <2>3. CASE Defer(r)
    BY <2>3, DeferKeepsLoopInv
  <2>4. CASE BrainFails(r)
    <3>1. /\ pc[r] = "asking" /\ Degrade(r, {}) /\ UNCHANGED <<installs, standing, view, dropped>>
      BY <2>4 DEF BrainFails, tables
    <3> QED
      BY <3>1, DegradeKeepsLoopInv
  <2>5. CASE \E ids \in SUBSET Actions, denied \in SUBSET view[r].space,
                directives \in {{}, {"own"}} : BrainAnswers(r, ids, denied, directives)
    BY <2>5, AnswerKeepsLoopInv
  <2> QED
    BY <1>4, <2>1, <2>2, <2>3, <2>4, <2>5 DEF Decide, Answers
<1> QED
  BY <1>1, <1>2, <1>3, <1>4 DEF Next

\* Whatever the requests and the agent interleave: a record is made once, of the view it
\* came with, and all a request dropped is told until it is answered.
THEOREM LoopInvariant == Spec => []LoopInv
BY LoopInvInit, LoopInvKept, PTL DEF Spec

\* A standing answer is applied only to a board that satisfies it (queued.py: check).
THEOREM StandingAnswersStand == Spec => []StandingStands
<1>1. LoopInv => StandingStands
  BY DEF LoopInv, RequestOK, StandsFor, StandingStands
<1> QED
  BY LoopInvariant, <1>1, PTL

\* Degraded is honest both ways (orchestrator.py: _degrade and the emits of decide).
THEOREM DegradedSaysSo == Spec => []DegradedIsHonest
<1>1. LoopInv => DegradedIsHonest
  BY DEF LoopInv, RequestOK, HonestOf, DegradedIsHonest
<1> QED
  BY LoopInvariant, <1>1, PTL

\* Whoever is asked is told of what its own request found overtaken, on a repair too
\* (orchestrator.py: decide).
THEOREM NobodyWokenInTheDark == Spec => []WokenWithReason
<1>1. LoopInv => WokenWithReason
  <2> SUFFICES ASSUME LoopInv, NEW r \in Requests, pc[r] = "asking"
               PROVE  /\ \A x \in dropped : x.by = r => x.found \in prompt[r]
                      /\ repairs[r] > 0 => 0 \in prompt[r]
    BY DEF WokenWithReason
  <2> QED
    BY DEF LoopInv, RequestOK, ToldOf, Open
<1> QED
  BY LoopInvariant, <1>1, PTL

\* How far a request is: a number that its place gives, and its repairs while it asks.
LEMMA DistanceOf ==
    ASSUME LoopInv, NEW r \in Requests
    PROVE  /\ pc[r] = "new" => Distance(r) = 9
           /\ pc[r] = "gate" => Distance(r) = 8
           /\ pc[r] = "missing" => Distance(r) = 7
           /\ pc[r] = "standing" => Distance(r) = 6
           /\ pc[r] = "retiring" => Distance(r) = 5
           /\ pc[r] = "asking" => Distance(r) = 4 - repairs[r] /\ Distance(r) \in {2, 3, 4}
           /\ pc[r] = "parking" => Distance(r) = 1
           /\ pc[r] = "done" => Distance(r) = 0
<1>1. repairs[r] \in 0..MaxRepairs /\ MaxRepairs \in 0..2
  BY ConstantsOK DEF LoopInv, LoopShapes
<1> QED
  BY <1>1 DEF Distance

LEMMA DistanceAfter ==
    ASSUME LoopInv', NEW r \in Requests
    PROVE  /\ pc'[r] = "gate" => Distance(r)' = 8
           /\ pc'[r] = "missing" => Distance(r)' = 7
           /\ pc'[r] = "standing" => Distance(r)' = 6
           /\ pc'[r] = "retiring" => Distance(r)' = 5
           /\ pc'[r] = "asking" => Distance(r)' = 4 - repairs'[r] /\ Distance(r)' \in {2, 3, 4}
           /\ pc'[r] = "parking" => Distance(r)' = 1
           /\ pc'[r] = "done" => Distance(r)' = 0
<1>1. repairs'[r] \in 0..MaxRepairs /\ MaxRepairs \in 0..2
  BY ConstantsOK DEF LoopInv, LoopShapes
<1> QED
  BY <1>1 DEF Distance

\* A step of a request is forward, or it is a repair that is counted.
LEMMA RequestForward ==
    ASSUME LoopInv, LoopInv', NEW r \in Requests, Decide(r)
    PROVE  Distance(r)' < Distance(r)
<1>1. ASSUME NEW p, pc' = [pc EXCEPT ![r] = p] PROVE pc'[r] = p
  BY <1>1 DEF LoopInv, LoopShapes
<1>2. CASE Deterministic(r) \/ Planned(r)
  <2>1. pc[r] = "gate" /\ pc' = [pc EXCEPT ![r] = "done"]
    BY <1>2 DEF Deterministic, Planned, Finish
  <2>2. pc'[r] = "done"
    BY <1>1, <2>1
  <2> QED
    BY <2>1, <2>2, DistanceOf, DistanceAfter
<1>3. CASE NotPlanned(r)
  <2>1. PICK p \in {"standing", "missing"} : pc[r] = "gate" /\ pc' = [pc EXCEPT ![r] = p]
    BY <1>3 DEF NotPlanned, Goto
  <2>2. pc'[r] = p
    BY <1>1, <2>1
  <2> QED
    BY <2>1, <2>2, DistanceOf, DistanceAfter
<1>4. CASE Miss(r)
  <2>1. pc[r] = "missing" /\ pc' = [pc EXCEPT ![r] = "standing"]
    BY <1>4 DEF Miss, Goto
  <2>2. pc'[r] = "standing"
    BY <1>1, <2>1
  <2> QED
    BY <2>1, <2>2, DistanceOf, DistanceAfter
<1>5. CASE Queued(r) \/ NotQueued(r)
  <2>1. PICK p \in {"done", "asking", "retiring"} :
           pc[r] = "standing" /\ pc' = [pc EXCEPT ![r] = p]
    BY <1>5 DEF Queued, NotQueued, Finish, Ask, Goto
  <2>2. pc'[r] = p
    BY <1>1, <2>1
  <2> QED
    BY <2>1, <2>2, DistanceOf, DistanceAfter
<1>6. CASE Retire(r)
  <2>1. pc[r] = "retiring" /\ pc' = [pc EXCEPT ![r] = "asking"]
    BY <1>6 DEF Retire, Ask, Goto
  <2>2. pc'[r] = "asking"
    BY <1>1, <2>1
  <2> QED
    BY <2>1, <2>2, DistanceOf, DistanceAfter
<1>7. CASE Park(r)
  <2>1. pc[r] = "parking" /\ pc' = [pc EXCEPT ![r] = "done"]
    BY <1>7 DEF Park, Finish
  <2>2. pc'[r] = "done"
    BY <1>1, <2>1
  <2> QED
    BY <2>1, <2>2, DistanceOf, DistanceAfter
<1>8. CASE Answers(r)
  <2>1. pc[r] = "asking"
    BY <1>8 DEF Answers, Defer, BrainFails, BrainAnswers
  <2>2. \/ \E p \in {"parking", "done"} : pc' = [pc EXCEPT ![r] = p]
        \/ pc' = pc /\ repairs' = [repairs EXCEPT ![r] = @ + 1]
    BY <1>8 DEF Answers, Defer, Goto, BrainFails, BrainAnswers, Degrade, Finish, Repair
  <2>3. CASE \E p \in {"parking", "done"} : pc' = [pc EXCEPT ![r] = p]
    <3>1. PICK p \in {"parking", "done"} : pc' = [pc EXCEPT ![r] = p]
      BY <2>3
    <3>2. pc'[r] = p
      BY <1>1, <3>1
    <3> QED
      BY <2>1, <3>1, <3>2, DistanceOf, DistanceAfter
  <2>4. CASE pc' = pc /\ repairs' = [repairs EXCEPT ![r] = @ + 1]
    <3>1. repairs'[r] = repairs[r] + 1 /\ repairs[r] \in Nat
      BY <2>4, ConstantsOK DEF LoopInv, LoopShapes
    <3>2. Distance(r) = 4 - repairs[r] /\ Distance(r)' = 4 - repairs'[r]
      BY <2>1, <2>4, DistanceOf, DistanceAfter
    <3> QED
      BY <3>1, <3>2
  <2> QED
    BY <2>2, <2>3, <2>4
<1> QED
  BY <1>2, <1>3, <1>4, <1>5, <1>6, <1>7, <1>8 DEF Decide

\* And it leaves the place, the prompt and the repairs of every other request alone.
LEMMA OthersWait ==
    ASSUME LoopInv, NEW r \in Requests, Decide(r), NEW e \in Requests, e # r
    PROVE  <<pc[e], prompt[e], repairs[e]>>' = <<pc[e], prompt[e], repairs[e]>>
<1>1. PICK p : pc' = pc \/ pc' = [pc EXCEPT ![r] = p]
  BY DEF Decide, Answers, Deterministic, Planned, NotPlanned, Miss, Queued, NotQueued, Retire,
         Park, Defer, BrainFails, BrainAnswers, Degrade, Finish, Ask, Goto
<1>2. PICK q : prompt' = prompt \/ prompt' = [prompt EXCEPT ![r] = q]
  BY DEF Decide, Answers, Deterministic, Planned, NotPlanned, Miss, Queued, NotQueued, Retire,
         Park, Defer, BrainFails, BrainAnswers, Degrade, Repair, Finish, Ask, tables, outcomes
<1>3. PICK n : repairs' = repairs \/ repairs' = [repairs EXCEPT ![r] = n]
  BY DEF Decide, Answers, Deterministic, Planned, NotPlanned, Miss, Queued, NotQueued, Retire,
         Park, Defer, BrainFails, BrainAnswers, Degrade, Repair, Finish, Ask, tables, outcomes
<1> QED
  BY <1>1, <1>2, <1>3 DEF LoopInv, LoopShapes

LEMMA StepsForward ==
    ASSUME LoopInv, LoopInv', [Next]_vars
    PROVE  [\A r \in Requests :
              \/ <<pc[r], prompt[r], repairs[r]>>' = <<pc[r], prompt[r], repairs[r]>>
              \/ Distance(r)' < Distance(r)]_vars
<1> SUFFICES ASSUME Next, NEW e \in Requests
             PROVE  \/ <<pc[e], prompt[e], repairs[e]>>' = <<pc[e], prompt[e], repairs[e]>>
                    \/ Distance(e)' < Distance(e)
  OBVIOUS
<1>1. CASE Agent
  <2>1. UNCHANGED <<pc, prompt, repairs>>
    BY <1>1 DEF Agent, InstallStanding, InstallPlan
  <2> QED
    BY <2>1
<1>2. ASSUME NEW r \in Requests, NEW v \in Asked, Arrive(r, v)
      PROVE  \/ <<pc[e], prompt[e], repairs[e]>>' = <<pc[e], prompt[e], repairs[e]>>
             \/ Distance(e)' < Distance(e)
  <2>1. /\ pc[r] = "new" /\ pc' = [pc EXCEPT ![r] = "gate"] /\ UNCHANGED <<prompt, repairs>>
    BY <1>2 DEF Arrive, Goto
  <2>2. pc'[r] = "gate" /\ (e # r => pc'[e] = pc[e])
    BY <2>1 DEF LoopInv, LoopShapes
  <2>3. Distance(r) = 9 /\ Distance(r)' = 8
    BY <2>1, <2>2, DistanceOf, DistanceAfter
  <2> QED
    BY <2>1, <2>2, <2>3
<1>3. ASSUME NEW r \in Requests, Decide(r)
      PROVE  \/ <<pc[e], prompt[e], repairs[e]>>' = <<pc[e], prompt[e], repairs[e]>>
             \/ Distance(e)' < Distance(e)
  <2>1. CASE e = r
    BY <1>3, <2>1, RequestForward
  <2>2. CASE e # r
    BY <1>3, <2>2, OthersWait
  <2> QED
    BY <2>1, <2>2
<1> QED
  BY <1>1, <1>2, <1>3 DEF Next

\* The game gets its answer: no lookup sends a request back, no brain repairs for ever.
THEOREM RepliesComeNearer == Spec => ReplyComesNearer
<1>1. LoopInv /\ LoopInv' /\ [Next]_vars
      => [\A r \in Requests :
             \/ <<pc[r], prompt[r], repairs[r]>>' = <<pc[r], prompt[r], repairs[r]>>
             \/ Distance(r)' < Distance(r)]_vars
  BY StepsForward
<1> QED
  BY LoopInvariant, <1>1, PTL DEF Spec, ReplyComesNearer
================================================================================
