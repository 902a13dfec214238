-------------------------- MODULE DecisionQueue_proofs --------------------------
(* The decision queue's safety properties, for any number of workers, agents,   *)
(* runs and decisions.                                                          *)
EXTENDS DecisionQueue, FiniteSetTheorems, TLAPS

LEMMA IdsFinite ==
    ASSUME NEW S \in SUBSET Ids
    PROVE  IsFiniteSet(S) /\ Cardinality(S) \in Nat
<1>1. IsFiniteSet(Ids)
  BY ConstantsOK, FS_Interval DEF Ids
<1>2. IsFiniteSet(S)
  BY <1>1, FS_Subset
<1> QED
  BY <1>2, FS_CardinalityType

(* What Forget(S) does to the index and to the tombstones. *)
LEMMA ForgetEffect ==
    ASSUME closedAt \in [Ids -> Nat], epitaph \in [Ids -> {"none", "answered", "abandoned"}],
           NEW S \in SUBSET Ids, Forget(S)
    PROVE  /\ closedAt' \in [Ids -> Nat]
           /\ epitaph' \in [Ids -> {"none", "answered", "abandoned"}]
           /\ \A d \in Ids : closedAt'[d] = 0 <=> closedAt[d] = 0 /\ d \notin S
           /\ \A d \in Ids : epitaph'[d] =
                 IF d \in S /\ closedAt[d] = 0
                 THEN IF status'[d] = "answered" THEN "answered" ELSE "abandoned"
                 ELSE epitaph[d]
<1> DEFINE gone == Cardinality({d \in Ids : closedAt[d] # 0})
           new  == {d \in S : closedAt[d] = 0}
           rank(d) == Cardinality({e \in new : e <= d})
<1>1. gone \in Nat
  BY IdsFinite
<1>2. ASSUME NEW d \in Ids PROVE rank(d) \in Nat /\ (d \in new => rank(d) # 0)
  <2>1. {e \in new : e <= d} \in SUBSET Ids
    OBVIOUS
  <2>2. IsFiniteSet({e \in new : e <= d}) /\ rank(d) \in Nat
    BY <2>1, IdsFinite
  <2>3. d \in new => {e \in new : e <= d} # {}
    BY ConstantsOK DEF Ids
  <2> QED
    BY <2>2, <2>3, FS_EmptySet
<1>3. closedAt' = [d \in Ids |-> IF d \in new THEN gone + rank(d) ELSE closedAt[d]]
  BY DEF Forget
<1>4. epitaph' = [d \in Ids |->
         IF d \notin new THEN epitaph[d]
         ELSE IF status'[d] = "answered" THEN "answered" ELSE "abandoned"]
  BY DEF Forget
<1>5. ASSUME NEW d \in Ids
      PROVE  gone + rank(d) \in Nat /\ (d \in new => gone + rank(d) # 0)
  BY <1>1, <1>2
<1> HIDE DEF gone, rank
<1>6. closedAt' \in [Ids -> Nat]
  BY <1>3, <1>5
<1>7. \A d \in Ids : closedAt'[d] = 0 <=> closedAt[d] = 0 /\ d \notin S
  BY <1>3, <1>5
<1>8. epitaph' \in [Ids -> {"none", "answered", "abandoned"}]
  BY <1>4
<1> QED
  BY <1>4, <1>6, <1>7, <1>8

-------------------------------------------------------------------------------
(* Type correctness. *)

LEMMA InitType == Init => TypeOK
  BY ConstantsOK DEF Init, TypeOK, Ids

LEMMA TypeStep == TypeOK /\ WorkersOK /\ [Next]_vars => TypeOK'
<1> SUFFICES ASSUME TypeOK, WorkersOK, [Next]_vars PROVE TypeOK'
  OBVIOUS
<1> USE ConstantsOK DEF TypeOK, decisionVars, verdictVars, workerVars, agentVars
<1>0. Live \in SUBSET Ids /\ Posted \in SUBSET Ids
  BY DEF Live, Indexed, Posted
<1>1. CASE Restart
  BY <1>1 DEF Restart
<1>2. ASSUME NEW w \in Workers, Request(w) PROVE TypeOK'
  BY <1>2 DEF Request
<1>3. ASSUME NEW w \in Workers, AnnounceRepair(w) PROVE TypeOK'
  BY <1>3 DEF AnnounceRepair
<1>4. ASSUME NEW w \in Workers, Post(w) PROVE TypeOK'
  <2> DEFINE dead == Superseded(Stamp(req[w]))
  <2>1. dead \in SUBSET Ids
    BY <1>0 DEF Superseded
  <2>2. /\ closedAt' \in [Ids -> Nat]
        /\ epitaph' \in [Ids -> {"none", "answered", "abandoned"}]
    BY <1>4, <2>1, ForgetEffect DEF Post
  <2>3. runId' \in Nat /\ orphans' \in [Workers -> SUBSET Ids]
    BY <1>4, <2>1 DEF Post, Stamp
  <2> HIDE DEF dead
  <2>4. status' \in [Ids -> {"none", "pending", "claimed", "answered", "abandoned"}]
    BY <1>4 DEF Post, AfterPost
  <2>5. nextId + 1 \in 1..MaxId + 1
    BY <1>4 DEF Post, Ids
  <2>6. /\ nextId' \in 1..MaxId + 1
        /\ run' \in [Ids -> Nat]
        /\ cur' \in [Workers -> Ids \cup {0}]
        /\ timed' \in [Workers -> BOOLEAN]
    BY <1>4, <2>5 DEF Post
  <2>7. /\ pc' \in [Workers -> {"idle", "asked", "posted", "waiting", "expired",
                                "loop", "reply", "degraded"}]
        /\ apc' \in [Agents -> {"idle", "asleep", "holding", "releasing", "listening"}]
    BY <1>4 DEF Post, Notified
  <2> QED
    BY <1>4, <2>2, <2>3, <2>4, <2>6, <2>7 DEF Post
<1>5. ASSUME NEW w \in Workers, WakeOrphans(w) PROVE TypeOK'
  BY <1>5 DEF WakeOrphans
<1>6. ASSUME NEW w \in Workers, TimeOut(w) PROVE TypeOK'
  BY <1>6 DEF TimeOut
<1>7. ASSUME NEW w \in Workers, Expire(w) PROVE TypeOK'
  BY <1>0, <1>7, ForgetEffect DEF Expire
<1>8. ASSUME NEW w \in Workers, Collect(w) PROVE TypeOK'
  <2>1. cur[w] \in Ids
    BY <1>8 DEF Collect, WorkersOK
  <2> QED
    BY <1>8, <2>1, ForgetEffect DEF Collect
<1>9. ASSUME NEW w \in Workers, Judge(w) PROVE TypeOK'
  <2>1. /\ pc' \in [Workers -> {"idle", "asked", "posted", "waiting", "expired",
                                "loop", "reply", "degraded"}]
        /\ repairs' \in [Workers -> Nat]
    BY <1>9 DEF Judge, EndRequest
  <2>2. \/ UNCHANGED <<req, timed>>
        \/ EndRequest(w)
    BY <1>9 DEF Judge
  <2>4. req' \in [Workers -> Nat]
    BY <2>2 DEF EndRequest
  <2>5. timed' \in [Workers -> BOOLEAN]
    <3>1. CASE UNCHANGED timed
      BY <3>1
    <3>2. CASE timed' = [timed EXCEPT ![w] = FALSE]
      BY <3>2
    <3> QED
      BY <2>2, <3>1, <3>2 DEF EndRequest
  <2>3. UNCHANGED <<game, runId, nextId, status, run, done, outcome, closedAt, epitaph,
                    taken, cur, orphans, agentVars>>
    BY <1>9 DEF Judge
  <2>6. cur[w] \in Ids
    BY <1>9 DEF Judge, WorkersOK
  <2>7. kept' \subseteq Ids /\ adrift' \subseteq Ids
    BY <1>9, <2>6 DEF Judge
  <2> QED
    BY <2>1, <2>3, <2>4, <2>5, <2>7
<1>10. ASSUME NEW w \in Workers, Reply(w) PROVE TypeOK'
  BY <1>10 DEF Reply, PublishAndReply, EndRequest
<1>17. ASSUME NEW w \in Workers, Unasked(w) PROVE TypeOK'
  BY <1>17 DEF Unasked, PublishAndReply, EndRequest
<1>18. ASSUME NEW w \in Workers, Unstored(w) PROVE TypeOK'
  BY <1>18 DEF Unstored, EndRequest
<1>11. ASSUME NEW a \in Agents, Claim(a) PROVE TypeOK'
  BY <1>0, <1>11 DEF Claim, Pending, Indexed, Posted
<1>12. ASSUME NEW a \in Agents, GiveUp(a) PROVE TypeOK'
  BY <1>12 DEF GiveUp, GoIdle
<1>13. ASSUME NEW a \in Agents, NEW d \in Ids, Submit(a, d) PROVE TypeOK'
  BY <1>13 DEF Submit, GoIdle
<1>14. ASSUME NEW a \in Agents, Release(a) PROVE TypeOK'
  BY <1>14 DEF Release
<1>15. ASSUME NEW a \in Agents, Hear(a) PROVE TypeOK'
  BY <1>15 DEF Hear, GoIdle
<1>16. CASE UNCHANGED vars
  BY <1>16 DEF vars
<1> QED
  BY <1>1, <1>2, <1>3, <1>4, <1>5, <1>6, <1>7, <1>8, <1>9, <1>10, <1>11, <1>12,
     <1>13, <1>14, <1>15, <1>16, <1>17, <1>18 DEF Next, WorkerStep

-------------------------------------------------------------------------------
(* The inductive invariant: it holds at the start, and no step breaks a part. *)

LEMMA InitIInv == Init => IInv
<1> SUFFICES ASSUME Init PROVE IInv
  OBVIOUS
<1>1. TypeOK
  BY InitType
<1>2. CounterOK /\ IndexOK /\ EventsOK /\ WorkersOK /\ VerdictsOK
  BY ConstantsOK DEF Init, CounterOK, IndexOK, EventsOK, WorkersOK, VerdictsOK, Ids
<1>3. Live = {} /\ Pending = {}
  BY DEF Init, Live, Pending, Indexed, Posted
<1>4. LiveHasWaiter /\ LiveOfOneRun /\ NoSleeperBesideWork /\ OutcomeIsTrue
  BY <1>3 DEF Init, LiveHasWaiter, LiveOfOneRun, NoSleeperBesideWork, OutcomeIsTrue
<1> QED
  BY <1>1, <1>2, <1>4 DEF IInv

(* A post either indexes a decision under a fresh id, or finds the queue full,  *)
(* and then it retires nothing: a queue that _supersede emptied is not full.    *)
LEMMA PostEffect ==
    ASSUME TypeOK, NEW w \in Workers, Post(w)
    PROVE  LET dead == Superseded(Stamp(req[w]))
           IN  \/ /\ nextId \in Ids
                  /\ nextId' = nextId + 1
                  /\ status' = AfterPost({nextId}, dead)
                  /\ run' = [run EXCEPT ![nextId] = req[w]]
                  /\ cur' = [cur EXCEPT ![w] = nextId]
                  /\ pc' = [pc EXCEPT ![w] = "posted"]
                  /\ apc' = Notified
                  /\ orphans' = [orphans EXCEPT ![w] = dead]
               \/ /\ dead = {}
                  /\ orphans' = [orphans EXCEPT ![w] = {}]
                  /\ pc' = [pc EXCEPT ![w] = "degraded"]
                  /\ UNCHANGED <<nextId, status, run, cur, apc>>
<1> DEFINE dead == Superseded(Stamp(req[w]))
<1>1. dead = {} \/ dead = Live
  BY DEF Superseded
<1>2. Live \in SUBSET Ids
  BY DEF Live, Indexed, Posted
<1> HIDE DEF dead
<1>3. CASE Cardinality(Live \ dead) < MaxDepth
  <2>1. ~(Cardinality(Live \ dead) >= MaxDepth)
    BY <1>2, <1>3, IdsFinite, ConstantsOK
  <2> QED
    BY <1>3, <2>1 DEF Post, dead
<1>4. CASE Cardinality(Live \ dead) >= MaxDepth
  <2>1. ~(Cardinality(Live \ dead) < MaxDepth)
    BY <1>2, <1>4, IdsFinite, ConstantsOK
  <2>2. dead = {}
    <3>1. dead = Live => Live \ dead = {}
      OBVIOUS
    <3> QED
      BY <1>1, <2>1, <3>1, FS_EmptySet, ConstantsOK
  <2>3. status' = AfterPost({}, {})
    BY <1>4, <2>1, <2>2 DEF Post, dead
  <2>4. status' = status
    BY <2>3 DEF AfterPost, TypeOK
  <2> QED
    BY <1>4, <2>1, <2>2, <2>4 DEF Post, dead
<1>5. Cardinality(Live \ dead) < MaxDepth \/ Cardinality(Live \ dead) >= MaxDepth
  BY <1>2, IdsFinite, ConstantsOK
<1> QED
  BY <1>3, <1>4, <1>5 DEF dead

LEMMA CounterStep == IInv /\ [Next]_vars => CounterOK'
<1> SUFFICES ASSUME IInv, [Next]_vars PROVE CounterOK'
  OBVIOUS
<1> USE ConstantsOK DEF IInv, TypeOK, CounterOK, decisionVars, verdictVars, workerVars, agentVars
<1>1. ASSUME NEW w \in Workers, Post(w) PROVE CounterOK'
  <2> DEFINE dead == Superseded(Stamp(req[w]))
  <2>1. \A d \in dead : status[d] # "none"
    BY DEF Superseded, Live, Indexed, Posted
  <2> HIDE DEF dead
  <2>2. \/ status' = AfterPost({nextId}, dead) /\ nextId' = nextId + 1 /\ nextId \in Ids
        \/ UNCHANGED <<status, nextId>>
    BY <1>1, PostEffect DEF dead
  <2>3. CASE status' = AfterPost({nextId}, dead) /\ nextId' = nextId + 1 /\ nextId \in Ids
    <3>1. \A d \in Ids : status'[d] # "none" <=> d = nextId \/ status[d] # "none"
      BY <2>1, <2>3 DEF AfterPost
    <3>2. \A d \in Ids : d < nextId + 1 <=> d = nextId \/ d < nextId
      BY DEF Ids
    <3>3. \A d \in Ids : status[d] # "none" <=> d < nextId
      OBVIOUS
    <3> HIDE DEF TypeOK, IInv, CounterOK
    <3> QED
      BY <2>3, <3>1, <3>2, <3>3 DEF CounterOK
  <2>4. CASE UNCHANGED <<status, nextId>>
    BY <2>4
  <2> QED
    BY <2>2, <2>3, <2>4
<1>2. ASSUME NEW w \in Workers, Expire(w) PROVE CounterOK'
  BY <1>2 DEF Expire, Live, Indexed, Posted
<1>3. ASSUME NEW a \in Agents, Claim(a) PROVE CounterOK'
  BY <1>3 DEF Claim, Pending, Indexed, Posted
<1>4. ASSUME NEW a \in Agents, NEW d \in Ids, Submit(a, d) PROVE CounterOK'
  BY <1>4 DEF Submit, Live, Indexed, Posted
<1>5. CASE UNCHANGED <<status, nextId>>
  BY <1>5
<1>6. \/ UNCHANGED <<status, nextId>>
      \/ \E w \in Workers : Post(w) \/ Expire(w)
      \/ \E a \in Agents : Claim(a) \/ \E d \in Ids : Submit(a, d)
  BY DEF Next, WorkerStep, vars, Restart, Request, TimeOut, AnnounceRepair,
         WakeOrphans, Collect, Judge, Reply, Unasked, Unstored, GiveUp, Release, Hear
<1> QED
  BY <1>1, <1>2, <1>3, <1>4, <1>5, <1>6

LEMMA IndexStep == IInv /\ [Next]_vars => IndexOK'
<1> SUFFICES ASSUME IInv, [Next]_vars PROVE IndexOK'
  OBVIOUS
<1> USE ConstantsOK DEF IInv, TypeOK, IndexOK, decisionVars, verdictVars, workerVars, agentVars
<1>0. Live = {d \in Ids : status[d] \in {"pending", "claimed"}}
  BY DEF Live, Indexed, Posted
<1>1. ASSUME NEW w \in Workers, Post(w) PROVE IndexOK'
  <2> DEFINE dead == Superseded(Stamp(req[w]))
  <2>1. dead \in SUBSET Ids /\ \A d \in dead : closedAt[d] = 0
    BY <1>0 DEF Superseded
  <2>2. Forget(dead)
    BY <1>1 DEF Post
  <2> HIDE DEF dead
  <2>3. /\ \A d \in Ids : closedAt'[d] = 0 <=> closedAt[d] = 0 /\ d \notin dead
        /\ \A d \in Ids : epitaph'[d] =
              IF d \in dead /\ closedAt[d] = 0
              THEN IF status'[d] = "answered" THEN "answered" ELSE "abandoned"
              ELSE epitaph[d]
    BY <2>1, <2>2, ForgetEffect
  <2>4. CASE nextId \in Ids /\ status' = AfterPost({nextId}, dead)
    <3>1. status[nextId] = "none"
      BY <2>4 DEF CounterOK
    <3>2. nextId \notin dead
      BY <1>0, <3>1, <2>1 DEF dead, Superseded
    <3> QED
      BY <2>1, <2>3, <2>4, <3>1, <3>2 DEF AfterPost
  <2>5. CASE dead = {} /\ UNCHANGED status
    BY <2>3, <2>5
  <2> QED
    BY <1>1, <2>4, <2>5, PostEffect DEF dead
<1>2. ASSUME NEW w \in Workers, Expire(w) PROVE IndexOK'
  <2> DEFINE mine == {cur[w]} \cap Live
  <2>1. mine \in SUBSET Ids /\ \A d \in mine : closedAt[d] = 0
    BY <1>0
  <2>2. /\ Forget(mine)
        /\ status' = [d \in Ids |-> IF d \in mine THEN "abandoned" ELSE status[d]]
    BY <1>2 DEF Expire
  <2> HIDE DEF mine
  <2> QED
    BY <2>1, <2>2, ForgetEffect
<1>3. ASSUME NEW w \in Workers, Collect(w) PROVE IndexOK'
  <2>1. cur[w] \in Ids
    BY <1>3 DEF Collect, WorkersOK
  <2>2. done[cur[w]] /\ Forget({cur[w]}) /\ UNCHANGED status
    BY <1>3 DEF Collect
  <2>3. status[cur[w]] \in {"answered", "abandoned"}
    BY <2>1, <2>2 DEF EventsOK
  <2> QED
    BY <2>1, <2>2, <2>3, ForgetEffect
<1>4. ASSUME NEW a \in Agents, Claim(a) PROVE IndexOK'
  BY <1>4 DEF Claim, Pending, Indexed, Posted
<1>5. ASSUME NEW a \in Agents, NEW d \in Ids, Submit(a, d) PROVE IndexOK'
  BY <1>0, <1>5 DEF Submit
<1>6. CASE UNCHANGED <<status, closedAt, epitaph>>
  BY <1>6
<1>7. \/ UNCHANGED <<status, closedAt, epitaph>>
      \/ \E w \in Workers : Post(w) \/ Expire(w) \/ Collect(w)
      \/ \E a \in Agents : Claim(a) \/ \E d \in Ids : Submit(a, d)
  BY DEF Next, WorkerStep, vars, Restart, Request, TimeOut, AnnounceRepair,
         WakeOrphans, Judge, Reply, Unasked, Unstored, GiveUp, Release, Hear
<1> QED
  BY <1>1, <1>2, <1>3, <1>4, <1>5, <1>6, <1>7

(* In a state of the invariant the index and the statuses agree. *)
LEMMA IndexIs ==
    /\ TypeOK /\ IndexOK
          => /\ Live = {d \in Ids : status[d] \in {"pending", "claimed"}}
             /\ Pending = {d \in Ids : status[d] = "pending"}
    /\ TypeOK' /\ IndexOK'
          => /\ Live' = {d \in Ids : status'[d] \in {"pending", "claimed"}}
             /\ Pending' = {d \in Ids : status'[d] = "pending"}
  BY DEF TypeOK, IndexOK, Live, Pending, Indexed, Posted

(* A decision that was posted stays posted, and one that was settled stays so. *)
LEMMA SettledStays ==
    ASSUME IInv, [Next]_vars, NEW d \in Ids
    PROVE  /\ status[d] \in {"answered", "abandoned"} => status'[d] = status[d]
           /\ status[d] # "none" => status'[d] # "none"
<1> DEFINE Stays ==
      /\ status[d] \in {"answered", "abandoned"} => status'[d] = status[d]
      /\ status[d] # "none" => status'[d] # "none"
<1> USE ConstantsOK DEF IInv, TypeOK, decisionVars, verdictVars, workerVars, agentVars
<1>0. /\ Live = {e \in Ids : status[e] \in {"pending", "claimed"}}
      /\ Pending = {e \in Ids : status[e] = "pending"}
  BY IndexIs
<1>1. ASSUME NEW w \in Workers, Post(w) PROVE Stays
  <2> DEFINE dead == Superseded(Stamp(req[w]))
  <2>1. dead \subseteq Live
    BY DEF Superseded
  <2> HIDE DEF dead
  <2>2. \/ nextId \in Ids /\ status' = AfterPost({nextId}, dead)
        \/ UNCHANGED status
    BY <1>1, PostEffect DEF dead
  <2>3. CASE nextId \in Ids /\ status' = AfterPost({nextId}, dead)
    <3>1. status[nextId] = "none"
      BY <2>3 DEF CounterOK
    <3> QED
      BY <1>0, <1>1, <2>1, <2>3, <3>1 DEF AfterPost
  <2> QED
    BY <2>2, <2>3
<1>2. ASSUME NEW w \in Workers, Expire(w) PROVE Stays
  BY <1>0, <1>2 DEF Expire
<1>3. ASSUME NEW a \in Agents, Claim(a) PROVE Stays
  BY <1>0, <1>3 DEF Claim
<1>4. ASSUME NEW a \in Agents, NEW e \in Ids, Submit(a, e) PROVE Stays
  BY <1>0, <1>4 DEF Submit
<1>5. CASE UNCHANGED status
  BY <1>5
<1>6. \/ UNCHANGED status
      \/ \E w \in Workers : Post(w) \/ Expire(w)
      \/ \E a \in Agents : Claim(a) \/ \E e \in Ids : Submit(a, e)
  BY DEF Next, WorkerStep, vars, Restart, Request, TimeOut, AnnounceRepair,
         WakeOrphans, Collect, Judge, Reply, Unasked, Unstored, GiveUp, Release, Hear
<1> QED
  BY <1>1, <1>2, <1>3, <1>4, <1>5, <1>6

LEMMA EventsStep == IInv /\ [Next]_vars => EventsOK'
<1> SUFFICES ASSUME IInv, [Next]_vars PROVE EventsOK'
  OBVIOUS
<1> USE ConstantsOK DEF IInv, TypeOK, EventsOK, decisionVars, verdictVars, workerVars, agentVars
<1> DEFINE Settled(d) == status[d] \in {"answered", "abandoned"}
<1>0. \A d \in Ids : status[d] \in {"answered", "abandoned"} => status'[d] = status[d]
  BY SettledStays
<1>1. ASSUME NEW w \in Workers, Post(w) PROVE EventsOK'
  <2> DEFINE dead == Superseded(Stamp(req[w]))
  <2>1. dead \in SUBSET Ids /\ \A d \in dead : status[d] \in {"pending", "claimed"}
    BY DEF Superseded, Live, Indexed, Posted
  <2>2. Live \in SUBSET Ids
    BY DEF Live, Indexed, Posted
  <2> HIDE DEF dead
  <2>3. /\ orphans' = [orphans EXCEPT ![w] = dead]
        /\ \A d \in dead : status'[d] = "abandoned"
    <3>1. CASE nextId \in Ids /\ status' = AfterPost({nextId}, dead)
               /\ orphans' = [orphans EXCEPT ![w] = dead]
      <4>1. nextId \notin dead
        BY <2>1, <3>1 DEF CounterOK
      <4> QED
        BY <2>1, <3>1, <4>1 DEF AfterPost
    <3>2. CASE dead = {} /\ orphans' = [orphans EXCEPT ![w] = {}]
      BY <3>2
    <3> QED
      BY <1>1, <3>1, <3>2, PostEffect DEF dead
  <2>4. \A v \in Workers : \A d \in orphans'[v] : status'[d] = "abandoned"
    BY <1>0, <2>1, <2>3
  <2>5. UNCHANGED <<done, held>> /\ \A a \in Agents : apc'[a] = "releasing" => apc[a] = "releasing"
    BY <1>1 DEF Post, Notified
  <2> QED
    BY <1>0, <2>4, <2>5
<1>2. ASSUME NEW w \in Workers, WakeOrphans(w) PROVE EventsOK'
  BY <1>2 DEF WakeOrphans
<1>3. ASSUME NEW a \in Agents, NEW e \in Ids, Submit(a, e) PROVE EventsOK'
  <2>1. UNCHANGED <<done, orphans>>
    BY <1>3 DEF Submit
  <2>2. CASE /\ status' = [status EXCEPT ![e] = "answered"]
             /\ held' = [held EXCEPT ![a] = e]
             /\ apc' = [apc EXCEPT ![a] = "releasing"]
    <3>1. status'[e] = "answered" /\ e # 0
      BY <2>2 DEF Ids
    <3>2. \A b \in Agents : apc'[b] = "releasing" =>
             held'[b] # 0 /\ status'[held'[b]] = "answered"
      BY <1>0, <2>2, <3>1
    <3> QED
      BY <1>0, <2>1, <3>2
  <2>3. CASE GoIdle(a) /\ UNCHANGED status
    BY <2>1, <2>3 DEF GoIdle
  <2> QED
    BY <1>3, <2>2, <2>3 DEF Submit
<1>4. ASSUME NEW a \in Agents, Release(a) PROVE EventsOK'
  BY <1>4 DEF Release
<1>5. CASE /\ UNCHANGED <<done, orphans>>
           /\ \A a \in Agents : apc'[a] = "releasing" =>
                 apc[a] = "releasing" /\ held'[a] = held[a]
  BY <1>0, <1>5
<1>6. ASSUME NEW a \in Agents, Claim(a) \/ GiveUp(a) \/ Hear(a)
      PROVE  /\ UNCHANGED <<done, orphans>>
             /\ \A b \in Agents : apc'[b] = "releasing" =>
                   apc[b] = "releasing" /\ held'[b] = held[b]
  BY <1>6 DEF Claim, GiveUp, GoIdle, Hear
<1>7. \/ UNCHANGED <<done, orphans, apc, held>>
      \/ \E w \in Workers : Post(w) \/ WakeOrphans(w)
      \/ \E a \in Agents : \/ \E d \in Ids : Submit(a, d)
                           \/ Release(a)
                           \/ Claim(a) \/ GiveUp(a) \/ Hear(a)
  BY DEF Next, WorkerStep, vars, Restart, Request, TimeOut, AnnounceRepair,
         Collect, Judge, Reply, Unasked, Unstored, Expire
<1> QED
  BY <1>1, <1>2, <1>3, <1>4, <1>5, <1>6, <1>7

LEMMA WorkersStep == IInv /\ [Next]_vars => WorkersOK'
<1> SUFFICES ASSUME IInv, [Next]_vars PROVE WorkersOK'
  OBVIOUS
<1> USE ConstantsOK DEF IInv, TypeOK, WorkersOK, decisionVars, verdictVars, workerVars, agentVars
<1>0. \A d \in Ids : /\ status[d] \in {"answered", "abandoned"} => status'[d] = status[d]
                     /\ status[d] # "none" => status'[d] # "none"
  BY SettledStays
<1>1. ASSUME NEW w \in Workers, Request(w) PROVE WorkersOK'
  BY <1>1 DEF Request
<1>2. ASSUME NEW w \in Workers, AnnounceRepair(w) PROVE WorkersOK'
  BY <1>2 DEF AnnounceRepair
<1>3. ASSUME NEW w \in Workers, Post(w) PROVE WorkersOK'
  <2> DEFINE dead == Superseded(Stamp(req[w]))
  <2>1. CASE /\ nextId \in Ids
             /\ status' = AfterPost({nextId}, dead)
             /\ cur' = [cur EXCEPT ![w] = nextId]
             /\ pc' = [pc EXCEPT ![w] = "posted"]
             /\ orphans' = [orphans EXCEPT ![w] = dead]
    <3>1. status[nextId] = "none" /\ status'[nextId] = "pending"
      BY <2>1 DEF CounterOK, AfterPost
    <3>2. nextId \notin taken
      BY <3>1
    <3>3. \A v \in Workers : cur[v] # nextId
      <4> SUFFICES ASSUME NEW v \in Workers, cur[v] = nextId PROVE FALSE
        OBVIOUS
      <4>1. nextId # 0
        BY <2>1 DEF Ids
      <4> QED
        BY <3>1, <4>1
    <3>4. taken' = taken /\ nextId # 0
      BY <1>3, <2>1 DEF Post, Ids
    <3>5. \A d \in taken' : status'[d] = "answered"
      BY <1>0, <3>4
    <3>6. \A u, v \in Workers : cur'[u] = cur'[v] /\ cur'[u] # 0 => u = v
      BY <2>1, <3>3
    <3>7. ASSUME NEW v \in Workers, v # w
          PROVE  cur'[v] = cur[v] /\ pc'[v] = pc[v] /\ orphans'[v] = orphans[v]
      BY <2>1, <3>7
    <3>8. cur'[w] = nextId /\ pc'[w] = "posted"
      BY <2>1
    <3> QED
      BY <1>0, <3>1, <3>2, <3>4, <3>5, <3>6, <3>7, <3>8
  <2>2. CASE /\ pc' = [pc EXCEPT ![w] = "degraded"]
             /\ orphans' = [orphans EXCEPT ![w] = {}]
             /\ UNCHANGED <<status, cur>>
    <3>1. taken' = taken
      BY <1>3 DEF Post
    <3> QED
      BY <2>2, <3>1
  <2> HIDE DEF dead
  <2> QED
    BY <1>3, <2>1, <2>2, PostEffect DEF dead
<1>4. ASSUME NEW w \in Workers, WakeOrphans(w) \/ TimeOut(w) PROVE WorkersOK'
  BY <1>4 DEF WakeOrphans, TimeOut
<1>5. ASSUME NEW w \in Workers, Expire(w) PROVE WorkersOK'
  <2>1. /\ pc' = [pc EXCEPT ![w] = "degraded"]
        /\ UNCHANGED <<cur, orphans, taken>>
        /\ pc[w] = "expired"
    BY <1>5 DEF Expire
  <2> QED
    BY <1>0, <2>1
<1>6. ASSUME NEW w \in Workers, Collect(w) PROVE WorkersOK'
  BY <1>6 DEF Collect
<1>7. ASSUME NEW w \in Workers, Judge(w) PROVE WorkersOK'
  BY <1>7 DEF Judge, EndRequest
<1>8. ASSUME NEW w \in Workers, Reply(w) \/ Unasked(w) \/ Unstored(w) PROVE WorkersOK'
  BY <1>8 DEF Reply, Unasked, Unstored, PublishAndReply, EndRequest
<1>9. CASE UNCHANGED <<pc, cur, orphans, taken>>
  BY <1>0, <1>9
<1>10. \/ UNCHANGED <<pc, cur, orphans, taken>>
       \/ \E w \in Workers : \/ Request(w) \/ AnnounceRepair(w) \/ Post(w)
                              \/ WakeOrphans(w) \/ TimeOut(w) \/ Expire(w)
                              \/ Collect(w) \/ Judge(w)
                              \/ Reply(w) \/ Unasked(w) \/ Unstored(w)
  BY DEF Next, WorkerStep, vars, Restart, Claim, GiveUp, Submit, Release, Hear
<1> QED
  BY <1>1, <1>2, <1>3, <1>4, <1>5, <1>6, <1>7, <1>8, <1>9, <1>10

LEMMA VerdictsStep == IInv /\ [Next]_vars => VerdictsOK'
<1> SUFFICES ASSUME IInv, [Next]_vars PROVE VerdictsOK'
  OBVIOUS
<1> USE ConstantsOK DEF IInv, TypeOK, VerdictsOK, decisionVars, verdictVars, workerVars, agentVars
<1>0. /\ \A d \in Ids : status[d] # "none" => status'[d] # "none"
      /\ \A w, v \in Workers : cur[w] = cur[v] /\ cur[w] # 0 => w = v
      /\ \A w \in Workers : cur[w] # 0 => status[cur[w]] # "none"
      /\ 0 \notin Ids
  <2>1. \A d \in Ids : status[d] # "none" => status'[d] # "none"
    BY SettledStays
  <2>2. /\ \A w, v \in Workers : cur[w] = cur[v] /\ cur[w] # 0 => w = v
        /\ \A w \in Workers : cur[w] # 0 => status[cur[w]] # "none"
    BY DEF WorkersOK
  <2>3. 0 \notin Ids
    BY DEF Ids
  <2> QED
    BY <2>1, <2>2, <2>3
<1>1. ASSUME NEW w \in Workers, Post(w) PROVE VerdictsOK'
  <2> DEFINE dead == Superseded(Stamp(req[w]))
  <2>1. UNCHANGED <<taken, kept, adrift, outcome, repairs>>
    BY <1>1 DEF Post
  <2> HIDE DEF dead
  <2>2. CASE /\ nextId \in Ids
             /\ cur' = [cur EXCEPT ![w] = nextId]
             /\ pc' = [pc EXCEPT ![w] = "posted"]
    <3>1. status[nextId] = "none" /\ outcome[nextId] = "none" /\ nextId \notin taken
      BY <2>2 DEF CounterOK, WorkersOK
    <3> QED
      BY <1>0, <2>1, <2>2, <3>1
  <2>3. CASE UNCHANGED <<status, cur>> /\ pc' = [pc EXCEPT ![w] = "degraded"]
    <3>1. cur[w] = 0
      BY <1>1 DEF Post
    <3> QED
      BY <1>0, <2>1, <2>3, <3>1
  <2> QED
    BY <1>1, <2>2, <2>3, PostEffect DEF dead
<1>2. ASSUME NEW w \in Workers, Collect(w) PROVE VerdictsOK'
  BY <1>0, <1>2 DEF Collect, WorkersOK
<1>3. ASSUME NEW w \in Workers, Judge(w) PROVE VerdictsOK'
  <2>1. /\ pc[w] = "loop" /\ cur[w] \in Ids /\ cur[w] \in taken
        /\ cur[w] \notin kept /\ cur[w] \notin adrift
        /\ UNCHANGED <<status, outcome, taken, cur>>
    BY <1>3 DEF Judge, WorkersOK
  <2>2. ASSUME NEW v \in Workers, v # w
        PROVE  pc'[v] = pc[v] /\ repairs'[v] = repairs[v] /\ (cur[v] # 0 => cur[v] # cur[w])
    BY <1>0, <1>3, <2>2 DEF Judge, EndRequest
  <2>3. CASE /\ pc'[w] = "reply" /\ kept' = kept \cup {cur[w]} /\ adrift' = adrift
    BY <2>1, <2>2, <2>3
  <2>4. CASE /\ pc'[w] = "idle" /\ adrift' = adrift \cup {cur[w]} /\ kept' = kept
    BY <2>1, <2>2, <2>4
  <2>5. CASE /\ pc'[w] = "asked" /\ repairs'[w] # 0 /\ UNCHANGED <<kept, adrift>>
    BY <2>1, <2>2, <2>5
  <2>6. CASE pc'[w] = "degraded" /\ UNCHANGED <<kept, adrift>>
    BY <2>1, <2>2, <2>6
  <2> QED
    BY <1>3, <2>3, <2>4, <2>5, <2>6 DEF Judge, EndRequest
<1>4. ASSUME NEW w \in Workers, Reply(w) \/ Unasked(w) PROVE VerdictsOK'
  <2>1. /\ cur' = [cur EXCEPT ![w] = 0] /\ UNCHANGED <<status, taken, kept, adrift>>
        /\ \A d \in Ids : d # cur[w] => outcome'[d] = outcome[d]
        /\ \A v \in Workers : v # w => pc'[v] = pc[v] /\ repairs'[v] = repairs[v]
    BY <1>4 DEF Reply, Unasked, PublishAndReply, EndRequest
  <2> QED
    BY <1>0, <2>1
<1>5. ASSUME NEW w \in Workers, AnnounceRepair(w) PROVE VerdictsOK'
  BY <1>0, <1>5 DEF AnnounceRepair
<1>6. ASSUME NEW w \in Workers, Unstored(w) \/ Request(w) PROVE VerdictsOK'
  BY <1>6 DEF Unstored, Request, EndRequest
<1>7. ASSUME NEW w \in Workers, WakeOrphans(w) \/ TimeOut(w) \/ Expire(w) PROVE VerdictsOK'
  <2>1. /\ UNCHANGED <<outcome, taken, kept, adrift, cur, repairs>>
        /\ \A v \in Workers : v # w => pc'[v] = pc[v]
        /\ pc[w] \in {"posted", "waiting", "expired"} /\ pc'[w] \in {"waiting", "expired", "degraded"}
    BY <1>7 DEF WakeOrphans, TimeOut, Expire
  <2> QED
    BY <1>0, <2>1
<1>8. CASE UNCHANGED <<outcome, taken, kept, adrift, cur, repairs, pc>>
  BY <1>0, <1>8
<1>9. \/ UNCHANGED <<outcome, taken, kept, adrift, cur, repairs, pc>>
      \/ \E w \in Workers : \/ Post(w) \/ Collect(w) \/ Judge(w) \/ Reply(w) \/ Unasked(w)
                             \/ AnnounceRepair(w) \/ Unstored(w) \/ Request(w)
                             \/ WakeOrphans(w) \/ TimeOut(w) \/ Expire(w)
  BY DEF Next, WorkerStep, vars, Restart, Claim, GiveUp, Submit, Release, Hear
<1> QED
  BY <1>1, <1>2, <1>3, <1>4, <1>5, <1>6, <1>7, <1>8, <1>9

LEMMA OutcomeStep == IInv /\ [Next]_vars => OutcomeIsTrue'
<1> SUFFICES ASSUME IInv, [Next]_vars PROVE OutcomeIsTrue'
  OBVIOUS
<1> USE DEF IInv, TypeOK, OutcomeIsTrue, decisionVars, verdictVars, workerVars, agentVars
<1>0. 0 \notin Ids
  BY ConstantsOK DEF Ids
<1>1. ASSUME NEW w \in Workers, AnnounceRepair(w) PROVE OutcomeIsTrue'
  <2>1. cur[w] \in Ids /\ cur[w] \notin kept
    BY <1>1 DEF AnnounceRepair, VerdictsOK
  <2> QED
    BY <1>1, <2>1 DEF AnnounceRepair
<1>2. ASSUME NEW w \in Workers, Judge(w) PROVE OutcomeIsTrue'
  <2>1. cur[w] \in Ids /\ outcome[cur[w]] = "none"
    BY <1>2 DEF Judge, WorkersOK, VerdictsOK
  <2>2. /\ UNCHANGED outcome /\ kept \subseteq kept' /\ adrift \subseteq adrift'
        /\ kept' \subseteq kept \cup {cur[w]}
    BY <1>2 DEF Judge
  <2> QED
    BY <2>1, <2>2
<1>3. ASSUME NEW w \in Workers, Reply(w) PROVE OutcomeIsTrue'
  <2>1. /\ pc[w] \in {"reply", "degraded"} /\ UNCHANGED <<kept, adrift>>
        /\ outcome' = [d \in Ids |-> IF d # cur[w] THEN outcome[d]
                          ELSE IF pc[w] = "reply" THEN "applied" ELSE "fallback"]
    BY <1>3 DEF Reply, PublishAndReply
  <2>2. cur[w] # 0 => (cur[w] \in kept <=> pc[w] = "reply")
    BY DEF VerdictsOK
  <2> QED
    BY <1>0, <2>1, <2>2
<1>4. ASSUME NEW w \in Workers, Unasked(w) PROVE OutcomeIsTrue'
  <2>1. /\ pc[w] = "asked" /\ repairs[w] = 0 /\ UNCHANGED <<kept, adrift>>
        /\ \E says \in {"applied", "fallback"} :
              outcome' = [d \in Ids |-> IF d = cur[w] THEN says ELSE outcome[d]]
    BY <1>4 DEF Unasked, PublishAndReply
  <2>2. cur[w] # 0 => cur[w] \in adrift /\ cur[w] \notin kept
    BY <2>1 DEF VerdictsOK
  <2> QED
    BY <1>0, <2>1, <2>2
<1>5. CASE UNCHANGED <<outcome, kept, adrift>>
  BY <1>5
<1>6. \/ UNCHANGED <<outcome, kept, adrift>>
      \/ \E w \in Workers : AnnounceRepair(w) \/ Judge(w) \/ Reply(w) \/ Unasked(w)
  BY DEF Next, WorkerStep, vars, Restart, Request, TimeOut, Post, WakeOrphans, Collect,
         Unstored, Expire, Claim, GiveUp, Submit, Release, Hear
<1> QED
  BY <1>1, <1>2, <1>3, <1>4, <1>5, <1>6

LEMMA SleeperStep == IInv /\ [Next]_vars => NoSleeperBesideWork'
<1> SUFFICES ASSUME IInv, [Next]_vars, NEW a \in Agents, apc'[a] = "asleep"
             PROVE  Pending' = {}
  BY DEF NoSleeperBesideWork
<1> USE DEF decisionVars, verdictVars, workerVars, agentVars
<1>0. /\ Pending = {d \in Ids : status[d] = "pending"}
      /\ Pending' = {d \in Ids : status'[d] = "pending"}
  BY IndexIs, TypeStep, IndexStep DEF IInv
<1>1. Live = {d \in Ids : status[d] \in {"pending", "claimed"}}
  BY IndexIs DEF IInv
<1>2. apc[a] = "asleep" => Pending = {}
  BY DEF IInv, NoSleeperBesideWork
<1> USE DEF IInv, TypeOK
<1>3. ASSUME NEW w \in Workers, Post(w) PROVE Pending' = {}
  <2>1. ~(apc' = Notified)
    BY DEF Notified
  <2>2. UNCHANGED <<status, apc>>
    BY <1>3, <2>1, PostEffect
  <2> QED
    BY <1>0, <1>2, <2>2
<1>4. ASSUME NEW w \in Workers, Expire(w) PROVE Pending' = {}
  BY <1>0, <1>2, <1>4 DEF Expire
<1>5. ASSUME NEW b \in Agents, Claim(b) PROVE Pending' = {}
  BY <1>0, <1>2, <1>5 DEF Claim
<1>6. ASSUME NEW b \in Agents, NEW d \in Ids, Submit(b, d) PROVE Pending' = {}
  BY <1>0, <1>2, <1>6 DEF Submit, GoIdle
<1>7. CASE UNCHANGED <<status, apc>>
  BY <1>0, <1>2, <1>7
<1>8. ASSUME NEW b \in Agents, GiveUp(b) \/ Release(b) \/ Hear(b) PROVE Pending' = {}
  BY <1>0, <1>2, <1>8 DEF GiveUp, GoIdle, Release, Hear
<1>9. \/ UNCHANGED <<status, apc>>
      \/ \E w \in Workers : Post(w) \/ Expire(w)
      \/ \E b \in Agents : \/ Claim(b) \/ (\E d \in Ids : Submit(b, d))
                           \/ GiveUp(b) \/ Release(b) \/ Hear(b)
  BY DEF Next, WorkerStep, vars, Restart, Request, TimeOut, AnnounceRepair,
         WakeOrphans, Collect, Judge, Reply, Unasked, Unstored
<1> QED
  BY <1>3, <1>4, <1>5, <1>6, <1>7, <1>8, <1>9

LEMMA OneRunStep == IInv /\ [Next]_vars => LiveOfOneRun'
<1> SUFFICES ASSUME IInv, [Next]_vars, NEW d \in Ids,
                    status'[d] \in {"pending", "claimed"}
             PROVE  Stamp(run'[d]) \in {0, runId'}
  BY IndexIs, TypeStep, IndexStep DEF IInv, LiveOfOneRun
<1> USE DEF decisionVars, verdictVars, workerVars, agentVars
<1>0. Live = {e \in Ids : status[e] \in {"pending", "claimed"}}
  BY IndexIs DEF IInv
<1>1. \A e \in Live : Stamp(run[e]) \in {0, runId}
  BY DEF IInv, LiveOfOneRun
<1>2. ASSUME NEW w \in Workers, Post(w) PROVE Stamp(run'[d]) \in {0, runId'}
  <2> DEFINE stamp == Stamp(req[w])
             dead == Superseded(stamp)
  <2>1. runId' = IF stamp = 0 THEN runId ELSE stamp
    BY <1>2 DEF Post
  <2>2. d \in Live /\ d \notin dead => Stamp(run[d]) \in {0, runId'}
    BY <1>1, <2>1 DEF Superseded
  <2> HIDE DEF stamp, dead
  <2>3. CASE /\ nextId \in Ids
             /\ status' = AfterPost({nextId}, dead)
             /\ run' = [run EXCEPT ![nextId] = req[w]]
    <3>1. CASE d = nextId
      BY <2>1, <2>3, <3>1 DEF stamp, IInv, TypeOK
    <3>2. CASE d # nextId
      BY <1>0, <2>2, <2>3, <3>2 DEF AfterPost, IInv, TypeOK
    <3> QED
      BY <3>1, <3>2
  <2>4. CASE dead = {} /\ UNCHANGED <<status, run>>
    BY <1>0, <2>2, <2>4
  <2> QED
    BY <1>2, <2>3, <2>4, PostEffect DEF IInv, dead, stamp
<1>3. CASE UNCHANGED <<run, runId>> /\ d \in Live
  BY <1>1, <1>3 DEF Stamp
<1>4. ASSUME NEW w \in Workers, Expire(w) PROVE UNCHANGED <<run, runId>> /\ d \in Live
  BY <1>0, <1>4 DEF Expire, IInv, TypeOK
<1>5. ASSUME NEW a \in Agents, Claim(a) PROVE UNCHANGED <<run, runId>> /\ d \in Live
  BY <1>0, <1>5 DEF Claim, Pending, Indexed, Posted, IInv, TypeOK
<1>6. ASSUME NEW a \in Agents, NEW e \in Ids, Submit(a, e)
      PROVE  UNCHANGED <<run, runId>> /\ d \in Live
  BY <1>0, <1>6 DEF Submit, IInv, TypeOK
<1>7. UNCHANGED <<run, runId, status>> => UNCHANGED <<run, runId>> /\ d \in Live
  BY <1>0
<1>8. \/ UNCHANGED <<run, runId, status>>
      \/ \E w \in Workers : Post(w) \/ Expire(w)
      \/ \E a \in Agents : Claim(a) \/ \E e \in Ids : Submit(a, e)
  BY DEF Next, WorkerStep, vars, Restart, Request, TimeOut, AnnounceRepair,
         WakeOrphans, Collect, Judge, Reply, Unasked, Unstored, GiveUp, Release, Hear
<1> QED
  BY <1>2, <1>3, <1>4, <1>5, <1>6, <1>7, <1>8

LEMMA WaiterStep == IInv /\ [Next]_vars => LiveHasWaiter'
<1> DEFINE Blocked(w) == pc[w] \in {"posted", "waiting", "expired"}
<1> SUFFICES ASSUME IInv, [Next]_vars, NEW d \in Ids,
                    status'[d] \in {"pending", "claimed"}
             PROVE  \E w \in Workers : cur'[w] = d /\ Blocked(w)'
  BY IndexIs, TypeStep, IndexStep DEF IInv, LiveHasWaiter
<1> USE DEF decisionVars, verdictVars, workerVars, agentVars
<1>0. Live = {e \in Ids : status[e] \in {"pending", "claimed"}}
  BY IndexIs DEF IInv
<1>1. d \in Live => \E w \in Workers : cur[w] = d /\ Blocked(w)
  BY DEF IInv, LiveHasWaiter
<1>2. status[d] \notin {"answered", "abandoned"}
  BY SettledStays
<1> USE DEF IInv, TypeOK
<1>3. ASSUME NEW w \in Workers, Post(w)
      PROVE  \E v \in Workers : cur'[v] = d /\ Blocked(v)'
  <2> DEFINE dead == Superseded(Stamp(req[w]))
  <2>1. pc[w] = "asked"
    BY <1>3 DEF Post
  <2> HIDE DEF dead
  <2>2. CASE /\ nextId \in Ids
             /\ status' = AfterPost({nextId}, dead)
             /\ cur' = [cur EXCEPT ![w] = nextId]
             /\ pc' = [pc EXCEPT ![w] = "posted"]
    <3>1. CASE d = nextId
      BY <2>2, <3>1
    <3>2. CASE d # nextId
      <4>1. d \in Live
        BY <1>0, <2>2, <3>2 DEF AfterPost
      <4> QED
        BY <1>1, <2>1, <2>2, <4>1
    <3> QED
      BY <3>1, <3>2
  <2>3. CASE UNCHANGED <<status, cur>> /\ pc' = [pc EXCEPT ![w] = "degraded"]
    BY <1>0, <1>1, <2>1, <2>3
  <2> QED
    BY <1>3, <2>2, <2>3, PostEffect DEF dead
<1>4. ASSUME NEW w \in Workers, Expire(w)
      PROVE  \E v \in Workers : cur'[v] = d /\ Blocked(v)'
  <2>1. status'[d] = IF d \in {cur[w]} \cap Live THEN "abandoned" ELSE status[d]
    BY <1>4 DEF Expire
  <2>2. d \in Live /\ cur[w] # d
    BY <1>0, <2>1
  <2> QED
    BY <1>1, <1>4, <2>2 DEF Expire
<1>5. ASSUME NEW w \in Workers, Collect(w)
      PROVE  \E v \in Workers : cur'[v] = d /\ Blocked(v)'
  <2>1. d \in Live /\ UNCHANGED cur /\ done[cur[w]] /\ cur[w] \in Ids
    BY <1>0, <1>5 DEF Collect, WorkersOK
  <2>2. cur[w] # d
    BY <1>2, <2>1 DEF EventsOK
  <2>3. \A v \in Workers : v # w => pc'[v] = pc[v]
    BY <1>5 DEF Collect
  <2> QED
    BY <1>1, <2>1, <2>2, <2>3
<1>6. ASSUME NEW w \in Workers, \/ Request(w) \/ AnnounceRepair(w) \/ Judge(w) \/ Reply(w)
                                \/ Unasked(w) \/ Unstored(w)
      PROVE  \E v \in Workers : cur'[v] = d /\ Blocked(v)'
  <2>1. /\ UNCHANGED status
        /\ ~Blocked(w)
        /\ \A v \in Workers : v # w => cur'[v] = cur[v] /\ pc'[v] = pc[v]
    BY <1>6 DEF Request, AnnounceRepair, Judge, Reply, Unasked, Unstored,
                PublishAndReply, EndRequest
  <2> QED
    BY <1>0, <1>1, <2>1
<1>7. ASSUME NEW w \in Workers, WakeOrphans(w) \/ TimeOut(w)
      PROVE  \E v \in Workers : cur'[v] = d /\ Blocked(v)'
  BY <1>0, <1>1, <1>7 DEF WakeOrphans, TimeOut
<1>8. ASSUME UNCHANGED <<cur, pc>>, d \in Live
      PROVE  \E v \in Workers : cur'[v] = d /\ Blocked(v)'
  BY <1>1, <1>8
<1>9. ASSUME NEW a \in Agents, Claim(a) \/ \E e \in Ids : Submit(a, e)
      PROVE  UNCHANGED <<cur, pc>> /\ d \in Live
  BY <1>0, <1>9 DEF Claim, Submit, Pending, Indexed, Posted
<1>10. UNCHANGED <<status, cur, pc>> => UNCHANGED <<cur, pc>> /\ d \in Live
  BY <1>0
<1>11. \/ UNCHANGED <<status, cur, pc>>
       \/ \E w \in Workers : \/ Post(w) \/ Expire(w) \/ Collect(w)
                              \/ Request(w) \/ AnnounceRepair(w) \/ Judge(w) \/ Reply(w)
                              \/ Unasked(w) \/ Unstored(w)
                              \/ WakeOrphans(w) \/ TimeOut(w)
       \/ \E a \in Agents : Claim(a) \/ \E e \in Ids : Submit(a, e)
  BY DEF Next, WorkerStep, vars, Restart, GiveUp, Release, Hear
<1> QED
  BY <1>3, <1>4, <1>5, <1>6, <1>7, <1>8, <1>9, <1>10, <1>11

(* The inductive invariant is one: every later result rests on this.            *)
THEOREM Inductive == Spec => []IInv
<1>1. Init => IInv
  BY InitIInv
<1>2. IInv /\ [Next]_vars => IInv'
  <2> SUFFICES ASSUME IInv, [Next]_vars PROVE IInv'
    OBVIOUS
  <2>1. TypeOK' /\ CounterOK' /\ IndexOK' /\ EventsOK' /\ WorkersOK' /\ VerdictsOK'
    BY TypeStep, CounterStep, IndexStep, EventsStep, WorkersStep, VerdictsStep DEF IInv
  <2>2. LiveHasWaiter' /\ LiveOfOneRun' /\ NoSleeperBesideWork' /\ OutcomeIsTrue'
    BY WaiterStep, OneRunStep, SleeperStep, OutcomeStep
  <2> QED
    BY <2>1, <2>2 DEF IInv
<1> QED
  BY <1>1, <1>2, PTL DEF Spec

-------------------------------------------------------------------------------
(* Every variable keeps its type, for any number of threads and decisions.      *)
THEOREM TypeCorrect == Spec => []TypeOK
<1>1. IInv => TypeOK
  BY DEF IInv
<1> QED
  BY <1>1, Inductive, PTL

(* A decision an agent can be offered always has a worker blocked on it.        *)
THEOREM WaiterPresent == Spec => []LiveHasWaiter
<1>1. IInv => LiveHasWaiter
  BY DEF IInv
<1> QED
  BY <1>1, Inductive, PTL

(* The agents are never offered decisions of two stamped runs at once.          *)
THEOREM OneRunAtATime == Spec => []LiveOfOneRun
<1>1. IInv => LiveOfOneRun
  BY DEF IInv
<1> QED
  BY <1>1, Inductive, PTL

(* No agent sleeps in claim while a decision is pending.                        *)
THEOREM NoLostWakeup == Spec => []NoSleeperBesideWork
<1>1. IInv => NoSleeperBesideWork
  BY DEF IInv
<1> QED
  BY <1>1, Inductive, PTL

(* A submitter hears "applied" only of an answer the loop let stand, or of one  *)
(* it threw out in a handler that raised, and "not applied" only of the others. *)
THEOREM HonestOutcome == Spec => []OutcomeIsTrue
<1>1. IInv => OutcomeIsTrue
  BY DEF IInv
<1> QED
  BY <1>1, Inductive, PTL

(* Whatever the bound on tombstones, a late submit is told the truth, or that   *)
(* the id is unknown once more tombstones were written than are kept.           *)
THEOREM HonestRefusal == Spec => []TruthfulRefusal
<1>1. IInv => TruthfulRefusal
  <2> SUFFICES ASSUME IInv, NEW d \in Posted \ Live
               PROVE  \/ Refusal(d) = status[d]
                      \/ /\ Refusal(d) = "no such decision"
                         /\ status[d] \in {"answered", "abandoned"}
                         /\ Cardinality({e \in Ids : closedAt[e] # 0}) > SettledMemory
    BY DEF TruthfulRefusal
  <2> DEFINE younger == {e \in Ids : closedAt[e] > closedAt[d]}
             closed == {e \in Ids : closedAt[e] # 0}
  <2>1. CASE d \in Indexed
    BY <2>1 DEF Refusal
  <2>2. CASE d \notin Indexed /\ Remembered(d)
    BY <2>2 DEF Refusal, IInv, IndexOK, Remembered, Posted
  <2>3. CASE d \notin Indexed /\ ~Remembered(d)
    <3>1. d \in Ids /\ closedAt[d] # 0 /\ closedAt \in [Ids -> Nat]
      BY <2>3 DEF Indexed, Posted, IInv, TypeOK
    <3>2. status[d] \in {"answered", "abandoned"}
      BY <3>1 DEF IInv, IndexOK
    <3>3. younger \in SUBSET closed /\ d \in closed /\ d \notin younger
      BY <3>1
    <3>4. /\ IsFiniteSet(closed) /\ Cardinality(closed) \in Nat
          /\ Cardinality(younger) \in Nat
      BY IdsFinite
    <3>5. Cardinality(younger) <= Cardinality(closed)
          /\ (Cardinality(younger) = Cardinality(closed) => younger = closed)
      BY <3>3, <3>4, FS_Subset
    <3>6. ~(Cardinality(younger) < SettledMemory)
      BY <2>3, <3>1 DEF Remembered
    <3>7. Cardinality(closed) > SettledMemory
      <4> HIDE DEF younger, closed
      <4> QED
        BY <3>3, <3>4, <3>5, <3>6, ConstantsOK
    <3> QED
      BY <2>3, <3>2, <3>7 DEF Refusal
  <2> QED
    BY <2>1, <2>2, <2>3
<1> QED
  BY <1>1, Inductive, PTL

-------------------------------------------------------------------------------
(* The refinement mapping, and what each step is to the ledger. *)

PhaseOf(d) == IF status[d] \in {"pending", "claimed"} THEN "open" ELSE status[d]

LEMMA LedgerStep ==
    ASSUME IInv, [Next]_vars
    PROVE  [Ledger!Next]_(Ledger!vars)
<1> DEFINE ph == [d \in Ids |-> PhaseOf(d)]
<1> USE DEF decisionVars, verdictVars, workerVars, agentVars
<1>0. /\ Live = {e \in Ids : status[e] \in {"pending", "claimed"}}
      /\ Pending = {e \in Ids : status[e] = "pending"}
  BY IndexIs DEF IInv
<1>1. CASE \E w \in Workers : Post(w)
  <2> PICK w \in Workers : Post(w)
    BY <1>1
  <2> DEFINE dead == Superseded(Stamp(req[w]))
  <2>1. dead \subseteq Live
    BY DEF Superseded
  <2>2. UNCHANGED taken
    BY DEF Post
  <2> HIDE DEF dead
  <2>3. CASE nextId \in Ids /\ status' = AfterPost({nextId}, dead)
    <3> PICK new \in Ids : new = nextId
      BY <2>3
    <3>1. status[new] = "none"
      BY <2>3 DEF IInv, CounterOK, TypeOK
    <3> PICK S \in SUBSET Ids : S = dead
      BY <1>0, <2>1
    <3>2. S \subseteq Live /\ new \notin S
      BY <1>0, <2>1, <3>1
    <3>3. Ledger!Open(new, S)
      <4>1. ph[new] = "none" /\ \A e \in S : ph[e] = "open"
        BY <1>0, <3>1, <3>2 DEF PhaseOf
      <4>2. ph' = [e \in Ids |-> IF e = new THEN "open"
                                 ELSE IF e \in S THEN "abandoned" ELSE ph[e]]
        BY <2>3, <3>2 DEF PhaseOf, AfterPost
      <4> QED
        BY <2>2, <4>1, <4>2 DEF Ledger!Open, PhaseOf
    <3> QED
      BY <3>3 DEF Ledger!Next
  <2>4. CASE UNCHANGED status
    BY <2>2, <2>4 DEF Ledger!vars
  <2> QED
    BY <2>3, <2>4, PostEffect DEF dead, IInv
<1>2. CASE \E w \in Workers : Expire(w)
  <2> PICK w \in Workers : Expire(w)
    BY <1>2
  <2>1. /\ UNCHANGED taken
        /\ status' = [d \in Ids |-> IF d \in {cur[w]} \cap Live
                                    THEN "abandoned" ELSE status[d]]
    BY DEF Expire
  <2>2. CASE cur[w] \in Live
    <3> PICK e \in Ids : e = cur[w]
      BY <1>0, <2>2
    <3>1. Ledger!Abandon(e)
      BY <1>0, <2>1, <2>2 DEF Ledger!Abandon
    <3> QED
      BY <3>1 DEF Ledger!Next
  <2>3. CASE cur[w] \notin Live
    <3>1. status' = status
      BY <2>1, <2>3 DEF IInv, TypeOK
    <3> QED
      BY <2>1, <3>1 DEF Ledger!vars
  <2> QED
    BY <2>2, <2>3
<1>3. CASE \E w \in Workers : Collect(w)
  <2> PICK w \in Workers : Collect(w)
    BY <1>3
  <2>1. cur[w] \in Ids /\ cur[w] \notin taken /\ UNCHANGED status
    BY DEF Collect, IInv, TypeOK, WorkersOK
  <2>2. CASE status[cur[w]] = "answered" /\ taken' = taken \cup {cur[w]}
    <3> PICK e \in Ids : e = cur[w]
      BY <2>1
    <3>1. Ledger!Take(e)
      BY <2>1, <2>2 DEF Ledger!Take
    <3> QED
      BY <3>1 DEF Ledger!Next
  <2>3. CASE UNCHANGED taken
    BY <2>1, <2>3 DEF Ledger!vars
  <2> QED
    BY <2>2, <2>3 DEF Collect
<1>4. CASE \E a \in Agents : Claim(a)
  <2> PICK a \in Agents : Claim(a)
    BY <1>4
  <2>1. UNCHANGED taken
    BY DEF Claim
  <2>2. [d \in Ids |-> PhaseOf(d)]' = [d \in Ids |-> PhaseOf(d)]
    BY <1>0 DEF Claim, PhaseOf, IInv, TypeOK
  <2> QED
    BY <2>1, <2>2 DEF Ledger!vars, PhaseOf
<1>5. CASE \E a \in Agents, e \in Ids : Submit(a, e)
  <2> PICK a \in Agents, e \in Ids : Submit(a, e)
    BY <1>5
  <2>1. UNCHANGED taken
    BY DEF Submit
  <2>2. CASE e \in Live /\ status' = [status EXCEPT ![e] = "answered"]
    <3>1. Ledger!Answer(e)
      BY <1>0, <2>1, <2>2 DEF Ledger!Answer, IInv, TypeOK
    <3> QED
      BY <3>1 DEF Ledger!Next
  <2>3. CASE UNCHANGED status
    BY <2>1, <2>3 DEF Ledger!vars
  <2> QED
    BY <2>2, <2>3 DEF Submit
<1>6. CASE UNCHANGED <<status, taken>>
  BY <1>6 DEF Ledger!vars
<1>7. \/ UNCHANGED <<status, taken>>
      \/ \E w \in Workers : Post(w) \/ Expire(w) \/ Collect(w)
      \/ \E a \in Agents : Claim(a) \/ \E e \in Ids : Submit(a, e)
  BY DEF Next, WorkerStep, vars, Restart, Request, TimeOut, AnnounceRepair,
         WakeOrphans, Judge, Reply, Unasked, Unstored, GiveUp, Release, Hear
<1> QED
  BY <1>1, <1>2, <1>3, <1>4, <1>5, <1>6, <1>7

(* The queue, with its locks, events, tombstones and races, implements the      *)
(* ledger: a decision closes once and an answer is taken at most once.          *)
THEOREM Refinement == Spec => KeepsLedger
<1>1. Init => Ledger!Init
  BY DEF Init, Ledger!Init
<1>2. IInv /\ [Next]_vars => [Ledger!Next]_(Ledger!vars)
  BY LedgerStep
<1> QED
  BY <1>1, <1>2, Inductive, PTL DEF KeepsLedger, Spec, Ledger!Spec
===============================================================================
