------------------------------ MODULE Seats_proofs ------------------------------
(* Whoever answers a decision, for any limits, repairs, waits, pollers and       *)
(* capacities: the wait ends before the engine's, submitters and claimants are   *)
(* heard, the feed skips nothing it keeps, and every attempt is accounted for.   *)
EXTENDS ModelCalls, AgentSeat, OutcomeFeed, AgentDesk, FiniteSetTheorems, SequenceTheorems, TLAPS

(*---------------------------------------------------------------------------*)
(* The seat.                                                                  *)

\* The greater of two is above both and is one of them.
LEMMA GreaterOfTwo ==
    ASSUME NEW m \in Int, NEW n \in Int
    PROVE  /\ Max({m, n}) \in {m, n}
           /\ m <= Max({m, n}) /\ n <= Max({m, n})
<1>1. \E x \in {m, n} : \A y \in {m, n} : x >= y
  <2>1. CASE m >= n
    BY <2>1
  <2>2. CASE ~(m >= n)
    BY <2>2
  <2> QED
    BY <2>1, <2>2
<1> QED
  BY <1>1 DEF Max

\* The engine's deadline less its margin leaves time to answer, and time to give up.
LEMMA ShavedIsInside ==
    ASSUME engine \in Nat \ {0}, engine % 2 = 0
    PROVE  Shaved \in Nat /\ Shaved > 0 /\ Shaved < engine
<1> DEFINE left == engine - Margin
           half == engine \div 2
<1>1. left < engine /\ left \in Int
  BY SeatOK
<1>2. half \in Int /\ half > 0 /\ half < engine
  OBVIOUS
<1>3. Shaved = Max({left, half})
  BY DEF Shaved
<1> HIDE DEF left, half
<1>4. Max({left, half}) \in {left, half} /\ half <= Max({left, half})
  BY <1>1, <1>2, GreaterOfTwo
<1> QED
  BY <1>1, <1>2, <1>3, <1>4

Hopeful == at \in {"waiting", "judging", "kept"}

ClockOK ==
    /\ timeout \in Timeouts /\ engine \in EngineLimits \cup {0}
    /\ GivesUpFirst

\* What the thread last posted, and what a submit must therefore be for.
SeatTypes ==
    /\ request \in Nat /\ posted \in Nat /\ current \in Posts \cup {0}
    /\ origin \in [Posts -> Nat] /\ DOMAIN wanted = Posts /\ DOMAIN told = Posts
    /\ Hopeful => posted \in Posts /\ current = posted /\ origin[posted] = request

NotYetWanted == \A p \in Posts : p > posted => wanted[p] = "none"

\* Whoever listens answered what the thread has in hand, or its handler raised.
ListenedTo ==
    \A p \in Posts : Listening(p) =>
        \/ origin[p] \in crashed
        \/ p = current /\ origin[p] = request /\ at # "idle"

SeatInv == ClockOK /\ SeatTypes /\ NotYetWanted /\ ListenedTo

LEMMA SeatBegins == SeatInit => SeatInv
BY SeatOK
DEF SeatInit, SeatInv, ClockOK, SeatTypes, NotYetWanted, ListenedTo, Listening, Hopeful,
    GivesUpFirst, Posts

\* The wait of a decision is inside the engine's, whoever's clock it is.
LEMMA ClockStep == ClockOK /\ [SeatNext]_seatVars => ClockOK'
<1> SUFFICES ASSUME ClockOK, [SeatNext]_seatVars PROVE ClockOK'
  OBVIOUS
<1> USE DEF ClockOK, GivesUpFirst
<1>1. ASSUME NEW e \in EngineLimits, NEW d \in Delays, NEW forAgent \in BOOLEAN,
             Receive(e, d, forAgent)
      PROVE  ClockOK'
  BY <1>1 DEF Receive
<1>2. CASE Decide
  <2>1. engine' = engine /\ timeout' = timeout /\ Deadline
    BY <1>2 DEF Decide, clock
  <2>2. ASSUME engine # 0 PROVE limit' > 0 /\ limit' < engine
    <3>1. engine \in Nat \ {0} /\ engine % 2 = 0 /\ timeout \in Nat
      BY <2>2, SeatOK
    <3>2. Shaved \in Nat /\ Shaved > 0 /\ Shaved < engine
      BY <3>1, ShavedIsInside
    <3>3. CASE timeout = 0 \/ timeout > Shaved
      BY <2>1, <2>2, <3>2, <3>3 DEF Deadline
    <3>4. CASE ~(timeout = 0 \/ timeout > Shaved)
      BY <2>1, <2>2, <3>1, <3>2, <3>4 DEF Deadline
    <3> QED
      BY <3>3, <3>4
  <2> QED
    BY <2>1, <2>2
<1>3. CASE QueueFull \/ Abandon \/ Throw \/ Keep
  BY <1>3 DEF QueueFull, Abandon, Throw, Keep, clock, waitVars
<1>4. ASSUME NEW a \in SeatActions, NEW spent \in Spends, Submit(a, spent)
      PROVE  ClockOK'
  BY <1>4 DEF Submit
<1>5. ASSUME NEW applied, Record(applied) \/ HandlerRaises
      PROVE  ClockOK'
  BY <1>5 DEF Record, HandlerRaises, Rest
<1>6. ASSUME NEW p \in Posts, StopListening(p)
      PROVE  ClockOK'
  BY <1>6 DEF StopListening, clock, waitVars
<1>7. CASE UNCHANGED seatVars
  BY <1>7 DEF seatVars, clock, waitVars
<1> QED
  BY <1>1, <1>2, <1>3, <1>4, <1>5, <1>6, <1>7 DEF SeatNext

LEMMA SeatTypesStep == SeatTypes /\ [SeatNext]_seatVars => SeatTypes'
<1> SUFFICES ASSUME SeatTypes, [SeatNext]_seatVars PROVE SeatTypes'
  OBVIOUS
<1> USE DEF SeatTypes, Hopeful
<1>1. ASSUME NEW e \in EngineLimits, NEW d \in Delays, NEW forAgent \in BOOLEAN,
             Receive(e, d, forAgent)
      PROVE  SeatTypes'
  BY <1>1 DEF Receive, handles
<1>2. CASE Decide
  <2>1. posted' = posted + 1 /\ posted' \in Posts
    BY <1>2, SeatOK DEF Decide, Posts
  <2>2. DOMAIN told' = Posts
    BY <1>2 DEF Decide, TellOfRepair, Publish
  <2> QED
    BY <1>2, <2>1, <2>2 DEF Decide
<1>3. CASE QueueFull
  BY <1>3 DEF QueueFull, TellOfRepair, Publish, handles
<1>4. CASE Abandon \/ Throw \/ Keep
  BY <1>4 DEF Abandon, Throw, Keep, handles
<1>5. ASSUME NEW a \in SeatActions, NEW spent \in Spends, Submit(a, spent)
      PROVE  SeatTypes'
  BY <1>5 DEF Submit, handles
<1>6. ASSUME NEW applied, Record(applied)
      PROVE  SeatTypes'
  BY <1>6 DEF Record, Rest, PublishOutcome, Publish, handles
<1>7. CASE HandlerRaises
  BY <1>7 DEF HandlerRaises, Rest, handles
<1>8. ASSUME NEW p \in Posts, StopListening(p)
      PROVE  SeatTypes'
  BY <1>8 DEF StopListening, handles
<1>9. CASE UNCHANGED seatVars
  BY <1>9 DEF seatVars, handles
<1> QED
  BY <1>1, <1>2, <1>3, <1>4, <1>5, <1>6, <1>7, <1>8, <1>9 DEF SeatNext

\* Whoever is told is no longer listening, and nobody else is told.
LEMMA PublishCloses ==
    ASSUME DOMAIN told = Posts, NEW q \in Posts, NEW says, says # "nothing",
           Publish(q, says), UNCHANGED wanted,
           NEW p \in Posts, Listening(p)'
    PROVE  Listening(p) /\ p # q
<1>1. told' = [told EXCEPT ![q] = IF Listening(q)
        THEN [says |-> says, of |-> request, inTime |-> engine = 0 \/ age < engine] ELSE @]
  BY DEF Publish
<1>2. [says |-> says, of |-> request, inTime |-> engine = 0 \/ age < engine] # Silence
  BY DEF Silence
<1>3. CASE p = q
  <2>1. CASE Listening(q)
    <3>1. told'[p] = [says |-> says, of |-> request, inTime |-> engine = 0 \/ age < engine]
      BY <1>1, <1>3, <2>1
    <3> QED
      BY <3>1, <1>2 DEF Listening, Silence
  <2>2. CASE ~Listening(q)
    BY <1>1, <1>3, <2>2 DEF Listening, Silence
  <2> QED
    BY <2>1, <2>2
<1>4. CASE p # q
  BY <1>1, <1>4 DEF Listening, Silence
<1> QED
  BY <1>3, <1>4

\* A verdict says something.
LEMMA VerdictSpeaks == \A q, applied : Verdict(q, applied) # "nothing"
BY DEF Verdict

LEMMA NotYetWantedStep == SeatTypes /\ NotYetWanted /\ [SeatNext]_seatVars => NotYetWanted'
<1> SUFFICES ASSUME SeatTypes, NotYetWanted, [SeatNext]_seatVars PROVE NotYetWanted'
  OBVIOUS
<1> USE DEF NotYetWanted
<1>1. ASSUME UNCHANGED wanted, posted' \in {posted, posted + 1} PROVE NotYetWanted'
  BY <1>1 DEF SeatTypes, Posts
<1>2. ASSUME NEW a \in SeatActions, NEW spent \in Spends, Submit(a, spent) PROVE NotYetWanted'
  BY <1>2 DEF Submit, SeatTypes, handles
<1> QED
  BY <1>1, <1>2 DEF SeatNext, seatVars, handles, Receive, Decide, QueueFull, Abandon, Throw, Keep,
     Record, HandlerRaises, StopListening

LEMMA ListenedToStep ==
    SeatTypes /\ NotYetWanted /\ ListenedTo /\ [SeatNext]_seatVars => ListenedTo'
<1> SUFFICES ASSUME SeatTypes, NotYetWanted, ListenedTo, [SeatNext]_seatVars,
                    NEW p \in Posts, Listening(p)'
             PROVE  \/ origin'[p] \in crashed'
                    \/ p = current' /\ origin'[p] = request' /\ at' # "idle"
  BY DEF ListenedTo
\* The end of what the thread had in hand, or the silence of a thread that has nothing.
<1>0. ASSUME TellOfRepair, UNCHANGED <<wanted, crashed>>
      PROVE  origin[p] \in crashed
  <2>1. CASE current # 0
    <3>1. Publish(current, "repair follows") /\ current \in Posts
      BY <1>0, <2>1 DEF TellOfRepair, SeatTypes
    <3>2. Listening(p) /\ p # current
      BY <1>0, <3>1, PublishCloses DEF SeatTypes
    <3> QED
      BY <3>2 DEF ListenedTo
  <2>2. CASE current = 0
    BY <1>0, <2>2 DEF TellOfRepair, Listening, ListenedTo, Silence, Posts
  <2> QED
    BY <2>1, <2>2
<1>1. ASSUME NEW e \in EngineLimits, NEW d \in Delays, NEW forAgent \in BOOLEAN,
             Receive(e, d, forAgent)
      PROVE  origin'[p] \in crashed'
  BY <1>1 DEF Receive, handles, Listening, Silence, ListenedTo
<1>2. CASE Decide
  <2>1. UNCHANGED <<wanted, crashed>> /\ origin' = [origin EXCEPT ![posted + 1] = request]
        /\ posted + 1 \in Posts
    BY <1>2, SeatOK DEF Decide, SeatTypes, Posts
  <2>2. p # posted + 1
    BY <2>1 DEF Listening, NotYetWanted, SeatTypes, Posts
  <2>3. origin[p] \in crashed
    BY <1>0, <1>2, <2>1 DEF Decide
  <2> QED
    BY <2>1, <2>2, <2>3 DEF SeatTypes
<1>3. CASE QueueFull
  BY <1>0, <1>3 DEF QueueFull, handles
<1>4. CASE Abandon \/ Throw \/ Keep
  BY <1>4 DEF Abandon, Throw, Keep, handles, Listening, Silence, ListenedTo
<1>5. ASSUME NEW a \in SeatActions, NEW spent \in Spends, Submit(a, spent)
      PROVE  \/ origin'[p] \in crashed'
             \/ p = current' /\ origin'[p] = request' /\ at' # "idle"
  BY <1>5 DEF Submit, handles, Listening, Silence, ListenedTo, SeatTypes, Hopeful
<1>6. ASSUME NEW applied, Record(applied)
      PROVE  origin'[p] \in crashed'
  <2>1. CASE current # 0
    <3>1. current \in Posts /\ Publish(current, Verdict(current, applied)) /\ UNCHANGED wanted
      BY <1>6, <2>1 DEF Record, PublishOutcome, SeatTypes
    <3>2. Listening(p) /\ p # current
      BY <2>1, <3>1, PublishCloses, VerdictSpeaks DEF SeatTypes
    <3> QED
      BY <1>6, <3>2 DEF Record, ListenedTo, handles
  <2>2. CASE current = 0
    BY <1>6, <2>2 DEF Record, ListenedTo, PublishOutcome, handles, Listening, Silence, Posts
  <2> QED
    BY <2>1, <2>2
<1>7. CASE HandlerRaises
  BY <1>7 DEF HandlerRaises, Rest, handles, Listening, Silence, ListenedTo
<1>8. ASSUME NEW q \in Posts, StopListening(q)
      PROVE  \/ origin'[p] \in crashed'
             \/ p = current' /\ origin'[p] = request' /\ at' # "idle"
  BY <1>8 DEF StopListening, handles, Listening, Silence, ListenedTo, SeatTypes
<1>9. CASE UNCHANGED seatVars
  BY <1>9 DEF seatVars, handles, Listening, Silence, ListenedTo
<1> QED
  BY <1>1, <1>2, <1>3, <1>4, <1>5, <1>6, <1>7, <1>8, <1>9 DEF SeatNext, handles

\* The seat keeps its invariant.
THEOREM SeatInvariant == SeatSpec => []SeatInv
<1>1. SeatInv /\ [SeatNext]_seatVars => SeatInv'
  BY ClockStep, SeatTypesStep, NotYetWantedStep, ListenedToStep DEF SeatInv
<1> QED
  BY <1>1, SeatBegins, PTL DEF SeatSpec

\* AgentBrain._deadline: a wait under the engine's deadline is never over before it began
\* and ends before the engine's, whatever the limits and however many repairs.
THEOREM WaitsInside == SeatSpec => []GivesUpFirst
<1>1. SeatInv => GivesUpFirst
  BY DEF SeatInv, ClockOK
<1> QED
  BY <1>1, SeatInvariant, PTL

\* publish_outcome: only the handler that raised leaves a submitter listening when its
\* request is over.
THEOREM SubmittersAreTold == SeatSpec => []SubmittersHear
<1>1. SeatInv => SubmittersHear
  BY DEF SeatInv, ListenedTo, SubmittersHear
<1> QED
  BY <1>1, SeatInvariant, PTL

(*---------------------------------------------------------------------------*)
(* The desk.                                                                  *)

Calling == [tool : {"none", "next", "submit", "directive"}, wait : Nat, age : Nat]

\* A handler is no later than it may be.
InTime(c) == c.tool = "next" => c.age <= Capped(c.wait) + Slack

\* A claim is answered while its client still listens: the handler's limit, and what it
\* may be late, are shorter than the client's.
Punctual == \A a \in Desks : /\ InTime(asked[a])
                             /\ asked[a].tool = "next" => listener[a] # "gave up"

DeskInv == /\ asked \in [Desks -> Calling] /\ DOMAIN listener = Desks
           /\ Punctual /\ ClaimIsHeard

LEMMA DeskNumbers == /\ WaitCap \in Nat /\ HttpTimeout \in Nat /\ Slack \in Nat
                     /\ Waits \subseteq Nat /\ WaitCap + Slack < HttpTimeout
BY DeskTimes

LEMMA StartsInTime ==
    ASSUME NEW tool \in {"next", "submit", "directive"}, NEW wait \in Nat
    PROVE  /\ [tool |-> tool, wait |-> wait, age |-> 0] \in Calling
           /\ InTime([tool |-> tool, wait |-> wait, age |-> 0])
BY DeskNumbers DEF Calling, InTime, Capped

LEMMA NoCallInTime == NoCall \in Calling /\ InTime(NoCall) /\ NoCall.tool # "next"
BY DEF Calling, NoCall, InTime

LEMMA StaysInTime ==
    ASSUME NEW c \in Calling, c.tool = "next" => c.age < Capped(c.wait) + Slack
    PROVE  /\ [c EXCEPT !.age = @ + 1] \in Calling /\ InTime([c EXCEPT !.age = @ + 1])
           /\ [c EXCEPT !.age = @ + 1].tool = c.tool
BY DeskNumbers DEF Calling, InTime, Capped

\* A call that asks for a decision is over before its client gives up.
LEMMA OverBeforeTimeout ==
    ASSUME NEW c \in Calling, InTime(c), c.age >= HttpTimeout
    PROVE  c.tool # "next"
BY DeskNumbers DEF Calling, InTime, Capped

LEMMA DeskBegins == DeskInit => DeskInv
BY NoCallInTime DEF DeskInit, DeskInv, Punctual, ClaimIsHeard

LEMMA TickIsPunctual == DeskInv /\ DeskTick => DeskInv'
<1> SUFFICES ASSUME DeskInv, DeskTick PROVE DeskInv'
  OBVIOUS
<1>1. /\ asked' = [a \in Desks |-> IF Grows(a) THEN [asked[a] EXCEPT !.age = @ + 1] ELSE NoCall]
      /\ UNCHANGED <<listener, unheard>>
  BY DEF DeskTick
<1>2. ASSUME NEW a \in Desks
      PROVE  /\ asked'[a] \in Calling /\ InTime(asked'[a])
             /\ asked'[a].tool = "next" => asked[a].tool = "next"
  <2>1. CASE Grows(a)
    <3>1. asked'[a] = [asked[a] EXCEPT !.age = @ + 1]
      BY <1>1, <2>1
    <3>2. asked[a].tool = "next" => asked[a].age < Capped(asked[a].wait) + Slack
      <4> SUFFICES ASSUME asked[a].tool = "next"
                   PROVE  asked[a].age < Capped(asked[a].wait) + Slack
        OBVIOUS
      <4>1. CASE Due(a)
        BY <4>1 DEF DeskTick
      <4>2. CASE ~Due(a)
        <5>1. ~(asked[a].age >= Capped(asked[a].wait))
          BY <4>2 DEF Due
        <5>2. asked[a].age \in Nat /\ asked[a].wait \in Nat /\ Slack \in Nat
          BY DeskNumbers DEF DeskInv, Calling
        <5>3. Capped(asked[a].wait) \in Nat
          BY <5>2, DeskNumbers DEF Capped
        <5> QED
          BY <5>1, <5>2, <5>3
      <4> QED
        BY <4>1, <4>2
    <3> QED
      BY <3>1, <3>2, StaysInTime DEF DeskInv
  <2>2. CASE ~Grows(a)
    BY <1>1, <2>2, NoCallInTime
  <2> QED
    BY <2>1, <2>2
<1> QED
  BY <1>1, <1>2 DEF DeskInv, Punctual, ClaimIsHeard

LEMMA DeskSteps == DeskInv /\ [DeskNext]_deskVars => DeskInv'
<1> SUFFICES ASSUME DeskInv, [DeskNext]_deskVars PROVE DeskInv'
  OBVIOUS
<1> USE DEF DeskInv, Punctual, ClaimIsHeard
<1>1. ASSUME UNCHANGED <<asked, listener, unheard>> PROVE DeskInv'
  BY <1>1
<1>2. CASE ServiceRestarts
  BY <1>2, NoCallInTime DEF ServiceRestarts
<1>3. ASSUME NEW a \in Desks, NEW tool \in {"next", "submit", "directive"}, NEW wait \in Nat,
             Calls(a, tool, wait)
      PROVE  DeskInv'
  <2>1. /\ asked' = [asked EXCEPT ![a] = [tool |-> tool, wait |-> wait, age |-> 0]]
        /\ listener' = [listener EXCEPT ![a] = "client"] /\ unheard' = unheard
    BY <1>3 DEF Calls
  <2> QED
    BY <2>1, StartsInTime
<1>4. ASSUME NEW a \in Desks, NextDecision(a) \/ SubmitOrders(a) \/ IssueDirective(a)
      PROVE  DeskInv'
  BY <1>3, <1>4, DeskNumbers DEF NextDecision, SubmitOrders, IssueDirective
<1>5. ASSUME NEW a \in Desks, ClientGivesUp(a) PROVE DeskInv'
  <2>1. asked[a].tool # "next"
    BY <1>5, OverBeforeTimeout DEF ClientGivesUp
  <2> QED
    BY <1>5, <2>1 DEF ClientGivesUp
<1>6. ASSUME NEW a \in Desks, DeskRestarts(a) PROVE DeskInv'
  BY <1>6 DEF DeskRestarts
<1>7. ASSUME NEW a \in Desks, Replied(a), ClaimIsHeard' PROVE DeskInv'
  BY <1>7, NoCallInTime DEF Replied
<1>8. ASSUME NEW a \in Desks, Hands(a) PROVE DeskInv'
  <2>1. asked[a].tool = "next" /\ listener[a] # "gave up"
    BY <1>8 DEF Hands
  <2>2. PICK n : unheard' = IF Hears(a) THEN unheard
                   ELSE unheard \cup {[of |-> <<service, n>>, why |-> listener[a]]}
    BY <1>8, Zenon DEF Hands
  <2>3. ASSUME NEW u \in unheard' PROVE u.why # "gave up"
    <3>1. u \in unheard \/ u = [of |-> <<service, n>>, why |-> listener[a]]
      BY <2>2, <2>3, Zenon
    <3>2. CASE u = [of |-> <<service, n>>, why |-> listener[a]]
      BY <2>1, <3>2
    <3> QED
      BY <3>1, <3>2
  <2> QED
    BY <1>7, <1>8, <2>3 DEF Hands
<1>9. ASSUME NEW a \in Desks, HandsNothing(a) \/ Attaches(a) PROVE DeskInv'
  BY <1>7, <1>9 DEF HandsNothing, Attaches
<1>10. ASSUME NEW a \in Desks, NEW action \in Menu, Takes(a, action) PROVE DeskInv'
  BY <1>7, <1>10 DEF Takes
<1>11. CASE DeskTick
  BY <1>11, TickIsPunctual
<1>12. CASE Opens \/ (\E n \in 1..MaxOpened : Closes(n)) \/ UNCHANGED deskVars
  BY <1>1, <1>12 DEF Opens, Closes, deskVars
<1> QED
  BY <1>2, <1>4, <1>5, <1>6, <1>8, <1>9, <1>10, <1>11, <1>12 DEF DeskNext

\* agent_next and mcp_server.py: no decision is claimed for a client whose own limit has
\* passed, for any number of agents and whatever they ask to wait.
THEOREM ClaimsAreHeard == DeskSpec => []ClaimIsHeard
<1>1. DeskInv => ClaimIsHeard
  BY DEF DeskInv
<1> QED
  BY <1>1, DeskBegins, DeskSteps, PTL DEF DeskSpec

(*---------------------------------------------------------------------------*)
(* The calls of a model.                                                      *)

Outcomes == {"success", "failure"} \X {"timeout", "exec", "quota", "transient", "other", "none"}
Successes(s) == {i \in DOMAIN s : s[i][1] = "success"}

LEMMA FailureClasses == \A why : FailureClass(why) \in {"quota", "transient", "other"}
BY DEF FailureClass

\* One more event is one more success, or none.
LEMMA OneMoreEvent ==
    ASSUME NEW s \in Seq(Outcomes), NEW e \in Outcomes, IsFiniteSet(Successes(s))
    PROVE  /\ Append(s, e) \in Seq(Outcomes) /\ Len(Append(s, e)) = Len(s) + 1
           /\ IsFiniteSet(Successes(Append(s, e)))
           /\ Cardinality(Successes(Append(s, e)))
                = Cardinality(Successes(s)) + IF e[1] = "success" THEN 1 ELSE 0
<1>1. /\ Append(s, e) \in Seq(Outcomes) /\ Len(Append(s, e)) = Len(s) + 1
      /\ DOMAIN Append(s, e) = DOMAIN s \cup {Len(s) + 1} /\ Len(s) + 1 \notin DOMAIN s
      /\ Append(s, e)[Len(s) + 1] = e /\ \A i \in DOMAIN s : Append(s, e)[i] = s[i]
  OBVIOUS
<1>2. CASE e[1] = "success"
  <2>1. Successes(Append(s, e)) = Successes(s) \cup {Len(s) + 1} /\ Len(s) + 1 \notin Successes(s)
    BY <1>1, <1>2 DEF Successes
  <2>2. IsFiniteSet(Successes(Append(s, e)))
        /\ Cardinality(Successes(Append(s, e))) = Cardinality(Successes(s)) + 1
    BY <2>1, FS_AddElement
  <2> QED
    BY <1>1, <1>2, <2>2
<1>3. CASE e[1] # "success"
  <2>1. Successes(Append(s, e)) = Successes(s)
    BY <1>1, <1>3 DEF Successes
  <2>2. Cardinality(Successes(s)) \in Nat
    BY FS_CardinalityType
  <2> QED
    BY <1>1, <1>3, <2>1, <2>2
<1> QED
  BY <1>2, <1>3

\* Each process of the lane but the one that runs is accounted for, and the successes of the
\* log, with no more than what it lost, are the calls that were charged for.
Accounted(n) == Len(events) + lost + garbled + uncaught = n
Charged ==
    /\ Cardinality(Successes(events)) <= billed
    /\ billed <= Cardinality(Successes(events)) + lost

CallsInv ==
    lane = "cli" =>
        /\ call \in {"idle", "running"}
        /\ events \in Seq(Outcomes) /\ IsFiniteSet(Successes(events))
        /\ {ran, lost, garbled, uncaught, billed} \subseteq Nat
        /\ Charged
        /\ call = "idle" => Accounted(ran)
        /\ call = "running" => Accounted(ran - 1) /\ garbled = 0 /\ uncaught = 0

LEMMA CallsBegin == CallsInit => CallsInv
<1>1. <<>> \in Seq(Outcomes) /\ Len(<<>>) = 0 /\ Successes(<<>>) = {}
  BY DEF Successes
<1> SUFFICES ASSUME CallsInit PROVE CallsInv
  OBVIOUS
<1>2. /\ events = <<>> /\ lost = 0 /\ garbled = 0 /\ uncaught = 0 /\ billed = 0 /\ ran = 0
      /\ call = "idle"
  BY DEF CallsInit
<1>3. Len(events) = 0 /\ Successes(events) = {} /\ events \in Seq(Outcomes)
  BY <1>1, <1>2
<1>4. IsFiniteSet(Successes(events)) /\ Cardinality(Successes(events)) = 0
  BY <1>3, FS_EmptySet
<1> QED
  BY <1>2, <1>3, <1>4 DEF CallsInv, Accounted, Charged

\* The loop's turn: the call is over, or one more process runs.
LEMMA LoopGoesOn ==
    ASSUME lane = "cli", NEW choices, NEW issued, Returned(choices, issued) \/ Raised
    PROVE  \/ call' = "idle" /\ ran' = ran
           \/ call' = "running" /\ ran' = ran + 1
BY DEF Returned, Raised, Ended

\* A service keeps the lane it was built with.
LEMMA LaneStays == [CallsNext]_callVars => lane' = lane
<1> SUFFICES ASSUME [CallsNext]_callVars PROVE UNCHANGED instance
  BY DEF instance
<1>1. CASE \E s \in {"turn", "base"} : Asked(s)
  BY <1>1 DEF Asked
<1>2. CASE \/ \E reason \in {"timeout", "exec"} : CliBreaks(reason)
           \/ \E out \in Reasons \cup {NoObject}, err \in Reasons : CliExits(out, err)
           \/ CliGarbled \/ CliThrows(NoObject) \/ CliReplies
  BY <1>2 DEF CliBreaks, CliExits, CliGarbled, CliThrows, CliReplies
<1>3. CASE ApiProbes \/ (\E grammar \in BOOLEAN : ApiRaises(grammar)) \/ ApiReplies
  BY <1>3 DEF ApiProbes, ApiRaises, ApiReplies
<1>4. CASE UNCHANGED callVars
  BY <1>4 DEF callVars
<1> QED
  BY <1>1, <1>2, <1>3, <1>4 DEF CallsNext

LEMMA CallsSteps == CallsInv /\ [CallsNext]_callVars => CallsInv'
<1> SUFFICES ASSUME CallsInv, [CallsNext]_callVars, lane = "cli" PROVE CallsInv'
  BY LaneStays DEF CallsInv
<1> USE DEF CallsInv
<1>1. ASSUME NEW s \in {"turn", "base"}, Asked(s) PROVE CallsInv'
  <2>1. <<>> \in Seq(Outcomes) /\ Len(<<>>) = 0 /\ Successes(<<>>) = {}
    BY DEF Successes
  <2>2. /\ events' = <<>> /\ lost' = 0 /\ garbled' = 0 /\ uncaught' = 0 /\ billed' = 0
        /\ call' = "running" /\ ran' = 1
    BY <1>1 DEF Asked
  <2>3. events' \in Seq(Outcomes) /\ Len(events') = 0 /\ Successes(events') = {}
    BY <2>1, <2>2
  <2>4. IsFiniteSet(Successes(events')) /\ Cardinality(Successes(events')) = 0
    BY <2>3, FS_EmptySet
  <2> QED
    BY <2>2, <2>3, <2>4 DEF Accounted, Charged
\* The process that ran left its event, or lost it, and the call ended or another one runs.
<1>2. ASSUME NEW outcome \in {"success", "failure"},
             NEW reason \in {"timeout", "exec", "quota", "transient", "other", "none"},
             Event(outcome, reason), call = "running",
             UNCHANGED unread, billed' = billed + IF outcome = "success" THEN 1 ELSE 0,
             \/ call' = "idle" /\ ran' = ran
             \/ call' = "running" /\ ran' = ran + 1
      PROVE  CallsInv'
  <2> DEFINE e == <<outcome, reason>>
             more == IF outcome = "success" THEN 1 ELSE 0
  <2>1. e \in Outcomes /\ e[1] = outcome
    BY DEF Outcomes
  <2>2. UNCHANGED <<garbled, uncaught>>
    BY <1>2 DEF unread
  <2>3. Cardinality(Successes(events)) \in Nat /\ more \in 0..1 /\ billed' = billed + more
    BY <1>2, FS_CardinalityType
  <2>4. /\ events' \in Seq(Outcomes) /\ IsFiniteSet(Successes(events'))
        /\ \/ /\ Len(events') = Len(events) + 1 /\ lost' = lost
              /\ Cardinality(Successes(events')) = Cardinality(Successes(events)) + more
           \/ Len(events') = Len(events) /\ lost' = lost + 1
              /\ Cardinality(Successes(events')) = Cardinality(Successes(events))
    <3>1. CASE events' = Append(events, e) /\ lost' = lost
      BY <2>1, <3>1, OneMoreEvent
    <3>2. CASE events' = events /\ lost' = lost + 1
      BY <3>2
    <3> QED
      BY <1>2, <3>1, <3>2 DEF Event
  <2> HIDE DEF e, more
  <2>5. Len(events) \in Nat /\ Len(events') \in Nat
    BY <2>4
  <2>6. Charged'
    BY <2>3, <2>4 DEF Charged
  <2>7. Len(events) + lost + garbled + uncaught = ran - 1 /\ garbled = 0 /\ uncaught = 0
    BY <1>2 DEF Accounted
  <2>8. Len(events') + lost' + garbled' + uncaught' = ran
    BY <2>2, <2>4, <2>5, <2>7
  <2>9. call' = "idle" => Accounted(ran)'
    BY <1>2, <2>8 DEF Accounted
  <2>10. call' = "running" => Accounted(ran - 1)' /\ garbled' = 0 /\ uncaught' = 0
    BY <1>2, <2>2, <2>7, <2>8 DEF Accounted
  <2>11. {ran', lost', garbled', uncaught', billed'} \subseteq Nat
    <3>1. {ran, lost, garbled, uncaught, billed} \subseteq Nat
      BY <1>2
    <3>2. lost' \in Nat
      BY <2>4, <3>1
    <3>3. billed' \in Nat
      BY <2>3, <3>1
    <3>4. ran' \in Nat
      BY <1>2, <3>1
    <3> QED
      BY <2>2, <3>1, <3>2, <3>3, <3>4
  <2> QED
    BY <1>2, <2>4, <2>6, <2>9, <2>10, <2>11
<1>3. ASSUME NEW reason \in {"timeout", "exec"}, CliBreaks(reason) PROVE CallsInv'
  <2>1. /\ Event("failure", reason) /\ call = "running" /\ UNCHANGED <<unread, billed, ran>>
        /\ call' = "idle"
    BY <1>3 DEF CliBreaks, Raised, Ended
  <2> QED
    BY <1>2, <2>1
<1>4. ASSUME NEW out, NEW err, CliExits(out, err) PROVE CallsInv'
  <2> DEFINE class == FailureClass(WhyItFailed(out, err))
  <2>1. class \in {"quota", "transient", "other"}
    BY FailureClasses
  <2>2. Event("failure", class) /\ call = "running" /\ UNCHANGED <<unread, billed>>
    BY <1>4 DEF CliExits, Retry
  <2>3. \/ call' = "idle" /\ ran' = ran
        \/ call' = "running" /\ ran' = ran + 1
    BY <1>4 DEF CliExits, Retry, Raised, Ended, Again
  <2> HIDE DEF class
  <2> QED
    BY <1>2, <2>1, <2>2, <2>3
<1>5. CASE CliGarbled \/ CliThrows(NoObject)
  <2>1. /\ call = "running" /\ call' = "idle" /\ UNCHANGED <<events, lost, billed, ran>>
        /\ \/ garbled' = garbled + 1 /\ uncaught' = uncaught
           \/ uncaught' = uncaught + 1 /\ garbled' = garbled
    BY <1>5 DEF CliGarbled, CliThrows, Raised, Ended
  <2>2. Len(events) \in Nat
    OBVIOUS
  <2> QED
    BY <2>1, <2>2 DEF Accounted, Charged
<1>6. CASE CliReplies
  <2>1. \/ call' = "idle" /\ ran' = ran
        \/ call' = "running" /\ ran' = ran + 1
    BY <1>6, LoopGoesOn DEF CliReplies
  <2>2. call = "running" /\ UNCHANGED unread
    BY <1>6 DEF CliReplies
  <2>3. CASE \E why \in Reasons : Event("failure", FailureClass(why)) /\ UNCHANGED billed
    BY <1>2, <2>1, <2>2, <2>3, FailureClasses
  <2>4. CASE Event("success", "none") /\ billed' = billed + 1
    BY <1>2, <2>1, <2>2, <2>4
  <2> QED
    BY <1>6, <2>3, <2>4 DEF CliReplies
<1>7. CASE ApiProbes \/ (\E grammar \in BOOLEAN : ApiRaises(grammar)) \/ ApiReplies
  BY <1>7 DEF ApiProbes, ApiRaises, ApiReplies
<1>8. CASE UNCHANGED callVars
  BY <1>8 DEF callVars, unread, Accounted, Charged
<1> QED
  BY <1>1, <1>3, <1>4, <1>5, <1>6, <1>7, <1>8 DEF CallsNext

\* claude_code_brain.py: every process the lane ran is an event in the log or one of the
\* three that leave none, and the log's successes are what was charged for but for what it
\* lost, for any number of attempts, repairs and decisions, whatever the processes print and
\* whichever events the disk refuses.
THEOREM AttemptsAreMetered == CallsSpec => []EveryAttemptIsMetered
<1>1. CallsInv => EveryAttemptIsMetered
  BY DEF CallsInv, EveryAttemptIsMetered, Successes, Accounted, Charged
<1> QED
  BY <1>1, CallsBegin, CallsSteps, PTL DEF CallsSpec

(*---------------------------------------------------------------------------*)
(* The feed.                                                                  *)

FeedTypes == /\ seq \in Nat /\ byTrace \in [Decisions -> Seq(Nat)]
             /\ IsFiniteSet(order) /\ order \subseteq Nat \X Decisions
             /\ cursor \in [Pollers -> Nat] /\ DOMAIN heard = Pollers

\* Nothing is numbered ahead of the store's own counter.
NoneAhead == /\ \A x \in order : x[1] <= seq
             /\ \A p \in Pollers : cursor[p] <= seq
             /\ \A t \in Decisions : \A i \in DOMAIN byTrace[t] : byTrace[t][i] <= seq

\* A trace's reports come by number ...
Ascending == \A t \in Decisions : \A i, j \in DOMAIN byTrace[t] :
                 i <= j => byTrace[t][i] <= byTrace[t][j]

\* ... and each is still listed, unless the trim took it.
Listed == \A t \in Decisions : \A i \in DOMAIN byTrace[t] :
              <<byTrace[t][i], t>> \in order \/ byTrace[t][i] \in trimmed

FeedInv == /\ life \in Nat \ {0}
           /\ life = 1 => FeedTypes /\ NoneAhead /\ Ascending /\ Listed /\ PassedIsHeard

\* A set of numbers that none exceeds has a greatest.
LEMMA GreatestExists ==
    ASSUME NEW bound \in Nat, NEW S \in SUBSET (0..bound), S # {}
    PROVE  Max(S) \in S /\ \A n \in S : n <= Max(S)
<1> DEFINE T == {bound - n : n \in S}
<1>1. T \subseteq Nat /\ T # {}
  <2>1. \A n \in S : n \in 0..bound /\ bound - n \in Nat
    OBVIOUS
  <2>2. PICK n \in S : TRUE
    OBVIOUS
  <2>3. bound - n \in T
    BY <2>2
  <2> QED
    BY <2>1, <2>3
<1>2. PICK m \in T : \A k \in T : <<k, m>> \notin OpToRel(<, Nat)
  BY <1>1, NatLessThanWellFounded, WFMin, Zenon
<1>3. \A k \in T : ~(k < m)
  BY <1>1, <1>2, Zenon DEF OpToRel
<1>4. PICK g \in S : m = bound - g
  OBVIOUS
<1>5. \A n \in S : g >= n
  <2> SUFFICES ASSUME NEW n \in S PROVE g >= n
    OBVIOUS
  <2>1. ~(bound - n < bound - g)
    BY <1>3, <1>4
  <2> HIDE DEF T
  <2>2. n \in 0..bound /\ g \in 0..bound
    BY <1>4, Zenon
  <2> QED
    BY <2>1, <2>2, Z3
<1>6. \E x \in S : \A y \in S : x >= y
  BY <1>5
<1> QED
  BY <1>6 DEF Max

\* What a poll reads has no gaps: an entry of a kept trace that it passes is read.
LEMMA PassedIsRead ==
    ASSUME FeedTypes, NoneAhead, NEW c \in Nat, Read(c) # {},
           NEW x \in order, x[1] > c, x[1] <= NewCursor(c)
    PROVE  x \in Read(c)
<1> DEFINE numbers == {z[1] : z \in Read(c)}
<1>1. Read(c) \subseteq order /\ x \in Later(c)
  BY DEF Read, Later
<1>2. numbers \subseteq 0..seq /\ numbers # {}
  BY <1>1 DEF FeedTypes, NoneAhead
<1>3. NewCursor(c) = Max(numbers)
  BY DEF NewCursor
<1> HIDE DEF numbers
<1>4. NewCursor(c) \in numbers
  BY <1>2, <1>3, GreatestExists DEF FeedTypes
<1>5. PICK z \in Read(c) : z[1] = NewCursor(c)
  BY <1>4 DEF numbers
<1>6. KeptBefore(c, x[1]) \subseteq KeptBefore(c, z[1])
  BY <1>1, <1>5 DEF KeptBefore, Later, FeedTypes
<1>7. IsFiniteSet(KeptBefore(c, z[1]))
  BY FS_Subset DEF KeptBefore, Later, FeedTypes
<1>8. /\ Cardinality(KeptBefore(c, x[1])) <= Cardinality(KeptBefore(c, z[1]))
      /\ Cardinality(KeptBefore(c, x[1])) \in Nat /\ Cardinality(KeptBefore(c, z[1])) \in Nat
  BY <1>6, <1>7, FS_Subset, FS_CardinalityType
<1>9. Cardinality(KeptBefore(c, z[1])) < Batch
  BY <1>5 DEF Read
<1>10. Cardinality(KeptBefore(c, x[1])) < Batch
  BY <1>8, <1>9, FeedOK
<1> QED
  BY <1>1, <1>10 DEF Read

LEMMA CursorStays ==
    ASSUME FeedTypes, NoneAhead, NEW c \in Nat, c <= seq
    PROVE  NewCursor(c) \in Nat /\ NewCursor(c) <= seq
<1>1. CASE Read(c) = {}
  BY <1>1 DEF NewCursor
<1>2. CASE Read(c) # {}
  <2> DEFINE numbers == {z[1] : z \in Read(c)}
  <2>0. Read(c) \subseteq order
    BY DEF Read, Later
  <2>1. numbers \subseteq 0..seq /\ numbers # {}
    BY <1>2, <2>0 DEF FeedTypes, NoneAhead
  <2>2. NewCursor(c) = Max(numbers)
    BY <1>2 DEF NewCursor
  <2> HIDE DEF numbers
  <2>3. Max(numbers) \in numbers
    BY <2>1, GreatestExists DEF FeedTypes
  <2>4. Max(numbers) \in 0..seq /\ seq \in Nat
    BY <2>1, <2>3 DEF FeedTypes
  <2> QED
    BY <2>2, <2>4
<1> QED
  BY <1>1, <1>2

\* A trace that is read is given as its last report, which is its latest.
LEMMA GivenIsLatest ==
    ASSUME FeedTypes, Ascending, NEW c \in Nat, NEW t \in Decisions, NEW i \in DOMAIN byTrace[t],
           <<byTrace[t][i], t>> \in Read(c)
    PROVE  \E n \in Given(c) : n \in Range(byTrace[t]) /\ n >= byTrace[t][i]
<1>1. /\ byTrace[t] \in Seq(Nat) /\ byTrace[t] # <<>> /\ Len(byTrace[t]) \in DOMAIN byTrace[t]
      /\ i <= Len(byTrace[t])
  BY DEF FeedTypes
<1>2. Last(byTrace[t]) = byTrace[t][Len(byTrace[t])]
  BY DEF Last
<1>3. Last(byTrace[t]) \in Given(c)
  BY <1>1 DEF Given
<1>4. byTrace[t][Len(byTrace[t])] >= byTrace[t][i]
  BY <1>1 DEF Ascending, FeedTypes
<1> QED
  BY <1>1, <1>2, <1>3, <1>4 DEF Range

LEMMA FeedBegins == FeedInit => FeedInv
<1> SUFFICES ASSUME FeedInit PROVE FeedInv
  OBVIOUS
<1>1. FeedTypes
  BY FS_EmptySet DEF FeedInit, FeedTypes
<1>2. \A t \in Decisions : DOMAIN byTrace[t] = {}
  BY DEF FeedInit
<1> QED
  BY <1>1, <1>2 DEF FeedInit, FeedInv, NoneAhead, Ascending, Listed, PassedIsHeard

\* A report joins its trace; some traces are dropped whole.
LEMMA ReportEffect ==
    ASSUME FeedTypes, NEW t \in Decisions, NEW e, Report(t, e), NEW u \in Decisions
    PROVE  \/ byTrace'[u] = <<>>
           \/ byTrace'[u] = byTrace[u]
           \/ u = t /\ byTrace'[u] = Append(byTrace[u], seq + 1)
BY DEF Report

LEMMA ReportStep ==
    ASSUME FeedTypes, NoneAhead, Ascending, Listed, PassedIsHeard, life = 1, life' = 1,
           NEW t \in Decisions, NEW e, Report(t, e)
    PROVE  (FeedTypes /\ NoneAhead /\ Ascending /\ Listed /\ PassedIsHeard)'
<1>1. /\ seq' = seq + 1 /\ order' = order \cup {<<seq + 1, t>>}
      /\ UNCHANGED <<cursor, heard, trimmed>>
  BY DEF Report
<1>2. seq \in Nat /\ seq + 1 \in Nat
  BY DEF FeedTypes
<1>3. DOMAIN byTrace' = Decisions /\ byTrace' = [u \in Decisions |-> byTrace'[u]]
  BY DEF Report
\* What of a trace's reports after the step was there before, and what is new.
<1>4. ASSUME NEW u \in Decisions
      PROVE  /\ byTrace'[u] \in Seq(Nat)
             /\ \A i \in DOMAIN byTrace'[u] :
                  \/ i \in DOMAIN byTrace[u] /\ byTrace'[u][i] = byTrace[u][i]
                  \/ u = t /\ byTrace'[u][i] = seq + 1
             /\ \A i, j \in DOMAIN byTrace'[u] : i <= j => byTrace'[u][i] <= byTrace'[u][j]
             /\ byTrace'[u] = <<>> \/ Range(byTrace[u]) \subseteq Range(byTrace'[u])
  <2>0. byTrace[u] \in Seq(Nat)
    BY DEF FeedTypes
  <2>1. CASE byTrace'[u] = <<>>
    BY <2>1
  <2>2. CASE byTrace'[u] = byTrace[u]
    BY <2>0, <2>2 DEF Ascending
  <2>3. CASE u = t /\ byTrace'[u] = Append(byTrace[u], seq + 1)
    <3>1. /\ Append(byTrace[u], seq + 1) \in Seq(Nat)
          /\ DOMAIN Append(byTrace[u], seq + 1) = DOMAIN byTrace[u] \cup {Len(byTrace[u]) + 1}
          /\ Append(byTrace[u], seq + 1)[Len(byTrace[u]) + 1] = seq + 1
          /\ \A i \in DOMAIN byTrace[u] : Append(byTrace[u], seq + 1)[i] = byTrace[u][i]
          /\ \A i \in DOMAIN byTrace[u] : i \in Nat /\ i < Len(byTrace[u]) + 1
      BY <1>2, <2>0
    <3>2. \A i \in DOMAIN byTrace[u] : byTrace[u][i] \in Nat /\ byTrace[u][i] <= seq
      BY <2>0 DEF NoneAhead
    <3>3. \A i, j \in DOMAIN byTrace'[u] : i <= j => byTrace'[u][i] <= byTrace'[u][j]
      <4> SUFFICES ASSUME NEW i \in DOMAIN byTrace'[u], NEW j \in DOMAIN byTrace'[u], i <= j
                   PROVE  byTrace'[u][i] <= byTrace'[u][j]
        OBVIOUS
      <4>1. CASE j \in DOMAIN byTrace[u]
        <5>1. i \in DOMAIN byTrace[u]
          BY <2>0, <2>3, <3>1, <4>1
        <5> QED
          BY <2>3, <3>1, <4>1, <5>1 DEF Ascending
      <4>2. CASE j = Len(byTrace[u]) + 1
        BY <1>2, <2>3, <3>1, <3>2, <4>2
      <4> QED
        BY <2>3, <3>1, <4>1, <4>2
    <3> QED
      BY <2>3, <3>1, <3>3 DEF Range
  <2> QED
    BY <2>1, <2>2, <2>3, ReportEffect
<1>5. FeedTypes'
  <2>1. byTrace' \in [Decisions -> Seq(Nat)]
    BY <1>3, <1>4
  <2>2. IsFiniteSet(order')
    BY <1>1, FS_AddElement DEF FeedTypes
  <2>3. order' \subseteq Nat \X Decisions
    BY <1>1, <1>2 DEF FeedTypes
  <2> QED
    BY <1>1, <1>2, <2>1, <2>2, <2>3 DEF FeedTypes
<1>6. NoneAhead'
  <2>1. \A x \in order' : x[1] <= seq'
    BY <1>1, <1>2 DEF NoneAhead, FeedTypes
  <2>2. \A p \in Pollers : cursor'[p] <= seq'
    BY <1>1, <1>2 DEF NoneAhead, FeedTypes
  <2>3. ASSUME NEW u \in Decisions, NEW i \in DOMAIN byTrace'[u] PROVE byTrace'[u][i] <= seq'
    <3>1. CASE i \in DOMAIN byTrace[u] /\ byTrace'[u][i] = byTrace[u][i]
      <4>1. byTrace[u][i] \in Nat /\ byTrace[u][i] <= seq
        BY <3>1 DEF NoneAhead, FeedTypes
      <4> QED
        BY <1>1, <1>2, <3>1, <4>1
    <3> QED
      BY <1>1, <1>2, <1>4, <3>1
  <2> QED
    BY <2>1, <2>2, <2>3 DEF NoneAhead
<1>7. Ascending' /\ Listed'
  BY <1>1, <1>4 DEF Ascending, Listed
<1>8. PassedIsHeard'
  <2> SUFFICES ASSUME NEW p \in Pollers, NEW u \in Decisions, NEW i \in DOMAIN byTrace'[u],
                      byTrace'[u][i] <= cursor[p], byTrace'[u][i] \notin trimmed
               PROVE  \E n \in heard[p] : n \in Range(byTrace'[u]) /\ n >= byTrace'[u][i]
    BY <1>1 DEF PassedIsHeard
  <2>1. byTrace'[u][i] # seq + 1
    BY <1>2 DEF NoneAhead, FeedTypes
  <2>2. i \in DOMAIN byTrace[u] /\ byTrace'[u][i] = byTrace[u][i]
    BY <1>4, <2>1
  <2>3. byTrace'[u] # <<>>
    OBVIOUS
  <2> QED
    BY <1>4, <2>2, <2>3 DEF PassedIsHeard
<1> QED
  BY <1>5, <1>6, <1>7, <1>8

LEMMA PollStep ==
    ASSUME FeedTypes, NoneAhead, Ascending, Listed, PassedIsHeard, life = 1, life' = 1,
           NEW p \in Pollers, Poll(p)
    PROVE  (FeedTypes /\ NoneAhead /\ Ascending /\ Listed /\ PassedIsHeard)'
<1>1. /\ heard' = [heard EXCEPT ![p] = @ \cup Given(cursor[p])]
      /\ cursor' = [cursor EXCEPT ![p] = NewCursor(cursor[p])]
      /\ order' = Trimmed /\ trimmed' = trimmed \cup {x[1] : x \in order \ Trimmed}
      /\ UNCHANGED <<byTrace, seq>>
  BY DEF Poll
<1>2. Trimmed \subseteq order
  BY DEF Trimmed
<1>3. cursor[p] \in Nat /\ NewCursor(cursor[p]) \in Nat /\ NewCursor(cursor[p]) <= seq
  BY CursorStays DEF FeedTypes, NoneAhead
<1>4. FeedTypes'
  <2>1. IsFiniteSet(order')
    BY <1>1, <1>2, FS_Subset DEF FeedTypes
  <2> QED
    BY <1>1, <1>2, <1>3, <2>1 DEF FeedTypes
<1>5. NoneAhead' /\ Ascending'
  BY <1>1, <1>2, <1>3 DEF NoneAhead, Ascending, FeedTypes
<1>6. Listed'
  BY <1>1 DEF Listed
<1>7. PassedIsHeard'
  <2> SUFFICES ASSUME NEW q \in Pollers, NEW u \in Decisions, NEW i \in DOMAIN byTrace[u],
                      byTrace[u][i] <= cursor'[q], byTrace[u][i] \notin trimmed'
               PROVE  \E n \in heard'[q] : n \in Range(byTrace[u]) /\ n >= byTrace[u][i]
    BY <1>1 DEF PassedIsHeard
  <2>1. byTrace[u][i] \notin trimmed /\ <<byTrace[u][i], u>> \in order
    BY <1>1 DEF Listed
  <2>2. heard[q] \subseteq heard'[q]
    BY <1>1 DEF FeedTypes
  <2>3. CASE byTrace[u][i] <= cursor[q]
    BY <2>1, <2>2, <2>3 DEF PassedIsHeard
  <2>4. CASE ~(byTrace[u][i] <= cursor[q])
    <3>1. q = p /\ byTrace[u][i] <= NewCursor(cursor[p])
      BY <1>1, <2>4 DEF FeedTypes
    <3>2. byTrace[u][i] \in Nat /\ byTrace[u][i] > cursor[p]
      BY <1>3, <2>4, <3>1 DEF FeedTypes
    <3>3. Read(cursor[p]) # {}
      BY <1>3, <3>1, <3>2 DEF NewCursor
    <3>4. <<byTrace[u][i], u>> \in Read(cursor[p])
      BY <1>3, <2>1, <3>1, <3>2, <3>3, PassedIsRead
    <3>5. \E n \in Given(cursor[p]) : n \in Range(byTrace[u]) /\ n >= byTrace[u][i]
      BY <1>3, <3>4, GivenIsLatest
    <3>6. heard'[p] = heard[p] \cup Given(cursor[p])
      BY <1>1 DEF FeedTypes
    <3> QED
      BY <3>1, <3>5, <3>6
  <2> QED
    BY <2>3, <2>4
<1> QED
  BY <1>4, <1>5, <1>6, <1>7

LEMMA FeedSteps == FeedInv /\ [FeedNext]_feedVars => FeedInv'
<1> SUFFICES ASSUME FeedInv, [FeedNext]_feedVars PROVE FeedInv'
  OBVIOUS
<1>1. ASSUME NEW t \in Decisions, NEW e \in {"applied", "divergence"}, Report(t, e)
      PROVE  FeedInv'
  <2>1. life' = life
    BY <1>1 DEF Report
  <2> QED
    BY <1>1, <2>1, ReportStep DEF FeedInv
<1>2. ASSUME NEW p \in Pollers, Poll(p) PROVE FeedInv'
  <2>1. life' = life
    BY <1>2 DEF Poll
  <2> QED
    BY <1>2, <2>1, PollStep DEF FeedInv
<1>3. CASE StartAgain
  <2>1. life' \in Nat \ {0} /\ life' # 1
    BY <1>3 DEF StartAgain, FeedInv
  <2> QED
    BY <2>1 DEF FeedInv
<1>4. CASE UNCHANGED feedVars
  BY <1>4 DEF feedVars, FeedInv, FeedTypes, NoneAhead, Ascending, Listed, PassedIsHeard
<1> QED
  BY <1>1, <1>2, <1>3, <1>4 DEF FeedNext

\* OutcomeStore.since: within one life no poller passes over a report of a trace the store
\* keeps, whatever the capacity, the batch and the polls in between, except what the trim took.
THEOREM NothingKeptIsPassed == FeedSpec => []PassedIsHeard
<1>1. FeedInv => PassedIsHeard
  BY DEF FeedInv, PassedIsHeard
<1> QED
  BY <1>1, FeedBegins, FeedSteps, PTL DEF FeedSpec
=================================================================================
