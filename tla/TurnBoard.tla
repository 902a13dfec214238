------------------------------- MODULE TurnBoard -------------------------------
(* What the service remembers of a turn while the game plays it: the slots of   *)
(* the turn view (turns.py), the decisions an agent parked (deferrals.py) and   *)
(* the engine's reports (outcomes.py), as POST /turn, /decide, /order and       *)
(* /outcome write them.  The game is external: one process at a time, blocked   *)
(* on the decision it asks, which may die and load an earlier turn.             *)
(*                                                                              *)
(* A slot is known by its base; the surface and the faction are left out.  A    *)
(* decision is known by its traceparent, here the number of its asking.         *)
EXTENDS Naturals, Sequences, FiniteSets, SequencesExt

CONSTANTS Bases,
          Forecasts,   \* what an announcement may expect: sets of bases
          MaxTurn,     \* bound: turns
          MaxAsked,    \* bound: decisions asked
          MaxOrders,   \* bound: build orders given through door 2
          MaxReloads,  \* bound: deaths of the game
          MaxLate,     \* bound: build orders and outcomes reported, together
          Keep,        \* turns retained: TurnStore.keep
          MaxOpen      \* deferrals retained: DeferralSet.max_open

ASSUME ConstantsOK ==
    /\ {MaxAsked, MaxOrders, MaxReloads, MaxLate} \subseteq Nat
    /\ {MaxTurn, Keep, MaxOpen} \subseteq Nat \ {0}
    /\ Forecasts \subseteq SUBSET Bases

Turns == 1..MaxTurn
Traces == 1..MaxAsked
Statuses == <<"expected", "raised", "answered", "applied", "diverged">>
Events == {"applied", "divergence"}

VARIABLES
    turn,      \* the game: the turn it is playing
    waiting,   \* the game: the decision it is blocked on, 0 for none
    reloads,   \* the game: how often it died
    asked,     \* decisions asked so far, each with its base and turn
    pc,        \* where the /decide request of each decision is
    held,      \* TurnStore._turns: the turns that have slots
    slots,     \* TurnStore._turns: the slot of each turn and base
    indexed,   \* TurnStore._by_trace: traces that lead to their slot
    current,   \* TurnStore._current, 0 for None
    parked,    \* DeferralSet._items, oldest first
    deferral,  \* the status of each parked decision
    builds,    \* door 2 orders the game has answered, not yet linked back
    ordered,   \* orders given so far
    reports    \* outcomes recorded of each decision

vars == <<turn, waiting, reloads, asked, pc, held, slots, indexed, current, parked,
          deferral, builds, ordered, reports>>
game == <<turn, waiting, reloads>>
board == <<held, slots, indexed, current>>
deferrals == <<parked, deferral>>
door2 == <<builds, ordered>>

NoSlot == [status |-> "none", trace |-> 0]
Expected == [status |-> "expected", trace |-> 0]
NotParked == [status |-> "none", on |-> 0]
Base(t) == asked[t].base
Turn(t) == asked[t].turn
Highest(S) == CHOOSE t \in S : \A u \in S : u <= t
Lowest(S) == CHOOSE t \in S : \A u \in S : t <= u

-------------------------------------------------------------------------------
ReportsSoFar == {p \in Traces \X Events : p[2] \in reports[p[1]]}

Init ==
    /\ turn = 1 /\ waiting = 0 /\ reloads = 0
    /\ asked = <<>>
    /\ pc = [t \in Traces |-> "none"]
    /\ held = {}
    /\ slots = [n \in Turns |-> [b \in Bases |-> NoSlot]]
    /\ indexed = {}
    /\ current = 0
    /\ parked = <<>>
    /\ deferral = [t \in Traces |-> NotParked]
    /\ builds = {}
    /\ ordered = 0
    /\ reports = [t \in Traces |-> {}]

\* Mutant: room is made by dropping the turn just written.
EvictNewest(turns) == IF Cardinality(turns) > Keep THEN turns \ {Highest(turns)} ELSE turns

\* TurnStore._evict: the lowest turns go.
Evict(turns) == IF Cardinality(turns) > Keep THEN turns \ {Lowest(turns)} ELSE turns

\* A store write to turn n that leaves its slots as row; _evict follows.
WriteTurn(n, row, alsoIndexed) ==
    LET kept == Evict(held \cup {n})
        written == [slots EXCEPT ![n] = row]
        gone == {written[m][b].trace : m \in (held \cup {n}) \ kept, b \in Bases}
    IN  /\ held' = kept
        /\ slots' = [m \in Turns |-> IF m \in kept THEN written[m]
                                     ELSE [b \in Bases |-> NoSlot]]
        /\ indexed' = (indexed \cup alsoIndexed) \ gone

-------------------------------------------------------------------------------
(* The game. *)

Advance ==
    /\ waiting = 0 /\ turn < MaxTurn
    /\ turn' = turn + 1
    /\ UNCHANGED <<waiting, reloads, asked, pc, board, deferrals, door2, reports>>

\* POST /turn: TurnStore.announce replaces whatever was known of that turn.
Announce(bs) ==
    /\ waiting = 0
    /\ WriteTurn(turn, [b \in Bases |-> IF b \in bs THEN Expected ELSE NoSlot], {})
    /\ current' = turn
    /\ UNCHANGED <<game, asked, pc, deferrals, door2, reports>>

\* The process dies, with or without a decision in flight, and loads a save.  The
\* one death that would change nothing here is left out.
Reload(n) ==
    /\ reloads < MaxReloads /\ n <= turn /\ (n < turn \/ waiting # 0)
    /\ turn' = n /\ waiting' = 0 /\ reloads' = reloads + 1
    /\ UNCHANGED <<asked, pc, board, deferrals, door2, reports>>

-------------------------------------------------------------------------------
(* POST /decide, one critical section after another. *)

\* The engine reaches a base, for the first time this turn or again, and the
\* handler begins: DeferralSet.expire_before, on the turn the world view is of.
Ask(b) ==
    LET t == Len(asked) + 1 IN
    /\ waiting = 0 /\ t <= MaxAsked
    /\ asked' = Append(asked, [base |-> b, turn |-> turn])
    /\ waiting' = t
    /\ pc' = [pc EXCEPT ![t] = "asked"]
    /\ deferral' = [d \in Traces |->
           IF deferral[d].status = "open" /\ Turn(d) < turn
           THEN [deferral[d] EXCEPT !.status = "expired"] ELSE deferral[d]]
    /\ UNCHANGED <<turn, reloads, board, parked, door2, reports>>

\* Only a forecast slot, or a new one, becomes raised.
Raised(s) == IF s.status \in {"none", "expected"} THEN "raised" ELSE s.status

LatestTrace(s, t) == t

\* TurnStore.note_raised
NoteRaised(t) ==
    LET n == Turn(t)
        s == slots[n][Base(t)]
    IN  /\ pc[t] = "asked"
        /\ WriteTurn(n, [slots[n] EXCEPT ![Base(t)] =
                            [status |-> Raised(s), trace |-> LatestTrace(s, t)]], {t})
        /\ current' = IF current > n THEN current ELSE n
        /\ pc' = [pc EXCEPT ![t] = "raised"]
        /\ UNCHANGED <<game, asked, deferrals, door2, reports>>

\* DeferralSet._evict: the oldest closed one, and the oldest open one if none is.
Trim(ds) ==
    LET closed == {i \in DOMAIN ds : deferral[ds[i]].status \in {"resolved", "expired"}}
    IN  IF Len(ds) <= MaxOpen THEN ds
        ELSE RemoveAt(ds, IF closed = {} THEN 1 ELSE Lowest(closed))

\* The brain says "defer": DeferralSet.open.
Defer(t) ==
    LET kept == Trim(Append(parked, t)) IN
    /\ pc[t] = "raised"
    /\ parked' = kept
    /\ deferral' = [d \in Traces |->
           IF d \notin Range(kept) THEN NotParked
           ELSE IF d = t THEN [status |-> "open", on |-> 0] ELSE deferral[d]]
    /\ pc' = [pc EXCEPT ![t] = "deferred"]
    /\ UNCHANGED <<game, asked, board, door2, reports>>

Answered(s) == IF s.status \in {"expected", "raised"} THEN "answered" ELSE s.status

\* TurnStore.note_answered, and the reply reaches the game if it still waits.
NoteAnswered(t) ==
    LET n == Turn(t) IN
    /\ pc[t] \in {"raised", "deferred"}
    /\ slots' = [slots EXCEPT ![n][Base(t)].status = Answered(slots[n][Base(t)])]
    /\ pc' = [pc EXCEPT ![t] = "replied"]
    /\ waiting' = IF waiting = t THEN 0 ELSE waiting
    /\ UNCHANGED <<turn, reloads, asked, held, indexed, current, deferrals, door2, reports>>

-------------------------------------------------------------------------------
(* POST /outcome, late and in any order. *)

\* Mutant: the last report is the one that counts.
LastReport(s, event) == IF event = "divergence" THEN "diverged" ELSE "applied"

Reported(s, event) ==
    IF event = "divergence" \/ s.status = "diverged" THEN "diverged" ELSE "applied"

\* OutcomeStore.record, then TurnStore.note_outcome.
Outcome(t, event) ==
    LET n == Turn(t)
        s == slots[n][Base(t)]
    IN  /\ pc[t] = "replied"
        /\ event \notin reports[t]
        /\ Cardinality(ReportsSoFar) + ordered < MaxLate
        /\ reports' = [reports EXCEPT ![t] = @ \cup {event}]
        /\ slots' = IF t \in indexed /\ s # NoSlot
                    THEN [slots EXCEPT ![n][Base(t)].status = Reported(s, event)]
                    ELSE slots
        /\ UNCHANGED <<game, asked, pc, held, indexed, current, deferrals, door2>>

-------------------------------------------------------------------------------
(* POST /order build <base>: the game confirms it, and then the handler links it *)
(* back.  An order that is not confirmed changes nothing here.                  *)

Build(b) ==
    /\ ordered < MaxOrders /\ Cardinality(ReportsSoFar) + ordered < MaxLate
    /\ ordered' = ordered + 1
    /\ builds' = builds \cup {[base |-> b, turn |-> turn]}
    /\ UNCHANGED <<game, asked, pc, board, deferrals, reports>>

\* Mutant: a closed deferral is closed again by a later order.
AnyFor(o, d) == Base(d) = o.base

OpenFor(o, d) == deferral[d].status = "open" /\ Base(d) = o.base

\* _resolve_deferrals_for and DeferralSet.resolve_for_base
Resolve(o) ==
    /\ o \in builds
    /\ builds' = builds \ {o}
    /\ deferral' = [d \in Traces |->
           IF d \in Range(parked) /\ OpenFor(o, d)
           THEN [status |-> "resolved", on |-> o.turn] ELSE deferral[d]]
    /\ UNCHANGED <<game, asked, pc, board, parked, ordered, reports>>

-------------------------------------------------------------------------------
Handle(t) == NoteRaised(t) \/ Defer(t) \/ NoteAnswered(t)

Next ==
    \/ Advance
    \/ \E bs \in Forecasts : Announce(bs)
    \/ \E b \in Bases : Ask(b) \/ Build(b)
    \/ \E n \in Turns : Reload(n)
    \/ \E t \in Traces : Handle(t) \/ \E event \in Events : Outcome(t, event)
    \/ \E o \in builds : Resolve(o)

Spec == Init /\ [][Next]_vars

-------------------------------------------------------------------------------
Rank(status) == IF status = "none" THEN 0 ELSE CHOOSE i \in 1..5 : Statuses[i] = status

(* Every variable keeps its type.                                               *)
TypeOK ==
    /\ turn \in Turns /\ waiting \in 0..MaxAsked /\ reloads \in 0..MaxReloads
    /\ \A t \in DOMAIN asked : asked[t] \in [base : Bases, turn : Turns]
    /\ pc \in [Traces -> {"none", "asked", "raised", "deferred", "replied"}]
    /\ held \subseteq Turns /\ Cardinality(held) <= Keep
    /\ slots \in [Turns -> [Bases -> [status : Range(Statuses) \cup {"none"},
                                      trace : 0..MaxAsked]]]
    /\ indexed \subseteq Traces
    /\ current \in 0..MaxTurn
    /\ Range(parked) \subseteq Traces /\ Len(parked) <= MaxOpen
    /\ deferral \in [Traces -> [status : {"none", "open", "resolved", "expired"},
                                on : 0..MaxTurn]]
    /\ builds \subseteq [base : Bases, turn : Turns]
    /\ ordered \in 0..MaxOrders
    /\ reports \in [Traces -> SUBSET Events]

(* An answered decision never looks outstanding again and a divergence is never *)
(* papered over: a slot only moves forward, until its turn is announced anew or *)
(* forgotten.                                                                   *)
SlotsMoveForward ==
    [][\A n \in Turns, b \in Bases :
           \/ Rank(slots[n][b].status) <= Rank(slots'[n][b].status)
           \/ slots'[n][b] \in {NoSlot, Expected}]_vars

(* While the game runs on, a slot that was raised shows its base's latest ask,   *)
(* and that ask can still be reported on.                                       *)
LatestAskIsIndexed ==
    \A n \in Turns, b \in Bases : LET s == slots[n][b] IN
        reloads = 0 /\ s.trace # 0 =>
            /\ s.trace \in indexed
            /\ s.trace = Highest({t \in DOMAIN asked : /\ asked[t] = [base |-> b, turn |-> n]
                                                      /\ pc[t] # "asked"})

(* Applied and diverged are things the engine said, of some ask about this base *)
(* on this turn; being answered is not enough.                                  *)
AppliedWasSaid ==
    \A n \in Turns, b \in Bases : slots[n][b].status \in {"applied", "diverged"} =>
        \E t \in DOMAIN asked : asked[t] = [base |-> b, turn |-> n] /\ reports[t] # {}

(* Room is made by the number of a turn, and a reloaded save is announced under *)
(* an earlier one (turns.py: announce, _evict).  While no save is reloaded, the  *)
(* turn in view is held, and is the last one.  After a reload it is held too,   *)
(* and with it all that is known of it, but for one case: as many turns as are  *)
(* kept at all are held and every one of them is later.                         *)
CurrentInView ==
    current # 0 =>
        /\ reloads = 0 => current \in held /\ \A n \in held : n <= current
        /\ current \notin held => Cardinality(held) = Keep /\ \A n \in held : n > current

(* "The whole turn, not the oldest decision - what is coming, what arrived, what *)
(* happened" (turns.py:1): what was announced of the turn in view is held.      *)
AnnouncedIsHeld == current # 0 => current \in held

(* A deferral closes once, and says how: what was resolved does not expire and  *)
(* what expired is not resolved by an order that comes later.                   *)
ClosedOnce ==
    [][\A t \in Traces : deferral[t].status \in {"resolved", "expired"} =>
           deferral'[t] \in {deferral[t], NotParked}]_vars

(* Outstanding work goes last: an open deferral is dropped only from a set of   *)
(* open ones.                                                                   *)
OpenWorkIsKept ==
    [][\A t \in Range(parked) : deferral[t].status = "open" /\ t \notin Range(parked') =>
           \A d \in Range(parked') : deferral'[d].status = "open"]_vars

(* "An order whose outcome never arrives is reported as unknown and never as    *)
(* applied" (outcomes.py:25-26): a slot that says applied shows a decision the  *)
(* engine reported on.                                                          *)
AppliedWasReported ==
    \A n \in Turns, b \in Bases :
        slots[n][b].status = "applied" /\ slots[n][b].trace # 0 =>
            reports[slots[n][b].trace] # {}

(* "an answer arriving now would land on the NEXT turn's minerals ... recording *)
(* it as a resolution would be a lie about which board it was made on"          *)
(* (service.py:688-690): no order given on a later turn resolves a deferral.    *)
ResolvedOnItsBoard ==
    \A t \in Traces : deferral[t].status = "resolved" => deferral[t].on <= Turn(t)
===============================================================================
