---------------------------- MODULE TurnBoard_proofs ----------------------------
(* The turn view and the deferrals for any number of turns, bases, decisions,   *)
(* reloads and places: the turn in play stays in view, slots move forward, and  *)
(* a deferral closes once.                                                      *)
EXTENDS TurnBoard, FiniteSetTheorems, SequenceTheorems, TLAPS

(*---------------------------------------------------------------------------*)
(* The inductive invariant.                                                   *)

SlotStatus == {"none", "expected", "raised", "answered", "applied", "diverged"}

BoardTypes ==
    /\ turn \in Turns /\ reloads \in Nat /\ current \in Turns \cup {0}
    /\ asked \in Seq([base : Bases, turn : Turns])
    /\ pc \in [Traces -> {"none", "asked", "raised", "deferred", "replied"}]
    /\ held \subseteq Turns
    /\ slots \in [Turns -> [Bases -> [status : SlotStatus, trace : Nat]]]

\* A request under way is of a decision that was asked.
AskedFirst == \A t \in Traces : pc[t] # "none" => t \in DOMAIN asked

\* Nothing is parked for a decision the brain has not answered.
ParkedLast == \A t \in Traces : pc[t] \in {"none", "asked", "raised"} => deferral[t] = NotParked

\* The turn in view is held, or only later ones are and there is no room.
InView ==
    /\ Cardinality(held) <= Keep
    /\ current # 0 /\ current \notin held =>
          Cardinality(held) = Keep /\ \A n \in held : n > current

\* Until a save is reloaded nothing is known of later turns, and the turn in view is
\* the last one held.
InOrder ==
    /\ current = 0 => held = {}
    /\ reloads = 0 => /\ \A n \in held : n <= turn
                      /\ \A i \in DOMAIN asked : asked[i].turn <= turn
                      /\ current # 0 => current \in held /\ \A n \in held : n <= current

BoardInv == BoardTypes /\ AskedFirst /\ ParkedLast /\ InOrder /\ InView

(*---------------------------------------------------------------------------*)
(* Making room.                                                               *)

\* Turns are finite in number and the least of some of them exists.
LEMMA LowestExists ==
    ASSUME NEW S \in SUBSET Turns, S # {}
    PROVE  Lowest(S) \in S /\ \A u \in S : Lowest(S) <= u
<1>1. S \subseteq Nat
  BY ConstantsOK DEF Turns
<1>2. \E x \in S : \A u \in S : x <= u
  <2>1. \E x \in S : \A y \in S : <<y, x>> \notin OpToRel(<, Nat)
    BY <1>1, NatLessThanWellFounded, WFMin, Zenon
  <2>2. PICK x \in S : \A y \in S : <<y, x>> \notin OpToRel(<, Nat)
    BY <2>1
  <2>3. \A y \in S : ~(y < x)
    BY <1>1, <2>2, Zenon DEF OpToRel
  <2> QED
    BY <1>1, <2>3
<1> QED
  BY <1>2 DEF Lowest

\* TurnStore._evict never drops the last of the turns.
LEMMA EvictKeepsLast ==
    ASSUME NEW S \in SUBSET Turns, NEW last \in S, \A u \in S : u <= last
    PROVE  Evict(S) \subseteq S /\ last \in Evict(S)
<1>0. IsFiniteSet(S) /\ Cardinality(S) \in Nat
  <2>1. IsFiniteSet(Turns)
    BY FS_Interval, ConstantsOK DEF Turns
  <2> QED
    BY <2>1, FS_Subset, FS_CardinalityType
<1>1. CASE ~(Cardinality(S) > Keep)
  BY <1>1 DEF Evict
<1>2. CASE Cardinality(S) > Keep
  <2>2. Cardinality(S) # 1
    BY <1>0, <1>2, ConstantsOK
  <2>3. S # {last}
    BY <1>0, <2>2, FS_Singleton
  <2>4. PICK other \in S : other # last
    BY <2>3
  <2>5. Lowest(S) # last
    BY <2>4, LowestExists, ConstantsOK DEF Turns
  <2> QED
    BY <1>2, <2>5 DEF Evict
<1> QED
  BY <1>1, <1>2

\* TurnStore._evict leaves no more than Keep where there was one more at most; and a turn
\* it drops is earlier than all that stay, which are Keep.
LEMMA EvictMakesRoom ==
    ASSUME NEW S \in SUBSET Turns, Cardinality(S) <= Keep + 1
    PROVE  /\ Cardinality(Evict(S)) <= Keep
           /\ \A n \in S : n \notin Evict(S) =>
                 Cardinality(Evict(S)) = Keep /\ \A m \in Evict(S) : m > n
<1>0. IsFiniteSet(S) /\ Cardinality(S) \in Nat
  <2>1. IsFiniteSet(Turns)
    BY FS_Interval, ConstantsOK DEF Turns
  <2> QED
    BY <2>1, FS_Subset, FS_CardinalityType
<1>1. CASE ~(Cardinality(S) > Keep)
  BY <1>0, <1>1, ConstantsOK DEF Evict
<1>2. CASE Cardinality(S) > Keep
  <2>1. S # {} /\ Cardinality(S) = Keep + 1
    BY <1>0, <1>2, FS_EmptySet, ConstantsOK
  <2>2. Lowest(S) \in S /\ \A u \in S : Lowest(S) <= u
    BY <2>1, LowestExists
  <2>3. Cardinality(S \ {Lowest(S)}) = Keep
    <3>1. Cardinality(S \ {Lowest(S)}) = Cardinality(S) - 1
      BY <1>0, <2>2, FS_RemoveElement
    <3>2. Keep \in Nat
      BY ConstantsOK
    <3> QED
      BY <2>1, <3>1, <3>2
  <2>4. Evict(S) = S \ {Lowest(S)}
    BY <1>2 DEF Evict
  <2>5. \A m \in S : m \in Nat
    BY ConstantsOK DEF Turns
  <2>6. \A m \in Evict(S) : m > Lowest(S)
    BY <2>2, <2>4, <2>5
  <2>7. Cardinality(Evict(S)) = Keep /\ Keep <= Keep
    BY <2>3, <2>4, ConstantsOK
  <2>8. \A n \in S : n \notin Evict(S) => n = Lowest(S)
    BY <2>4
  <2> QED
    BY <2>6, <2>7, <2>8
<1> QED
  BY <1>1, <1>2

LEMMA EvictShrinks == ASSUME NEW S PROVE Evict(S) \subseteq S
BY DEF Evict

(*---------------------------------------------------------------------------*)
(* The invariant.                                                             *)

LEMMA BoardBegins == Init => BoardInv
<1> SUFFICES ASSUME Init PROVE BoardInv
  OBVIOUS
<1>1. asked = <<>> /\ DOMAIN asked = {} /\ asked \in Seq([base : Bases, turn : Turns])
  BY DEF Init
<1>2. BoardTypes
  BY <1>1, ConstantsOK DEF Init, BoardTypes, Turns, NoSlot, SlotStatus
<1>3. AskedFirst /\ ParkedLast /\ InOrder
  BY <1>1 DEF Init, AskedFirst, ParkedLast, InOrder
<1>4. InView
  BY FS_EmptySet, ConstantsOK DEF Init, InView
<1> QED
  BY <1>2, <1>3, <1>4 DEF BoardInv

\* A decision under way has a base and a turn.
LEMMA AskedOf ==
    ASSUME BoardTypes, AskedFirst, NEW t \in Traces, pc[t] # "none"
    PROVE  t \in DOMAIN asked /\ Base(t) \in Bases /\ Turn(t) \in Turns
<1>1. t \in DOMAIN asked
  BY DEF AskedFirst
<1>2. asked[t] \in [base : Bases, turn : Turns]
  <2>1. asked \in Seq([base : Bases, turn : Turns]) /\ DOMAIN asked = 1..Len(asked)
    BY DEF BoardTypes
  <2> QED
    BY <1>1, <2>1, ElementOfSeq
<1> QED
  BY <1>1, <1>2 DEF Base, Turn

LEMMA SlotUpdate ==
    ASSUME BoardTypes, NEW n \in Turns, NEW b \in Bases, NEW status \in SlotStatus
    PROVE  [slots EXCEPT ![n][b].status = status]
              \in [Turns -> [Bases -> [status : SlotStatus, trace : Nat]]]
<1>1. slots[n] \in [Bases -> [status : SlotStatus, trace : Nat]]
  BY DEF BoardTypes
<1>2. [slots[n][b] EXCEPT !.status = status] \in [status : SlotStatus, trace : Nat]
  BY <1>1
<1>3. [slots[n] EXCEPT ![b] = [slots[n][b] EXCEPT !.status = status]]
        \in [Bases -> [status : SlotStatus, trace : Nat]]
  BY <1>1, <1>2
<1> QED
  BY <1>3 DEF BoardTypes

\* A write to a turn, whatever had to be forgotten for it, leaves slots as they should be.
LEMMA WriteTypes ==
    ASSUME BoardTypes, NEW n \in Turns, NEW row \in [Bases -> [status : SlotStatus, trace : Nat]],
           NEW more, WriteTurn(n, row, more)
    PROVE  /\ held' \subseteq Turns
           /\ slots' \in [Turns -> [Bases -> [status : SlotStatus, trace : Nat]]]
<1>1. Evict(held \cup {n}) \subseteq held \cup {n}
  BY EvictShrinks
<1>2. [slots EXCEPT ![n] = row] \in [Turns -> [Bases -> [status : SlotStatus, trace : Nat]]]
  BY DEF BoardTypes
<1>3. [b \in Bases |-> NoSlot] \in [Bases -> [status : SlotStatus, trace : Nat]]
  BY DEF NoSlot, SlotStatus
<1>4. held' \subseteq Turns
  BY <1>1 DEF WriteTurn, BoardTypes
<1>5. slots' \in [Turns -> [Bases -> [status : SlotStatus, trace : Nat]]]
  BY <1>2, <1>3 DEF WriteTurn
<1> QED
  BY <1>4, <1>5

LEMMA TypeStep == BoardTypes /\ AskedFirst /\ [Next]_vars => BoardTypes'
<1> SUFFICES ASSUME BoardTypes, AskedFirst, [Next]_vars PROVE BoardTypes'
  OBVIOUS
<1> USE DEF game, board, deferrals, door2
<1>0. CASE UNCHANGED vars
  BY <1>0 DEF vars, BoardTypes
<1>1. CASE Advance
  BY <1>1, ConstantsOK DEF Advance, BoardTypes, Turns
<1>2. ASSUME NEW bs \in Forecasts, Announce(bs) PROVE BoardTypes'
  <2>1. [b \in Bases |-> IF b \in bs THEN Expected ELSE NoSlot]
           \in [Bases -> [status : SlotStatus, trace : Nat]]
    BY DEF Expected, NoSlot, SlotStatus
  <2>2. /\ held' \subseteq Turns
        /\ slots' \in [Turns -> [Bases -> [status : SlotStatus, trace : Nat]]]
    BY <1>2, <2>1, WriteTypes DEF Announce, BoardTypes
  <2> QED
    BY <1>2, <2>2 DEF Announce, BoardTypes
<1>3. ASSUME NEW b \in Bases, Ask(b) PROVE BoardTypes'
  <2>1. asked' \in Seq([base : Bases, turn : Turns])
    BY <1>3 DEF Ask, BoardTypes
  <2> QED
    BY <1>3, <2>1 DEF Ask, BoardTypes
<1>4. ASSUME NEW b \in Bases, Build(b) PROVE BoardTypes'
  BY <1>4 DEF Build, BoardTypes
<1>5. ASSUME NEW n \in Turns, Reload(n) PROVE BoardTypes'
  BY <1>5 DEF Reload, BoardTypes
<1>6. ASSUME NEW t \in Traces, NoteRaised(t) PROVE BoardTypes'
  <2>1. Turn(t) \in Turns /\ Base(t) \in Bases
    BY <1>6, AskedOf DEF NoteRaised
  <2>2. slots[Turn(t)][Base(t)] \in [status : SlotStatus, trace : Nat] /\ t \in Nat
    BY <2>1, ConstantsOK DEF BoardTypes, Traces
  <2>3. [status |-> Raised(slots[Turn(t)][Base(t)]), trace |-> LatestTrace(slots[Turn(t)][Base(t)], t)]
           \in [status : SlotStatus, trace : Nat]
    BY <2>2 DEF Raised, LatestTrace, SlotStatus
  <2>4. /\ held' \subseteq Turns
        /\ slots' \in [Turns -> [Bases -> [status : SlotStatus, trace : Nat]]]
    <3>1. slots[Turn(t)] \in [Bases -> [status : SlotStatus, trace : Nat]]
      BY <2>1 DEF BoardTypes
    <3>2. [slots[Turn(t)] EXCEPT ![Base(t)] =
              [status |-> Raised(slots[Turn(t)][Base(t)]),
               trace |-> LatestTrace(slots[Turn(t)][Base(t)], t)]]
             \in [Bases -> [status : SlotStatus, trace : Nat]]
      BY <2>3, <3>1
    <3> QED
      BY <1>6, <2>1, <3>2, WriteTypes DEF NoteRaised
  <2> QED
    BY <1>6, <2>1, <2>4 DEF NoteRaised, BoardTypes
<1>7. ASSUME NEW t \in Traces, Defer(t) PROVE BoardTypes'
  BY <1>7 DEF Defer, BoardTypes
<1>8. ASSUME NEW t \in Traces, NoteAnswered(t) PROVE BoardTypes'
  <2>1. Turn(t) \in Turns /\ Base(t) \in Bases
    BY <1>8, AskedOf DEF NoteAnswered
  <2>2. Answered(slots[Turn(t)][Base(t)]) \in SlotStatus
    BY <2>1 DEF BoardTypes, Answered, SlotStatus
  <2>3. slots' \in [Turns -> [Bases -> [status : SlotStatus, trace : Nat]]]
    BY <1>8, <2>1, <2>2, SlotUpdate DEF NoteAnswered
  <2> QED
    BY <1>8, <2>3 DEF NoteAnswered, BoardTypes
<1>9. ASSUME NEW t \in Traces, NEW event \in Events, Outcome(t, event) PROVE BoardTypes'
  <2>1. Reported(slots[Turn(t)][Base(t)], event) \in SlotStatus
    BY DEF Reported, SlotStatus
  <2>2. Turn(t) \in Turns /\ Base(t) \in Bases
    BY <1>9, AskedOf DEF Outcome
  <2>3. slots' \in [Turns -> [Bases -> [status : SlotStatus, trace : Nat]]]
    BY <1>9, <2>1, <2>2, SlotUpdate DEF Outcome, BoardTypes
  <2> QED
    BY <1>9, <2>3 DEF Outcome, BoardTypes
<1>10. ASSUME NEW o \in builds, Resolve(o) PROVE BoardTypes'
  BY <1>10 DEF Resolve, BoardTypes
<1> QED
  BY <1>0, <1>1, <1>2, <1>3, <1>4, <1>5, <1>6, <1>7, <1>8, <1>9, <1>10 DEF Next, Handle

\* Asking adds one decision at the end and leaves the others.
LEMMA AskAppends ==
    ASSUME BoardTypes, NEW b \in Bases, Ask(b)
    PROVE  /\ asked' = Append(asked, [base |-> b, turn |-> turn])
           /\ DOMAIN asked' = DOMAIN asked \cup {Len(asked) + 1}
           /\ Len(asked) + 1 \in Traces /\ Len(asked) + 1 \notin DOMAIN asked
           /\ \A i \in DOMAIN asked : asked'[i] = asked[i]
           /\ asked'[Len(asked) + 1] = [base |-> b, turn |-> turn]
<1>1. asked' = Append(asked, [base |-> b, turn |-> turn]) /\ Len(asked) + 1 <= MaxAsked
  BY DEF Ask
<1>2. asked \in Seq([base : Bases, turn : Turns]) /\ Len(asked) \in Nat
      /\ [base |-> b, turn |-> turn] \in [base : Bases, turn : Turns]
  BY DEF BoardTypes
<1>3. DOMAIN asked = 1..Len(asked)
  BY <1>2
<1>4. Len(asked') = Len(asked) + 1 /\ DOMAIN asked' = 1..Len(asked) + 1
      /\ \A i \in 1..Len(asked) : asked'[i] = asked[i]
      /\ asked'[Len(asked) + 1] = [base |-> b, turn |-> turn]
  BY <1>1, <1>2, AppendProperties
<1> QED
  BY <1>1, <1>2, <1>3, <1>4, ConstantsOK DEF Traces

LEMMA AskedStep == BoardTypes /\ AskedFirst /\ [Next]_vars => AskedFirst'
<1> SUFFICES ASSUME BoardTypes, AskedFirst, [Next]_vars PROVE AskedFirst'
  OBVIOUS
<1> USE DEF AskedFirst, BoardTypes
<1>1. ASSUME NEW b \in Bases, Ask(b) PROVE AskedFirst'
  BY <1>1, AskAppends DEF Ask
<1>2. ASSUME UNCHANGED <<asked, pc>> PROVE AskedFirst'
  BY <1>2
<1>3. ASSUME NEW t \in Traces, NoteRaised(t) \/ Defer(t) \/ NoteAnswered(t) PROVE AskedFirst'
  BY <1>3 DEF NoteRaised, Defer, NoteAnswered
<1>4. CASE UNCHANGED vars
  BY <1>2, <1>4 DEF vars
<1>5. CASE Advance \/ \E bs \in Forecasts : Announce(bs)
  BY <1>2, <1>5 DEF Advance, Announce
<1>6. CASE (\E b \in Bases : Build(b)) \/ (\E n \in Turns : Reload(n))
  BY <1>2, <1>6 DEF Build, Reload
<1>7. CASE \/ \E t \in Traces, event \in Events : Outcome(t, event)
           \/ \E o \in builds : Resolve(o)
  BY <1>2, <1>7 DEF Outcome, Resolve
<1> QED
  BY <1>1, <1>3, <1>4, <1>5, <1>6, <1>7 DEF Next, Handle

LEMMA ParkedStep == BoardTypes /\ AskedFirst /\ ParkedLast /\ [Next]_vars => ParkedLast'
<1> SUFFICES ASSUME BoardTypes, AskedFirst, ParkedLast, [Next]_vars PROVE ParkedLast'
  OBVIOUS
<1> USE DEF ParkedLast, BoardTypes, deferrals
<1>0. NotParked.status = "none"
  BY DEF NotParked
<1>1. ASSUME NEW b \in Bases, Ask(b) PROVE ParkedLast'
  <2>1. pc[Len(asked) + 1] = "none"
    BY <1>1, AskAppends DEF AskedFirst
  <2> QED
    BY <1>0, <1>1, <2>1 DEF Ask
<1>2. ASSUME UNCHANGED <<pc, deferral>> PROVE ParkedLast'
  BY <1>2
<1>3. ASSUME NEW t \in Traces, NoteRaised(t) \/ NoteAnswered(t) PROVE ParkedLast'
  BY <1>3 DEF NoteRaised, NoteAnswered
<1>4. ASSUME NEW t \in Traces, Defer(t) PROVE ParkedLast'
  BY <1>4 DEF Defer
<1>5. ASSUME NEW o \in builds, Resolve(o) PROVE ParkedLast'
  BY <1>0, <1>5 DEF Resolve, OpenFor
<1>6. CASE UNCHANGED vars
  BY <1>2, <1>6 DEF vars
<1>7. CASE Advance \/ \E bs \in Forecasts : Announce(bs)
  BY <1>2, <1>7 DEF Advance, Announce
<1>8. CASE (\E b \in Bases : Build(b)) \/ (\E n \in Turns : Reload(n))
  BY <1>2, <1>8 DEF Build, Reload
<1>9. CASE \E t \in Traces, event \in Events : Outcome(t, event)
  BY <1>2, <1>9 DEF Outcome
<1> QED
  BY <1>1, <1>3, <1>4, <1>5, <1>6, <1>7, <1>8, <1>9 DEF Next, Handle

\* Writing a turn keeps the last of the turns held.
LEMMA WriteKeepsLast ==
    ASSUME BoardTypes, InOrder, reloads = 0, NEW n \in Turns, n <= turn, NEW row, NEW more,
           WriteTurn(n, row, more)
    PROVE  LET last == IF current > n THEN current ELSE n
           IN  /\ last \in held' /\ \A m \in held' : m <= last
               /\ \A m \in held' : m <= turn
               /\ last # 0
<1> DEFINE last == IF current > n THEN current ELSE n
<1>1. held \cup {n} \subseteq Turns /\ \A m \in held \cup {n} : m \in Nat
  BY ConstantsOK DEF BoardTypes, Turns
<1>2. current \in Nat /\ n \in Nat /\ n # 0
  BY ConstantsOK DEF BoardTypes, Turns
<1>3. last \in held \cup {n} /\ last # 0 /\ \A m \in held \cup {n} : m <= last
  <2>1. CASE current = 0
    BY <1>2, <2>1 DEF InOrder
  <2>2. CASE current # 0
    BY <1>1, <1>2, <2>2 DEF InOrder
  <2> QED
    BY <2>1, <2>2
<1>4. Evict(held \cup {n}) \subseteq held \cup {n} /\ last \in Evict(held \cup {n})
  BY <1>1, <1>3, EvictKeepsLast
<1>5. held' = Evict(held \cup {n})
  BY DEF WriteTurn
<1> QED
  BY <1>3, <1>4, <1>5 DEF InOrder

LEMMA OrderStep == BoardTypes /\ AskedFirst /\ InOrder /\ [Next]_vars => InOrder'
<1> SUFFICES ASSUME BoardTypes, AskedFirst, InOrder, [Next]_vars PROVE InOrder'
  OBVIOUS
<1> USE DEF game, board, deferrals, door2
<1>1. ASSUME UNCHANGED <<turn, reloads, asked, held, current>> PROVE InOrder'
  BY <1>1 DEF InOrder
<1>2. CASE Advance
  <2>1. turn \in Nat /\ turn' = turn + 1 /\ UNCHANGED <<reloads, asked, held, current>>
    BY <1>2, ConstantsOK DEF Advance, BoardTypes, Turns
  <2>2. \A n \in held : n \in Nat
    BY ConstantsOK DEF BoardTypes, Turns
  <2>3. ASSUME NEW i \in DOMAIN asked PROVE asked[i].turn \in Nat
    <3>1. asked \in Seq([base : Bases, turn : Turns]) /\ DOMAIN asked = 1..Len(asked)
      BY DEF BoardTypes
    <3>2. asked[i] \in [base : Bases, turn : Turns]
      BY <2>3, <3>1, ElementOfSeq
    <3> QED
      BY <3>2, ConstantsOK DEF Turns
  <2> QED
    BY <2>1, <2>2, <2>3 DEF InOrder
<1>3. ASSUME NEW bs \in Forecasts, Announce(bs) PROVE InOrder'
  <2> DEFINE row == [b \in Bases |-> IF b \in bs THEN Expected ELSE NoSlot]
  <2>1. turn \in Turns /\ turn \in Nat /\ turn <= turn /\ turn # 0 /\ current' = turn
        /\ WriteTurn(turn, row, {}) /\ UNCHANGED <<turn, reloads, asked>>
    BY <1>3, ConstantsOK DEF Announce, BoardTypes, Turns
  <2>2. CASE reloads # 0
    BY <2>1, <2>2 DEF InOrder
  <2>3. CASE reloads = 0
    <3>1. current <= turn
      BY <2>1, <2>3, ConstantsOK DEF InOrder, BoardTypes, Turns
    <3>2. ~(current > turn)
      BY <2>1, <3>1, ConstantsOK DEF BoardTypes, Turns
    <3>3. turn \in held' /\ \A m \in held' : m <= turn
      BY <2>1, <2>3, <3>2, WriteKeepsLast
    <3> QED
      BY <2>1, <3>3 DEF InOrder
  <2> QED
    BY <2>2, <2>3
<1>4. ASSUME NEW b \in Bases, Ask(b) PROVE InOrder'
  <2>1. turn \in Nat /\ UNCHANGED <<turn, reloads, held, current>>
    BY <1>4, ConstantsOK DEF Ask, BoardTypes, Turns
  <2>2. /\ DOMAIN asked' = DOMAIN asked \cup {Len(asked) + 1}
        /\ asked'[Len(asked) + 1] = [base |-> b, turn |-> turn]
        /\ \A i \in DOMAIN asked : asked'[i] = asked[i]
    BY <1>4, AskAppends
  <2>3. reloads = 0 => \A i \in DOMAIN asked' : asked'[i].turn <= turn
    BY <2>1, <2>2 DEF InOrder
  <2> QED
    BY <2>1, <2>3 DEF InOrder
<1>5. ASSUME NEW n \in Turns, Reload(n) PROVE InOrder'
  BY <1>5 DEF Reload, InOrder, BoardTypes
<1>6. ASSUME NEW t \in Traces, NoteRaised(t) PROVE InOrder'
  <2>1. t \in DOMAIN asked /\ Turn(t) \in Turns
    BY <1>6, AskedOf DEF NoteRaised
  <2>2. current' = IF current > Turn(t) THEN current ELSE Turn(t)
    BY <1>6 DEF NoteRaised
  <2>3. UNCHANGED <<turn, reloads, asked>>
    BY <1>6 DEF NoteRaised
  <2>4. current' # 0
    <3>1. \A n \in Turns : n \in Nat /\ n > 0
      BY ConstantsOK DEF Turns
    <3>2. CASE current > Turn(t)
      <4>1. Turn(t) \in Nat
        BY <2>1, <3>1
      <4>2. current \in Nat
        BY ConstantsOK DEF BoardTypes, Turns
      <4> QED
        BY <2>2, <3>2, <4>1, <4>2
    <3>3. CASE ~(current > Turn(t))
      <4>1. Turn(t) # 0
        BY <2>1, <3>1
      <4> QED
        BY <2>2, <3>3, <4>1
    <3> QED
      BY <3>2, <3>3
  <2>5. CASE reloads # 0
    BY <2>3, <2>4, <2>5 DEF InOrder
  <2>6. CASE reloads = 0
    <3>1. Turn(t) <= turn
      BY <2>1, <2>6 DEF InOrder, Turn
    <3>2. current' \in held' /\ \A m \in held' : m <= current' /\ m <= turn
      BY <1>6, <2>1, <2>2, <2>6, <3>1, WriteKeepsLast DEF NoteRaised
    <3> QED
      BY <2>3, <2>4, <3>2, <2>6 DEF InOrder
  <2> QED
    BY <2>5, <2>6
<1>7. ASSUME NEW t \in Traces, Defer(t) \/ NoteAnswered(t) PROVE InOrder'
  BY <1>1, <1>7 DEF Defer, NoteAnswered
<1>8. CASE \/ \E t \in Traces, event \in Events : Outcome(t, event)
           \/ \E o \in builds : Resolve(o)
           \/ \E b \in Bases : Build(b)
  BY <1>1, <1>8 DEF Outcome, Resolve, Build
<1>9. CASE UNCHANGED vars
  BY <1>1, <1>9 DEF vars
<1> QED
  BY <1>2, <1>3, <1>4, <1>5, <1>6, <1>7, <1>8, <1>9 DEF Next, Handle

\* A write to a turn, in view or earlier or not, keeps the turn in view if it can.
LEMMA WriteInView ==
    ASSUME BoardTypes, InView, NEW n \in Turns, NEW row, NEW more, WriteTurn(n, row, more),
           current' = n \/ (current' = current /\ current >= n)
    PROVE  InView'
<1>1. held \cup {n} \in SUBSET Turns /\ held' = Evict(held \cup {n})
  BY DEF BoardTypes, WriteTurn
<1>2. Cardinality(held \cup {n}) <= Keep + 1
  <2>1. IsFiniteSet(held) /\ Cardinality(held) \in Nat
    <3>1. IsFiniteSet(Turns)
      BY FS_Interval, ConstantsOK DEF Turns
    <3> QED
      BY <3>1, FS_Subset, FS_CardinalityType DEF BoardTypes
  <2>2. Cardinality(held \cup {n}) <= Cardinality(held) + 1
    BY <2>1, FS_AddElement
  <2>3. Cardinality(held \cup {n}) \in Nat
    BY <2>1, FS_AddElement, FS_CardinalityType
  <2> QED
    BY <2>1, <2>2, <2>3, ConstantsOK DEF InView
<1>3. /\ Cardinality(held') <= Keep
      /\ \A k \in held \cup {n} : k \notin held' =>
            Cardinality(held') = Keep /\ \A m \in held' : m > k
  BY <1>1, <1>2, EvictMakesRoom
<1>4. CASE current' \in held \cup {n}
  BY <1>3, <1>4 DEF InView
<1>5. CASE current' \notin held \cup {n}
  <2>1. current' = current /\ current \notin held /\ current >= n /\ current # n
    BY <1>5
  <2>2. current # 0 /\ current \in Nat /\ n \in Nat
    BY <2>1, ConstantsOK DEF BoardTypes, Turns
  <2>3. Cardinality(held) = Keep /\ \A m \in held : m > current
    BY <2>1, <2>2 DEF InView
  <2>4. \A m \in held : m \in Nat /\ m # n /\ m > n
    BY <2>1, <2>2, <2>3, ConstantsOK DEF BoardTypes, Turns
  <2>5. held' = held
    <3>1. IsFiniteSet(held) /\ IsFiniteSet(held \cup {n}) /\ n \notin held
      <4>1. IsFiniteSet(Turns)
        BY FS_Interval, ConstantsOK DEF Turns
      <4> QED
        BY <1>1, <2>4, <4>1, FS_Subset DEF BoardTypes
    <3>2. Cardinality(held \cup {n}) > Keep
      BY <2>3, <3>1, FS_AddElement, ConstantsOK
    <3>3. Lowest(held \cup {n}) \in held \cup {n}
          /\ \A u \in held \cup {n} : Lowest(held \cup {n}) <= u
      BY <1>1, LowestExists
    <3>4. Lowest(held \cup {n}) = n
      BY <2>2, <2>4, <3>3
    <3> QED
      BY <1>1, <3>1, <3>2, <3>4 DEF Evict
  <2> QED
    BY <2>1, <2>3, <2>5, ConstantsOK DEF InView
<1> QED
  BY <1>4, <1>5

LEMMA InViewStep == BoardTypes /\ AskedFirst /\ InView /\ [Next]_vars => InView'
<1> SUFFICES ASSUME BoardTypes, AskedFirst, InView, [Next]_vars PROVE InView'
  OBVIOUS
<1> USE DEF game, board, deferrals, door2
<1>1. ASSUME UNCHANGED <<held, current>> PROVE InView'
  BY <1>1 DEF InView
<1>2. ASSUME NEW bs \in Forecasts, Announce(bs) PROVE InView'
  <2>1. turn \in Turns /\ current' = turn
        /\ WriteTurn(turn, [b \in Bases |-> IF b \in bs THEN Expected ELSE NoSlot], {})
    BY <1>2 DEF Announce, BoardTypes
  <2> QED
    BY <2>1, WriteInView
<1>3. ASSUME NEW t \in Traces, NoteRaised(t) PROVE InView'
  <2>1. Turn(t) \in Turns
    BY <1>3, AskedOf DEF NoteRaised
  <2>2. current' = IF current > Turn(t) THEN current ELSE Turn(t)
    BY <1>3 DEF NoteRaised
  <2>3. current' = Turn(t) \/ (current' = current /\ current >= Turn(t))
    BY <2>1, <2>2, ConstantsOK DEF BoardTypes, Turns
  <2>4. WriteTurn(Turn(t), [slots[Turn(t)] EXCEPT ![Base(t)] =
                               [status |-> Raised(slots[Turn(t)][Base(t)]),
                                trace |-> LatestTrace(slots[Turn(t)][Base(t)], t)]], {t})
    BY <1>3 DEF NoteRaised
  <2> QED
    BY <2>1, <2>3, <2>4, WriteInView
<1>4. CASE \/ Advance \/ UNCHANGED vars
           \/ \E b \in Bases : Ask(b) \/ Build(b)
           \/ \E n \in Turns : Reload(n)
  BY <1>1, <1>4 DEF Advance, Ask, Build, Reload, vars
<1>5. CASE \/ \E t \in Traces : Defer(t) \/ NoteAnswered(t)
           \/ \E t \in Traces, event \in Events : Outcome(t, event)
           \/ \E o \in builds : Resolve(o)
  BY <1>1, <1>5 DEF Defer, NoteAnswered, Outcome, Resolve
<1> QED
  BY <1>2, <1>3, <1>4, <1>5 DEF Next, Handle

LEMMA BoardSteps == BoardInv /\ [Next]_vars => BoardInv'
BY TypeStep, AskedStep, ParkedStep, OrderStep, InViewStep DEF BoardInv

\* The board keeps its invariant.
THEOREM BoardInvariant == Spec => []BoardInv
BY BoardBegins, BoardSteps, PTL DEF Spec

(*---------------------------------------------------------------------------*)
(* The turn in view.                                                          *)

\* turns.py: until a save is reloaded, the turn in view is held however few are kept, and
\* no answer to an older one displaces it; after a reload it is displaced only by as many
\* later turns as are kept.
THEOREM TurnStaysInView == Spec => []CurrentInView
<1>1. BoardInv => CurrentInView
  BY DEF BoardInv, InOrder, InView, CurrentInView
<1> QED
  BY <1>1, BoardInvariant, PTL

(*---------------------------------------------------------------------------*)
(* Deferrals.                                                                 *)

LEMMA ClosedStays ==
    ASSUME BoardInv, [Next]_vars, NEW d \in Traces,
           deferral[d].status \in {"resolved", "expired"}
    PROVE  deferral'[d] \in {deferral[d], NotParked}
<1> USE DEF deferrals
<1>1. ASSUME NEW b \in Bases, Ask(b) PROVE deferral'[d] = deferral[d]
  BY <1>1 DEF Ask
<1>2. ASSUME NEW t \in Traces, Defer(t) PROVE deferral'[d] \in {deferral[d], NotParked}
  <2>1. d # t
    BY <1>2 DEF Defer, BoardInv, ParkedLast, NotParked
  <2> QED
    BY <1>2, <2>1 DEF Defer
<1>3. ASSUME NEW o \in builds, Resolve(o) PROVE deferral'[d] = deferral[d]
  BY <1>3 DEF Resolve, OpenFor
<1>4. ASSUME NEW t \in Traces, NoteRaised(t) \/ NoteAnswered(t) PROVE UNCHANGED deferral
  BY <1>4 DEF NoteRaised, NoteAnswered
<1>5. CASE Advance \/ (\E bs \in Forecasts : Announce(bs)) \/ UNCHANGED vars
  BY <1>5 DEF Advance, Announce, vars
<1>6. CASE \/ \E b \in Bases : Build(b)
           \/ \E n \in Turns : Reload(n)
           \/ \E t \in Traces, event \in Events : Outcome(t, event)
  BY <1>6 DEF Build, Reload, Outcome
<1> QED
  BY <1>1, <1>2, <1>3, <1>4, <1>5, <1>6 DEF Next, Handle

\* deferrals.py: what was resolved never expires, and what expired is not resolved by an
\* order that comes later; it can only be dropped for room.
THEOREM DeferralClosesOnce == Spec => ClosedOnce
<1>1. BoardInv /\ [Next]_vars
        => [\A t \in Traces : deferral[t].status \in {"resolved", "expired"} =>
               deferral'[t] \in {deferral[t], NotParked}]_vars
  BY ClosedStays
<1> QED
  BY <1>1, BoardInvariant, PTL DEF Spec, ClosedOnce

(*---------------------------------------------------------------------------*)
(* Slots.                                                                     *)

LEMMA Ranks ==
    /\ Rank("none") = 0 /\ Rank("expected") = 1 /\ Rank("raised") = 2
    /\ Rank("answered") = 3 /\ Rank("applied") = 4 /\ Rank("diverged") = 5
<1>1. /\ Statuses[1] = "expected" /\ Statuses[2] = "raised" /\ Statuses[3] = "answered"
      /\ Statuses[4] = "applied" /\ Statuses[5] = "diverged"
  BY DEF Statuses
<1>2. \A i \in 1..5 : i = 1 \/ i = 2 \/ i = 3 \/ i = 4 \/ i = 5
  OBVIOUS
<1> QED
  BY <1>1, <1>2 DEF Rank

\* A slot did not go back, or is as if its turn had just been announced or forgotten.
Forward(n, b) == \/ Rank(slots[n][b].status) <= Rank(slots'[n][b].status)
                 \/ slots'[n][b] \in {NoSlot, Expected}

LEMMA WriteForward ==
    ASSUME BoardTypes, NEW n \in Turns, NEW row, NEW more, WriteTurn(n, row, more),
           NEW m \in Turns, NEW b \in Bases
    PROVE  slots'[m][b] \in {NoSlot, slots[m][b], [slots EXCEPT ![n] = row][n][b]}
<1>1. CASE m \in Evict(held \cup {n})
  <2>1. slots'[m] = [slots EXCEPT ![n] = row][m]
    BY <1>1 DEF WriteTurn
  <2> QED
    BY <2>1 DEF BoardTypes
<1>2. CASE m \notin Evict(held \cup {n})
  BY <1>2 DEF WriteTurn
<1> QED
  BY <1>1, <1>2

LEMMA SlotsForward ==
    ASSUME BoardInv, [Next]_vars, NEW m \in Turns, NEW b \in Bases
    PROVE  Forward(m, b)
<1>0. BoardTypes /\ AskedFirst
  BY DEF BoardInv
<1>1. slots[m][b].status \in SlotStatus
  BY <1>0 DEF BoardTypes
<1>2. Rank(slots[m][b].status) \in Nat
  BY <1>1, Ranks DEF SlotStatus
<1>3. ASSUME slots'[m][b].status = slots[m][b].status PROVE Forward(m, b)
  BY <1>2, <1>3 DEF Forward
<1> USE DEF board
<1>4. ASSUME NEW bs \in Forecasts, Announce(bs) PROVE Forward(m, b)
  <2> DEFINE row == [c \in Bases |-> IF c \in bs THEN Expected ELSE NoSlot]
  <2>1. slots'[m][b] \in {NoSlot, slots[m][b], [slots EXCEPT ![turn] = row][turn][b]}
    BY <1>0, <1>4, WriteForward DEF Announce, BoardTypes
  <2>2. [slots EXCEPT ![turn] = row][turn][b] \in {NoSlot, Expected}
    BY <1>0 DEF BoardTypes
  <2> QED
    BY <1>3, <2>1, <2>2 DEF Forward
<1>5. ASSUME NEW t \in Traces, NoteRaised(t) PROVE Forward(m, b)
  <2>1. Turn(t) \in Turns /\ Base(t) \in Bases
    BY <1>0, <1>5, AskedOf DEF NoteRaised
  <2> DEFINE s == slots[Turn(t)][Base(t)]
             row == [slots[Turn(t)] EXCEPT ![Base(t)] =
                       [status |-> Raised(s), trace |-> LatestTrace(s, t)]]
  <2>2. WriteTurn(Turn(t), row, {t})
    BY <1>5 DEF NoteRaised
  <2>3. CASE m = Turn(t) /\ b = Base(t)
    <3>1. slots'[m][b] \in {NoSlot, slots[m][b], [slots EXCEPT ![m] = row][m][b]}
      BY <1>0, <2>1, <2>2, <2>3, WriteForward
    <3>2. [slots EXCEPT ![m] = row][m][b].status = Raised(slots[m][b])
      BY <1>0, <2>1, <2>3 DEF BoardTypes
    <3>3. Rank(slots[m][b].status) <= Rank(Raised(slots[m][b]))
      BY <1>1, <1>2, Ranks DEF Raised, SlotStatus
    <3> QED
      BY <1>3, <3>1, <3>2, <3>3 DEF Forward
  <2>4. CASE ~(m = Turn(t) /\ b = Base(t))
    <3>1. slots'[m][b] \in {NoSlot, slots[m][b]}
      <4>1. [slots EXCEPT ![Turn(t)] = row][m][b] = slots[m][b]
        BY <1>0, <2>1, <2>4 DEF BoardTypes
      <4>2. CASE m \in Evict(held \cup {Turn(t)})
        BY <2>2, <4>1, <4>2 DEF WriteTurn
      <4>3. CASE m \notin Evict(held \cup {Turn(t)})
        BY <2>2, <4>3 DEF WriteTurn
      <4> QED
        BY <4>2, <4>3
    <3> QED
      BY <1>3, <3>1 DEF Forward
  <2> QED
    BY <2>3, <2>4
<1>6. ASSUME NEW t \in Traces, NEW status \in SlotStatus,
             Turn(t) \in Turns, Base(t) \in Bases,
             slots' = [slots EXCEPT ![Turn(t)][Base(t)].status = status],
             Rank(slots[Turn(t)][Base(t)].status) <= Rank(status)
      PROVE  Forward(m, b)
  <2>1. CASE m = Turn(t) /\ b = Base(t)
    <3>1. slots'[m][b].status = status
      BY <1>0, <1>6, <2>1 DEF BoardTypes
    <3> QED
      BY <1>6, <2>1, <3>1 DEF Forward
  <2>2. CASE ~(m = Turn(t) /\ b = Base(t))
    <3>1. slots'[m][b] = slots[m][b]
      BY <1>0, <1>6, <2>2 DEF BoardTypes
    <3> QED
      BY <1>3, <3>1
  <2> QED
    BY <2>1, <2>2
<1>7. ASSUME NEW t \in Traces, NoteAnswered(t) PROVE Forward(m, b)
  <2>1. Turn(t) \in Turns /\ Base(t) \in Bases
    BY <1>0, <1>7, AskedOf DEF NoteAnswered
  <2>2. slots[Turn(t)][Base(t)].status \in SlotStatus
    BY <1>0, <2>1 DEF BoardTypes
  <2>3. /\ Answered(slots[Turn(t)][Base(t)]) \in SlotStatus
        /\ Rank(slots[Turn(t)][Base(t)].status) <= Rank(Answered(slots[Turn(t)][Base(t)]))
    BY <2>2, Ranks DEF Answered, SlotStatus
  <2> QED
    BY <1>6, <1>7, <2>1, <2>3 DEF NoteAnswered
<1>8. ASSUME NEW t \in Traces, NEW event \in Events, Outcome(t, event) PROVE Forward(m, b)
  <2>1. Turn(t) \in Turns /\ Base(t) \in Bases
    BY <1>0, <1>8, AskedOf DEF Outcome
  <2>2. slots[Turn(t)][Base(t)].status \in SlotStatus
    BY <1>0, <2>1 DEF BoardTypes
  <2>3. /\ Reported(slots[Turn(t)][Base(t)], event) \in SlotStatus
        /\ Rank(slots[Turn(t)][Base(t)].status) <= Rank(Reported(slots[Turn(t)][Base(t)], event))
    BY <2>2, Ranks DEF Reported, SlotStatus
  <2>4. CASE slots' = slots
    BY <1>3, <2>4
  <2>5. CASE slots' # slots
    BY <1>6, <1>8, <2>1, <2>3, <2>5 DEF Outcome
  <2> QED
    BY <2>4, <2>5
<1>9. CASE \/ Advance \/ UNCHANGED vars
           \/ \E c \in Bases : Ask(c) \/ Build(c)
           \/ \E n \in Turns : Reload(n)
  BY <1>3, <1>9 DEF Advance, Ask, Build, Reload, vars
<1>10. CASE (\E t \in Traces : Defer(t)) \/ (\E o \in builds : Resolve(o))
  BY <1>3, <1>10 DEF Defer, Resolve
<1> QED
  BY <1>4, <1>5, <1>7, <1>8, <1>9, <1>10 DEF Next, Handle

\* turns.py: an answered decision never looks outstanding again and a divergence is never
\* papered over, until the turn is announced anew or forgotten.
THEOREM SlotsGoForward == Spec => SlotsMoveForward
<1>1. BoardInv /\ [Next]_vars
        => [\A n \in Turns, b \in Bases :
               \/ Rank(slots[n][b].status) <= Rank(slots'[n][b].status)
               \/ slots'[n][b] \in {NoSlot, Expected}]_vars
  BY SlotsForward DEF Forward
<1> QED
  BY <1>1, BoardInvariant, PTL DEF Spec, SlotsMoveForward
================================================================================
