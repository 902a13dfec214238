-------------------------------- MODULE RunLog ---------------------------------
(* What a run leaves on disk: the store of world views a decision was asked     *)
(* about (replay.py: WorldViewStore), the decision log (decisions.py:           *)
(* DecisionLog) and the spans beside it (telemetry.py: Emitter, OtelSink), as   *)
(* Orchestrator.decide and review write them from the server's threads.  The    *)
(* disk may refuse a write, whole or halfway, the process may die anywhere, and *)
(* the game may go back to an earlier turn.  What a decision chose and said of  *)
(* the plan is one of a few shapes of answer; a strategic review has a surface  *)
(* of its own and chooses nothing.                                              *)
EXTENDS Naturals, Sequences, FiniteSets, SequencesExt

CONSTANTS Deciders,    \* threads serving /decide
          Surfaces,    \* surface ids
          Shapes,      \* answers: tier, degraded, chosen, and what they say of directives
          Seeded,      \* directives the plan starts with
          MaxTurn,     \* bound: turns
          MaxTaken,    \* bound: decisions taken up
          MaxBoots,    \* bound: lives of the process
          MaxFaults    \* bound: writes that fail and deaths

ASSUME RunLogBoundsOK == /\ {MaxTaken, MaxFaults} \subseteq Nat
                         /\ {MaxTurn, MaxBoots} \subseteq Nat \ {0}

ASSUME ShapesOK == /\ \A a \in Shapes : {a.degraded, a.told, a.rejected} \subseteq BOOLEAN
                   /\ IsFiniteSet(Seeded \cup UNION {a.issued : a \in Shapes})

VARIABLES
    boot,      \* the life of the process: each mints a game id (orchestrator.py:218)
    turn,      \* the turn of the game
    taken,     \* decisions taken up so far
    place,     \* where each thread is
    record,    \* the record each is making
    whole,     \* keys of the store's readable files
    spoiled,   \* keys of its files that hold no world view, yet or for good
    standing,  \* the directives in force
    log,       \* the lines of the decision log
    open,      \* whether its last line has no end
    failures,  \* Emitter.failures of this life
    faults,    \* writes that failed and deaths, so far
    replied,   \* history: the records whose decision was answered
    lossy,     \* history: the lives in which a failure was counted
    undone     \* history: the keys whose writing did not end

runLogVars == <<boot, turn, taken, place, record, whole, spoiled, standing, log, open,
                failures, faults, replied, lossy, undone>>
disk == <<whole, spoiled, undone>>
file == <<log, open>>
health == <<failures, lossy>>

\* Half a line, and whatever was appended to it.
Garbage == [n |-> 0]
Unmade == [n |-> 0]
ReviewSurface == "faction.strategy_review"

RunLogInit ==
    /\ boot = 1 /\ turn = 1 /\ taken = 0
    /\ place = [d \in Deciders |-> "idle"]
    /\ record = [d \in Deciders |-> Unmade]
    /\ whole = {} /\ spoiled = {} /\ undone = {}
    /\ standing = Seeded
    /\ log = <<>> /\ open = FALSE
    /\ failures = 0 /\ faults = 0
    /\ replied = {} /\ lossy = {}

Goto(d, where) == place' = [place EXCEPT ![d] = where]
Fault == faults < MaxFaults /\ faults' = faults + 1

-------------------------------------------------------------------------------
(* One decision. *)

\* The key of a world view is its content; advisories put in front of the brain change it.
Key(r) == [turn |-> r.turn, surface |-> r.surface, told |-> r.told]

TakeUp(d, s) ==
    /\ place[d] = "idle" /\ taken < MaxTaken
    /\ taken' = taken + 1
    /\ record' = [record EXCEPT ![d] = [n |-> taken + 1, boot |-> boot, turn |-> turn,
                                        surface |-> s, told |-> FALSE]]
    /\ Goto(d, "put")
    /\ UNCHANGED <<boot, turn, disk, standing, file, health, faults, replied>>

\* WorldViewStore.put: a file that is there is taken for the view; writing opens it first.
Put(d) ==
    /\ place[d] = "put"
    /\ LET key == Key(record[d])
       IN IF key \in whole \cup spoiled
          THEN Goto(d, "deciding") /\ spoiled' = spoiled
          ELSE Goto(d, "putting") /\ spoiled' = spoiled \cup {key}
    /\ UNCHANGED <<boot, turn, taken, record, whole, undone, standing, file, health, faults,
                   replied>>

PutEnds(d) ==
    /\ place[d] = "putting"
    /\ whole' = whole \cup {Key(record[d])}
    /\ spoiled' = spoiled \ {Key(record[d])}
    /\ Goto(d, "deciding")
    /\ UNCHANGED <<boot, turn, taken, record, undone, standing, file, health, faults, replied>>

\* The write raises out of decide: the caller has a 500, the log nothing.
PutFails(d) ==
    /\ place[d] = "putting" /\ Fault
    /\ undone' = undone \cup {Key(record[d])}
    /\ Goto(d, "idle")
    /\ record' = [record EXCEPT ![d] = Unmade]
    /\ UNCHANGED <<boot, turn, taken, whole, spoiled, standing, file, health, replied>>

\* Mutant: an id nobody was shown is kept as well.
AsSaid(words, shown) == words
\* What an answer said of directives, kept for those it was shown (_plan_block).
Shown(words, shown) == words \cap shown

\* A plan entry answers, a standing answer, the engine, or the brain.  `told`: an advisory was
\* added to the view after it was stored (orchestrator.py:447 and 484).
Decide(d, answer) ==
    /\ place[d] = "deciding"
    /\ (answer.tier = "review") = (record[d].surface = ReviewSurface)
    /\ LET shown == standing \ answer.hidden
       IN record' = [record EXCEPT ![d] =
              [n |-> @.n, boot |-> @.boot, turn |-> @.turn, surface |-> @.surface,
               told |-> answer.told, tier |-> answer.tier, degraded |-> answer.degraded,
               chosen |-> answer.chosen, inForce |-> shown,
               followed |-> Shown(answer.followed, shown),
               overrode |-> Shown(answer.overrode, shown),
               unmeasured |-> answer.unmeasured \cap shown,
               issued |-> IF answer.degraded THEN {} ELSE answer.issued,
               rejected |-> answer.rejected]]
    /\ standing' = standing \cup record'[d].issued
    /\ Goto(d, "logging")
    /\ UNCHANGED <<boot, turn, taken, disk, file, health, faults, replied>>

\* Mutant: the line's end is left to the next write.
Unended(r) == /\ log' = IF open THEN log ELSE Append(log, r)
              /\ open' = TRUE
\* One line, at the end of the file, wherever that is.
Appended(r) == /\ log' = IF open THEN log ELSE Append(log, r)
               /\ open' = FALSE
Cut == /\ log' = IF open THEN log ELSE Append(log, Garbage)
       /\ open' = TRUE

Count == failures' = failures + 1 /\ lossy' = lossy \cup {boot}

\* Emitter.emit: the log first; a sink that raises is counted and passed over.
Log(d) ==
    /\ place[d] = "logging"
    /\ Appended(record[d])
    /\ Goto(d, "spans")
    /\ UNCHANGED <<boot, turn, taken, record, disk, standing, health, faults, replied>>

LogFails(d) ==
    /\ place[d] = "logging" /\ Fault
    /\ Cut \/ UNCHANGED file
    /\ Count
    /\ Goto(d, "spans")
    /\ UNCHANGED <<boot, turn, taken, record, disk, standing, replied>>

\* The span and the counters of OtelSink, which may fail as well; the decision is answered.
Spans(d) ==
    /\ place[d] = "spans"
    /\ UNCHANGED <<failures, lossy, faults>> \/ (Fault /\ Count)
    /\ replied' = replied \cup {record[d]}
    /\ record' = [record EXCEPT ![d] = Unmade]
    /\ Goto(d, "idle")
    /\ UNCHANGED <<boot, turn, taken, disk, standing, file>>

-------------------------------------------------------------------------------
(* The game and the process. *)

NextTurn == /\ turn < MaxTurn
            /\ turn' = turn + 1
            /\ UNCHANGED <<boot, taken, place, record, disk, standing, file, health, faults,
                           replied>>

Reload == /\ turn > 1
          /\ turn' \in 1..turn - 1
          /\ UNCHANGED <<boot, taken, place, record, disk, standing, file, health, faults,
                         replied>>

\* The process dies, perhaps halfway through a line, and is started on the same files.
Restart ==
    /\ boot < MaxBoots /\ Fault
    /\ boot' = boot + 1
    /\ \/ UNCHANGED file
       \/ (\E d \in Deciders : place[d] = "logging") /\ Cut
    /\ undone' = undone \cup {Key(record[d]) : d \in {e \in Deciders : place[e] = "putting"}}
    /\ place' = [d \in Deciders |-> "idle"]
    /\ record' = [d \in Deciders |-> Unmade]
    /\ failures' = 0
    /\ UNCHANGED <<turn, taken, whole, spoiled, standing, replied, lossy>>

RunLogNext ==
    \/ \E d \in Deciders :
         \/ \E s \in Surfaces : TakeUp(d, s)
         \/ Put(d) \/ PutEnds(d) \/ PutFails(d)
         \/ \E answer \in Shapes : Decide(d, answer)
         \/ Log(d) \/ LogFails(d) \/ Spans(d)
    \/ NextTurn \/ Reload \/ Restart

RunLogSpec == RunLogInit /\ [][RunLogNext]_runLogVars
================================================================================
