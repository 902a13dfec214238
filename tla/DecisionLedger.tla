---------------------------- MODULE DecisionLedger ----------------------------
(* What pending.py promises the two parties that meet on its queue, with the   *)
(* locks, threads, events and tombstones left out: a decision is opened once,  *)
(* closed once, either by an answer or by being abandoned, and the game takes  *)
(* an answer at most once and only from a decision that was answered.          *)

CONSTANT Ids

VARIABLES phase,   \* [Ids -> {"none", "open", "answered", "abandoned"}]
          taken    \* the answers the game side has carried away

vars == <<phase, taken>>

Init == /\ phase = [d \in Ids |-> "none"]
        /\ taken = {}

\* The game posts decision d, and the decisions in S, left by a game process
\* that is gone, are abandoned in the same instant.
Open(d, S) ==
    /\ phase[d] = "none"
    /\ \A e \in S : phase[e] = "open"
    /\ phase' = [e \in Ids |-> IF e = d THEN "open"
                               ELSE IF e \in S THEN "abandoned" ELSE phase[e]]
    /\ UNCHANGED taken

Answer(d) ==
    /\ phase[d] = "open"
    /\ phase' = [phase EXCEPT ![d] = "answered"]
    /\ UNCHANGED taken

Abandon(d) ==
    /\ phase[d] = "open"
    /\ phase' = [phase EXCEPT ![d] = "abandoned"]
    /\ UNCHANGED taken

Take(d) ==
    /\ phase[d] = "answered"
    /\ d \notin taken
    /\ taken' = taken \cup {d}
    /\ UNCHANGED phase

Next == \E d \in Ids : \/ \E S \in SUBSET Ids : Open(d, S)
                       \/ Answer(d)
                       \/ Abandon(d)
                       \/ Take(d)

Spec == Init /\ [][Next]_vars
===============================================================================
