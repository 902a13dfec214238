-------------------------------- MODULE MCSeats --------------------------------
(* The ways a decision reaches whoever answers it, as one run: a scene is the    *)
(* model lanes, an agent's seat, the feed of what the engine did, or the agents'  *)
(* own side of the wire; the rest stands still.                                 *)
EXTENDS ModelCalls, AgentSeat, OutcomeFeed, AgentDesk, TLC

VARIABLE scene
mcVars == <<scene, callVars, seatVars, feedVars, deskVars>>

Init ==
    /\ scene \in {"calls", "seat", "feed", "desk"}
    /\ CallsInit /\ SeatInit /\ FeedInit /\ DeskInit
    /\ scene # "calls" => lane = "cli" /\ raw = Unset /\ takes
    /\ scene # "seat" => timeout = 0 /\ ~doorbell

Next ==
    \/ scene = "calls" /\ CallsNext /\ UNCHANGED <<scene, seatVars, feedVars, deskVars>>
    \/ scene = "seat" /\ SeatNext /\ UNCHANGED <<scene, callVars, feedVars, deskVars>>
    \/ scene = "feed" /\ FeedNext /\ UNCHANGED <<scene, callVars, seatVars, deskVars>>
    \/ scene = "desk" /\ DeskNext /\ UNCHANGED <<scene, callVars, seatVars, feedVars>>

\* The agents are alike.
DeskSymmetry == Permutations(Desks)

Spec == Init /\ [][Next]_mcVars

\* The type invariants of the four parts.
SeatsTypeOK == CallsTypeOK /\ SeatTypeOK /\ DeskTypeOK
===============================================================================
