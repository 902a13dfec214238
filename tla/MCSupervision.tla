----------------------------- MODULE MCSupervision ------------------------------
(* The scripts around the runs, in one run: they share no state, so they are    *)
(* explored side by side and not in product.                                    *)
EXTENDS RunDriver, RunReaper, GameFixture, SaveFixture, Preflight, WinLadder

VARIABLE scene

Dialog(rows_, dismiss, shape) == [rows |-> rows_, dismiss |-> dismiss, shape |-> shape]

\* A base panel, a stacked council vote, and a diplomacy dialog that looks to the driver
\* like the base panel.
Seen == {Dialog(2, 2, "panel"), Dialog(3, 2, "vote"), Dialog(2, 1, "panel")}

\* A machine set up to play, and machines that differ from it in what a preflight reads.
PlayHost == [brain |-> "agent", knowledge |-> "grounded", telemetry |-> TRUE, mcp |-> "listed",
             ini |-> "number", deadline |-> 0, quipu |-> "answers", yupana |-> "replaces"]
HostKinds == {PlayHost} \cup {[PlayHost EXCEPT !.yupana = y] : y \in {"unset", "merges"}}
    \cup {[PlayHost EXCEPT !.knowledge = "unreported", !.mcp = "unreadable"],
          [PlayHost EXCEPT !.telemetry = FALSE, !.knowledge = "blind-allowed", !.quipu = "rejects"]}
    \cup {[PlayHost EXCEPT !.deadline = d, !.quipu = "down"] : d \in {2, 30}}
    \cup {[PlayHost EXCEPT !.ini = i, !.mcp = "other"] : i \in {"no file", "no line"}}

LinkedFile == [p \in {"readme"} |-> "basenames"]

supervised == <<driverVars, reaperVars>>
prepared == <<fixtureVars, saveVars, preflightVars, ladderVars>>
vars == <<supervised, prepared, scene>>

Init == /\ DriverInit /\ ReaperInit /\ FixtureInit /\ SaveInit /\ PreflightInit /\ LadderInit
        /\ scene \in {"driver", "reaper", "fixture", "save", "preflight", "ladder"}
        /\ scene # "preflight" => host = PlayHost

Next ==
    /\ UNCHANGED scene
    /\ \/ scene = "driver" /\ DriverNext /\ UNCHANGED <<reaperVars, prepared>>
       \/ scene = "reaper" /\ ReaperNext /\ UNCHANGED <<driverVars, prepared>>
       \/ scene = "fixture" /\ FixtureNext
            /\ UNCHANGED <<supervised, saveVars, preflightVars, ladderVars>>
       \/ scene = "save" /\ SaveNext
            /\ UNCHANGED <<supervised, fixtureVars, preflightVars, ladderVars>>
       \/ scene = "preflight" /\ PreflightNext
            /\ UNCHANGED <<supervised, fixtureVars, saveVars, ladderVars>>
       \/ scene = "ladder" /\ LadderNext
            /\ UNCHANGED <<supervised, fixtureVars, saveVars, preflightVars>>

DriverRuns == scene = "driver" /\ Cycle /\ UNCHANGED <<reaperVars, prepared, scene>>
FairSpec == Init /\ [][Next]_vars /\ WF_vars(DriverRuns)

TypeOK == /\ DriverTypeOK /\ ReaperTypeOK /\ FixtureTypeOK /\ SaveTypeOK
          /\ PreflightTypeOK /\ LadderTypeOK
DriverStops == scene = "driver" => NoEndlessRun
================================================================================
