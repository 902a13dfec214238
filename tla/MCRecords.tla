-------------------------------- MODULE MCRecords -------------------------------
(* LogReaders on a small run: a plan that starts with one directive, one more   *)
(* the brain may issue, and the answers that tell the readers apart.  Beside    *)
(* it, and not in product with it, an experiment of two arms.                   *)
EXTENDS LogReaders, Arms, TLC

CONSTANTS d1, d2   \* deciders

Answer == [tier |-> "llm", degraded |-> FALSE, told |-> FALSE, chosen |-> "a", issued |-> {},
           followed |-> {}, overrode |-> {}, unmeasured |-> {}, hidden |-> {},
           rejected |-> FALSE]
MCShapes == {
    [Answer EXCEPT !.followed = {"old", "new"}, !.unmeasured = {"old"}],
    [Answer EXCEPT !.issued = {"new"}, !.overrode = {"old"}, !.hidden = {"new"}],
    [Answer EXCEPT !.degraded = TRUE, !.told = TRUE, !.followed = {"old"}],
    [Answer EXCEPT !.tier = "review", !.chosen = "none", !.issued = {"new"}]}
\* With a review that came to nothing (for DegradeRateIsAShare), and one that was refused a
\* part of what it asked for.
MCShapesAll == MCShapes \cup
    {[Answer EXCEPT !.tier = "review", !.chosen = "none", !.degraded = TRUE],
     [Answer EXCEPT !.tier = "review", !.chosen = "none", !.issued = {"new"}, !.rejected = TRUE]}
MCSymmetry == Permutations({d1, d2})

NoRetool == [DefaultConfig EXCEPT !.retool = FALSE]
SamePop == [DefaultConfig EXCEPT !.samePop = TRUE]
Arm(slot, level, config, stamps) ==
    [slot |-> slot, level |-> level, config |-> config, stamps |-> stamps]
MCSetups == {Arm("ai", 4, DefaultConfig, "entries"), Arm("human", 4, DefaultConfig, "entries"),
             Arm("ai", 1, NoRetool, "inputs")}
\* An adapter that stamps nothing, beside one that stamps too little (for DriftSeesSilence).
MCSilent == {Arm("ai", 4, DefaultConfig, "nothing"), Arm("ai", 4, DefaultConfig, "fewer")}
\* One rule less each, and not the same one (Records_rules.cfg).
MCTwoRules == {Arm("ai", 4, NoRetool, "entries"), Arm("ai", 4, SamePop, "entries")}

VARIABLE scene
vars == <<runLogVars, armVars, scene>>
Init == /\ RunLogInit /\ ArmsInit /\ scene \in {"log", "arms"}
        /\ scene = "log" => setup = [a \in ArmNames |-> CHOOSE s \in Setups : TRUE]
Next == /\ \/ scene = "log" /\ RunLogNext /\ UNCHANGED armVars
           \/ scene = "arms" /\ ArmsNext /\ UNCHANGED runLogVars
        /\ UNCHANGED scene
Spec == Init /\ [][Next]_vars
================================================================================
