------------------------------ MODULE MCKnowledge -------------------------------
(* Four parts of what stands around a decision, side by side: the rulebook      *)
(* failing between announcements, two threads publishing the evidence of one    *)
(* turn while it ages and the process restarts, the memory failing while the    *)
(* agent orders and the process restarts, and the guards while the board server *)
(* restarts.                                                                    *)
EXTENDS Grounding, OrderGuards, TLC

CONSTANTS f1, f2, nobody, unitA, unitB, ruleA, ruleB, gap,
          energy, morale, buy, talk, fact

Costs == (ruleA :> 2) @@ (ruleB :> 1)
View(f, t, menu) == [faction |-> f, turn |-> t, menu |-> menu]
Asked == {View(f1, 1, <<ruleA, ruleB>>), View(f1, 2, <<gap, ruleA, gap>>),
          View(f2, 1, <<ruleA>>), View(nobody, 1, <<ruleB>>)}

(* What is on the board: one pool, one metric that may go below zero.           *)
Effects == (buy :> ((energy :> -5) @@ (morale :> 0)))
        @@ (talk :> ((energy :> 0) @@ (morale :> -2)))
Floors == {[label |-> "no deficit", metric |-> energy, floor |-> 0, effect |-> "deny"],
           [label |-> "keep morale", metric |-> morale, floor |-> 0, effect |-> "deny"]}
Board(f, e, m, known, against) ==
    [faction |-> f, space |-> {buy, talk}, metrics |-> (energy :> e) @@ (morale :> m),
     grounded |-> known, planned |-> {}, against |-> against]
Boards == {Board(f1, 3, 1, {fact}, {}), Board(f1, 9, 2, {}, {buy}),
           [Board(f2, Absent, 1, {}, {}) EXCEPT !.planned = {fact}]}
Replies == [choices : SUBSET {buy, talk}, cited : SUBSET {fact}]

\* Who is decided for: a view that names no faction matters to the rulebook, and whose
\* plans are whose to the memory.
For(where) == CASE where = "rulebook" -> {f1, nobody}
                [] where = "evidence" -> {f1}
                [] OTHER -> {f1, f2}

\* Only the evidence is written by two threads; where the memory is in question, its
\* directory cannot be written.
Alone == CHOOSE d \in Deciders : TRUE

VARIABLE scene
vars == <<groundingVars, guardVars, scene>>

Init == GroundingInit /\ GuardsInit /\ scene \in {"rulebook", "evidence", "memory", "guards"}
Next == /\ \/ /\ scene # "guards"
              /\ \/ Boundary \/ Deciding
                 \/ scene = "rulebook" /\ RulebookTurns
                 \/ scene = "evidence" /\ (Tick \/ Restart)
                 \/ scene = "memory" /\ (Ordering \/ MemoryTurns \/ Restart)
              /\ \A d \in Deciders : pc'[d] = "rows" =>
                     /\ view'[d].faction \in For(scene)
                     /\ IF scene = "evidence" THEN view'[d].turn = 1 ELSE d = Alone
              /\ scene = "memory" => \A d \in Deciders : pc'[d] # "write"
              /\ UNCHANGED guardVars
           \/ scene = "guards" /\ GuardsNext /\ UNCHANGED groundingVars
        /\ UNCHANGED scene
Spec == Init /\ [][Next]_vars

\* The type invariants of the parts.
KnowledgeTypeOK == GroundingTypeOK /\ GuardsTypeOK
================================================================================
