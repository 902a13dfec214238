------------------------------- MODULE WinLadder -------------------------------
(* scripts/win_ladder.py: the scored seeds, and the report over them.  The      *)
(* script has no runner of its own (cmd_run refuses), so the games are played,  *)
(* read and recorded by an external one that uses its verdict and viability.    *)
EXTENDS Naturals, FiniteSets

CONSTANTS Seeds, LadderArms,
          Profiles,      \* fairness profiles (ab_outcomes.profile_key)
          MaxPlayed      \* bound: games recorded

ASSUME LadderBoundsOK == MaxPlayed \in Nat

VARIABLES rows,    \* the results file: (seed, arm) |-> [outcome, profile, winner]
          report,  \* the last report
          played

ladderVars == <<rows, report, played>>

Sides == {"ours", "rival"}
Nobody == "nobody"
NoReport == [refused |-> FALSE, met |-> {}]

\* What the running game would say: parse_state's fields, and who in truth won it.
Games == {g \in [done : BOOLEAN, victory : {"none", "conquest", "diplomatic"},
                 bases : [Sides -> {0, 1, 2}], winner : Sides \cup {Nobody}] :
            /\ g.winner = Nobody <=> ~(g.done /\ g.victory # "none")
            /\ g.winner # Nobody => g.bases[g.winner] > 0
            /\ g.victory = "conquest" /\ g.done
                 => \A f \in Sides : g.bases[f] > 0 => f = g.winner}

LadderInit == rows = <<>> /\ report = NoReport /\ played = 0

\* viability: the bar is the same for every faction.
VIABLE_BASES == 2
Viable(bases) == \A f \in Sides : bases[f] >= VIABLE_BASES

Rivals(g) == {f \in Sides \ {"ours"} : g.bases[f] > 0}

\* Mutant: any victory while we hold bases is ours.
AnyVictory(g, answered) ==
    CASE ~answered \/ ~g.done -> "unresolved"
      [] answered /\ g.done /\ g.victory # "none" -> IF g.bases["ours"] > 0 THEN "win" ELSE "loss"
      [] OTHER -> IF g.bases["ours"] = 0 THEN "loss" ELSE "unresolved"

\* verdict; answered is FALSE when read_state's twenty seconds passed in silence.
Outcome(g, answered) ==
    CASE ~answered \/ ~g.done -> "unresolved"
      [] answered /\ g.done /\ g.victory # "none" ->
            IF g.bases["ours"] > 0 /\ Rivals(g) = {} THEN "win" ELSE "loss"
      [] OTHER -> IF g.bases["ours"] = 0 THEN "loss" ELSE "unresolved"

\* What a played seed can come to: refused when a faction is below the bar at the
\* checkpoint, and else its verdict.
Results == {[outcome |-> IF Viable(early) THEN Outcome(g, answered) ELSE "unplayable",
             winner |-> IF Viable(early) THEN g.winner ELSE Nobody] :
                g \in Games, answered \in BOOLEAN, early \in [Sides -> {1, 2}]}

\* load, and save over an earlier row of the same seed and arm.
Record(seed, arm, profile) ==
    /\ played < MaxPlayed /\ played' = played + 1
    /\ \E r \in Results :
         rows' = [k \in DOMAIN rows \cup {<<seed, arm>>} |->
                    IF k = <<seed, arm>>
                    THEN [outcome |-> r.outcome, winner |-> r.winner, profile |-> profile]
                    ELSE rows[k]]
    /\ report' = NoReport

\* cmd_report: all rows under one profile, refused seeds set aside, the goal per arm.
Playable(arm) == {k \in DOMAIN rows : k[2] = arm /\ rows[k].outcome # "unplayable"}
Wins(arm) == {k \in Playable(arm) : rows[k].outcome = "win"}
Met(arm) == Cardinality(Playable(arm)) >= 3 /\ Cardinality(Wins(arm)) >= 2

Report == /\ rows # <<>>
          /\ LET mixed == Cardinality({rows[k].profile : k \in DOMAIN rows}) > 1
             IN  report' = [refused |-> mixed,
                            met |-> IF mixed THEN {} ELSE {arm \in LadderArms : Met(arm)}]
          /\ UNCHANGED <<rows, played>>

LadderNext == Report \/ \E s \in Seeds, a \in LadderArms, p \in Profiles : Record(s, a, p)

LadderSpec == LadderInit /\ [][LadderNext]_ladderVars

(*---------------------------------------------------------------------------*)
(* Properties.                                                                *)

LadderTypeOK == /\ DOMAIN rows \subseteq Seeds \X LadderArms /\ played \in 0..MaxPlayed
                /\ \A k \in DOMAIN rows :
                     rows[k].outcome \in {"win", "loss", "unresolved", "unplayable"}

\* An arm reported to have met the goal truly won two games, of at least three
\* played under one fairness profile, whatever was left unanswered, refused or
\* replayed in between ("make that number un-arguable", the script's docstring).
MetIsEarned ==
    \A arm \in report.met :
       LET games == {k \in DOMAIN rows : k[2] = arm}
       IN  /\ Cardinality({k \in games : rows[k].winner = "ours"}) >= 2
           /\ Cardinality(games) >= 3
           /\ \A k1, k2 \in DOMAIN rows : rows[k1].profile = rows[k2].profile

\* "anything else is reported as won-by-someone and left for a human" (verdict): a
\* game we won is not scored as lost.
OwnVictoryIsNoLoss ==
    \A k \in DOMAIN rows : rows[k].winner = "ours" => rows[k].outcome # "loss"

\* "wins a standard game ..., 2 of 3 seeded games".
MetIsTwoOfThree ==
    \A arm \in report.met : 3 * Cardinality(Wins(arm)) >= 2 * Cardinality(Playable(arm))
================================================================================
