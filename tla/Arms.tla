---------------------------------- MODULE Arms ----------------------------------
(* Two arms of an experiment, and what makes them comparable: the handicaps the *)
(* engine gives a faction by slot, difficulty and configuration (fairness.py),  *)
(* the block an adapter stamps on its observations, the log of an arm with the  *)
(* records of every faction in it, the comparison of two such logs              *)
(* (scripts/ab_outcomes.py) and the history of a metric a decision would be     *)
(* shown (trajectory.py).  A record's metric is the number of the record.       *)
EXTENDS Integers, Sequences, FiniteSets, SequencesExt

CONSTANTS Factions,    \* faction ids
          Ours,        \* the faction that is compared
          Setups,      \* how an arm may be set up: slot, level, config, stamps
          Offsets,     \* how far back a series looks
          LastTurn,    \* bound: turns
          MaxLines,    \* bound: records of both logs
          MinTurns     \* shared turns a comparison needs

ASSUME ArmsBoundsOK == /\ {LastTurn, MaxLines, MinTurns} \subseteq Nat
                       /\ Offsets \subseteq Nat \ {0} /\ Ours \in Factions

VARIABLES
    setup,   \* of each arm
    lines    \* the log of each arm

armVars == <<setup, lines>>
ArmNames == {"baseline", "brain"}

-------------------------------------------------------------------------------
(* The ledger.  Levels are 0 (citizen) to 5 (transcend). *)

Entry(id, selectedBy, favours) == [id |-> id, selected |-> selectedBy, favours |-> favours]

\* The configuration says whether changing production costs anything, whether support is
\* given away, and whether the computer's bases are as content as a player's.
ChosenRules(level, config) ==
    (IF config.support THEN {Entry("unit_support_bonus", "difficulty", "self")} ELSE {})
    \cup (IF level >= 4 THEN {Entry("facility_maint_discount", "difficulty", "self"),
                              Entry("terraform_speed", "difficulty", "self"),
                              Entry("mind_control_cost", "difficulty", "self")} ELSE {})
    \cup (IF level = 3 THEN {}
          ELSE {Entry("tech_cost_factor", "difficulty", IF level > 3 THEN "self" ELSE "other")})
    \cup (IF level < 3 THEN {Entry("combat_modifiers", "difficulty", "other")} ELSE {})

\* Three content citizens for the computer; six, less one for each level, for a player.
StructuralRules(level, config) ==
    {Entry("mineral_carry_over", "structural", "self"),
     Entry("eco_damage_rollback", "structural", "self"),
     Entry("former_automation", "structural", "self"),
     Entry("starting_units", "structural", "config"),
     Entry("project_race_block", "structural", "other")}
    \cup (IF config.retool THEN {Entry("retool_penalty", "structural", "self")} ELSE {})
    \cup (IF level < 4 THEN {Entry("global_warming", "structural", "self")} ELSE {})
    \cup (IF config.samePop \/ level = 3 THEN {}
          ELSE {Entry("content_pop", "structural", IF level > 3 THEN "self" ELSE "other")})
    \cup (IF level > 1 THEN {Entry("colony_pod_disband", "structural", "self")} ELSE {})

DefaultConfig == [retool |-> TRUE, support |-> FALSE, samePop |-> FALSE]

InForce(slot, level, config) ==
    IF slot = "human" THEN {} ELSE ChosenRules(level, config) \cup StructuralRules(level, config)

-------------------------------------------------------------------------------
(* What is stamped, and what is made of it. *)

NoBlock == [slot |-> "?", level |-> -1, handicaps |-> {}]

\* An adapter may stamp nothing, the inputs alone, or entries; those it knows, or fewer, or
\* one with the wrong sign.
Stamp(s) ==
    LET all == InForce(s.slot, s.level, s.config)
        one == CHOOSE h \in all : h.id = "eco_damage_rollback"
        Block(entries) == [slot |-> s.slot, level |-> s.level, handicaps |-> entries]
    IN CASE s.stamps = "nothing" -> NoBlock
         [] s.stamps = "inputs" -> Block({})
         [] s.stamps = "entries" -> Block(all)
         [] s.stamps = "fewer" -> Block(all \ {one})
         [] s.stamps = "signs" -> Block((all \ {one}) \cup {[one EXCEPT !.favours = "other"]})

Known(block) == block.slot # "?" /\ block.level # -1

\* Orchestrator._record: entries are derived where the inputs came alone.
FairnessProfile(block) ==
    {h.id : h \in IF Known(block) /\ block.handicaps = {}
                  THEN InForce(block.slot, block.level, DefaultConfig)
                  ELSE block.handicaps}

\* fairness.drift.
Drift(block, config) ==
    LET declared == block.handicaps
        expected == InForce(block.slot, block.level, config)
        IdsOf(entries) == {h.id : h \in entries}
    IN IF ~Known(block)
       THEN [missing |-> {}, unexpected |-> IdsOf(declared), mislabelled |-> {}]
       ELSE [missing |-> IdsOf(expected) \ IdsOf(declared),
             unexpected |-> IdsOf(declared) \ IdsOf(expected),
             mislabelled |-> {h.id : h \in {e \in expected : \E g \in declared :
                 g.id = e.id /\ (g.favours # e.favours \/ g.selected # e.selected)}}]
DriftClean(d) == d.missing = {} /\ d.unexpected = {} /\ d.mislabelled = {}

-------------------------------------------------------------------------------
(* Playing. *)

Total == Len(lines["baseline"]) + Len(lines["brain"])

ArmsInit == /\ setup \in [ArmNames -> Setups]
            /\ lines = [a \in ArmNames |-> <<>>]

\* The adapter logs a decision of some faction, of a later turn or, after a reload, of an
\* earlier one; the block is the faction's own.  The baseline is played before the brain's arm.
Observed(a, f, turn, tier) ==
    /\ Total < MaxLines
    /\ a = "baseline" => lines["brain"] = <<>>
    /\ lines' = [lines EXCEPT ![a] = Append(@,
           [turn |-> turn, faction |-> f, tier |-> tier, metric |-> Total + 1,
            block |-> IF f = Ours THEN Stamp(setup[a])
                      ELSE Stamp([setup[a] EXCEPT !.slot = "ai"])])]
    /\ UNCHANGED setup

ArmsNext == \E a \in ArmNames, f \in Factions, t \in 1..LastTurn, tier \in {"llm", "deterministic"} :
                Observed(a, f, t, tier)
ArmsSpec == ArmsInit /\ [][ArmsNext]_armVars

-------------------------------------------------------------------------------
(* Comparing. *)

\* load_arm: the last record of a turn has its metrics; the first block is the arm's.
OfFaction(log, faction) == SelectSeq(log, LAMBDA r : r.faction = faction)
TurnsOf(log) == {log[i].turn : i \in DOMAIN log}
LastRecord(log, turn) ==
    CHOOSE i \in DOMAIN log :
        log[i].turn = turn /\ \A j \in DOMAIN log : log[j].turn = turn => j <= i
MetricAt(log, turn) == log[LastRecord(log, turn)].metric
FirstBlock(log) == LET stamped == SelectSeq(log, LAMBDA r : r.block # NoBlock)
                   IN IF stamped = <<>> THEN NoBlock ELSE stamped[1].block
TiersOf(log) == {log[i].tier : i \in DOMAIN log}

\* profile_key: it reads a handicap's "name", and a handicap has an id; what is left of the
\* structural ones is how many there are.
ProfileKey(block) == <<block.slot, block.level,
                       Cardinality({h \in block.handicaps : h.selected = "structural"})>>

SameProfile(a, b) == ProfileKey(a) = ProfileKey(b)

\* main: all its refusals.
Compared(base, brain) ==
    LET b == OfFaction(base, Ours)
        m == OfFaction(brain, Ours)
    IN /\ b # <<>> /\ m # <<>>
       /\ SameProfile(FirstBlock(b), FirstBlock(m))
       /\ Cardinality(TurnsOf(b) \cap TurnsOf(m)) >= MinTurns
       /\ "llm" \notin TiersOf(b) /\ "llm" \in TiersOf(m)

-------------------------------------------------------------------------------
(* Trajectory. *)

None == <<>>

\* The history a series is made of: records of one faction, by their places in the log.
HistoryOf(log, faction) == {i \in DOMAIN log : log[i].faction = faction}

\* _nearest_at_or_before: the highest turn in the window, and the first record of it.
Nearest(log, history, window) ==
    LET held == {i \in history : log[i].turn \in window}
    IN IF held = {} THEN None
       ELSE LET best == CHOOSE i \in held : \A j \in held :
                            log[j].turn < log[i].turn \/ (log[j].turn = log[i].turn /\ i <= j)
            IN <<log[best].turn, log[best].metric>>

\* Mutant: a value of any age is taken.
AgeWindow(turn, offset) == 0..(turn - offset)
\* No older than twice the offset.
Window(turn, offset) == (turn - 2 * offset)..(turn - offset)

\* derive: nothing of a metric that this turn does not report.
Series(log, history, turn) ==
    LET current == Nearest(log, history, {turn})
        Past(k) == Nearest(log, history, Window(turn, k))
    IN IF current = None THEN None
       ELSE [current |-> current[2],
             at |-> [k \in {k \in Offsets : Past(k) # None} |-> Past(k)[2]]]

-------------------------------------------------------------------------------
(* Properties. *)

\* A decision of the computer's slot is never recorded as free of handicaps once its block
\* names slot and difficulty; one of a player's slot, rightly stamped, is
\* (orchestrator.py: _record, fairness.py: profile).
FairPlayIsEarned ==
    \A a \in ArmNames : \A r \in ToSet(lines[a]) :
        Known(r.block) => (FairnessProfile(r.block) = {} <=> r.block.slot = "human")

\* A comparison that is made compares two games of one slot and one difficulty, the engine's
\* against one that asked a brain, and nothing of another faction's (ab_outcomes.py: main).
ComparedIsFair ==
    Compared(lines["baseline"], lines["brain"])
        => /\ (\E a \in ArmNames : setup[a].stamps # "nothing") =>
              setup["baseline"].slot = setup["brain"].slot
              /\ setup["baseline"].level = setup["brain"].level
           /\ \E r \in ToSet(lines["brain"]) : r.faction = Ours /\ r.tier = "llm"
           /\ ~\E r \in ToSet(lines["baseline"]) : r.faction = Ours /\ r.tier = "llm"

\* Under the heading of an offset stands what was observed about then: not earlier than twice
\* the offset, not later than the offset, and nothing nearer to it was passed over
\* (trajectory.py: _nearest_at_or_before, derive).
SeriesIsHonest ==
    \A a \in ArmNames, t \in 1..LastTurn :
        LET s == Series(lines[a], HistoryOf(lines[a], Ours), t)
            seen == {r \in ToSet(lines[a]) : r.faction = Ours}
        IN s # None =>
             /\ \E r \in seen : r.turn = t /\ r.metric = s.current
             /\ \A k \in DOMAIN s.at : \E r \in seen :
                   /\ r.metric = s.at[k] /\ r.turn \in (t - 2 * k)..(t - k)
                   /\ ~\E q \in seen : q.turn > r.turn /\ q.turn <= t - k

-------------------------------------------------------------------------------
(* What a document or a comment says and the code does not keep. *)

\* "Slot, difficulty, and the STRUCTURAL handicaps" (ab_outcomes.py: profile_key): two arms
\* that are compared share them.
ComparableMeansSameRules ==
    Compared(lines["baseline"], lines["brain"])
        => LET Imposed(a) == {h.id : h \in {e \in
                   InForce(setup[a].slot, setup[a].level, setup[a].config) : e.selected = "structural"}}
           IN Imposed("baseline") = Imposed("brain")

\* "An adapter that quietly stops stamping ... This is what makes that visible"
\* (fairness.py: Drift): one that stamps nothing drifts clean.
DriftSeesSilence ==
    \A a \in ArmNames : \A r \in ToSet(lines[a]) :
        DriftClean(Drift(r.block, setup[a].config)) => r.block # NoBlock

\* "the most recent observation at or before each point wins" (trajectory.py: derive): of
\* one turn's, the first does, and the comparison has the last.
SeriesTakesLatest ==
    \A a \in ArmNames, t \in 1..LastTurn :
        LET own == OfFaction(lines[a], Ours)
            s == Series(lines[a], HistoryOf(lines[a], Ours), t)
        IN s # None => s.current = MetricAt(own, t)

\* What is recorded as in force is (fairness.py: module comment): entries are derived for a
\* stock configuration whatever the game's is.
RecordedIsInForce ==
    \A a \in ArmNames : \A r \in ToSet(lines[a]) :
        r.block.slot = "ai" /\ setup[a].stamps = "inputs"
            => FairnessProfile(r.block) = {h.id : h \in InForce("ai", setup[a].level, setup[a].config)}
================================================================================
