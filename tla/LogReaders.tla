------------------------------- MODULE LogReaders -------------------------------
(* Those who read a run's log afterwards, or while it grows: the workflow       *)
(* export (workflow_export.py), the replay (replay.py), the health report       *)
(* (coverage.py), the memory extraction (memory.py: episodes), the dashboard    *)
(* (dashboard.py), the carry report and the directive report (scripts/).  Each  *)
(* is a function of the lines.  DecisionLog.read raises at a line that is no    *)
(* record, so the export, the replay and the dashboard have all of the log or   *)
(* nothing; the memory and the two reports pass over such a line.               *)
EXTENDS RunLog, FiniteSetsExt, Functions

Is(r) == r # Garbage
Readable(lines) == SelectSeq(lines, Is)
ReadLines(lines) == {i \in DOMAIN lines : Is(lines[i])}
Refused(lines) == Garbage \in ToSet(lines)
Numbered(lines, P(_)) == Quantify(DOMAIN lines, LAMBDA i : P(lines[i]))

-------------------------------------------------------------------------------
(* Carry report. *)

EmptyFunnel == [reviews |-> 0, clean |-> 0, issuedAt |-> <<>>, life |-> 0, mixed |-> FALSE,
                chances |-> 0, revised |-> 0, followed |-> 0, overrode |-> 0, passed |-> 0]

Ids(f) == DOMAIN f.issuedAt

\* A chance is a directive some earlier record issued, on an earlier turn, that this record
\* shows; one that was issued again is revised, whatever else is said of it.
Counted(r, f) ==
    LET review == r.tier = "review"
        relevant == r.issued # {} \/ Ids(f) # {}
        chances == {d \in r.inForce \cap Ids(f) : r.turn > f.issuedAt[d]}
        revised == chances \cap r.issued
        followed == (chances \ revised) \cap r.followed
        overrode == (chances \ (revised \cup followed)) \cap r.overrode
    IN [f EXCEPT
           !.reviews = @ + (IF review THEN 1 ELSE 0),
           !.clean = @ + (IF review /\ ~r.degraded /\ ~r.rejected THEN 1 ELSE 0),
           !.life = IF relevant /\ @ = 0 THEN r.boot ELSE @,
           !.mixed = @ \/ (relevant /\ f.life \notin {0, r.boot}),
           !.chances = @ + Cardinality(chances),
           !.revised = @ + Cardinality(revised),
           !.followed = @ + Cardinality(followed),
           !.overrode = @ + Cardinality(overrode),
           !.passed = @ + Cardinality(chances \ (revised \cup followed \cup overrode))]

\* Mutant: an id issued again takes the turn it was issued again.
ObserveLatest(r, f) ==
    [Counted(r, f) EXCEPT !.issuedAt =
        [d \in Ids(f) \cup r.issued |-> IF d \in r.issued THEN r.turn ELSE @[d]]]
\* _observe_funnel.
Observe(r, f) ==
    [Counted(r, f) EXCEPT !.issuedAt =
        [d \in Ids(f) \cup r.issued |-> IF d \in Ids(f) THEN @[d] ELSE r.turn]]

\* After each line: one that is no record is passed over.
Funnels(lines) ==
    LET funnel[n \in 0..Len(lines)] ==
            IF n = 0 THEN EmptyFunnel
            ELSE IF Is(lines[n]) THEN Observe(lines[n], funnel[n - 1]) ELSE funnel[n - 1]
    IN funnel
Funnel(lines) == Funnels(lines)[Len(lines)]

\* carry_contract_errors; `brains`: those the records name.
CarryProven(lines, brains, required) ==
    LET f == Funnel(lines)
    IN /\ ~f.mixed /\ f.life # 0
       /\ brains = {required}
       /\ \E r \in ToSet(Readable(lines)) : r.tier = "llm" /\ ~r.degraded
       /\ f.clean >= 1 /\ Ids(f) # {} /\ f.chances >= 1 /\ f.followed >= 1

\* The brains a decision log names: a record holds a model, and no brain (DecisionRecord).
BrainsOf(lines) == {r.brain : r \in {s \in ToSet(Readable(lines)) : "brain" \in DOMAIN s}}

-------------------------------------------------------------------------------
(* Directive report and dashboard. *)

Plans == {"inForce", "followed", "overrode", "unmeasured"}

\* directive_report.tally: what each record says of a directive, counted as it stands.
Tally(lines, d, what) == Quantify(ReadLines(lines), LAMBDA i : d \in lines[i][what])

\* Attention, as a pair: followed over those whose metric was reported.
Attention(lines, d) ==
    [over |-> Tally(lines, d, "inForce") - Tally(lines, d, "unmeasured"),
     followed |-> Tally(lines, d, "followed")]

\* DashboardReader.strategy: counted only where the directive was in force.
StrategyTotal(lines, d, what) ==
    Numbered(lines, LAMBDA r : d \in r.inForce /\ d \in r[what])

\* DashboardReader.live: the head of the page is the record of the highest turn, the first of them.
Newest(lines) == CHOOSE i \in DOMAIN lines :
    \A j \in DOMAIN lines : lines[j].turn < lines[i].turn \/ (lines[j].turn = lines[i].turn /\ i <= j)

-------------------------------------------------------------------------------
(* Workflow export, replay, coverage, memory. *)

\* transitions_records: a whole log of one game, one step for each turn it holds.
Exports(lines) == /\ lines # <<>> /\ ~Refused(lines)
                  /\ Cardinality({r.boot : r \in ToSet(lines)}) = 1
Steps(lines) == Cardinality({r.turn : r \in ToSet(lines)}) + 1

\* Orchestrator.decide over a stored input by the brain that answered it.  A review was not
\* decided there: it offers no action, and no answer without one survives.
SameAgain(r) == IF r.surface = ReviewSurface THEN [chosen |-> "none", degraded |-> TRUE]
                ELSE [chosen |-> r.chosen, degraded |-> r.degraded]

\* replay: each input that is kept is decided again; SameAgain is what a record's input gets.
Replay(lines, kept) ==
    LET had == SelectSeq(lines, LAMBDA r : Key(r) \in kept)
        differ == SelectSeq(had, LAMBDA r : SameAgain(r).chosen # r.chosen)
    IN [total |-> Len(lines),
        missing |-> Len(lines) - Len(had),
        matched |-> Len(had) - Len(differ),
        diverged |-> Len(differ),
        newDegradations |-> Numbered(had, LAMBDA r : SameAgain(r).degraded /\ ~r.degraded),
        before |-> {r.surface : r \in ToSet(lines)},
        after |-> {r.surface : r \in ToSet(had)}]
ReplayConsistent(c) == c.newDegradations = 0 /\ c.before = c.after

\* coverage.report: everything that is not of the llm tier is the engine's.
DegradeRate(lines) == [degraded |-> Numbered(lines, LAMBDA r : r.degraded),
                       over |-> Numbered(lines, LAMBDA r : r.tier = "llm")]

\* memory.episodes: the game is the first record's; what is learned is what the brain chose.
Considered(r) == r.tier = "llm" /\ ~r.degraded /\ r.chosen # "none"
LearnedOf(lines) == Readable(lines)[1].boot
NodeOf(lines, r) == <<LearnedOf(lines), r.turn, r.surface>>
Tactics(lines, threshold) ==
    LET held == SelectSeq(Readable(lines), Considered)
    IN {t \in {<<r.surface, r.chosen>> : r \in ToSet(held)} :
            Numbered(held, LAMBDA r : <<r.surface, r.chosen>> = t) >= threshold}

-------------------------------------------------------------------------------
(* Properties. *)

Views == [turn : 1..MaxTurn, surface : Surfaces, told : BOOLEAN]
Started == [n : 1..MaxTaken, boot : 1..MaxBoots, turn : 1..MaxTurn, surface : Surfaces,
            told : BOOLEAN]
Chosen == {a.chosen : a \in Shapes}
Everything == Seeded \cup UNION {a.issued : a \in Shapes}
Records == [n : 1..MaxTaken, boot : 1..MaxBoots, turn : 1..MaxTurn, surface : Surfaces,
            told : BOOLEAN, tier : {a.tier : a \in Shapes}, degraded : BOOLEAN,
            chosen : Chosen, inForce : SUBSET Everything, followed : SUBSET Everything,
            overrode : SUBSET Everything, unmeasured : SUBSET Everything,
            issued : SUBSET Everything, rejected : BOOLEAN]

Fits(where, r) == \/ where = "idle" /\ r = Unmade
                  \/ where \in {"put", "putting", "deciding"} /\ r \in Started
                  \/ where \in {"logging", "spans"} /\ r \in Records

\* A thread holds a record that fits its place; the store, the log and the counts are of
\* their types, and a file no longer being written is whole or was left undone.
RecordsTypeOK ==
    /\ boot \in 1..MaxBoots /\ turn \in 1..MaxTurn
    /\ taken \in 0..MaxTaken /\ faults \in 0..MaxFaults /\ failures \in Nat
    /\ place \in [Deciders -> {"idle", "put", "putting", "deciding", "logging", "spans"}]
    /\ record = [d \in Deciders |-> record[d]]
    /\ \A d \in Deciders : Fits(place[d], record[d])
    /\ whole \subseteq Views /\ undone \subseteq Views
    /\ spoiled \subseteq Views \ whole
    /\ spoiled \subseteq undone \cup {Key(record[d]) : d \in {e \in Deciders : place[e] = "putting"}}
    /\ standing \subseteq Everything
    /\ log \in Seq(Records \cup {Garbage})
    /\ open => Refused(log)
    /\ replied \subseteq Records /\ lossy \subseteq 1..boot

\* An answered decision that no reader finds was lost in a life whose telemetry says so, or
\* swallowed by a torn line: no more of them than the log has torn lines
\* (DecisionLog.write, Emitter.emit, memory._decisions).
LossIsBounded ==
    LET lost == {r \in replied : r \notin ToSet(log) /\ r.boot \notin lossy}
    IN Cardinality(lost) <= Numbered(log, LAMBDA r : r = Garbage)

\* A log that exports, of a life whose telemetry was healthy to its end, holds every decision
\* that life answered, and the exported run a step for each of their turns
\* (workflow_export.transitions_records, Emitter.healthy).
ExportedIsWhole ==
    Exports(log) /\ log[1].boot \notin lossy
        => LET played == {r \in replied : r.boot = log[1].boot}
           IN played \subseteq ToSet(log) /\ Steps(log) > Cardinality({r.turn : r \in played})

\* The input of a logged decision that nothing was added to is in the store, unless a write
\* of it did not end: that input is then refused to every reader for good
\* (WorldViewStore.put and get, orchestrator.py:403).
InputKept ==
    (\A d \in Deciders : place[d] # "putting") /\ undone = {}
        => Replay(Readable(log), whole).missing
               = Numbered(Readable(log), LAMBDA r : r.told)

\* What the log says of the directives it issued: by the line that issued it first, and
\* the lines after it, on a later turn, that show it.
IssuedIn(lines) == UNION {lines[i].issued : i \in ReadLines(lines)}
FirstIssue(lines, d) ==
    CHOOSE i \in ReadLines(lines) : /\ d \in lines[i].issued
                                   /\ \A j \in ReadLines(lines) : j < i => d \notin lines[j].issued
Chances(lines) ==
    {c \in ReadLines(lines) \X IssuedIn(lines) :
        LET first == FirstIssue(lines, c[2])
        IN first < c[1] /\ c[2] \in lines[c[1]].inForce /\ lines[c[1]].turn > lines[first].turn}

\* The carry report's one pass over the log counts what the log says: the later records, on
\* a later turn than the first that issued it, that show an issued directive; each of them
\* once and under one heading; and a log without an error is one life's (_observe_funnel).
FunnelCountsOnce ==
    LET f == Funnel(log)
    IN /\ Ids(f) = IssuedIn(log)
       /\ f.chances = Cardinality(Chances(log))
       /\ f.revised + f.followed + f.overrode + f.passed = f.chances
       /\ f.followed <= Cardinality({c \in Chances(log) : c[2] \in log[c[1]].followed})
       /\ ~f.mixed => \E b \in 0..boot : \A i \in ReadLines(log) :
              (\E d \in IssuedIn(log) : FirstIssue(log, d) <= i) => log[i].boot = b

\* The page and the report agree on every total of every directive, and the carry report
\* claims no more (dashboard.py: strategy; directive_report.py: tally; carry_report.py).
ReportersAgree ==
    /\ ~Refused(log) => \A d \in Everything, what \in Plans :
           StrategyTotal(log, d, what) = Tally(log, d, what)
    /\ LET All(what) == Cardinality({c \in ReadLines(log) \X Everything : c[2] \in log[c[1]][what]})
       IN Funnel(log).chances <= All("inForce") /\ Funnel(log).followed <= All("followed")

-------------------------------------------------------------------------------
(* What a document or a comment says of these readers and the code does not     *)
(* keep: Records.cfg, or the cfg named, refutes each of them in place of its own.   *)

\* "the stored bytes are exactly what the brain saw and the record's hash addresses them"
\* (orchestrator.py:399): an advisory joins the view after it was stored.
InputIsStored ==
    undone = {} => \A r \in ToSet(Readable(log)) :
        Key(r) \in whole \cup {Key(record[d]) : d \in {e \in Deciders : place[e] = "putting"}}

\* "Share of LLM-tier decisions that came from the fallback" (coverage.py): a degraded
\* review counts above the line and not below it.
DegradeRateIsAShare == LET rate == DegradeRate(Readable(log)) IN rate.degraded <= rate.over

\* "Every replayed decision matched", and nothing newly broke (replay.py): a review is
\* replayed as a decision with nothing to choose from.
ReplayIsConsistent == Replay(Readable(log), whole).newDegradations = 0

\* Attention is a rate (directive_report.py): what is followed need not be measurable.
AttentionIsARate == \A d \in Everything : LET a == Attention(log, d) IN a.followed <= a.over

\* The head of the page is the game's turn (dashboard.py: live): a reload goes behind it.
HeaderIsCurrent ==
    log # <<>> /\ ~Refused(log) => log[Newest(log)].turn = log[Len(log)].turn

\* "a finished game is exportable as a workflow run" (workflow_export.py:3): not once the
\* server was started again, or a line was torn.
FinishedGameExports == log # <<>> => Exports(log)

\* A decision is one node (memory.py: episodes): two of a surface and a turn share one.
NodesDistinct ==
    LET lines == Readable(log)
    IN \A i, j \in DOMAIN lines :
           Considered(lines[i]) /\ Considered(lines[j]) /\ NodeOf(log, lines[i]) = NodeOf(log, lines[j])
               => i = j

\* A tactic is of the game it says it was learned in (memory.py: _tactics).
LearnedInItsGame ==
    \A t \in Tactics(log, 3) : \A r \in ToSet(Readable(log)) :
        Considered(r) /\ <<r.surface, r.chosen>> = t => r.boot = LearnedOf(log)

\* "it exits nonzero unless one run identity proves the requested brain"
\* (docs/long-horizon-play.md:547): of a decision log, it always does.
CarryCanBeProven ==
    LET f == Funnel(log)
    IN ~f.mixed /\ f.clean >= 1 /\ f.followed >= 1 => CarryProven(log, BrainsOf(log), "claude-code")

================================================================================
