----------------------------- MODULE DirectivePlan -----------------------------
(* The pure half of directives.py: which directives can be accepted, which of   *)
(* them bear on a decision, how each stands against a world view and what an    *)
(* action would cost it.  A directive is a record; a world view is the turn,    *)
(* the metrics it reports, the entities it is about and its actions, each known *)
(* by the metrics it changes.  The prose of a path or a detail is left out.     *)
EXTENDS Integers, FiniteSets

CONSTANTS Vocabulary,    \* metrics.VOCABULARY, as far as the instance needs it
          RateOf,        \* RATE_OF: the metric that is a metric's rate of change
          Survival,      \* ALWAYS_SHOW_PRIORITY
          RelevanceLimit,
          MaxHops

ASSUME PlanConstantsOK == MaxHops \in Nat /\ {RelevanceLimit, Survival} \subseteq Int

\* A field the code leaves at None: no turn, target or reading is negative here.
None == -1

Comparators == {"at_least", "at_most", "increase", "decrease", "hold"}
IsRelative(d) == d.comparator \in {"increase", "decrease", "hold"}
Magnitude(x) == IF x < 0 THEN -x ELSE x

Reading(view, m) == IF m \in DOMAIN view.metrics THEN view.metrics[m] ELSE None

IsDirective(d) ==
    /\ d = [id |-> d.id, metric |-> d.metric, comparator |-> d.comparator,
            target |-> d.target, baseline |-> d.baseline, issued |-> d.issued,
            starts |-> d.starts, horizon |-> d.horizon, entities |-> d.entities,
            priority |-> d.priority]
    /\ d.id \in Nat \ {0}
    /\ {d.issued, d.starts, d.horizon, d.priority} \subseteq Int

(*---------------------------------------------------------------------------*)
(* Accepting.                                                                 *)

Valid(d) == /\ d.metric \in Vocabulary
            /\ IsRelative(d) \/ d.target # None
            /\ d.starts = None \/ d.horizon = None \/ d.starts <= d.horizon

BaselineFor(d, view) == IF d.baseline # None THEN d.baseline ELSE Reading(view, d.metric)

Stamped(d, view) ==
    [d EXCEPT !.issued = IF @ # None THEN @ ELSE view.turn, !.baseline = BaselineFor(d, view)]

Acceptable(d, view) == Valid(d) /\ (IsRelative(d) => BaselineFor(d, view) # None)

Accepted(issued, view) == {Stamped(d, view) : d \in {e \in issued : Acceptable(e, view)}}
Refused(issued, view) == {d.id : d \in {e \in issued : ~Acceptable(e, view)}}

(*---------------------------------------------------------------------------*)
(* Being in force.                                                            *)

Expired(d, turn) == d.horizon # None /\ turn > d.horizon
Active(d, turn) == (d.starts = None \/ turn >= d.starts) /\ ~Expired(d, turn)

Since(d) == CASE d.issued > 0 -> d.issued
              [] d.issued <= 0 /\ d.starts > 0 -> d.starts
              [] OTHER -> 0

(*---------------------------------------------------------------------------*)
(* Retrieving: a walk from what the decision touches, along shared entities.  *)

Touched(view) == {m \in Vocabulary : \E a \in view.actions : m \in DOMAIN a /\ a[m] # 0}

Seeds(live, view) == {d \in live : d.metric \in Touched(view)
                                   \/ d.entities \cap view.entities # {}}

\* The directives first reached at each hop.
Waves(live, view) ==
    LET wave[h \in 0..MaxHops] ==
            IF h = 0 THEN Seeds(live, view)
            ELSE LET frontier == UNION {d.entities : d \in wave[h - 1]}
                     nearer == UNION {wave[k] : k \in 0..h - 1}
                 IN {d \in live \ nearer : d.entities \cap frontier # {}}
    IN wave

\* Mutant: what is farther counts for more.
FartherScore(d, h, view) == 5 + h

WalkScore(d, h, view) == CASE h > 0 -> IF 4 - h > 1 THEN 4 - h ELSE 1
                           [] h = 0 /\ d.metric \in Touched(view) -> 6
                           [] OTHER -> 5

Hits(live, view) ==
    LET waves == Waves(live, view)
        reached == UNION {waves[h] : h \in 0..MaxHops}
        unmet == live \ reached
        survival == {d \in unmet : d.priority >= Survival}
        measured == {d \in unmet \ survival : d.metric \in DOMAIN view.metrics}
        walked == UNION {{[directive |-> d, hop |-> h, score |-> WalkScore(d, h, view)]
                          : d \in waves[h]} : h \in 0..MaxHops}
    IN walked
       \cup {[directive |-> d, hop |-> 0, score |-> 8] : d \in survival}
       \cup {[directive |-> d, hop |-> MaxHops + 1, score |-> 1] : d \in measured}

\* Best first: score, hop, priority, the later issued; then the plan's own order.
Key(h) == <<-h.score, h.hop, -h.directive.priority,
            IF h.directive.issued = None THEN 0 ELSE -h.directive.issued,
            Since(h.directive), h.directive.id>>
Before(g, h) == \E i \in 1..6 : /\ Key(g)[i] < Key(h)[i]
                                /\ \A j \in 1..i - 1 : Key(g)[j] = Key(h)[j]

\* The first RelevanceLimit of the ranking: those fewer come before than it holds.
Relevant(inForce, view) ==
    LET live == {d \in inForce : Active(d, view.turn)}
        found == Hits(live, view)
        hits == {h \in found : Cardinality({g \in found : Before(g, h)}) < RelevanceLimit}
    IN [hits |-> hits,
        dropped |-> {d.id : d \in live} \ {h.directive.id : h \in hits}]

Selected(selection) == {h.directive : h \in selection.hits}

(*---------------------------------------------------------------------------*)
(* Measuring.                                                                 *)

Holds(d, current) ==
    LET delta == current - d.baseline
    IN CASE d.comparator = "at_least" -> current >= d.target
         [] d.comparator = "at_most" -> current <= d.target
         [] d.comparator = "increase" -> delta > 0
         [] d.comparator = "decrease" -> delta < 0
         [] OTHER -> 10 * Magnitude(delta) <= Magnitude(d.baseline)

Status(d, view) == CASE Reading(view, d.metric) = None -> "unmeasured"
                     [] Holds(d, Reading(view, d.metric)) -> "satisfied"
                     [] OTHER -> "unsatisfied"

Evaluate(ds, view) ==
    {[id |-> d.id, entities |-> d.entities, is |-> Status(d, view)]
     : d \in {e \in ds : Active(e, view.turn)}}

\* Whole turns a change undoes, None where no rate is known or it is zero.
Setback(m, delta, view) ==
    LET rate == IF m \in DOMAIN RateOf THEN Reading(view, RateOf[m]) ELSE None
    IN IF rate \in {None, 0} THEN None ELSE Magnitude(delta) \div Magnitude(rate)

Tradeoffs(ds, view) ==
    LET Effect(p) == p[1][p[2].metric]
        Current(p) == Reading(view, p[2].metric)
    IN {[action |-> p[1], id |-> p[2].id, projected |-> Current(p) + Effect(p),
         violates |-> Holds(p[2], Current(p)) /\ ~Holds(p[2], Current(p) + Effect(p)),
         setback |-> Setback(p[2].metric, Effect(p), view)]
        : p \in {q \in view.actions \X ds :
                    /\ q[2].metric \in DOMAIN q[1] /\ Effect(q) # 0
                    /\ Current(q) # None}}

EntitiesShown(statuses) == UNION {s.entities : s \in statuses}
================================================================================
