---------------------------- MODULE DirectiveStore -----------------------------
(* The standing plan as the service keeps it: DirectiveStore's map and its      *)
(* file, and the requests that read and write them (Orchestrator.decide and     *)
(* review around the brain's call).  Requests run on the server's threads and   *)
(* nothing locks the map.  The service may die between any two steps and is     *)
(* started again on the same files.                                             *)
EXTENDS DirectivePlan

CONSTANTS Requests,    \* threads serving /decide, and the reviews
          Issuable,    \* the directives a brain may write
          Views,       \* what a request may be about: world views without a turn
          Seed,        \* the plan file the service starts from: a set of directives
          Separate,    \* TRUE: state_path is configured beside the seed
          MaxTurn,     \* bound: turns
          MaxAsked,    \* bound: requests made
          MaxCrashes,  \* bound: deaths of the service
          MaxRefusals  \* bound: saves the disk refuses

ASSUME BoundsOK == /\ {MaxTurn, MaxAsked, MaxCrashes, MaxRefusals} \subseteq Nat /\ MaxTurn > 0
                   /\ Separate \in BOOLEAN

\* The seed is the map a file was loaded into: one of each id.
ASSUME DirectivesOK == /\ IsFiniteSet(Issuable) /\ IsFiniteSet(Seed)
                       /\ \A d \in Issuable \cup Seed : IsDirective(d)
                       /\ \A d, e \in Seed : d.id = e.id => d = e

\* A world view without its turn.
ASSUME ViewsOK == \A v \in Views : v = [turn |-> v.turn, metrics |-> v.metrics,
                                        actions |-> v.actions, entities |-> v.entities]

VARIABLES
    turn,      \* the turn the game is at
    asked,     \* requests made so far
    crashes,   \* deaths of the service so far
    refusals,  \* saves the disk refused so far
    blank,     \* whether the service started on a file it could not read
    byId,      \* DirectiveStore._by_id: a set of directives, one of each id
    object,    \* how often _by_id was bound to another dict
    disk,      \* the file at DirectiveStore.path
    pc,        \* where each request is
    req,       \* what each request is about, and what it has read and decided
    standing,  \* history: what was accepted, the last of each id, since the last start
    missed,    \* history: whether the last save failed
    crossed    \* history: whether two requests were at the plan at once since then

vars == <<turn, asked, crashes, refusals, blank, byId, object, disk, pc, req, standing, missed, crossed>>
process == <<turn, asked, crashes, refusals, blank>>
plan == <<byId, object, standing>>
history == <<missed, crossed>>

Ids == {d.id : d \in Issuable \cup Seed}
Without(ds, ids) == {d \in ds : d.id \notin ids}
Put(ds, new) == Without(ds, {d.id : d \in new}) \cup new
IdsOf(ds) == {d.id : d \in ds}

Absent == [is |-> "absent", plan |-> {}]
Emptied == [is |-> "emptied", plan |-> {}]
Torn == [is |-> "torn", plan |-> {}]
Whole(ds) == [is |-> "whole", plan |-> ds]

\* Mutant: the seed is read last and wins over what was saved.
SeedWins(file) ==
    CASE file.is = "absent" -> Seed
      [] file.is = "whole" -> Put(file.plan, Seed)
      [] OTHER -> {}

\* DirectiveStore.__init__: the seed, then what was saved; a file that cannot be
\* read clears everything loaded before it.
Loaded(file) ==
    LET seed == IF Separate THEN Seed ELSE {}
    IN CASE file.is = "absent" -> seed
         [] file.is = "whole" -> Put(seed, file.plan)
         [] OTHER -> {}

Idle == [view |-> [turn |-> 0, metrics |-> <<>>, actions |-> {}, entities |-> {}],
         review |-> FALSE, seen |-> {}, of |-> 0, text |-> {}, then |-> "none",
         live |-> {}, shown |-> {}, dropped |-> {}, statuses |-> {}, due |-> {},
         issued |-> {}, refused |-> {}]

Init == /\ turn = 1 /\ asked = 0 /\ crashes = 0 /\ refusals = 0 /\ object = 0
        /\ disk = IF Separate THEN Absent ELSE Whole(Seed)
        /\ byId = Seed
        /\ blank = FALSE
        /\ pc = [r \in Requests |-> "idle"]
        /\ req = [r \in Requests |-> Idle]
        /\ standing = Seed
        /\ missed = FALSE /\ crossed = FALSE

(*---------------------------------------------------------------------------*)
(* Reading a dict another thread may write.  A key added or removed under an  *)
(* iteration raises; a value replaced may or may not be the one met; a dict   *)
(* that is no longer the store's is what it was.                              *)
Raised == {[id |-> 0]}
Iterated(r) ==
    CASE req[r].of # object -> {req[r].seen}
      [] req[r].of = object /\ IdsOf(byId) # IdsOf(req[r].seen) -> {Raised}
      [] OTHER -> {req[r].seen, byId}

Saving == {"serialising", "opening", "writing"}
Seeing(r) == [req[r] EXCEPT !.seen = byId, !.of = object]
Goto(r, label) == pc' = [pc EXCEPT ![r] = label]

\* From its start to the reading of the plan and the save that may need, and again from
\* the taking of what was written to its save, a request is at the plan.
AtThePlan == {"reading", "pruning", "serialising", "opening", "writing"}
Approach(r) == crossed' = (crossed \/ \E s \in Requests \ {r} : pc[s] \in AtThePlan)

\* What the rest of the request sees once in_force has returned `ds`, or raised.
\* A decision is shown what relates to it; a review is shown the whole plan.
Shown(r, ds) ==
    LET view == req[r].view
        live == {d \in ds : Active(d, view.turn)}
        selection == Relevant(live, view)
        shown == IF req[r].review THEN live ELSE Selected(selection)
    IN [req[r] EXCEPT !.live = live, !.shown = shown,
                      !.dropped = IF req[r].review THEN {} ELSE selection.dropped,
                      !.statuses = Evaluate(shown, view),
                      !.due = {d \in standing : Active(d, view.turn)}]

\* The service is asked for a decision, or the game's turn boundary for a review.
Ask(r, view, review) ==
    /\ pc[r] = "idle" /\ asked < MaxAsked
    /\ asked' = asked + 1
    /\ req' = [req EXCEPT ![r] = [Idle EXCEPT
                  !.view = [view EXCEPT !.turn = turn,
                                        !.actions = IF review THEN {} ELSE @],
                  !.review = review]]
    /\ Goto(r, "reading")
    /\ Approach(r)
    /\ UNCHANGED <<turn, crashes, refusals, blank, plan, disk, missed>>

\* in_force, up to the rebuilding of the map.
Read(r) ==
    /\ pc[r] = "reading"
    /\ IF \E d \in byId : Expired(d, req[r].view.turn)
       THEN req' = [req EXCEPT ![r] = Seeing(r)] /\ Goto(r, "pruning")
       ELSE req' = [req EXCEPT ![r] = Shown(r, byId)] /\ Goto(r, "shown")
    /\ UNCHANGED <<process, plan, disk, history>>

\* An exception on the way costs a decision its plan, and the review itself.
GiveUp(r) ==
    IF req[r].review
    THEN Goto(r, "idle") /\ req' = [req EXCEPT ![r] = Idle]
    ELSE Goto(r, "shown") /\ req' = [req EXCEPT ![r] = [Shown(r, {}) EXCEPT !.then = "raised"]]

\* Mutant: what has not started is pruned with what is over.
PruneInactive(r) ==
    /\ pc[r] = "pruning"
    /\ byId' = {d \in byId : Active(d, req[r].view.turn)}
    /\ object' = object + 1
    /\ req' = [req EXCEPT ![r] = [@ EXCEPT !.seen = byId', !.of = object', !.then = "pruned"]]
    /\ Goto(r, "serialising")
    /\ UNCHANGED <<process, disk, standing, history>>

Prune(r) ==
    /\ pc[r] = "pruning"
    /\ \E seen \in Iterated(r) :
         IF seen = Raised
         THEN GiveUp(r) /\ UNCHANGED <<byId, object>>
         ELSE /\ byId' = {d \in seen : ~Expired(d, req[r].view.turn)}
              /\ object' = object + 1
              /\ req' = [req EXCEPT ![r] = [@ EXCEPT !.seen = byId', !.of = object',
                                                     !.then = "pruned"]]
              /\ Goto(r, "serialising")
    /\ UNCHANGED <<process, disk, standing, history>>

\* The brain answers from what it was shown, or degrades.  _issue takes nothing of
\* a degraded answer; a review refuses a horizon that is not in the future.
Answer(r, degraded, written) ==
    LET view == req[r].view
        candidates == IF req[r].review
                      THEN {d \in written : d.horizon # None /\ d.horizon > view.turn}
                      ELSE written
        accepted == IF degraded THEN {} ELSE Accepted(candidates, view)
    IN /\ pc[r] = "shown"
       /\ byId' = Put(byId, accepted)
       /\ standing' = Put(standing, accepted)
       /\ req' = [req EXCEPT ![r] =
                    [@ EXCEPT !.seen = byId', !.of = object, !.then = "issued",
                              !.issued = IdsOf(accepted),
                              !.refused = IdsOf(written) \ IdsOf(accepted)]]
       /\ IF accepted = {} THEN Goto(r, "recording") /\ UNCHANGED crossed
                           ELSE Goto(r, "serialising") /\ Approach(r)
       /\ UNCHANGED <<process, object, disk, missed>>

\* _save raises, and is not tried again.  in_force raises with it; of what was issued the
\* map keeps what the record calls refused.
Unsaved(r) ==
    /\ missed' = TRUE
    /\ IF req[r].then = "pruned" THEN GiveUp(r)
       ELSE /\ Goto(r, "recording")
            /\ req' = [req EXCEPT ![r] = [@ EXCEPT !.refused = req[r].refused \cup req[r].issued,
                                                   !.issued = {}]]

\* _save: the text is made, the file is cut to nothing, the text is written.
Serialise(r) ==
    /\ pc[r] = "serialising"
    /\ \E seen \in Iterated(r) :
         IF seen = Raised THEN Unsaved(r)
         ELSE Goto(r, "opening") /\ req' = [req EXCEPT ![r].text = seen] /\ UNCHANGED missed
    /\ UNCHANGED <<process, plan, disk, crossed>>

Open(r) == /\ pc[r] = "opening"
           /\ disk' = Emptied
           /\ Goto(r, "writing")
           /\ UNCHANGED <<process, plan, req, history>>

\* The disk refuses the directory or the file, which is left as it was, or the text, which
\* leaves it empty or in part.
Refuse(r) ==
    /\ pc[r] \in Saving
    /\ disk' \in IF pc[r] = "writing" THEN {disk, Torn} ELSE {disk}
    /\ refusals < MaxRefusals
    /\ refusals' = refusals + 1
    /\ Unsaved(r)
    /\ UNCHANGED <<turn, asked, crashes, blank, plan, crossed>>

\* Two writers overlay each other: what the longer left beyond the shorter stays.
Write(r) ==
    LET text == req[r].text
        short == Cardinality(text) < Cardinality(disk.plan)
    IN /\ pc[r] = "writing"
       /\ disk' = IF disk.is = "torn" \/ short THEN Torn ELSE Whole(text)
       /\ IF req[r].then = "pruned"
          THEN req' = [req EXCEPT ![r] = Shown(r, byId)] /\ Goto(r, "shown")
          ELSE Goto(r, "recording") /\ UNCHANGED req
       /\ missed' = FALSE
       /\ UNCHANGED <<process, plan, crossed>>

\* _plan_block, into the decision record: what was shown, what was left out, what
\* would be violated and what became of the directives the answer carried.
PlanBlock(r) ==
    [turn |-> req[r].view.turn, review |-> req[r].review,
     in_force |-> IdsOf(req[r].shown), not_shown |-> req[r].dropped,
     unmeasurable |-> {s.id : s \in {t \in req[r].statuses : t.is = "unmeasured"}},
     unsatisfied |-> {s.id : s \in {t \in req[r].statuses : t.is = "unsatisfied"}},
     conflicts |-> {t.id : t \in {o \in Tradeoffs(req[r].shown, req[r].view) : o.violates}},
     issued |-> req[r].issued, rejected |-> req[r].refused]

Record(r) == /\ pc[r] = "recording"
             /\ req' = [req EXCEPT ![r] = Idle]
             /\ Goto(r, "idle")
             /\ UNCHANGED <<process, plan, disk, history>>

(*---------------------------------------------------------------------------*)
(* The game and the process.                                                  *)

NextTurn == /\ turn < MaxTurn
            /\ turn' = turn + 1
            /\ UNCHANGED <<asked, crashes, refusals, blank, plan, disk, pc, req, history>>

\* The service dies and is started again: the map is what the files hold.
Restart == /\ crashes < MaxCrashes
           /\ crashes' = crashes + 1
           /\ byId' = Loaded(disk)
           /\ blank' = (disk.is \in {"emptied", "torn"})
           /\ object' = 0
           /\ pc' = [r \in Requests |-> "idle"]
           /\ req' = [r \in Requests |-> Idle]
           /\ standing' = byId'
           /\ missed' = FALSE /\ crossed' = FALSE
           /\ UNCHANGED <<turn, asked, refusals, disk>>

Next == \/ NextTurn \/ Restart
        \/ \E r \in Requests :
             \/ \E v \in Views, review \in BOOLEAN : Ask(r, v, review)
             \/ \E degraded \in BOOLEAN, new \in SUBSET Issuable :
                  /\ Cardinality(IdsOf(new)) = Cardinality(new)
                  /\ Answer(r, degraded, new)
             \/ Read(r) \/ Prune(r) \/ Serialise(r) \/ Open(r) \/ Refuse(r) \/ Write(r)
             \/ Record(r)

Spec == Init /\ [][Next]_vars

(*---------------------------------------------------------------------------*)
(* Properties.                                                                *)

Labels == {"idle", "reading", "pruning", "shown", "serialising", "opening", "writing",
           "recording"}

TypeOK == /\ turn \in 1..MaxTurn /\ asked \in 0..MaxAsked /\ crashes \in 0..MaxCrashes
          /\ refusals \in 0..MaxRefusals /\ {blank, missed, crossed} \subseteq BOOLEAN
          /\ IdsOf(byId) \subseteq Ids /\ Cardinality(IdsOf(byId)) = Cardinality(byId)
          /\ disk.is \in {"absent", "emptied", "torn", "whole"}
          /\ pc \in [Requests -> Labels]

Unexpired(ds) == {d \in ds : ~Expired(d, turn)}

\* Starting the service again gives back all of the plan in force, unless the last save
\* failed or is under way; the file is unreadable, and gives back nothing, only if a save
\* was cut short after it opened it, and none has succeeded since.  It gives back what was
\* no more in force in two ways: an older form of what a save has yet to reach the file with,
\* and a directive of the seed that was replaced, once the horizon of what replaced it is
\* past, or that half a file had cleared (in_force, add, _save, _load).  Two requests at
\* the plan at once can lose more than this.
RestartRestores ==
    LET underWay == \E r \in Requests : pc[r] \in Saving
        replaced(d, e) == e.id = d.id /\ (Expired(e, turn) \/ e \in byId)
    IN ~crossed =>
        /\ ~missed /\ ~underWay => Unexpired(byId) \subseteq Loaded(disk)
        /\ disk.is \in {"emptied", "torn"} =>
              missed \/ blank \/ \E r \in Requests : pc[r] = "writing"
        /\ \A d \in Unexpired(Loaded(disk)) \ byId :
              \/ Separate /\ d \in Seed /\ (blank \/ \E e \in standing : replaced(d, e))
              \/ (missed \/ underWay) /\ \E e \in standing : replaced(d, e)

\* A decision is told of every directive accepted before it that has started and not
\* passed its horizon, by showing it or by naming it in not_shown; one staged for a
\* later turn is still there when its turn comes.  If the plan it pruned could not be
\* saved it is told of none (in_force, _with_directives, relevant, _plan_block).
StandingIsTold ==
    \A r \in Requests : pc[r] = "shown" /\ ~crossed =>
        LET told == IdsOf(req[r].shown) \cup req[r].dropped IN
        IF req[r].then = "raised" THEN told = {} ELSE told = IdsOf(req[r].due)

\* d is within n links of the decision, each link an entity two directives share.
WithinLinks(d, n, live, view) ==
    \E path \in [0..n -> live] :
        /\ path[n] = d /\ path[0] \in Seeds(live, view)
        /\ \A i \in 1..n : path[i - 1] = path[i]
                            \/ path[i - 1].entities \cap path[i].entities # {}

\* Where the cap cuts, it cuts what is farther from the decision: below survival
\* priority no directive is left out for one more links away (relevant).
NearerShownFirst ==
    \A r \in Requests : pc[r] = "shown" /\ ~req[r].review =>
        \A d \in req[r].shown, e \in req[r].live :
            \/ e.id \notin req[r].dropped \/ d.priority >= Survival
            \/ \A n \in 0..MaxHops : WithinLinks(e, n, req[r].live, req[r].view)
                                      => WithinLinks(d, n, req[r].live, req[r].view)

\* "Directives at or above this priority are shown whether or not they relate to the
\* decision." (directives.py:127)
SurvivalIsShown ==
    \A r \in Requests : pc[r] = "shown" =>
        \A d \in req[r].live :
            d.id \in req[r].dropped /\ d.priority >= Survival
            => \A e \in req[r].shown : e.priority >= Survival

\* "drop it when its horizon passes" (directives.py:6): what a start brings back was in
\* force when the service was stopped.
DroppedStaysDropped ==
    [][crashes' # crashes => Unexpired(byId') \subseteq byId]_vars

\* A directive leaves the plan when its horizon has passed or another of its id is
\* accepted, and for no other reason ("Keep it across decisions, and drop it when its
\* horizon passes", directives.py:6); a restart is outside this.
KeptUntilHorizon ==
    [][crashes' = crashes =>
         \A d \in byId \ byId' : \/ Expired(d, turn)
                                 \/ d \notin standing']_vars
================================================================================
