--------------------------- MODULE Directives_proofs ---------------------------
(* The standing plan, for any directives, views and numbers of them: what any   *)
(* number of requests make of the map, the file and what a decision is shown    *)
(* (PlanInv); and, as long as no two of them are at the plan at once, that the  *)
(* file gives it back and that a decision is told of all of it (FiledInv).      *)
EXTENDS DirectiveStore, FiniteSetTheorems, WellFoundedInduction, TLAPS

(*---------------------------------------------------------------------------*)
(* Sets of directives.                                                        *)

OneEach(ds) == \A d, e \in ds : d.id = e.id => d = e
Sound(ds) == IsFiniteSet(ds) /\ OneEach(ds) /\ \A d \in ds : IsDirective(d) /\ d.id \in Ids

LEMMA SoundEmpty == Sound({})
  BY FS_EmptySet DEF Sound, OneEach

LEMMA SoundSubset ==
    ASSUME NEW ds, Sound(ds), NEW es, es \subseteq ds
    PROVE  Sound(es)
  BY FS_Subset DEF Sound, OneEach

LEMMA SoundSeed == Sound(Seed)
  BY DirectivesOK DEF Sound, OneEach, Ids

\* What replaces a directive of its id, and nothing else, leaves one of each.
LEMMA SoundPut ==
    ASSUME NEW ds, Sound(ds), NEW new, Sound(new)
    PROVE  /\ Sound(Put(ds, new))
           /\ IdsOf(Put(ds, new)) = IdsOf(ds) \cup IdsOf(new)
<1>1. Without(ds, {d.id : d \in new}) \subseteq ds
  BY DEF Without
<1>2. Sound(Without(ds, {d.id : d \in new}))
  BY <1>1, SoundSubset
<1>3. IsFiniteSet(Put(ds, new))
  BY <1>2, FS_Union DEF Put, Sound
<1>4. OneEach(Put(ds, new))
  BY DEF Put, Without, Sound, OneEach
<1>5. \A d \in Put(ds, new) : IsDirective(d) /\ d.id \in Ids
  BY DEF Put, Without, Sound
<1>6. IdsOf(Put(ds, new)) = IdsOf(ds) \cup IdsOf(new)
  BY DEF Put, Without, IdsOf
<1> QED
  BY <1>3, <1>4, <1>5, <1>6 DEF Sound

LEMMA SoundLoaded ==
    ASSUME NEW file, Sound(file.plan)
    PROVE  Sound(Loaded(file))
  BY SoundEmpty, SoundSeed, SoundPut DEF Loaded

LEMMA StampedKeeps ==
    ASSUME NEW d, IsDirective(d), NEW view, view.turn \in Int
    PROVE  /\ IsDirective(Stamped(d, view))
           /\ Stamped(d, view).id = d.id
<1> DEFINE issued == IF d.issued # None THEN d.issued ELSE view.turn
           baseline == BaselineFor(d, view)
           e == [id |-> d.id, metric |-> d.metric, comparator |-> d.comparator,
                 target |-> d.target, baseline |-> baseline, issued |-> issued,
                 starts |-> d.starts, horizon |-> d.horizon, entities |-> d.entities,
                 priority |-> d.priority]
<1>1. issued \in Int
  BY DEF IsDirective
<1>2. Stamped(d, view) = e
  <2>1. Stamped(d, view) = [d EXCEPT !.issued = issued, !.baseline = baseline]
    BY DEF Stamped
  <2>2. d = [id |-> d.id, metric |-> d.metric, comparator |-> d.comparator,
             target |-> d.target, baseline |-> d.baseline, issued |-> d.issued,
             starts |-> d.starts, horizon |-> d.horizon, entities |-> d.entities,
             priority |-> d.priority]
    BY DEF IsDirective
  <2> HIDE DEF issued, baseline
  <2> QED
    BY <2>1, <2>2
<1> HIDE DEF issued, baseline
<1>3. /\ e.id = d.id /\ e.issued = issued /\ e.starts = d.starts /\ e.horizon = d.horizon
      /\ e.priority = d.priority
      /\ e = [id |-> e.id, metric |-> e.metric, comparator |-> e.comparator,
              target |-> e.target, baseline |-> e.baseline, issued |-> e.issued,
              starts |-> e.starts, horizon |-> e.horizon, entities |-> e.entities,
              priority |-> e.priority]
  OBVIOUS
<1> HIDE DEF e
<1>4. IsDirective(e)
  BY <1>1, <1>3 DEF IsDirective
<1> QED
  BY <1>2, <1>3, <1>4

\* A set that has as many ids as elements has one of each.
LEMMA OneOfEach ==
    ASSUME NEW new, IsFiniteSet(new), Cardinality(IdsOf(new)) = Cardinality(new)
    PROVE  OneEach(new)
<1> DEFINE f == [d \in new |-> d.id]
<1>1. f \in Surjection(new, IdsOf(new))
  BY DEF IdsOf, Surjection
<1>2. f \in Injection(new, IdsOf(new))
  BY <1>1, FS_SurjSameCardinalityImpliesInj
<1>3. \A d, e \in new : f[d] = f[e] => d = e
  <2> HIDE DEF f
  <2> QED
    BY <1>2 DEF Injection, IsInjective
<1> QED
  BY <1>3 DEF OneEach

\* What is accepted of an answer is sound, whatever was written.
LEMMA SoundAccepted ==
    ASSUME NEW new, new \subseteq Issuable, Cardinality(IdsOf(new)) = Cardinality(new),
           NEW taken, taken \subseteq new, NEW view, view.turn \in Int
    PROVE  Sound(Accepted(taken, view))
<1> DEFINE good == {e \in taken : Acceptable(e, view)}
           f == [d \in good |-> Stamped(d, view)]
<1>1. IsFiniteSet(new)
  BY DirectivesOK, FS_Subset
<1>2. good \subseteq new /\ IsFiniteSet(good) /\ OneEach(new)
  BY <1>1, FS_Subset, OneOfEach
<1>3. \A d \in good : IsDirective(d) /\ d.id \in Ids
  BY <1>2, DirectivesOK DEF Ids
<1>4. Accepted(taken, view) = {Stamped(d, view) : d \in good}
  BY DEF Accepted
<1>5. f \in Surjection(good, Accepted(taken, view))
  <2> HIDE DEF good
  <2> QED
    BY <1>4 DEF Surjection
<1>6. IsFiniteSet(Accepted(taken, view))
  BY <1>2, <1>5, FS_Surjection
<1>7. \A d \in good : IsDirective(Stamped(d, view)) /\ Stamped(d, view).id = d.id
  BY <1>3, StampedKeeps
<1> HIDE DEF good
<1>8. OneEach(Accepted(taken, view))
  BY <1>2, <1>4, <1>7 DEF OneEach
<1> QED
  BY <1>3, <1>4, <1>6, <1>7, <1>8 DEF Sound

(*---------------------------------------------------------------------------*)
(* Requests, any number of them.                                              *)

Fields == {"view", "review", "seen", "of", "text", "then", "live", "shown", "dropped",
           "statuses", "due", "issued", "refused"}
IsRequest(q) == q = [f \in Fields |-> q[f]]

\* What a request holds by the time it has something to show.
Showing(q) ==
    /\ Sound(q.live)
    /\ \A d \in q.live : Active(d, q.view.turn)
    /\ q.review => q.shown = q.live /\ q.dropped = {}
    /\ ~q.review => /\ q.shown = Selected(Relevant(q.live, q.view))
                    /\ q.dropped = Relevant(q.live, q.view).dropped

\* A request asked no later than turn t.
Held(q, t) == /\ IsRequest(q) /\ q.review \in BOOLEAN
              /\ q.view.turn \in 0..t
              /\ Sound(q.seen) /\ Sound(q.text)

RequestsInv == /\ pc \in [Requests -> Labels]
               /\ req = [r \in Requests |-> req[r]]
               /\ \A r \in Requests :
                     /\ Held(req[r], turn)
                     /\ pc[r] = "shown" => Showing(req[r])
                     /\ pc[r] \in Saving => req[r].then \in {"pruned", "issued"}

StoreInv == /\ turn \in 1..MaxTurn /\ asked \in 0..MaxAsked /\ crashes \in 0..MaxCrashes
            /\ refusals \in 0..MaxRefusals /\ {blank, missed, crossed} \subseteq BOOLEAN
            /\ object \in Nat
            /\ disk \in {Absent, Emptied, Torn} \/ disk = Whole(disk.plan)
            /\ Sound(disk.plan) /\ Sound(byId) /\ Sound(standing)

PlanInv == StoreInv /\ RequestsInv

LEMMA IdleIsHeld == ASSUME NEW t \in Nat PROVE Held(Idle, t)
<1>1. Idle.view.turn = 0 /\ Idle.seen = {} /\ Idle.text = {} /\ Idle.review = FALSE
  BY DEF Idle
<1>2. IsRequest(Idle)
  BY DEF IsRequest, Idle, Fields
<1>3. Idle.view.turn \in 0..t
  BY <1>1
<1>4. Idle.review \in BOOLEAN
  BY <1>1
<1> QED
  BY <1>1, <1>2, <1>3, <1>4, SoundEmpty DEF Held

\* One request moves on and the others stay as they are.
LEMMA OneMoves ==
    ASSUME RequestsInv, turn \in Nat, turn' = turn,
           NEW r \in Requests, NEW label \in Labels, NEW q, Held(q, turn),
           label = "shown" => Showing(q), label \in Saving => q.then \in {"pruned", "issued"},
           pc' = [pc EXCEPT ![r] = label], req' = [req EXCEPT ![r] = q]
    PROVE  RequestsInv'
<1>1. pc' \in [Requests -> Labels] /\ pc'[r] = label
  BY DEF RequestsInv
<1>2. req'[r] = q /\ req' = [s \in Requests |-> req'[s]]
  BY DEF RequestsInv
<1>3. \A s \in Requests : s # r => pc'[s] = pc[s] /\ req'[s] = req[s]
  BY DEF RequestsInv
<1>4. \A s \in Requests :
         /\ Held(req'[s], turn')
         /\ pc'[s] = "shown" => Showing(req'[s])
         /\ pc'[s] \in Saving => req'[s].then \in {"pruned", "issued"}
  BY <1>1, <1>2, <1>3 DEF RequestsInv
<1> QED
  BY <1>1, <1>2, <1>4 DEF RequestsInv

LEMMA PlanBegins == Init => PlanInv
<1> SUFFICES ASSUME Init PROVE PlanInv
  OBVIOUS
<1>1. StoreInv
  <2>1. disk.is \in {"absent", "whole"} /\ Sound(disk.plan)
    BY SoundEmpty, SoundSeed DEF Init, Absent, Whole
  <2>2. disk = Absent \/ disk = Whole(disk.plan)
    BY DEF Init, Whole
  <2>3. turn \in 1..MaxTurn /\ asked \in 0..MaxAsked /\ crashes \in 0..MaxCrashes
        /\ refusals \in 0..MaxRefusals
    BY BoundsOK DEF Init
  <2> QED
    BY <2>1, <2>2, <2>3, SoundSeed DEF Init, StoreInv
<1>2. RequestsInv
  <2>1. turn = 1 /\ pc = [r \in Requests |-> "idle"] /\ req = [r \in Requests |-> Idle]
    BY DEF Init
  <2>2. Held(Idle, turn)
    BY <2>1, IdleIsHeld
  <2> QED
    BY <2>1, <2>2 DEF RequestsInv, Labels, Saving
<1> QED
  BY <1>1, <1>2 DEF PlanInv
LEMMA LiveIsSound ==
    ASSUME NEW ds, Sound(ds), NEW t
    PROVE  Sound({d \in ds : Active(d, t)})
  BY SoundSubset

\* A request that has read a sound plan shows what bears on it, and says what it leaves out.
LEMMA ShownIsShowing ==
    ASSUME PlanInv, NEW r \in Requests, NEW ds, Sound(ds)
    PROVE  /\ Held(Shown(r, ds), turn)
           /\ Showing(Shown(r, ds))
           /\ Shown(r, ds).live = {d \in ds : Active(d, req[r].view.turn)}
           /\ Shown(r, ds).view = req[r].view /\ Shown(r, ds).review = req[r].review
           /\ Shown(r, ds).then = req[r].then
           /\ Shown(r, ds).due = {d \in standing : Active(d, req[r].view.turn)}
<1> DEFINE q == req[r]
           live == {d \in ds : Active(d, q.view.turn)}
           selection == Relevant(live, q.view)
           shown == IF q.review THEN live ELSE Selected(selection)
           dropped == IF q.review THEN {} ELSE selection.dropped
           statuses == Evaluate(shown, q.view)
           due == {d \in standing : Active(d, q.view.turn)}
           p == [q EXCEPT !.live = live, !.shown = shown, !.dropped = dropped,
                          !.statuses = statuses, !.due = due]
<1>1. Held(q, turn)
  BY DEF PlanInv, RequestsInv
<1>2. Sound(live) /\ \A d \in live : Active(d, q.view.turn)
  BY LiveIsSound
<1>3. Shown(r, ds) = p
  BY DEF Shown
<1> HIDE DEF live, shown, dropped, statuses, due
<1>4. /\ IsRequest(p) /\ p.live = live /\ p.shown = shown /\ p.dropped = dropped
      /\ p.view = q.view /\ p.review = q.review /\ p.seen = q.seen /\ p.text = q.text
      /\ p.then = q.then /\ p.due = due
  <2>1. IsRequest(q)
    BY <1>1 DEF Held
  <2> HIDE DEF q
  <2> QED
    BY <2>1 DEF IsRequest, Fields
<1> HIDE DEF p
<1>5. Held(p, turn)
  BY <1>1, <1>4 DEF Held
<1>6. Showing(p)
  <2>1. p.review => p.shown = p.live /\ p.dropped = {}
    BY <1>4 DEF shown, dropped
  <2>2. ~p.review => p.shown = Selected(Relevant(p.live, p.view))
                     /\ p.dropped = Relevant(p.live, p.view).dropped
    BY <1>4 DEF shown, dropped
  <2> QED
    BY <1>2, <1>4, <2>1, <2>2 DEF Showing
<1> QED
  BY <1>3, <1>4, <1>5, <1>6 DEF live, due
\* An update of what a request has read, holds or has written leaves it a request.
LEMMA SeenIsHeld ==
    ASSUME PlanInv, NEW r \in Requests, NEW ds, Sound(ds), NEW a
    PROVE  LET p == [req[r] EXCEPT !.seen = ds, !.of = a]
           IN Held(p, turn) /\ p.view = req[r].view /\ p.seen = ds /\ p.of = a
<1> DEFINE q == req[r]
<1>1. IsRequest(q) /\ Held(q, turn)
  BY DEF PlanInv, RequestsInv, Held
<1> HIDE DEF q
<1>2. LET p == [q EXCEPT !.seen = ds, !.of = a]
      IN Held(p, turn) /\ p.view = q.view /\ p.seen = ds /\ p.of = a
  BY <1>1 DEF Held, IsRequest, Fields
<1> QED
  BY <1>2 DEF q

LEMMA TextIsHeld ==
    ASSUME PlanInv, NEW r \in Requests, NEW ds, Sound(ds)
    PROVE  LET p == [req[r] EXCEPT !.text = ds]
           IN Held(p, turn) /\ p.view = req[r].view /\ p.text = ds /\ p.then = req[r].then
<1> DEFINE q == req[r]
<1>1. IsRequest(q) /\ Held(q, turn)
  BY DEF PlanInv, RequestsInv, Held
<1> HIDE DEF q
<1>2. LET p == [q EXCEPT !.text = ds]
      IN Held(p, turn) /\ p.view = q.view /\ p.text = ds /\ p.then = q.then
  BY <1>1 DEF Held, IsRequest, Fields
<1> QED
  BY <1>2 DEF q

LEMMA RefusedIsHeld ==
    ASSUME PlanInv, NEW r \in Requests, NEW a, NEW b
    PROVE  LET p == [req[r] EXCEPT !.refused = a, !.issued = b]
           IN Held(p, turn) /\ p.view = req[r].view /\ p.then = req[r].then
<1> DEFINE q == req[r]
<1>1. IsRequest(q) /\ Held(q, turn)
  BY DEF PlanInv, RequestsInv, Held
<1> HIDE DEF q
<1>2. LET p == [q EXCEPT !.refused = a, !.issued = b]
      IN Held(p, turn) /\ p.view = q.view /\ p.then = q.then
  BY <1>1 DEF Held, IsRequest, Fields
<1> QED
  BY <1>2 DEF q

\* What a thread iterates over is a plan, or the iteration raises.
LEMMA IteratedIsSound ==
    ASSUME PlanInv, NEW r \in Requests, NEW seen \in Iterated(r), seen # Raised
    PROVE  Sound(seen)
  BY DEF Iterated, PlanInv, StoreInv, RequestsInv, Held

\* A request whose reading raised shows nothing, and says so.
RaisedOf(r) == [Shown(r, {}) EXCEPT !.then = "raised"]

LEMMA RaisedIsShowing ==
    ASSUME PlanInv, NEW r \in Requests
    PROVE  /\ Held(RaisedOf(r), turn) /\ Showing(RaisedOf(r))
           /\ RaisedOf(r).live = {} /\ RaisedOf(r).then = "raised"
<1> DEFINE old == Shown(r, {})
<1>0. /\ Held(old, turn) /\ Showing(old)
      /\ old.live = {d \in {} : Active(d, req[r].view.turn)}
  BY SoundEmpty, ShownIsShowing
<1>1. Held(old, turn) /\ IsRequest(old) /\ Showing(old) /\ old.live = {}
  BY <1>0 DEF Held
<1> HIDE DEF old
<1>2. LET p == [old EXCEPT !.then = "raised"]
      IN Held(p, turn) /\ Showing(p) /\ p.live = {} /\ p.then = "raised"
  BY <1>1 DEF Held, IsRequest, Fields, Showing
<1> QED
  BY <1>2 DEF old, RaisedOf

LEMMA GivingUp ==
    ASSUME PlanInv, turn' = turn, NEW r \in Requests, GiveUp(r)
    PROVE  RequestsInv'
<1>0. turn \in Nat /\ RequestsInv
  BY DEF PlanInv, StoreInv
<1>1. CASE req[r].review
  BY <1>0, <1>1, IdleIsHeld, OneMoves DEF GiveUp, Goto, Labels, Saving
<1>2. CASE ~req[r].review
  <2>1. Held(RaisedOf(r), turn) /\ Showing(RaisedOf(r))
    BY RaisedIsShowing
  <2> QED
    BY <1>0, <1>2, <2>1, OneMoves DEF GiveUp, Goto, Labels, Saving, RaisedOf
<1> QED
  BY <1>1, <1>2

LEMMA StepAsk ==
    ASSUME PlanInv, NEW r \in Requests, NEW view \in Views, NEW review \in BOOLEAN,
           Ask(r, view, review)
    PROVE  PlanInv'
<1> DEFINE acts == IF review THEN {} ELSE view.actions
           v == [view EXCEPT !.turn = turn, !.actions = IF review THEN {} ELSE @]
           q == [Idle EXCEPT !.view = v, !.review = review]
<1>1. turn \in Nat /\ Held(Idle, turn)
  BY IdleIsHeld DEF PlanInv, StoreInv
<1>2. v.turn = turn
  BY ViewsOK
<1> HIDE DEF v
<1>3. IsRequest(q) /\ q.view = v /\ q.review = review /\ q.seen = Idle.seen /\ q.text = Idle.text
  BY <1>1 DEF Held, IsRequest, Fields
<1>4. Held(q, turn)
  <2> HIDE DEF q
  <2> QED
    BY <1>1, <1>2, <1>3 DEF Held
<1>5. req' = [req EXCEPT ![r] = q] /\ pc' = [pc EXCEPT ![r] = "reading"] /\ turn' = turn
  BY DEF Ask, v, Goto
<1> HIDE DEF q
<1>6. RequestsInv'
  BY <1>1, <1>4, <1>5, OneMoves DEF Labels, Saving, PlanInv
<1>7. StoreInv'
  BY BoundsOK DEF Ask, Approach, process, plan, history, PlanInv, StoreInv
<1> QED
  BY <1>6, <1>7 DEF PlanInv

LEMMA StepRead ==
    ASSUME PlanInv, NEW r \in Requests, Read(r)
    PROVE  PlanInv'
<1>1. turn \in Nat /\ turn' = turn /\ Sound(byId)
  BY DEF PlanInv, StoreInv, process, plan, history, Read
<1>2. Held(Seeing(r), turn)
  BY <1>1, SeenIsHeld DEF Seeing
<1>3. Held(Shown(r, byId), turn) /\ Showing(Shown(r, byId))
  BY <1>1, ShownIsShowing
<1>4. RequestsInv'
  <2>1. CASE \E d \in byId : Expired(d, req[r].view.turn)
    BY <1>1, <1>2, <2>1, OneMoves DEF Read, Goto, Labels, Saving, PlanInv
  <2>2. CASE ~\E d \in byId : Expired(d, req[r].view.turn)
    BY <1>1, <1>3, <2>2, OneMoves DEF Read, Goto, Labels, Saving, PlanInv
  <2> QED
    BY <2>1, <2>2
<1>5. StoreInv'
  BY DEF Read, process, plan, history, PlanInv, StoreInv
<1> QED
  BY <1>4, <1>5 DEF PlanInv

LEMMA StepPrune ==
    ASSUME PlanInv, NEW r \in Requests, Prune(r)
    PROVE  PlanInv'
<1>1. turn \in Nat /\ turn' = turn
  BY DEF PlanInv, StoreInv, process, plan, history, Prune
<1>2. PICK seen \in Iterated(r) :
          IF seen = Raised
          THEN GiveUp(r) /\ UNCHANGED <<byId, object>>
          ELSE /\ byId' = {d \in seen : ~Expired(d, req[r].view.turn)}
               /\ object' = object + 1
               /\ req' = [req EXCEPT ![r] = [@ EXCEPT !.seen = byId', !.of = object',
                                                      !.then = "pruned"]]
               /\ Goto(r, "serialising")
  BY DEF Prune
<1>3. CASE seen = Raised
  <2>1. RequestsInv'
    BY <1>1, <1>2, <1>3, GivingUp
  <2>2. StoreInv'
    BY <1>2, <1>3 DEF Prune, process, plan, history, PlanInv, StoreInv
  <2> QED
    BY <2>1, <2>2 DEF PlanInv
<1>4. CASE seen # Raised
  <2> DEFINE kept == {d \in seen : ~Expired(d, req[r].view.turn)}
             q == [req[r] EXCEPT !.seen = kept, !.of = object + 1, !.then = "pruned"]
  <2>1. byId' = kept /\ object' = object + 1 /\ pc' = [pc EXCEPT ![r] = "serialising"]
    BY <1>2, <1>4 DEF Goto
  <2>2. Sound(kept)
    BY <1>4, IteratedIsSound, SoundSubset
  <2>3. req' = [req EXCEPT ![r] = q]
    BY <1>2, <1>4, <2>1 DEF PlanInv, RequestsInv
  <2>4. Held(q, turn) /\ q.then = "pruned"
    <3> DEFINE old == req[r]
    <3>1. IsRequest(old) /\ Held(old, turn)
      BY DEF PlanInv, RequestsInv, Held
    <3> HIDE DEF kept, old
    <3>2. LET p == [old EXCEPT !.seen = kept, !.of = object + 1, !.then = "pruned"]
          IN Held(p, turn) /\ p.then = "pruned"
      BY <2>2, <3>1 DEF Held, IsRequest, Fields
    <3> QED
      BY <3>2 DEF old
  <2>5. RequestsInv'
    <3> HIDE DEF q
    <3> QED
      BY <1>1, <2>1, <2>3, <2>4, OneMoves DEF Labels, Saving, PlanInv
  <2>6. StoreInv'
    BY <2>1, <2>2 DEF Prune, process, plan, history, PlanInv, StoreInv
  <2> QED
    BY <2>5, <2>6 DEF PlanInv
<1> QED
  BY <1>3, <1>4
LEMMA StepAnswer ==
    ASSUME PlanInv, NEW r \in Requests, NEW degraded \in BOOLEAN, NEW new \in SUBSET Issuable,
           Cardinality(IdsOf(new)) = Cardinality(new), Answer(r, degraded, new)
    PROVE  PlanInv'
<1> DEFINE view == req[r].view
           candidates == IF req[r].review
                         THEN {d \in new : d.horizon # None /\ d.horizon > view.turn}
                         ELSE new
           accepted == IF degraded THEN {} ELSE Accepted(candidates, view)
           q == [req[r] EXCEPT !.seen = Put(byId, accepted), !.of = object, !.then = "issued",
                               !.issued = IdsOf(accepted),
                               !.refused = IdsOf(new) \ IdsOf(accepted)]
           label == IF accepted = {} THEN "recording" ELSE "serialising"
<1>1. /\ turn \in Nat /\ turn' = turn /\ Sound(byId) /\ Sound(standing)
      /\ view.turn \in Int
  BY DEF PlanInv, StoreInv, RequestsInv, Held, Answer, process
<1>2. Sound(accepted)
  <2>1. candidates \subseteq new
    OBVIOUS
  <2> HIDE DEF candidates, view
  <2>2. Sound(Accepted(candidates, view))
    BY <1>1, <2>1, SoundAccepted
  <2> QED
    BY <2>2, SoundEmpty
<1>3. /\ byId' = Put(byId, accepted) /\ standing' = Put(standing, accepted)
      /\ pc' = [pc EXCEPT ![r] = label]
      /\ req' = [req EXCEPT ![r] = [@ EXCEPT !.seen = byId', !.of = object, !.then = "issued",
                                             !.issued = IdsOf(accepted),
                                             !.refused = IdsOf(new) \ IdsOf(accepted)]]
      /\ UNCHANGED <<turn, asked, crashes, refusals, blank, object, disk, missed>>
      /\ crossed' \in BOOLEAN
  BY DEF Answer, Goto, Approach, process, PlanInv, StoreInv
<1> HIDE DEF candidates, view, accepted
<1>4. Sound(Put(byId, accepted)) /\ Sound(Put(standing, accepted))
  BY <1>1, <1>2, SoundPut
<1>5. req' = [req EXCEPT ![r] = q]
  BY <1>3 DEF PlanInv, RequestsInv
<1>6. Held(q, turn) /\ q.then = "issued"
  <2> DEFINE old == req[r]
             ds == Put(byId, accepted)
             issued == IdsOf(accepted)
             refused == IdsOf(new) \ issued
  <2>1. IsRequest(old) /\ Held(old, turn)
    BY DEF PlanInv, RequestsInv, Held
  <2> HIDE DEF old, ds, issued, refused
  <2>2. LET p == [old EXCEPT !.seen = ds, !.of = object, !.then = "issued",
                             !.issued = issued, !.refused = refused]
        IN Held(p, turn) /\ p.then = "issued"
    BY <1>4, <2>1 DEF Held, IsRequest, Fields, ds
  <2> QED
    BY <2>2 DEF old, ds, issued, refused
<1> HIDE DEF q
<1>7. RequestsInv'
  BY <1>1, <1>3, <1>5, <1>6, OneMoves DEF Labels, Saving, PlanInv
<1>8. StoreInv'
  BY <1>3, <1>4 DEF PlanInv, StoreInv
<1> QED
  BY <1>7, <1>8 DEF PlanInv

\* A save that raised leaves a request as it should be.
LEMMA UnsavedIsHeld ==
    ASSUME PlanInv, turn' = turn, NEW r \in Requests, pc[r] \in Saving, Unsaved(r)
    PROVE  RequestsInv' /\ missed' = TRUE
<1>1. turn \in Nat /\ missed' = TRUE
  BY DEF PlanInv, StoreInv, Unsaved
<1>2. CASE req[r].then = "pruned"
  BY <1>1, <1>2, GivingUp DEF Unsaved
<1>3. CASE req[r].then # "pruned"
  <2> DEFINE refused == req[r].refused \cup req[r].issued
             q == [req[r] EXCEPT !.refused = refused, !.issued = {}]
  <2>1. Held(q, turn)
    <3> HIDE DEF refused
    <3> QED
      BY RefusedIsHeld
  <2>2. req' = [req EXCEPT ![r] = q] /\ pc' = [pc EXCEPT ![r] = "recording"]
    BY <1>3 DEF Unsaved, Goto, PlanInv, RequestsInv
  <2> HIDE DEF q
  <2> QED
    BY <1>1, <2>1, <2>2, OneMoves DEF Labels, Saving, PlanInv
<1> QED
  BY <1>1, <1>2, <1>3

LEMMA StepSerialise ==
    ASSUME PlanInv, NEW r \in Requests, Serialise(r)
    PROVE  PlanInv'
<1>1. turn \in Nat /\ turn' = turn /\ UNCHANGED <<process, plan, disk, crossed>>
      /\ pc[r] = "serialising"
  BY DEF PlanInv, StoreInv, Serialise, process
<1>2. PICK seen \in Iterated(r) :
         IF seen = Raised THEN Unsaved(r)
         ELSE Goto(r, "opening") /\ req' = [req EXCEPT ![r].text = seen] /\ UNCHANGED missed
  BY DEF Serialise
<1>3. CASE seen # Raised
  <2> DEFINE q == [req[r] EXCEPT !.text = seen]
  <2>1. Held(q, turn) /\ q.then = req[r].then /\ req[r].then \in {"pruned", "issued"}
    BY <1>1, <1>3, IteratedIsSound, TextIsHeld DEF Saving, PlanInv, RequestsInv
  <2>2. req' = [req EXCEPT ![r] = q] /\ pc' = [pc EXCEPT ![r] = "opening"]
    BY <1>2, <1>3 DEF Goto, PlanInv, RequestsInv
  <2> HIDE DEF q
  <2>3. RequestsInv'
    BY <1>1, <2>1, <2>2, OneMoves DEF Labels, Saving, PlanInv
  <2>4. StoreInv'
    BY <1>1, <1>2, <1>3 DEF PlanInv, StoreInv, process, plan
  <2> QED
    BY <2>3, <2>4 DEF PlanInv
<1>4. CASE seen = Raised
  <2>1. RequestsInv' /\ missed' = TRUE
    BY <1>1, <1>2, <1>4, UnsavedIsHeld DEF Saving
  <2>2. StoreInv'
    BY <1>1, <2>1 DEF PlanInv, StoreInv, process, plan
  <2> QED
    BY <2>1, <2>2 DEF PlanInv
<1> QED
  BY <1>3, <1>4

LEMMA StepRefuse ==
    ASSUME PlanInv, NEW r \in Requests, Refuse(r)
    PROVE  PlanInv'
<1>1. /\ turn' = turn /\ pc[r] \in Saving /\ Unsaved(r)
      /\ UNCHANGED <<turn, asked, crashes, blank, plan, crossed>>
      /\ refusals' \in 0..MaxRefusals /\ disk' \in {disk, Torn}
  BY BoundsOK DEF Refuse, PlanInv, StoreInv
<1>2. RequestsInv' /\ missed' = TRUE
  BY <1>1, UnsavedIsHeld
<1>3. StoreInv'
  <2>1. Torn.plan = {}
    BY DEF Torn
  <2> QED
    BY <1>1, <1>2, <2>1, SoundEmpty DEF PlanInv, StoreInv, plan
<1> QED
  BY <1>2, <1>3 DEF PlanInv

LEMMA StepOpen ==
    ASSUME PlanInv, NEW r \in Requests, Open(r)
    PROVE  PlanInv'
<1>1. StoreInv'
  <2>1. Emptied.plan = {}
    BY DEF Emptied
  <2> QED
    BY <2>1, SoundEmpty DEF Open, process, plan, history, PlanInv, StoreInv
<1>2. RequestsInv'
  BY DEF Open, process, plan, history, PlanInv, RequestsInv, Goto, Labels, Saving
<1> QED
  BY <1>1, <1>2 DEF PlanInv

LEMMA StepWrite ==
    ASSUME PlanInv, NEW r \in Requests, Write(r)
    PROVE  PlanInv'
<1>1. turn \in Nat /\ turn' = turn /\ Sound(byId) /\ Sound(req[r].text)
  BY DEF PlanInv, StoreInv, RequestsInv, Held, Write, process, plan
<1>2. StoreInv'
  <2>1. disk' = Torn \/ disk' = Whole(req[r].text)
    BY DEF Write
  <2>2. Torn.plan = {} /\ Whole(req[r].text).plan = req[r].text
    BY DEF Torn, Whole
  <2>3. Sound(disk'.plan) /\ (disk' = Torn \/ disk' = Whole(disk'.plan))
    BY <1>1, <2>1, <2>2, SoundEmpty
  <2> QED
    BY <2>3 DEF Write, process, plan, history, PlanInv, StoreInv
<1>3. CASE req[r].then = "pruned"
  <2>1. Held(Shown(r, byId), turn) /\ Showing(Shown(r, byId))
    BY <1>1, ShownIsShowing
  <2>2. RequestsInv'
    BY <1>1, <1>3, <2>1, OneMoves DEF Write, Goto, Labels, Saving, PlanInv
  <2> QED
    BY <1>2, <2>2 DEF PlanInv
<1>4. CASE req[r].then # "pruned"
  <2>1. RequestsInv'
    BY <1>4 DEF Write, process, plan, PlanInv, RequestsInv, Goto, Labels, Saving
  <2> QED
    BY <1>2, <2>1 DEF PlanInv
<1> QED
  BY <1>3, <1>4

LEMMA StepRecord ==
    ASSUME PlanInv, NEW r \in Requests, Record(r)
    PROVE  PlanInv'
<1>1. turn \in Nat /\ turn' = turn /\ StoreInv'
  BY DEF PlanInv, StoreInv, process, plan, history, Record
<1>2. Held(Idle, turn)
  BY <1>1, IdleIsHeld
<1> QED
  BY <1>1, <1>2, OneMoves DEF Record, Goto, Labels, Saving, PlanInv

LEMMA StepNextTurn ==
    ASSUME PlanInv, NextTurn
    PROVE  PlanInv'
<1>1. StoreInv'
  BY BoundsOK DEF NextTurn, plan, history, PlanInv, StoreInv
<1>2. \A r \in Requests : Held(req[r], turn) => Held(req[r], turn + 1)
  BY DEF Held, PlanInv, StoreInv
<1>3. RequestsInv'
  BY <1>2 DEF NextTurn, plan, history, PlanInv, RequestsInv
<1> QED
  BY <1>1, <1>3 DEF PlanInv

LEMMA StepRestart ==
    ASSUME PlanInv, Restart
    PROVE  PlanInv'
<1>1. StoreInv'
  <2>1. Sound(Loaded(disk))
    BY SoundLoaded DEF PlanInv, StoreInv
  <2>2. crashes' \in 0..MaxCrashes
    BY BoundsOK DEF Restart, PlanInv, StoreInv
  <2>3. {blank', missed', crossed'} \subseteq BOOLEAN
    <3>1. blank' \in BOOLEAN
      BY DEF Restart
    <3>2. missed' = FALSE /\ crossed' = FALSE
      BY DEF Restart
    <3> QED
      BY <3>1, <3>2
  <2> QED
    BY <2>1, <2>2, <2>3 DEF Restart, PlanInv, StoreInv
<1>2. RequestsInv'
  <2>1. Held(Idle, turn)
    BY IdleIsHeld DEF PlanInv, StoreInv
  <2> QED
    BY <2>1 DEF Restart, RequestsInv, Labels, Saving
<1> QED
  BY <1>1, <1>2 DEF PlanInv

LEMMA PlanSteps == ASSUME PlanInv, [Next]_vars PROVE PlanInv'
<1>1. CASE NextTurn
  BY <1>1, StepNextTurn
<1>2. CASE Restart
  BY <1>2, StepRestart
<1>3. ASSUME NEW r \in Requests, NEW v \in Views, NEW review \in BOOLEAN, Ask(r, v, review)
      PROVE  PlanInv'
  BY <1>3, StepAsk
<1>4. ASSUME NEW r \in Requests, NEW degraded \in BOOLEAN, NEW new \in SUBSET Issuable,
             Cardinality(IdsOf(new)) = Cardinality(new), Answer(r, degraded, new)
      PROVE  PlanInv'
  BY <1>4, StepAnswer
<1>5. ASSUME NEW r \in Requests,
             \/ Read(r) \/ Prune(r) \/ Serialise(r) \/ Open(r) \/ Refuse(r) \/ Write(r)
             \/ Record(r)
      PROVE  PlanInv'
  BY <1>5, StepRead, StepPrune, StepSerialise, StepOpen, StepRefuse, StepWrite, StepRecord
<1>6. CASE UNCHANGED vars
  BY <1>6 DEF vars, PlanInv, StoreInv, RequestsInv
<1> QED
  BY <1>1, <1>2, <1>3, <1>4, <1>5, <1>6 DEF Next

\* Whatever any number of requests do at once, the map, the file and what is to be written
\* hold one sound directive of each id, and what a request shows is what its own copy of the
\* plan makes of the ranking (DirectiveStore, relevant, _plan_block).
THEOREM PlanInvariant == Spec => []PlanInv
<1> QED
  BY PlanBegins, PlanSteps, PTL DEF Spec
\* The map and the file are of their types, and the map has one directive of each id.
THEOREM TypeCorrect == Spec => []TypeOK
<1>1. PlanInv => TypeOK
  <2> SUFFICES ASSUME PlanInv PROVE TypeOK
    OBVIOUS
  <2> DEFINE f == [d \in byId |-> d.id]
  <2>1. Sound(byId)
    BY DEF PlanInv, StoreInv
  <2>2. f \in Surjection(byId, IdsOf(byId))
    BY DEF IdsOf, Surjection
  <2>3. f \in Injection(byId, IdsOf(byId))
    BY <2>1, <2>2 DEF Sound, OneEach, Injection, IsInjective, Surjection
  <2> HIDE DEF f
  <2>4. Cardinality(IdsOf(byId)) = Cardinality(byId)
    BY <2>1, <2>2, <2>3, FS_Surjection DEF Sound
  <2>5. IdsOf(byId) \subseteq Ids
    BY <2>1 DEF Sound, IdsOf
  <2>6. disk.is \in {"absent", "emptied", "torn", "whole"}
    BY DEF PlanInv, StoreInv, Absent, Emptied, Torn, Whole
  <2> QED
    BY <2>4, <2>5, <2>6 DEF TypeOK, PlanInv, StoreInv, RequestsInv
<1> QED
  BY <1>1, PlanInvariant, PTL

(*---------------------------------------------------------------------------*)
(* The walk.  A property of every number is one of a set of them: the library *)
(* has induction for an operator, which the provers cannot instantiate, and   *)
(* the least element of a set (WFMin), which they can.                        *)

LEMMA Induction ==
    ASSUME NEW S, 0 \in S, \A n \in Nat : n \in S => n + 1 \in S
    PROVE  Nat \subseteq S
<1> DEFINE T == Nat \ S
           R == OpToRel(<, Nat)
<1> SUFFICES ASSUME T # {} PROVE FALSE
  OBVIOUS
<1>1. \A x, y \in Nat : <<x, y>> \in R <=> x < y
  BY DEF OpToRel
<1>2. IsWellFoundedOn(R, Nat)
  BY NatLessThanWellFounded
<1> HIDE DEF R
<1>3. PICK x \in T : \A y \in T : ~(<<y, x>> \in R)
  <2>1. T \subseteq Nat
    OBVIOUS
  <2> HIDE DEF T
  <2> QED
    BY <1>2, <2>1, WFMin
<1>4. x # 0 /\ x - 1 \in Nat
  OBVIOUS
<1>5. <<x - 1, x>> \in R
  BY <1>1, <1>4
<1>6. x - 1 \notin T
  BY <1>3, <1>5
<1>7. x - 1 \in S
  BY <1>4, <1>6
<1> QED
  BY <1>4, <1>7

\* What is first reached at hop h, given what is reached before it.
WaveAt(wave, h, live, view) ==
    IF h = 0 THEN Seeds(live, view)
    ELSE LET frontier == UNION {d.entities : d \in wave[h - 1]}
             nearer == UNION {wave[k] : k \in 0..h - 1}
         IN {d \in live \ nearer : d.entities \cap frontier # {}}

LEMMA WaveAtDepends ==
    ASSUME NEW live, NEW view, NEW h \in Nat, NEW f, NEW g, \A k \in 0..h - 1 : f[k] = g[k]
    PROVE  WaveAt(f, h, live, view) = WaveAt(g, h, live, view)
<1>1. CASE h = 0
  BY <1>1 DEF WaveAt
<1>2. CASE h # 0
  <2>1. f[h - 1] = g[h - 1]
    BY <1>2
  <2>2. UNION {f[k] : k \in 0..h - 1} = UNION {g[k] : k \in 0..h - 1}
    OBVIOUS
  <2> QED
    BY <1>2, <2>1, <2>2 DEF WaveAt
<1> QED
  BY <1>1, <1>2

Solves(f, n, live, view) == f = [h \in 0..n |-> WaveAt(f, h, live, view)]

\* The recursion has a solution for any number of hops.
LEMMA WavesReach ==
    ASSUME NEW live, NEW view
    PROVE  \A n \in Nat : \E f : Solves(f, n, live, view)
<1> DEFINE S == {n \in Nat : \E f : Solves(f, n, live, view)}
<1>1. 0 \in S
  <2> DEFINE f == [h \in 0..0 |-> Seeds(live, view)]
  <2>1. Solves(f, 0, live, view)
    BY DEF WaveAt, Solves
  <2> QED
    BY <2>1
<1>2. ASSUME NEW n \in Nat, n \in S PROVE n + 1 \in S
  <2>0. PICK f : Solves(f, n, live, view)
    BY <1>2
  <2>1. f = [h \in 0..n |-> WaveAt(f, h, live, view)]
    BY <2>0 DEF Solves
  <2> DEFINE g == [h \in 0..n + 1 |-> IF h <= n THEN f[h] ELSE WaveAt(f, h, live, view)]
  <2>2. \A h \in 0..n : g[h] = f[h]
    OBVIOUS
  <2>3. \A h \in 0..n + 1 : WaveAt(g, h, live, view) = WaveAt(f, h, live, view)
    <3> HIDE DEF g
    <3> TAKE h \in 0..n + 1
    <3>1. \A k \in 0..h - 1 : g[k] = f[k]
      BY <2>2
    <3> QED
      BY <3>1, WaveAtDepends
  <2>4. \A h \in 0..n + 1 : g[h] = WaveAt(g, h, live, view)
    <3> TAKE h \in 0..n + 1
    <3>1. CASE h <= n
      BY <2>1, <2>2, <2>3, <3>1
    <3>2. CASE ~(h <= n)
      BY <2>3, <3>2
    <3> QED
      BY <3>1, <3>2
  <2>5. Solves(g, n + 1, live, view)
    <3>1. g = [h \in 0..n + 1 |-> g[h]]
      OBVIOUS
    <3> HIDE DEF g
    <3> QED
      BY <2>4, <3>1 DEF Solves
  <2> QED
    BY <2>5
<1>3. Nat \subseteq S
  <2> HIDE DEF S
  <2> QED
    BY <1>1, <1>2, Induction
<1> QED
  BY <1>3

LEMMA WavesAre ==
    ASSUME NEW live, NEW view
    PROVE  /\ DOMAIN Waves(live, view) = 0..MaxHops
           /\ \A h \in 0..MaxHops :
                Waves(live, view)[h] = WaveAt(Waves(live, view), h, live, view)
<1> DEFINE w == Waves(live, view)
<1>1. \E f : Solves(f, MaxHops, live, view)
  BY WavesReach, PlanConstantsOK
<1>2. w = CHOOSE f : Solves(f, MaxHops, live, view)
  BY DEF Waves, WaveAt, Solves
<1>3. w = [h \in 0..MaxHops |-> WaveAt(w, h, live, view)]
  BY <1>1, <1>2 DEF Solves
<1> HIDE DEF w
<1> SUFFICES DOMAIN w = 0..MaxHops /\ \A h \in 0..MaxHops : w[h] = WaveAt(w, h, live, view)
  BY DEF w
<1> QED
  BY <1>3
LEMMA WavesInLive ==
    ASSUME NEW live, NEW view, NEW h \in 0..MaxHops
    PROVE  Waves(live, view)[h] \subseteq live
<1> DEFINE w == Waves(live, view)
<1>1. w[h] = WaveAt(w, h, live, view)
  BY WavesAre
<1> HIDE DEF w
<1>2. WaveAt(w, h, live, view) \subseteq live
  BY DEF WaveAt, Seeds
<1> QED
  BY <1>1, <1>2 DEF w

\* What is within n links is reached by hop n.
LEMMA LinkedIsReached ==
    ASSUME NEW live, NEW view
    PROVE  \A n \in 0..MaxHops, d \in live :
              WithinLinks(d, n, live, view) => \E h \in 0..n : d \in Waves(live, view)[h]
<1> DEFINE w == Waves(live, view)
           S == {n \in Nat : n <= MaxHops => \A d \in live :
                    WithinLinks(d, n, live, view) => \E h \in 0..n : d \in w[h]}
<1>0. MaxHops \in Nat
  BY PlanConstantsOK
<1>1. \A h \in 0..MaxHops : w[h] = WaveAt(w, h, live, view)
  BY WavesAre
<1> HIDE DEF w
<1>2. 0 \in S
  <2>1. w[0] = Seeds(live, view)
    <3>1. w[0] = WaveAt(w, 0, live, view)
      BY <1>0, <1>1
    <3> QED
      BY <3>1 DEF WaveAt
  <2>2. ASSUME NEW d \in live, WithinLinks(d, 0, live, view) PROVE d \in w[0]
    BY <2>1, <2>2 DEF WithinLinks
  <2> QED
    BY <2>2
<1>3. ASSUME NEW n \in Nat, n \in S PROVE n + 1 \in S
  <2> SUFFICES ASSUME n + 1 <= MaxHops, NEW d \in live, WithinLinks(d, n + 1, live, view)
               PROVE  \E h \in 0..n + 1 : d \in w[h]
    OBVIOUS
  <2>1. PICK path \in [0..n + 1 -> live] :
           /\ path[n + 1] = d /\ path[0] \in Seeds(live, view)
           /\ \A i \in 1..n + 1 : path[i - 1] = path[i]
                                   \/ path[i - 1].entities \cap path[i].entities # {}
    BY DEF WithinLinks
  <2> DEFINE before == [i \in 0..n |-> path[i]]
             c == path[n]
  <2>2. WithinLinks(c, n, live, view)
    <3>1. before \in [0..n -> live] /\ before[n] = c /\ before[0] = path[0]
      OBVIOUS
    <3>2. \A i \in 1..n : before[i - 1] = path[i - 1] /\ before[i] = path[i]
      OBVIOUS
    <3>3. \A i \in 1..n : \/ path[i - 1] = path[i]
                         \/ path[i - 1].entities \cap path[i].entities # {}
      BY <2>1
    <3> HIDE DEF before, c
    <3>4. \A i \in 1..n : \/ before[i - 1] = before[i]
                         \/ before[i - 1].entities \cap before[i].entities # {}
      BY <3>2, <3>3
    <3> QED
      BY <2>1, <3>1, <3>4 DEF WithinLinks
  <2>3. c \in live /\ (c = d \/ c.entities \cap d.entities # {})
    <3>1. n + 1 \in 1..n + 1 /\ (n + 1) - 1 = n
      OBVIOUS
    <3> QED
      BY <2>1, <3>1
  <2> HIDE DEF c
  <2>4. PICK h \in 0..n : c \in w[h]
    <3>1. n <= MaxHops
      BY <1>0
    <3>2. \A e \in live : WithinLinks(e, n, live, view) => \E h \in 0..n : e \in w[h]
      BY <1>3, <3>1
    <3> QED
      BY <2>2, <2>3, <3>2
  <2>5. CASE c = d
    BY <2>4, <2>5
  <2>6. CASE c.entities \cap d.entities # {}
    <3>1. h + 1 \in 1..MaxHops /\ h + 1 \in 0..MaxHops /\ (h + 1) - 1 = h /\ h + 1 # 0
      BY <1>0
    <3>2. w[h + 1] = {e \in live \ UNION {w[k] : k \in 0..h} :
                         e.entities \cap UNION {f.entities : f \in w[h]} # {}}
      <4>1. w[h + 1] = WaveAt(w, h + 1, live, view)
        BY <1>1, <3>1
      <4> QED
        BY <3>1, <4>1 DEF WaveAt
    <3>3. d.entities \cap UNION {f.entities : f \in w[h]} # {}
      BY <2>4, <2>6
    <3>4. CASE d \in UNION {w[k] : k \in 0..h}
      <4>1. PICK k \in 0..h : d \in w[k]
        BY <3>4
      <4>2. k \in 0..n + 1
        OBVIOUS
      <4> QED
        BY <4>1, <4>2
    <3>5. CASE d \notin UNION {w[k] : k \in 0..h}
      <4>1. d \in w[h + 1]
        BY <3>2, <3>3, <3>5
      <4>2. h + 1 \in 0..n + 1
        OBVIOUS
      <4> QED
        BY <4>1, <4>2
    <3> QED
      BY <3>4, <3>5
  <2> QED
    BY <2>3, <2>5, <2>6
<1>4. Nat \subseteq S
  <2> HIDE DEF S
  <2> QED
    BY <1>2, <1>3, Induction
<1>5. \A n \in 0..MaxHops : n \in S
  BY <1>0, <1>4
<1> QED
  BY <1>5 DEF w

\* What is reached at hop n is within n links.
LEMMA ReachedIsLinked ==
    ASSUME NEW live, NEW view
    PROVE  \A n \in 0..MaxHops : \A d \in Waves(live, view)[n] : WithinLinks(d, n, live, view)
<1> DEFINE w == Waves(live, view)
           S == {n \in Nat : n <= MaxHops => \A d \in w[n] : WithinLinks(d, n, live, view)}
<1>0. MaxHops \in Nat
  BY PlanConstantsOK
<1>1. \A h \in 0..MaxHops : w[h] = WaveAt(w, h, live, view)
  BY WavesAre
<1>1a. \A h \in 0..MaxHops : w[h] \subseteq live
  BY WavesInLive
<1> HIDE DEF w
<1>2. 0 \in S
  <2>1. w[0] = Seeds(live, view) /\ w[0] \subseteq live
    <3>1. w[0] = WaveAt(w, 0, live, view) /\ w[0] \subseteq live
      BY <1>0, <1>1, <1>1a
    <3> QED
      BY <3>1 DEF WaveAt
  <2>2. ASSUME NEW d \in w[0] PROVE WithinLinks(d, 0, live, view)
    <3> DEFINE path == [i \in 0..0 |-> d]
    <3>1. path \in [0..0 -> live] /\ path[0] = d /\ 1..0 = {}
      BY <2>1
    <3> HIDE DEF path
    <3> QED
      BY <2>1, <3>1 DEF WithinLinks
  <2> QED
    BY <2>2
<1>3. ASSUME NEW n \in Nat, n \in S PROVE n + 1 \in S
  <2> SUFFICES ASSUME n + 1 <= MaxHops, NEW d \in w[n + 1]
               PROVE  WithinLinks(d, n + 1, live, view)
    OBVIOUS
  <2>1. n + 1 \in 0..MaxHops /\ n + 1 # 0 /\ (n + 1) - 1 = n /\ n \in 0..MaxHops
    BY <1>0
  <2>2. w[n + 1] = {e \in live \ UNION {w[k] : k \in 0..n} :
                       e.entities \cap UNION {f.entities : f \in w[n]} # {}}
    <3>1. w[n + 1] = WaveAt(w, n + 1, live, view)
      BY <1>1, <2>1
    <3> QED
      BY <2>1, <3>1 DEF WaveAt
  <2>3. PICK c \in w[n] : c.entities \cap d.entities # {}
    BY <2>2
  <2>4. d \in live /\ WithinLinks(c, n, live, view)
    BY <1>3, <2>1, <2>2, <2>3
  <2>5. PICK path \in [0..n -> live] :
           /\ path[n] = c /\ path[0] \in Seeds(live, view)
           /\ \A i \in 1..n : path[i - 1] = path[i]
                               \/ path[i - 1].entities \cap path[i].entities # {}
    BY <2>4 DEF WithinLinks
  <2> DEFINE longer == [i \in 0..n + 1 |-> IF i <= n THEN path[i] ELSE d]
  <2>6. /\ longer \in [0..n + 1 -> live] /\ longer[n + 1] = d /\ longer[0] = path[0]
        /\ longer[n] = c
    BY <2>4, <2>5
  <2>7. \A i \in 1..n : longer[i - 1] = path[i - 1] /\ longer[i] = path[i]
    OBVIOUS
  <2> HIDE DEF longer
  <2>8. \A i \in 1..n + 1 : longer[i - 1] = longer[i]
                             \/ longer[i - 1].entities \cap longer[i].entities # {}
    <3> TAKE i \in 1..n + 1
    <3>1. CASE i \in 1..n
      BY <2>5, <2>7, <3>1
    <3>2. CASE i = n + 1
      BY <2>1, <2>3, <2>6, <3>2
    <3> QED
      BY <3>1, <3>2
  <2> QED
    BY <2>5, <2>6, <2>8 DEF WithinLinks
<1>4. Nat \subseteq S
  <2> HIDE DEF S
  <2> QED
    BY <1>2, <1>3, Induction
<1>5. \A n \in 0..MaxHops : n \in S
  BY <1>0, <1>4
<1> QED
  BY <1>5 DEF w

\* Staying where one is is a link too.
LEMMA LinkedLonger ==
    ASSUME NEW live, NEW view, NEW d \in live, NEW m \in Nat, NEW n \in Nat, m <= n,
           WithinLinks(d, m, live, view)
    PROVE  WithinLinks(d, n, live, view)
<1>1. PICK path \in [0..m -> live] :
         /\ path[m] = d /\ path[0] \in Seeds(live, view)
         /\ \A i \in 1..m : path[i - 1] = path[i]
                             \/ path[i - 1].entities \cap path[i].entities # {}
  BY DEF WithinLinks
<1> DEFINE longer == [i \in 0..n |-> IF i <= m THEN path[i] ELSE d]
<1>2. /\ longer \in [0..n -> live] /\ longer[0] = path[0]
      /\ \A i \in m..n : longer[i] = d
  BY <1>1
<1>3. \A i \in 1..m : longer[i - 1] = path[i - 1] /\ longer[i] = path[i]
  OBVIOUS
<1> HIDE DEF longer
<1>4. \A i \in 1..n : longer[i - 1] = longer[i]
                       \/ longer[i - 1].entities \cap longer[i].entities # {}
  <2> TAKE i \in 1..n
  <2>1. CASE i <= m
    BY <1>1, <1>3, <2>1
  <2>2. CASE i > m
    <3>1. i - 1 \in m..n /\ i \in m..n
      BY <2>2
    <3> QED
      BY <1>2, <3>1
  <2> QED
    BY <2>1, <2>2
<1>5. longer[n] = d
  BY <1>2
<1> QED
  BY <1>1, <1>2, <1>4, <1>5 DEF WithinLinks
(*---------------------------------------------------------------------------*)
(* The ranking.                                                               *)

LEMMA WalkScores ==
    ASSUME NEW d, NEW h \in Nat, NEW view
    PROVE  /\ WalkScore(d, h, view) \in 1..6
           /\ h = 0 => WalkScore(d, h, view) >= 5
           /\ h > 0 => WalkScore(d, h, view) = IF 4 - h > 1 THEN 4 - h ELSE 1
  BY DEF WalkScore

\* The hits, each with the part of the search that found it.
LEMMA HitsAre ==
    ASSUME NEW live, NEW view, NEW g
    PROVE  LET w == Waves(live, view)
               unmet == live \ UNION {w[h] : h \in 0..MaxHops}
               survival == {d \in unmet : d.priority >= Survival}
               measured == {d \in unmet \ survival : d.metric \in DOMAIN view.metrics}
           IN g \in Hits(live, view) <=>
                \/ \E h \in 0..MaxHops : \E d \in w[h] :
                      g = [directive |-> d, hop |-> h, score |-> WalkScore(d, h, view)]
                \/ \E d \in survival : g = [directive |-> d, hop |-> 0, score |-> 8]
                \/ \E d \in measured : g = [directive |-> d, hop |-> MaxHops + 1, score |-> 1]
<1> DEFINE w == Waves(live, view)
           unmet == live \ UNION {w[h] : h \in 0..MaxHops}
           survival == {d \in unmet : d.priority >= Survival}
           measured == {d \in unmet \ survival : d.metric \in DOMAIN view.metrics}
           Walked(d, h) == [directive |-> d, hop |-> h, score |-> WalkScore(d, h, view)]
           Kept(d) == [directive |-> d, hop |-> 0, score |-> 8]
           Last(d) == [directive |-> d, hop |-> MaxHops + 1, score |-> 1]
<1>1. Hits(live, view) = (UNION {{Walked(d, h) : d \in w[h]} : h \in 0..MaxHops})
                         \cup {Kept(d) : d \in survival} \cup {Last(d) : d \in measured}
  BY DEF Hits
<1> SUFFICES g \in Hits(live, view) <=>
                \/ \E h \in 0..MaxHops : \E d \in w[h] : g = Walked(d, h)
                \/ \E d \in survival : g = Kept(d)
                \/ \E d \in measured : g = Last(d)
  OBVIOUS
<1> HIDE DEF w, survival, measured, Walked, Kept, Last
<1> DEFINE W(h) == {Walked(d, h) : d \in w[h]}
<1>2. \A h \in 0..MaxHops : g \in W(h) <=> \E d \in w[h] : g = Walked(d, h)
  OBVIOUS
<1>3. g \in {Kept(d) : d \in survival} <=> \E d \in survival : g = Kept(d)
  OBVIOUS
<1>4. g \in {Last(d) : d \in measured} <=> \E d \in measured : g = Last(d)
  OBVIOUS
<1>5. Hits(live, view) = (UNION {W(h) : h \in 0..MaxHops})
                         \cup {Kept(d) : d \in survival} \cup {Last(d) : d \in measured}
  BY <1>1
<1> HIDE DEF W
<1>6. g \in UNION {W(h) : h \in 0..MaxHops} <=> \E h \in 0..MaxHops : g \in W(h)
  OBVIOUS
<1>7. g \in UNION {W(h) : h \in 0..MaxHops}
         <=> \E h \in 0..MaxHops : \E d \in w[h] : g = Walked(d, h)
  BY <1>2, <1>6
<1> DEFINE A == UNION {W(h) : h \in 0..MaxHops}
           B == {Kept(d) : d \in survival}
           C == {Last(d) : d \in measured}
<1>8. Hits(live, view) = A \cup B \cup C
  BY <1>5
<1>9. /\ g \in A <=> \E h \in 0..MaxHops : \E d \in w[h] : g = Walked(d, h)
      /\ g \in B <=> \E d \in survival : g = Kept(d)
      /\ g \in C <=> \E d \in measured : g = Last(d)
  BY <1>3, <1>4, <1>7
<1> HIDE DEF A, B, C
<1>10. g \in Hits(live, view) <=> g \in A \/ g \in B \/ g \in C
  BY <1>8
<1> QED
  BY <1>9, <1>10

\* How a directive came to be a hit.
LEMMA HitKinds ==
    ASSUME NEW live, NEW view, NEW g \in Hits(live, view)
    PROVE  /\ g.directive \in live
           /\ g.hop \in 0..MaxHops + 1 /\ g.score \in 1..8
           /\ \/ \E h \in 0..MaxHops : /\ g.directive \in Waves(live, view)[h] /\ g.hop = h
                                       /\ g.score = WalkScore(g.directive, h, view)
              \/ g.directive.priority >= Survival
              \/ g.hop = MaxHops + 1 /\ g.score = 1
           /\ g = [directive |-> g.directive, hop |-> g.hop, score |-> g.score]
<1>0. MaxHops \in Nat
  BY PlanConstantsOK
<1> DEFINE w == Waves(live, view)
           unmet == live \ UNION {w[h] : h \in 0..MaxHops}
           survival == {d \in unmet : d.priority >= Survival}
           measured == {d \in unmet \ survival : d.metric \in DOMAIN view.metrics}
<1>1. \/ \E h \in 0..MaxHops : \E d \in w[h] :
            g = [directive |-> d, hop |-> h, score |-> WalkScore(d, h, view)]
      \/ \E d \in survival : g = [directive |-> d, hop |-> 0, score |-> 8]
      \/ \E d \in measured : g = [directive |-> d, hop |-> MaxHops + 1, score |-> 1]
  BY HitsAre
<1>2. CASE \E h \in 0..MaxHops : \E d \in w[h] :
              g = [directive |-> d, hop |-> h, score |-> WalkScore(d, h, view)]
  <2>0. PICK h \in 0..MaxHops : \E d \in w[h] :
           g = [directive |-> d, hop |-> h, score |-> WalkScore(d, h, view)]
    BY <1>2
  <2>1. PICK d \in w[h] : g = [directive |-> d, hop |-> h, score |-> WalkScore(d, h, view)]
    BY <2>0
  <2>2. d \in live /\ WalkScore(d, h, view) \in 1..6
    BY <1>0, <2>1, WavesInLive, WalkScores
  <2>3. g.directive = d /\ g.hop = h /\ g.score = WalkScore(d, h, view)
    BY <2>1
  <2> HIDE DEF w
  <2> QED
    BY <1>0, <2>1, <2>2, <2>3 DEF w
<1>3. CASE \E d \in survival : g = [directive |-> d, hop |-> 0, score |-> 8]
  BY <1>0, <1>3
<1>4. CASE \E d \in measured : g = [directive |-> d, hop |-> MaxHops + 1, score |-> 1]
  BY <1>0, <1>4
<1> HIDE DEF w, survival, measured
<1> QED
  BY <1>1, <1>2, <1>3, <1>4

LEMMA ReachedIsHit ==
    ASSUME NEW live, NEW view, NEW h \in 0..MaxHops, NEW d \in Waves(live, view)[h]
    PROVE  [directive |-> d, hop |-> h, score |-> WalkScore(d, h, view)] \in Hits(live, view)
  BY HitsAre

LEMMA HitsAreFinite ==
    ASSUME NEW live, IsFiniteSet(live), NEW view
    PROVE  IsFiniteSet(Hits(live, view))
<1> DEFINE space == (live \X (0..MaxHops + 1)) \X (1..8)
           f == [t \in space |-> [directive |-> t[1][1], hop |-> t[1][2], score |-> t[2]]]
           image == {f[t] : t \in space}
<1>1. MaxHops \in Nat
  BY PlanConstantsOK
<1>2. IsFiniteSet(space)
  <2>1. IsFiniteSet(0..MaxHops + 1) /\ IsFiniteSet(1..8)
    <3>1. MaxHops + 1 \in Int /\ 0 \in Int /\ 1 \in Int /\ 8 \in Int
      BY <1>1
    <3> QED
      BY <3>1, FS_Interval
  <2>2. IsFiniteSet(live \X (0..MaxHops + 1))
    BY <2>1, FS_Product
  <2> QED
    BY <2>1, <2>2, FS_Product
<1>3. f \in Surjection(space, image)
  <2> HIDE DEF space
  <2> QED
    BY DEF Surjection
<1>4. IsFiniteSet(image)
  <2> HIDE DEF space, f, image
  <2> QED
    BY <1>2, <1>3, FS_Surjection
<1>5. Hits(live, view) \subseteq image
  <2> SUFFICES ASSUME NEW g \in Hits(live, view) PROVE g \in image
    OBVIOUS
  <2> DEFINE t == <<<<g.directive, g.hop>>, g.score>>
  <2>1. /\ t \in space
        /\ g = [directive |-> g.directive, hop |-> g.hop, score |-> g.score]
    BY HitKinds
  <2>2. f[t] = [directive |-> g.directive, hop |-> g.hop, score |-> g.score]
    BY <2>1
  <2> HIDE DEF t, space, f
  <2> QED
    BY <2>1, <2>2
<1> QED
  BY <1>4, <1>5, FS_Subset

KeyIsInt(g) == \A i \in 1..6 : Key(g)[i] \in Int

LEMMA HitKeys ==
    ASSUME NEW live, \A d \in live : IsDirective(d), NEW view, NEW g \in Hits(live, view)
    PROVE  KeyIsInt(g) /\ Key(g)[1] = -g.score /\ Key(g)[2] = g.hop
<1> DEFINE d == g.directive
<1>1. IsDirective(d) /\ g.score \in Int /\ g.hop \in Int
  BY HitKinds, PlanConstantsOK
<1>2. d.id \in Int /\ d.issued \in Int /\ d.priority \in Int /\ d.starts \in Int
  BY <1>1 DEF IsDirective
<1>3. Since(d) \in Int
  BY <1>2 DEF Since
<1> HIDE DEF d
<1>4. Key(g) = <<-g.score, g.hop, -d.priority, IF d.issued = None THEN 0 ELSE -d.issued,
                 Since(d), d.id>>
  BY DEF Key, d
<1>5. (IF d.issued = None THEN 0 ELSE -d.issued) \in Int
  BY <1>2
<1> DEFINE issued == IF d.issued = None THEN 0 ELSE -d.issued
<1> HIDE DEF issued
<1>6. Key(g) = <<-g.score, g.hop, -d.priority, issued, Since(d), d.id>> /\ issued \in Int
  BY <1>4, <1>5 DEF issued
<1>7. KeyIsInt(g)
  BY <1>1, <1>2, <1>3, <1>6 DEF KeyIsInt
<1> QED
  BY <1>6, <1>7

\* The ranking is an order: lexicographic, over six numbers.
LEMMA BeforeIsTransitive ==
    ASSUME NEW f, NEW g, NEW h, KeyIsInt(f), KeyIsInt(g), KeyIsInt(h),
           Before(f, g), Before(g, h)
    PROVE  Before(f, h)
<1> DEFINE F == Key(f)  G == Key(g)  H == Key(h)
<1>1. PICK i \in 1..6 : F[i] < G[i] /\ \A j \in 1..i - 1 : F[j] = G[j]
  BY DEF Before
<1>2. PICK k \in 1..6 : G[k] < H[k] /\ \A j \in 1..k - 1 : G[j] = H[j]
  BY DEF Before
<1>3. \A j \in 1..6 : F[j] \in Int /\ G[j] \in Int /\ H[j] \in Int
  BY DEF KeyIsInt
<1> HIDE DEF F, G, H
<1> SUFFICES \E m \in 1..6 : F[m] < H[m] /\ \A j \in 1..m - 1 : F[j] = H[j]
  BY DEF Before, F, G, H
<1>4. CASE i <= k
  <2>1. F[i] < H[i]
    BY <1>1, <1>2, <1>3, <1>4
  <2>2. \A j \in 1..i - 1 : F[j] = H[j]
    BY <1>1, <1>2, <1>4
  <2> QED
    BY <2>1, <2>2
<1>5. CASE k < i
  <2>1. F[k] < H[k]
    BY <1>1, <1>2, <1>3, <1>5
  <2>2. \A j \in 1..k - 1 : F[j] = H[j]
    BY <1>1, <1>2, <1>5
  <2> QED
    BY <2>1, <2>2
<1> QED
  BY <1>4, <1>5
\* Whoever comes before one that is shown is shown.
LEMMA EarlierIsShown ==
    ASSUME NEW live, Sound(live), NEW view, \A d \in live : Active(d, view.turn),
           NEW g \in Hits(live, view), NEW h \in Relevant(live, view).hits, Before(g, h)
    PROVE  g \in Relevant(live, view).hits
<1> DEFINE found == Hits(live, view)
           Ahead(x) == {y \in found : Before(y, x)}
<1>1. Relevant(live, view).hits = {x \in found : Cardinality(Ahead(x)) < RelevanceLimit}
  <2>1. live = {d \in live : Active(d, view.turn)}
    OBVIOUS
  <2> QED
    BY <2>1 DEF Relevant
<1>2. h \in found /\ Cardinality(Ahead(h)) < RelevanceLimit
  BY <1>1
<1>3. Ahead(g) \subseteq Ahead(h)
  <2> SUFFICES ASSUME NEW y \in found, Before(y, g) PROVE Before(y, h)
    OBVIOUS
  <2>1. \A x \in found : KeyIsInt(x)
    BY HitKeys DEF Sound
  <2> HIDE DEF found
  <2> QED
    BY <1>2, <2>1, BeforeIsTransitive DEF found
<1>4. IsFiniteSet(found)
  BY HitsAreFinite DEF Sound
<1>5. IsFiniteSet(Ahead(h)) /\ IsFiniteSet(Ahead(g))
  BY <1>4, FS_Subset
<1> HIDE DEF Ahead
<1>6. Cardinality(Ahead(g)) <= Cardinality(Ahead(h))
  BY <1>3, <1>5, FS_Subset
<1>7. Cardinality(Ahead(g)) \in Nat /\ Cardinality(Ahead(h)) \in Nat /\ RelevanceLimit \in Int
  BY <1>5, FS_CardinalityType, PlanConstantsOK
<1> QED
  BY <1>1, <1>2, <1>6, <1>7

\* Of one decision, whatever stands.
LEMMA NearerFirst ==
    ASSUME NEW live, Sound(live), NEW view, \A d \in live : Active(d, view.turn),
           NEW d \in Selected(Relevant(live, view)), NEW e \in live,
           e.id \in Relevant(live, view).dropped, ~(d.priority >= Survival),
           NEW n \in 0..MaxHops, WithinLinks(e, n, live, view)
    PROVE  WithinLinks(d, n, live, view)
<1> DEFINE hits == Relevant(live, view).hits
<1>0. MaxHops \in Nat
  BY PlanConstantsOK
<1>1. PICK g \in hits : g.directive = d
  BY DEF Selected
<1>2. hits \subseteq Hits(live, view)
  <2>1. live = {c \in live : Active(c, view.turn)}
    OBVIOUS
  <2> QED
    BY <2>1 DEF Relevant
<1>3. PICK h \in 0..n : e \in Waves(live, view)[h]
  BY LinkedIsReached
<1> DEFINE f == [directive |-> e, hop |-> h, score |-> WalkScore(e, h, view)]
<1>4. f \in Hits(live, view)
  BY <1>0, <1>3, ReachedIsHit
<1>5. f.directive = e /\ f.hop = h /\ f.score = WalkScore(e, h, view)
  OBVIOUS
<1> HIDE DEF f
<1>6. f \notin hits
  <2>1. Relevant(live, view).dropped
            = {c.id : c \in {b \in live : Active(b, view.turn)}} \ {k.directive.id : k \in hits}
    BY DEF Relevant
  <2>2. e.id \notin {k.directive.id : k \in hits}
    BY <2>1
  <2> HIDE DEF hits
  <2> QED
    BY <1>5, <2>2
<1>7. ~Before(f, g)
  BY <1>1, <1>4, <1>6, EarlierIsShown
<1>8. /\ KeyIsInt(f) /\ Key(f)[1] = -f.score /\ Key(f)[2] = f.hop
      /\ KeyIsInt(g) /\ Key(g)[1] = -g.score /\ Key(g)[2] = g.hop
  <2>1. \A c \in live : IsDirective(c)
    BY DEF Sound
  <2>2. g \in Hits(live, view)
    BY <1>1, <1>2
  <2> QED
    BY <1>4, <2>1, <2>2, HitKeys
<1>9. /\ g.hop \in 0..MaxHops + 1 /\ g.score \in 1..8 /\ d \in live
      /\ \/ \E k \in 0..MaxHops : /\ d \in Waves(live, view)[k] /\ g.hop = k
                                  /\ g.score = WalkScore(d, k, view)
         \/ g.hop = MaxHops + 1 /\ g.score = 1
  BY <1>1, <1>2, HitKinds
\* What is not before it scores no more, and of what scores the same is no nearer.
<1>10. g.score >= f.score /\ (g.score = f.score => g.hop <= f.hop)
  <2>1. f.score \in Int /\ g.score \in Int /\ f.hop \in Int /\ g.hop \in Int
    BY <1>0, <1>5, <1>9, WalkScores
  <2>2. ~(Key(f)[1] < Key(g)[1])
    <3>1. 1 \in 1..6 /\ 1..(1 - 1) = {}
      OBVIOUS
    <3> QED
      BY <1>7, <3>1 DEF Before
  <2>3. ~(Key(f)[1] = Key(g)[1] /\ Key(f)[2] < Key(g)[2])
    <3>1. 2 \in 1..6 /\ 1..(2 - 1) = {1}
      OBVIOUS
    <3> QED
      BY <1>7, <3>1 DEF Before
  <2> QED
    BY <1>8, <2>1, <2>2, <2>3
<1>11. CASE g.hop = MaxHops + 1 /\ g.score = 1
  <2>1. f.score >= 1
    BY <1>0, <1>3, <1>5, WalkScores
  <2>2. f.score = 1
    BY <1>0, <1>3, <1>5, <1>10, <1>11, <2>1, WalkScores
  <2> QED
    BY <1>0, <1>5, <1>10, <1>11, <2>2
<1>12. ASSUME NEW k \in 0..MaxHops, d \in Waves(live, view)[k], g.hop = k,
              g.score = WalkScore(d, k, view)
       PROVE  WithinLinks(d, n, live, view)
  <2>1. k <= h
    <3> SUFFICES ASSUME h < k PROVE FALSE
      BY <1>0
    <3>1. /\ WalkScore(e, h, view) \in 1..6 /\ WalkScore(d, k, view) \in 1..6
          /\ h = 0 => WalkScore(e, h, view) >= 5
          /\ h > 0 => WalkScore(e, h, view) = IF 4 - h > 1 THEN 4 - h ELSE 1
          /\ WalkScore(d, k, view) = IF 4 - k > 1 THEN 4 - k ELSE 1
      BY <1>0, WalkScores
    <3> QED
      BY <1>0, <1>5, <1>10, <1>12, <3>1
  <2>2. WithinLinks(d, k, live, view)
    BY <1>12, ReachedIsLinked
  <2>3. k \in Nat /\ n \in Nat /\ k <= n
    BY <1>0, <2>1
  <2> QED
    BY <1>9, <2>2, <2>3, LinkedLonger
<1> QED
  BY <1>9, <1>11, <1>12

\* Where the cap cuts, it cuts what is farther from the decision (relevant), however many
\* requests run, for any plan, any number of hops and any cap.
THEOREM NearestAreShown == Spec => []NearerShownFirst
<1>1. PlanInv => NearerShownFirst
  <2> SUFFICES ASSUME PlanInv, NEW r \in Requests, pc[r] = "shown", ~req[r].review,
                      NEW d \in req[r].shown, NEW e \in req[r].live,
                      e.id \in req[r].dropped, ~(d.priority >= Survival),
                      NEW n \in 0..MaxHops, WithinLinks(e, n, req[r].live, req[r].view)
               PROVE  WithinLinks(d, n, req[r].live, req[r].view)
    BY DEF NearerShownFirst
  <2> DEFINE live == req[r].live  view == req[r].view
  <2>1. Sound(live) /\ (\A c \in live : Active(c, view.turn))
    BY DEF PlanInv, RequestsInv, Showing
  <2>2. d \in Selected(Relevant(live, view)) /\ e.id \in Relevant(live, view).dropped
    BY DEF PlanInv, RequestsInv, Showing
  <2> HIDE DEF live, view
  <2>3. WithinLinks(e, n, live, view) /\ e \in live
    BY DEF live, view
  <2>4. WithinLinks(d, n, live, view)
    BY <2>1, <2>2, <2>3, NearerFirst
  <2> QED
    BY <2>4 DEF live, view
<1> QED
  BY <1>1, PlanInvariant, PTL

(*---------------------------------------------------------------------------*)
(* The file, and what a decision is told.                                     *)

\* The file holds the plan, or what a start would make the plan of.
Filed == disk = Whole(byId) \/ byId = Loaded(disk)

Over(t) == \A d \in standing \ byId : Expired(d, t)
Resting == \A r \in Requests : pc[r] \notin Saving

\* The map lacks nothing of what was accepted but what is over, and the file, unless a save
\* failed or is under way, nothing of the map.
Kept == /\ byId \subseteq standing
        /\ Over(turn)
        /\ ~blank /\ Separate => IdsOf(Seed) \subseteq IdsOf(standing)
        /\ disk.is = "whole" => IdsOf(disk.plan) \subseteq IdsOf(standing)
        /\ ~missed /\ Resting => Filed
        /\ disk.is \in {"emptied", "torn"} =>
              missed \/ blank \/ \E r \in Requests : pc[r] = "writing"

Alone(r) == pc[r] \in AtThePlan => \A s \in Requests \ {r} : pc[s] \notin AtThePlan
Pruning(r) == pc[r] \in {"reading", "pruning"} \/ (pc[r] \in Saving /\ req[r].then = "pruned")

\* Where a request is, between reading the plan and having it written.
InStep(r) ==
    /\ Alone(r)
    /\ Pruning(r) => Over(req[r].view.turn) /\ req[r].then # "raised"
    /\ pc[r] \in {"pruning", "serialising"} => req[r].seen = byId /\ req[r].of = object
    /\ pc[r] \in {"opening", "writing"} => req[r].text = byId
    /\ pc[r] = "writing" => disk = Emptied
    /\ pc[r] = "shown" => req[r].live = IF req[r].then = "raised" THEN {} ELSE req[r].due

FiledInv == PlanInv /\ (~crossed => Kept /\ \A r \in Requests : InStep(r))

LEMMA StillExpired ==
    ASSUME NEW d, IsDirective(d), NEW t \in Int, NEW u \in Int, t <= u, Expired(d, t)
    PROVE  Expired(d, u)
  BY DEF Expired, IsDirective

LEMMA FiledBegins == Init => FiledInv
<1> SUFFICES ASSUME Init PROVE FiledInv
  OBVIOUS
<1>1. PlanInv
  BY PlanBegins
<1>2. byId = Seed /\ standing = Seed /\ disk = (IF Separate THEN Absent ELSE Whole(Seed))
      /\ \A r \in Requests : pc[r] = "idle"
  BY DEF Init
<1>3. disk.is \in {"absent", "whole"} /\ (disk.is = "whole" => disk.plan = Seed) /\ Filed
  BY <1>2 DEF Filed, Loaded, Absent, Whole, Put
<1>4. Kept
  BY <1>2, <1>3 DEF Kept, Over
<1>5. \A r \in Requests : InStep(r)
  BY <1>2 DEF InStep, Alone, Pruning, AtThePlan, Saving
<1> QED
  BY <1>1, <1>4, <1>5 DEF FiledInv

LEMMA NotRaised == ASSUME NEW ds, Sound(ds) PROVE ds # Raised
<1> SUFFICES ASSUME ds = Raised PROVE FALSE
  OBVIOUS
<1>1. [id |-> 0] \in ds
  BY DEF Raised
<1>2. [id |-> 0].id \in Nat \ {0}
  BY <1>1 DEF Sound, IsDirective
<1> QED
  BY <1>2

\* What is over by an earlier turn is over.
LEMMA OverStays ==
    ASSUME PlanInv, NEW t \in Int, NEW u \in Int, t <= u, Over(t)
    PROVE  Over(u)
<1>1. \A d \in standing : IsDirective(d)
  BY DEF PlanInv, StoreInv, Sound
<1> QED
  BY <1>1, StillExpired DEF Over

LEMMA ActiveIsLive ==
    ASSUME NEW t, byId \subseteq standing, Over(t)
    PROVE  {d \in standing : Active(d, t)} = {d \in byId : Active(d, t)}
  BY DEF Over, Active

\* What the invariants say of a request, to begin a step from.
LEMMA TheOne ==
    ASSUME FiledInv, ~crossed, NEW r \in Requests
    PROVE  /\ turn \in Int /\ req[r].view.turn \in Int /\ req[r].view.turn <= turn
           /\ Sound(byId) /\ Sound(standing) /\ Kept /\ InStep(r)
           /\ IsRequest(req[r]) /\ r \in DOMAIN pc /\ r \in DOMAIN req
  BY DEF FiledInv, PlanInv, StoreInv, RequestsInv, Held

\* A request that is at the plan iterates over the map as it is.
LEMMA IteratesTheMap ==
    ASSUME FiledInv, ~crossed, NEW r \in Requests, pc[r] \in {"pruning", "serialising"},
           NEW seen \in Iterated(r)
    PROVE  seen = byId /\ seen # Raised
<1>1. Sound(byId) /\ req[r].seen = byId /\ req[r].of = object
  BY TheOne DEF InStep
<1>2. seen = byId
  BY <1>1 DEF Iterated
<1> QED
  BY <1>1, <1>2, NotRaised

\* One request moves.  Nobody else is at the plan, or it does not go there and leaves the
\* plan as it is; so the others are where they were.
LEMMA OneSteps ==
    ASSUME FiledInv, ~crossed, NEW r \in Requests, NEW label, NEW q,
           pc' = [pc EXCEPT ![r] = label], req' = [req EXCEPT ![r] = q],
           \/ pc[r] \in AtThePlan
           \/ \A s \in Requests \ {r} : pc[s] \notin AtThePlan
           \/ label \notin AtThePlan /\ UNCHANGED <<byId, object, disk, standing>>
    PROVE  /\ pc'[r] = label /\ req'[r] = q
           /\ \A s \in Requests \ {r} : pc'[s] = pc[s]
           /\ Alone(r)'
           /\ \A s \in Requests \ {r} : InStep(s)'
<1>1. /\ pc'[r] = label /\ req'[r] = q
      /\ \A s \in Requests \ {r} : pc'[s] = pc[s] /\ req'[s] = req[s]
  BY DEF FiledInv, PlanInv, RequestsInv
<1>2. \A s \in Requests : InStep(s)
  BY DEF FiledInv
<1>3. CASE \A s \in Requests \ {r} : pc[s] \notin AtThePlan
  <2>1. Alone(r)'
    BY <1>1, <1>3 DEF Alone
  <2>2. ASSUME NEW s \in Requests \ {r} PROVE InStep(s)'
    <3>1. /\ pc'[s] = pc[s] /\ req'[s] = req[s] /\ pc[s] \notin AtThePlan /\ InStep(s)
      BY <1>1, <1>2, <1>3
    <3> QED
      BY <3>1 DEF InStep, Alone, Pruning, AtThePlan, Saving
  <2> QED
    BY <1>1, <2>1, <2>2
<1>4. CASE pc[r] \in AtThePlan
  BY <1>2, <1>3, <1>4 DEF InStep, Alone
<1>5. CASE label \notin AtThePlan /\ UNCHANGED <<byId, object, disk, standing>>
  <2>1. Alone(r)'
    BY <1>1, <1>5 DEF Alone
  <2>2. ASSUME NEW s \in Requests \ {r} PROVE InStep(s)'
    <3>1. /\ pc'[s] = pc[s] /\ req'[s] = req[s] /\ InStep(s)
      BY <1>1, <1>2
    <3>2. Alone(s)'
      BY <1>1, <1>5, <3>1 DEF InStep, Alone
    <3> QED
      BY <1>5, <3>1, <3>2 DEF InStep, Pruning, Over
  <2> QED
    BY <1>1, <2>1, <2>2
<1> QED
  BY <1>3, <1>4, <1>5

\* Where the plan stays as it is and nobody starts or ends a save, it is as well kept.
LEMMA KeptStays ==
    ASSUME Kept, NEW r \in Requests, pc[r] \notin Saving, pc'[r] \notin Saving,
           \A s \in Requests \ {r} : pc'[s] = pc[s],
           UNCHANGED <<turn, blank, byId, disk, standing, missed>>
    PROVE  Kept'
<1>1. \A s \in Requests : /\ pc'[s] \in Saving <=> pc[s] \in Saving
                          /\ pc'[s] = "writing" <=> pc[s] = "writing"
  BY DEF Saving
<1>2. Resting' <=> Resting
  BY <1>1 DEF Resting
<1> QED
  BY <1>1, <1>2 DEF Kept, Over, Filed

LEMMA FiledAsk ==
    ASSUME FiledInv, ~crossed', NEW r \in Requests, NEW view \in Views, NEW review \in BOOLEAN,
           Ask(r, view, review)
    PROVE  Kept' /\ \A s \in Requests : InStep(s)'
<1> DEFINE v == [view EXCEPT !.turn = turn, !.actions = IF review THEN {} ELSE @]
           q == [Idle EXCEPT !.view = v, !.review = review]
<1>0. /\ ~crossed /\ \A s \in Requests \ {r} : pc[s] \notin AtThePlan
      /\ UNCHANGED <<turn, blank, byId, object, disk, standing, missed>> /\ pc[r] = "idle"
  BY DEF Ask, Approach, plan
<1>1. Kept
  BY <1>0, TheOne
<1>2. v.turn = turn
  BY ViewsOK
<1>3. req' = [req EXCEPT ![r] = q] /\ pc' = [pc EXCEPT ![r] = "reading"]
  BY DEF Ask, v, Goto
<1> HIDE DEF v
<1>4. q.view = v /\ q.then = "none"
  BY DEF Idle
<1> HIDE DEF q
<1>5. /\ pc'[r] = "reading" /\ req'[r] = q /\ \A s \in Requests \ {r} : pc'[s] = pc[s]
      /\ Alone(r)' /\ \A s \in Requests \ {r} : InStep(s)'
  BY <1>0, <1>3, OneSteps
<1>6. Kept'
  BY <1>0, <1>1, <1>5, KeptStays DEF Saving
<1>7. InStep(r)'
  <2>1. Over(req[r].view.turn)' /\ req'[r].then = "none"
    BY <1>0, <1>2, <1>4, <1>5, <1>6 DEF Kept, Over
  <2> QED
    BY <1>5, <2>1 DEF InStep
<1> QED
  BY <1>5, <1>6, <1>7

\* The plan, read when it lacks only what is over.
LEMMA FiledShows ==
    ASSUME FiledInv, ~crossed, NEW r \in Requests, Over(req[r].view.turn), req[r].then # "raised"
    PROVE  /\ Shown(r, byId).live = Shown(r, byId).due
           /\ Shown(r, byId).view = req[r].view /\ Shown(r, byId).then # "raised"
<1>1. Sound(byId) /\ PlanInv /\ byId \subseteq standing
  BY TheOne DEF FiledInv, Kept
<1>2. /\ Shown(r, byId).view = req[r].view /\ Shown(r, byId).then = req[r].then
      /\ Shown(r, byId).live = {d \in byId : Active(d, req[r].view.turn)}
      /\ Shown(r, byId).due = {d \in standing : Active(d, req[r].view.turn)}
  BY <1>1, ShownIsShowing
<1>3. {d \in byId : Active(d, req[r].view.turn)} = {d \in standing : Active(d, req[r].view.turn)}
  BY <1>1, ActiveIsLive
<1> QED
  BY <1>2, <1>3

LEMMA FiledRead ==
    ASSUME FiledInv, ~crossed', NEW r \in Requests, Read(r)
    PROVE  Kept' /\ \A s \in Requests : InStep(s)'
<1> DEFINE q == req[r]
<1>0. /\ ~crossed /\ pc[r] = "reading"
      /\ UNCHANGED <<turn, blank, byId, object, disk, standing, missed>>
  BY DEF Read, history, plan, process
<1>1. Kept /\ InStep(r) /\ IsRequest(q) /\ Over(q.view.turn) /\ q.then # "raised"
  BY <1>0, TheOne DEF InStep, Pruning
<1>2. CASE \E d \in byId : Expired(d, q.view.turn)
  <2> DEFINE p == [q EXCEPT !.seen = byId, !.of = object]
  <2>1. pc' = [pc EXCEPT ![r] = "pruning"] /\ req' = [req EXCEPT ![r] = p]
    BY <1>2 DEF Read, Goto, Seeing
  <2> HIDE DEF q
  <2>2. p.seen = byId /\ p.of = object /\ p.view = q.view /\ p.then = q.then
    BY <1>1 DEF IsRequest, Fields
  <2> HIDE DEF p
  <2>3. /\ pc'[r] = "pruning" /\ req'[r] = p /\ \A s \in Requests \ {r} : pc'[s] = pc[s]
        /\ Alone(r)' /\ \A s \in Requests \ {r} : InStep(s)'
    BY <1>0, <2>1, OneSteps DEF AtThePlan
  <2>4. Kept'
    BY <1>0, <1>1, <2>3, KeptStays DEF Saving
  <2>5. InStep(r)'
    <3>1. Over(req[r].view.turn)' /\ req'[r].then # "raised"
      BY <1>0, <1>1, <2>2, <2>3 DEF Over
    <3> QED
      BY <1>0, <2>2, <2>3, <3>1 DEF InStep
  <2> QED
    BY <2>3, <2>4, <2>5
<1>3. CASE ~\E d \in byId : Expired(d, q.view.turn)
  <2> DEFINE p == Shown(r, byId)
  <2>1. pc' = [pc EXCEPT ![r] = "shown"] /\ req' = [req EXCEPT ![r] = p]
    BY <1>3 DEF Read, Goto
  <2>2. p.live = p.due /\ p.then # "raised"
    BY <1>0, <1>1, FiledShows
  <2> HIDE DEF p
  <2>3. /\ pc'[r] = "shown" /\ req'[r] = p /\ \A s \in Requests \ {r} : pc'[s] = pc[s]
        /\ Alone(r)' /\ \A s \in Requests \ {r} : InStep(s)'
    BY <1>0, <2>1, OneSteps DEF AtThePlan
  <2>4. Kept'
    BY <1>0, <1>1, <2>3, KeptStays DEF Saving
  <2>5. InStep(r)'
    BY <2>2, <2>3 DEF InStep, Pruning, Saving
  <2> QED
    BY <2>3, <2>4, <2>5
<1> QED
  BY <1>2, <1>3

LEMMA FiledPrune ==
    ASSUME FiledInv, ~crossed', NEW r \in Requests, Prune(r)
    PROVE  Kept' /\ \A s \in Requests : InStep(s)'
<1> DEFINE q == req[r]
           kept == {d \in byId : ~Expired(d, q.view.turn)}
           p == [q EXCEPT !.seen = kept, !.of = object + 1, !.then = "pruned"]
<1>0. ~crossed /\ pc[r] = "pruning" /\ UNCHANGED <<turn, blank, disk, standing, missed>>
  BY DEF Prune, history, process
<1>1. /\ Kept /\ InStep(r) /\ IsRequest(q) /\ turn \in Int /\ q.view.turn \in Int
      /\ q.view.turn <= turn /\ Over(q.view.turn)
  BY <1>0, TheOne DEF InStep, Pruning
<1>2. PICK seen \in Iterated(r) :
          IF seen = Raised
          THEN GiveUp(r) /\ UNCHANGED <<byId, object>>
          ELSE /\ byId' = {d \in seen : ~Expired(d, req[r].view.turn)}
               /\ object' = object + 1
               /\ req' = [req EXCEPT ![r] = [@ EXCEPT !.seen = byId', !.of = object',
                                                      !.then = "pruned"]]
               /\ Goto(r, "serialising")
  BY DEF Prune
<1>3. seen = byId /\ seen # Raised
  BY <1>0, IteratesTheMap
<1>4. byId' = kept /\ object' = object + 1 /\ pc' = [pc EXCEPT ![r] = "serialising"]
  BY <1>2, <1>3 DEF Goto
<1>5. req' = [req EXCEPT ![r] = p]
  BY <1>2, <1>3, <1>4 DEF FiledInv, PlanInv, RequestsInv
<1>6. p.seen = kept /\ p.of = object + 1 /\ p.view = q.view /\ p.then = "pruned"
  <2> HIDE DEF q, kept
  <2> QED
    BY <1>1 DEF IsRequest, Fields
<1> HIDE DEF p
<1>7. /\ pc'[r] = "serialising" /\ req'[r] = p /\ \A s \in Requests \ {r} : pc'[s] = pc[s]
      /\ Alone(r)' /\ \A s \in Requests \ {r} : InStep(s)'
  BY <1>0, <1>4, <1>5, OneSteps DEF AtThePlan
<1>8. \A d \in standing \ kept : Expired(d, q.view.turn)
  BY <1>1 DEF Over
<1>9. \A d \in standing \ kept : Expired(d, turn)
  <2>1. \A d \in standing : IsDirective(d)
    BY <1>0, TheOne DEF Sound
  <2> QED
    BY <1>1, <1>8, <2>1, StillExpired
<1>10. Kept'
  <2>1. kept \subseteq standing
    BY <1>1 DEF Kept
  <2>2. Over(turn)'
    BY <1>0, <1>4, <1>9 DEF Over
  <2>3. ~Resting'
    BY <1>7 DEF Resting, Saving
  <2>4. \A s \in Requests : pc[s] = "writing" => pc'[s] = "writing"
    BY <1>0, <1>7
  <2> HIDE DEF kept
  <2> QED
    BY <1>0, <1>1, <1>4, <2>1, <2>2, <2>3, <2>4 DEF Kept
<1>11. InStep(r)'
  <2>1. Over(req[r].view.turn)'
    BY <1>0, <1>4, <1>6, <1>7, <1>8 DEF Over
  <2> QED
    BY <1>4, <1>6, <1>7, <2>1 DEF InStep
<1> QED
  BY <1>7, <1>10, <1>11

LEMMA FiledAnswer ==
    ASSUME FiledInv, ~crossed', NEW r \in Requests, NEW degraded \in BOOLEAN,
           NEW new \in SUBSET Issuable, Cardinality(IdsOf(new)) = Cardinality(new),
           Answer(r, degraded, new)
    PROVE  Kept' /\ \A s \in Requests : InStep(s)'
<1> DEFINE q == req[r]
           candidates == IF q.review
                         THEN {d \in new : d.horizon # None /\ d.horizon > q.view.turn}
                         ELSE new
           accepted == IF degraded THEN {} ELSE Accepted(candidates, q.view)
           issued == IdsOf(accepted)
           refused == IdsOf(new) \ issued
           ds == Put(byId, accepted)
           p == [q EXCEPT !.seen = ds, !.of = object, !.then = "issued",
                          !.issued = issued, !.refused = refused]
           label == IF accepted = {} THEN "recording" ELSE "serialising"
<1>1. /\ byId' = ds /\ standing' = Put(standing, accepted) /\ pc[r] = "shown"
      /\ pc' = [pc EXCEPT ![r] = label]
      /\ UNCHANGED <<turn, blank, object, disk, missed>>
      /\ ~crossed
      /\ accepted # {} => \A s \in Requests \ {r} : pc[s] \notin AtThePlan
  BY DEF Answer, Goto, Approach, process
<1>2. req' = [req EXCEPT ![r] = p]
  BY <1>1 DEF Answer, FiledInv, PlanInv, RequestsInv
<1>3. Kept /\ InStep(r) /\ IsRequest(q) /\ Sound(standing) /\ q.view.turn \in Int
  BY <1>1, TheOne
<1>4. Sound(accepted)
  <2>1. candidates \subseteq new
    OBVIOUS
  <2>2. q.view.turn \in Int
    BY <1>3
  <2> HIDE DEF candidates, q
  <2>3. Sound(Accepted(candidates, q.view))
    BY <2>1, <2>2, SoundAccepted
  <2> QED
    BY <2>3, SoundEmpty
<1> HIDE DEF q, candidates, accepted, issued, refused, ds
<1>5. p.seen = ds /\ p.of = object /\ p.view = q.view /\ p.then = "issued"
  BY <1>3 DEF IsRequest, Fields
<1> HIDE DEF p
<1>6. ds \subseteq standing' /\ standing' \ ds \subseteq standing \ byId
  BY <1>1, <1>3 DEF Put, Without, Kept, ds
<1>7. IdsOf(standing') = IdsOf(standing) \cup IdsOf(accepted)
  BY <1>1, <1>3, <1>4, SoundPut
<1>8. Over(turn)'
  BY <1>1, <1>3, <1>6 DEF Over, Kept
<1>9. CASE accepted = {}
  <2>1. ds = byId /\ standing' = standing /\ label = "recording"
    BY <1>1, <1>9 DEF Put, Without, ds
  <2>2. UNCHANGED <<byId, object, disk, standing>>
    BY <1>1, <2>1
  <2>3. /\ pc'[r] = "recording" /\ \A s \in Requests \ {r} : pc'[s] = pc[s]
        /\ Alone(r)' /\ \A s \in Requests \ {r} : InStep(s)'
    BY <1>1, <1>2, <2>1, <2>2, OneSteps DEF AtThePlan
  <2>4. Kept'
    BY <1>1, <1>3, <2>2, <2>3, KeptStays DEF Saving
  <2>5. InStep(r)'
    BY <2>3 DEF InStep, Pruning, Saving
  <2> QED
    BY <2>3, <2>4, <2>5
<1>10. CASE accepted # {}
  <2>1. label = "serialising"
    BY <1>10
  <2>2. /\ pc'[r] = "serialising" /\ req'[r] = p /\ \A s \in Requests \ {r} : pc'[s] = pc[s]
        /\ Alone(r)' /\ \A s \in Requests \ {r} : InStep(s)'
    BY <1>1, <1>2, <1>10, <2>1, OneSteps
  <2>3. Kept'
    <3>1. ~Resting'
      BY <2>2 DEF Resting, Saving
    <3>2. \A s \in Requests : pc[s] = "writing" => pc'[s] = "writing"
      BY <1>1, <2>2
    <3> QED
      BY <1>1, <1>3, <1>6, <1>7, <1>8, <3>1, <3>2 DEF Kept
  <2>4. InStep(r)'
    BY <1>1, <1>5, <2>2 DEF InStep, Pruning, Saving
  <2> QED
    BY <2>2, <2>3, <2>4
<1> QED
  BY <1>9, <1>10

LEMMA FiledSerialise ==
    ASSUME FiledInv, ~crossed', NEW r \in Requests, Serialise(r)
    PROVE  Kept' /\ \A s \in Requests : InStep(s)'
<1> DEFINE q == req[r]
           p == [q EXCEPT !.text = byId]
<1>0. /\ ~crossed /\ pc[r] = "serialising"
      /\ UNCHANGED <<turn, blank, byId, object, disk, standing>>
  BY DEF Serialise, process, plan
<1>1. Kept /\ InStep(r) /\ IsRequest(q) /\ Sound(byId)
  BY <1>0, TheOne
<1>2. PICK seen \in Iterated(r) :
         IF seen = Raised THEN Unsaved(r)
         ELSE Goto(r, "opening") /\ req' = [req EXCEPT ![r].text = seen] /\ UNCHANGED missed
  BY DEF Serialise
<1>3. seen = byId /\ seen # Raised
  BY <1>0, IteratesTheMap
<1>4. pc' = [pc EXCEPT ![r] = "opening"] /\ req' = [req EXCEPT ![r] = p] /\ missed' = missed
  BY <1>2, <1>3 DEF Goto, FiledInv, PlanInv, RequestsInv
<1>5. p.text = byId /\ p.view = q.view /\ p.then = q.then
  <2> HIDE DEF q
  <2> QED
    BY <1>1 DEF IsRequest, Fields
<1> HIDE DEF p
<1>6. /\ pc'[r] = "opening" /\ req'[r] = p /\ \A s \in Requests \ {r} : pc'[s] = pc[s]
      /\ Alone(r)' /\ \A s \in Requests \ {r} : InStep(s)'
  BY <1>0, <1>4, OneSteps DEF AtThePlan
<1>7. Kept'
  <2>1. ~Resting'
    BY <1>6 DEF Resting, Saving
  <2>2. \A s \in Requests : pc[s] = "writing" => pc'[s] = "writing"
    BY <1>0, <1>6
  <2> QED
    BY <1>0, <1>1, <1>4, <2>1, <2>2 DEF Kept, Over
<1>8. InStep(r)'
  <2>1. Pruning(r)' => Over(req[r].view.turn)' /\ req'[r].then # "raised"
    BY <1>0, <1>1, <1>5, <1>6 DEF InStep, Pruning, Over, Saving
  <2> QED
    BY <1>0, <1>5, <1>6, <2>1 DEF InStep
<1> QED
  BY <1>6, <1>7, <1>8

LEMMA FiledOpen ==
    ASSUME FiledInv, ~crossed', NEW r \in Requests, Open(r)
    PROVE  Kept' /\ \A s \in Requests : InStep(s)'
<1> DEFINE q == req[r]
<1>0. /\ ~crossed /\ pc[r] = "opening" /\ disk' = Emptied
      /\ pc' = [pc EXCEPT ![r] = "writing"] /\ req' = req
      /\ UNCHANGED <<turn, blank, byId, object, standing, missed>>
  BY DEF Open, process, plan, history, Goto
<1>1. Kept /\ InStep(r) /\ req = [req EXCEPT ![r] = q]
  BY <1>0, TheOne DEF FiledInv, PlanInv, RequestsInv
<1>2. /\ pc'[r] = "writing" /\ req'[r] = q /\ \A s \in Requests \ {r} : pc'[s] = pc[s]
      /\ Alone(r)' /\ \A s \in Requests \ {r} : InStep(s)'
  BY <1>0, <1>1, OneSteps DEF AtThePlan
<1>3. Kept'
  <2>1. ~Resting'
    BY <1>2 DEF Resting, Saving
  <2>2. disk'.is = "emptied"
    BY <1>0 DEF Emptied
  <2> QED
    BY <1>0, <1>1, <1>2, <2>1, <2>2 DEF Kept, Over
<1>4. InStep(r)'
  BY <1>0, <1>1, <1>2 DEF InStep, Pruning, Over, Saving
<1> QED
  BY <1>2, <1>3, <1>4

\* A save that fails leaves the map as it is, and the file as it was or unreadable.
LEMMA FiledRefuse ==
    ASSUME FiledInv, ~crossed', NEW r \in Requests, Refuse(r)
    PROVE  Kept' /\ \A s \in Requests : InStep(s)'
<1>0. /\ ~crossed /\ pc[r] \in Saving /\ disk' \in {disk, Torn} /\ Unsaved(r)
      /\ UNCHANGED <<turn, blank, byId, object, standing>> /\ missed' = TRUE
  BY DEF Refuse, Unsaved, plan
<1>1. Kept /\ PlanInv
  BY <1>0, TheOne DEF FiledInv
<1>2. Torn.is = "torn"
  BY DEF Torn
<1>3. Kept'
  BY <1>0, <1>1, <1>2 DEF Kept, Over
<1>4. \E label, q : /\ pc' = [pc EXCEPT ![r] = label] /\ req' = [req EXCEPT ![r] = q]
                    /\ label \in {"idle", "recording", "shown"}
                    /\ label = "shown" => q.then = "raised" /\ q.live = {}
  <2>1. CASE req[r].then = "pruned" /\ ~req[r].review
    <3>1. pc' = [pc EXCEPT ![r] = "shown"] /\ req' = [req EXCEPT ![r] = RaisedOf(r)]
      BY <1>0, <2>1 DEF Unsaved, GiveUp, Goto, RaisedOf
    <3> QED
      BY <1>1, <3>1, RaisedIsShowing
  <2>2. CASE req[r].then = "pruned" /\ req[r].review
    <3>1. pc' = [pc EXCEPT ![r] = "idle"] /\ req' = [req EXCEPT ![r] = Idle]
      BY <1>0, <2>2 DEF Unsaved, GiveUp, Goto
    <3> WITNESS "idle", Idle
    <3> QED
      BY <3>1
  <2>3. CASE req[r].then # "pruned"
    <3> DEFINE p == [req[r] EXCEPT !.refused = req[r].refused \cup req[r].issued, !.issued = {}]
    <3>1. pc' = [pc EXCEPT ![r] = "recording"] /\ req' = [req EXCEPT ![r] = p]
      BY <1>0, <1>1, <2>3 DEF Unsaved, Goto, PlanInv, RequestsInv
    <3> HIDE DEF p
    <3> WITNESS "recording", p
    <3> QED
      BY <3>1
  <2> QED
    BY <2>1, <2>2, <2>3
<1>5. PICK label, q : /\ pc' = [pc EXCEPT ![r] = label] /\ req' = [req EXCEPT ![r] = q]
                      /\ label \in {"idle", "recording", "shown"}
                      /\ label = "shown" => q.then = "raised" /\ q.live = {}
  BY <1>4
<1>6. /\ pc'[r] = label /\ req'[r] = q /\ Alone(r)'
      /\ \A s \in Requests \ {r} : InStep(s)'
  BY <1>0, <1>5, OneSteps DEF AtThePlan, Saving
<1>7. InStep(r)'
  BY <1>5, <1>6 DEF InStep, Pruning, Saving
<1> QED
  BY <1>3, <1>6, <1>7

\* Nothing is longer than what is written over an emptied file.
LEMMA FiledWrite ==
    ASSUME FiledInv, ~crossed', NEW r \in Requests, Write(r)
    PROVE  Kept' /\ \A s \in Requests : InStep(s)'
<1>0. /\ ~crossed /\ pc[r] = "writing" /\ missed' = FALSE
      /\ UNCHANGED <<turn, blank, byId, object, standing>>
  BY DEF Write, process, plan
<1>1. Kept /\ InStep(r) /\ Sound(byId) /\ disk = Emptied /\ req[r].text = byId
  BY <1>0, TheOne DEF InStep
<1>2. disk' = Whole(byId)
  <2>1. disk.is # "torn" /\ disk.plan = {}
    BY <1>1 DEF Emptied
  <2>2. ~(Cardinality(byId) < Cardinality({}))
    BY <1>1, FS_CardinalityType, FS_EmptySet DEF Sound
  <2> QED
    BY <1>1, <2>1, <2>2 DEF Write
<1>3. Kept'
  <2>1. disk'.is = "whole" /\ disk'.plan = byId /\ Filed'
    BY <1>0, <1>2 DEF Filed, Whole
  <2>2. IdsOf(byId) \subseteq IdsOf(standing)
    BY <1>1 DEF Kept, IdsOf
  <2> QED
    BY <1>0, <1>1, <2>1, <2>2 DEF Kept, Over
<1>4. CASE req[r].then = "pruned"
  <2> DEFINE p == Shown(r, byId)
  <2>1. pc' = [pc EXCEPT ![r] = "shown"] /\ req' = [req EXCEPT ![r] = p]
    BY <1>4 DEF Write, Goto
  <2>2. p.live = p.due /\ p.then # "raised"
    BY <1>0, <1>1, <1>4, FiledShows DEF InStep, Pruning, Saving
  <2> HIDE DEF p
  <2>3. /\ pc'[r] = "shown" /\ req'[r] = p
        /\ Alone(r)' /\ \A s \in Requests \ {r} : InStep(s)'
    BY <1>0, <2>1, OneSteps DEF AtThePlan
  <2>4. InStep(r)'
    BY <2>2, <2>3 DEF InStep, Pruning, Saving
  <2> QED
    BY <1>3, <2>3, <2>4
<1>5. CASE req[r].then # "pruned"
  <2> DEFINE q == req[r]
  <2>1. pc' = [pc EXCEPT ![r] = "recording"] /\ req' = [req EXCEPT ![r] = q]
    BY <1>5 DEF Write, Goto, FiledInv, PlanInv, RequestsInv
  <2>2. pc'[r] = "recording" /\ Alone(r)' /\ \A s \in Requests \ {r} : InStep(s)'
    BY <1>0, <2>1, OneSteps DEF AtThePlan
  <2>3. InStep(r)'
    BY <2>2 DEF InStep, Pruning, Saving
  <2> QED
    BY <1>3, <2>2, <2>3
<1> QED
  BY <1>4, <1>5

LEMMA FiledRecord ==
    ASSUME FiledInv, ~crossed', NEW r \in Requests, Record(r)
    PROVE  Kept' /\ \A s \in Requests : InStep(s)'
<1>0. /\ ~crossed /\ pc[r] = "recording"
      /\ pc' = [pc EXCEPT ![r] = "idle"] /\ req' = [req EXCEPT ![r] = Idle]
      /\ UNCHANGED <<turn, blank, byId, object, disk, standing, missed>>
  BY DEF Record, process, plan, history, Goto
<1>1. Kept
  BY <1>0, TheOne
<1>2. /\ pc'[r] = "idle" /\ \A s \in Requests \ {r} : pc'[s] = pc[s]
      /\ Alone(r)' /\ \A s \in Requests \ {r} : InStep(s)'
  BY <1>0, OneSteps DEF AtThePlan
<1>3. Kept'
  BY <1>0, <1>1, <1>2, KeptStays DEF Saving
<1>4. InStep(r)'
  BY <1>2 DEF InStep, Pruning, Saving
<1> QED
  BY <1>2, <1>3, <1>4

LEMMA FiledNextTurn ==
    ASSUME FiledInv, ~crossed', NextTurn
    PROVE  Kept' /\ \A r \in Requests : InStep(r)'
<1>1. /\ turn \in Int /\ turn' = turn + 1 /\ ~crossed /\ Kept
      /\ \A r \in Requests : InStep(r)
      /\ UNCHANGED <<blank, byId, object, disk, pc, req, standing, missed>>
  BY DEF NextTurn, FiledInv, PlanInv, StoreInv, plan, history
<1>2. Over(turn + 1)
  <2>1. PlanInv /\ Over(turn) /\ turn + 1 \in Int /\ turn <= turn + 1
    BY <1>1 DEF FiledInv, Kept
  <2> QED
    BY <1>1, <2>1, OverStays
<1>3. Over(turn)'
  BY <1>1, <1>2 DEF Over
<1>4. Kept'
  BY <1>1, <1>3 DEF Kept, Filed, Resting
<1>5. \A r \in Requests : InStep(r)'
  BY <1>1 DEF InStep, Alone, Pruning, Over
<1> QED
  BY <1>4, <1>5

\* A start makes the plan of the file, whatever requests were doing.
LEMMA FiledRestart ==
    ASSUME FiledInv, Restart
    PROVE  Kept' /\ \A r \in Requests : InStep(r)'
<1>1. /\ byId' = Loaded(disk) /\ standing' = byId' /\ disk' = disk
      /\ blank' = (disk.is \in {"emptied", "torn"})
      /\ \A r \in Requests : pc'[r] = "idle"
      /\ Sound(disk.plan)
      /\ disk \in {Absent, Emptied, Torn} \/ disk = Whole(disk.plan)
  BY DEF Restart, FiledInv, PlanInv, StoreInv
<1>2. disk.is \in {"absent", "emptied", "torn", "whole"}
  BY <1>1 DEF Absent, Emptied, Torn, Whole
<1>3. Filed'
  BY <1>1 DEF Filed
<1>4. ~blank' /\ Separate => IdsOf(Seed) \subseteq IdsOf(standing')
  <2> SUFFICES ASSUME disk.is \in {"absent", "whole"}, Separate
               PROVE  IdsOf(Seed) \subseteq IdsOf(Loaded(disk))
    BY <1>1, <1>2
  <2>1. IdsOf(Put(Seed, disk.plan)) = IdsOf(Seed) \cup IdsOf(disk.plan)
    BY <1>1, SoundSeed, SoundPut
  <2> QED
    BY <2>1 DEF Loaded
<1>5. disk.is = "whole" => IdsOf(disk.plan) \subseteq IdsOf(standing')
  <2> SUFFICES ASSUME disk.is = "whole" PROVE IdsOf(disk.plan) \subseteq IdsOf(Loaded(disk))
    BY <1>1
  <2>1. \A ds : Sound(ds) => IdsOf(disk.plan) \subseteq IdsOf(Put(ds, disk.plan))
    BY <1>1, SoundPut
  <2> QED
    BY <2>1, SoundSeed, SoundEmpty DEF Loaded
<1>6. Kept'
  BY <1>1, <1>3, <1>4, <1>5 DEF Kept, Over
<1>7. \A r \in Requests : InStep(r)'
  BY <1>1 DEF InStep, Alone, Pruning, AtThePlan, Saving
<1> QED
  BY <1>6, <1>7

LEMMA FiledSteps == ASSUME FiledInv, [Next]_vars PROVE FiledInv'
<1>1. PlanInv'
  BY PlanSteps DEF FiledInv
<1>2. ASSUME ~crossed' PROVE Kept' /\ \A s \in Requests : InStep(s)'
  <2>1. CASE NextTurn
    BY <1>2, <2>1, FiledNextTurn
  <2>2. CASE Restart
    BY <2>2, FiledRestart
  <2>3. ASSUME NEW r \in Requests, NEW v \in Views, NEW review \in BOOLEAN, Ask(r, v, review)
        PROVE  Kept' /\ \A s \in Requests : InStep(s)'
    BY <1>2, <2>3, FiledAsk
  <2>4. ASSUME NEW r \in Requests, NEW degraded \in BOOLEAN, NEW new \in SUBSET Issuable,
               Cardinality(IdsOf(new)) = Cardinality(new), Answer(r, degraded, new)
        PROVE  Kept' /\ \A s \in Requests : InStep(s)'
    BY <1>2, <2>4, FiledAnswer
  <2>5. ASSUME NEW r \in Requests,
               \/ Read(r) \/ Prune(r) \/ Serialise(r) \/ Open(r) \/ Refuse(r) \/ Write(r)
               \/ Record(r)
        PROVE  Kept' /\ \A s \in Requests : InStep(s)'
    BY <1>2, <2>5, FiledRead, FiledPrune, FiledSerialise, FiledOpen, FiledRefuse, FiledWrite,
       FiledRecord
  <2>6. CASE UNCHANGED vars
    <3>1. Kept /\ \A s \in Requests : InStep(s)
      BY <1>2, <2>6 DEF vars, FiledInv
    <3> QED
      BY <2>6, <3>1 DEF vars, Kept, Resting, InStep, Alone, Pruning, Over, Filed
  <2> QED
    BY <2>1, <2>2, <2>3, <2>4, <2>5, <2>6 DEF Next
<1> QED
  BY <1>1, <1>2 DEF FiledInv

\* As long as no two requests are at the plan at once, a request iterates over the map as it
\* is and writes what it holds; what has left the map is past its horizon; and at every rest
\* after a save that did not fail the file is one a start makes the plan of (in_force, add,
\* _save, _load).
THEOREM FiledInvariant == Spec => []FiledInv
<1>1. FiledInv /\ [Next]_vars => FiledInv'
  BY FiledSteps
<1> QED
  BY <1>1, FiledBegins, PTL DEF Spec

\* A start gives back the plan in force, unless the last save failed or was under way, or two
\* requests were at the plan at once; and more only of the seed, or of what that save had yet
\* to replace (DirectiveStore.__init__, _load).
THEOREM PlanComesBack == Spec => []RestartRestores
<1>1. FiledInv => RestartRestores
  <2> DEFINE underWay == \E r \in Requests : pc[r] \in Saving
             replaced(d, e) == e.id = d.id /\ (Expired(e, turn) \/ e \in byId)
  <2> SUFFICES ASSUME FiledInv, ~crossed
               PROVE  /\ ~missed /\ ~underWay => Unexpired(byId) \subseteq Loaded(disk)
                      /\ disk.is \in {"emptied", "torn"} =>
                            missed \/ blank \/ \E r \in Requests : pc[r] = "writing"
                      /\ \A d \in Unexpired(Loaded(disk)) \ byId :
                            \/ /\ Separate /\ d \in Seed
                               /\ blank \/ \E e \in standing : replaced(d, e)
                            \/ (missed \/ underWay) /\ \E e \in standing : replaced(d, e)
    BY DEF RestartRestores
  <2>1. Kept
    BY DEF FiledInv
  <2>2. ~missed /\ ~underWay => Filed
    BY <2>1 DEF Kept, Resting
  <2>3. disk = Whole(byId) => Unexpired(byId) \subseteq Loaded(disk)
    BY DEF Loaded, Whole, Put, Unexpired
  <2>4. ~missed /\ ~underWay => Unexpired(byId) \subseteq Loaded(disk)
    BY <2>2, <2>3 DEF Filed, Unexpired
  <2>5. ASSUME NEW d \in Unexpired(Loaded(disk)) \ byId
        PROVE  \/ Separate /\ d \in Seed /\ (blank \/ \E e \in standing : replaced(d, e))
               \/ (missed \/ underWay) /\ \E e \in standing : replaced(d, e)
    <3>1. d \in Loaded(disk) /\ d \notin byId
      BY DEF Unexpired
    <3>2. \A e \in standing : e.id = d.id => replaced(d, e)
      BY <2>1 DEF Kept, Over
    <3>3. (Separate /\ d \in Seed) \/ (disk.is = "whole" /\ d \in disk.plan)
      BY <3>1 DEF Loaded, Put, Without
    <3>4. CASE Separate /\ d \in Seed
      <4>1. ~blank => \E e \in standing : e.id = d.id
        BY <2>1, <3>4 DEF Kept, IdsOf
      <4> QED
        BY <3>2, <3>4, <4>1
    <3>5. CASE disk.is = "whole" /\ d \in disk.plan
      <4>1. \E e \in standing : e.id = d.id
        BY <2>1, <3>5 DEF Kept, IdsOf
      <4>2. ~Filed
        BY <3>1, <3>5 DEF Filed, Whole
      <4> QED
        BY <2>2, <3>2, <4>1, <4>2
    <3> QED
      BY <3>3, <3>4, <3>5
  <2> HIDE DEF underWay, replaced
  <2> QED
    BY <2>1, <2>4, <2>5 DEF Kept
<1> QED
  BY <1>1, FiledInvariant, PTL

\* As long as no two requests are at the plan at once, a decision is told of every directive
\* that stands, by showing it or by naming it as left out, or of none if what it pruned could
\* not be saved (in_force, _with_directives, relevant, _plan_block).
THEOREM StandingIsHeard == Spec => []StandingIsTold
<1>1. FiledInv => StandingIsTold
  <2> SUFFICES ASSUME FiledInv, NEW r \in Requests, pc[r] = "shown", ~crossed
               PROVE  LET told == IdsOf(req[r].shown) \cup req[r].dropped IN
                      IF req[r].then = "raised" THEN told = {} ELSE told = IdsOf(req[r].due)
    BY DEF StandingIsTold
  <2> DEFINE view == req[r].view
             live == req[r].live
  <2>1. /\ InStep(r) /\ Showing(req[r]) /\ req[r].review \in BOOLEAN
    BY DEF FiledInv, PlanInv, RequestsInv, Held
  <2>2. live = IF req[r].then = "raised" THEN {} ELSE req[r].due
    BY <2>1 DEF InStep
  <2>3. IdsOf(req[r].shown) \cup req[r].dropped = IdsOf(live)
    <3>1. CASE req[r].review
      BY <2>1, <3>1 DEF Showing, IdsOf
    <3>2. CASE ~req[r].review
      <4>1. /\ req[r].shown = Selected(Relevant(live, view))
            /\ req[r].dropped = Relevant(live, view).dropped
            /\ {d \in live : Active(d, view.turn)} = live
        BY <2>1, <3>2 DEF Showing
      <4> DEFINE hits == {h \in Hits(live, view) :
                          Cardinality({g \in Hits(live, view) : Before(g, h)}) < RelevanceLimit}
      <4>2. /\ Relevant(live, view).hits = hits
            /\ Relevant(live, view).dropped = {d.id : d \in live} \ {h.directive.id : h \in hits}
        BY <4>1 DEF Relevant
      <4>3. \A h \in hits : h.directive \in live
        BY HitKinds
      <4> HIDE DEF hits, live, view
      <4>4. IdsOf(Selected(Relevant(live, view))) = {h.directive.id : h \in hits}
        BY <4>2 DEF Selected, IdsOf
      <4>5. {h.directive.id : h \in hits} \subseteq {d.id : d \in live}
        BY <4>3
      <4> QED
        BY <4>1, <4>2, <4>4, <4>5 DEF IdsOf
    <3> QED
      BY <2>1, <3>1, <3>2
  <2>4. IdsOf({}) = {}
    BY DEF IdsOf
  <2> HIDE DEF live
  <2> QED
    BY <2>2, <2>3, <2>4
<1> QED
  BY <1>1, FiledInvariant, PTL
================================================================================
