------------------------------- MODULE Grounding -------------------------------
(* What a decision is told and can prove it was told: the rulebook the game's   *)
(* turn announcement primes (datalinks/quipu.py: QuipuRetriever), the lessons   *)
(* and unit intents of the memory store (memory.py: RememberingRetriever), the  *)
(* evidence file that binds both to the decision (grounding_evidence.py: Cache) *)
(* and the order that writes an intent (service.py).  A retriever is configured *)
(* with a dataset, as the shipped configuration does.                           *)
EXTENDS Naturals, Sequences, FiniteSets, SequencesExt

CONSTANTS Factions,
          Nobody,         \* the faction of a view that names none
          MaxTurn,        \* bound: turns
          Rules,          \* labels the rulebook has a row for
          Cost,           \* label -> tokens of its fact
          Views,          \* the world views the game sends; a menu is subjects, then options
          QueryLabels,    \* query_labels (64)
          FactLimit,      \* limit (0: none)
          Budget,         \* token_budget (0: none)
          KeptTurns,      \* turns each of the two caches holds (8)
          Tactics,        \* durable lessons of earlier games
          Units,          \* units an intent can be about
          RecallLimit,    \* limit (10): lines one recall returns
          MaxIntents,     \* bound: intents the server holds
          MaxBoots,       \* bound: lives of the process; each mints a game id
          MaxClock,       \* bound: the clock
          MaxServed,      \* bound: decisions
          MaxOutages,     \* bound: times a server changes how it answers
          Ceiling,        \* max_age_secs
          Generous,       \* PRUNE_AGE_MULTIPLE (10)
          Announcers, Deciders     \* threads serving POST /turn and POST /decide

ASSUME GroundingConstantsOK ==
    /\ Nobody \notin Factions
    /\ {MaxTurn, QueryLabels, KeptTurns, MaxBoots} \subseteq Nat \ {0}
    /\ {FactLimit, Budget, RecallLimit, MaxIntents, MaxClock, MaxServed, MaxOutages,
        Ceiling} \subseteq Nat
    /\ Generous \in Nat \ {0}
    /\ IsFiniteSet(Tactics)
    /\ \A v \in Views : v.faction \in Factions \cup {Nobody} /\ v.turn \in 1..MaxTurn

Turns == 1..MaxTurn
Outcomes == {"used", "empty", "transport-error"}
Consultations == [turn : Turns, faction : Factions, outcome : Outcomes, at : 0..MaxClock]
Unread == {"unread"}

-------------------------------------------------------------------------------
(* Retrieval, as a function of a view's candidates and the rows it may read.  What the  *)
(* memory adds follows the rulebook's facts. *)

Deduped(s) == FoldLeft(LAMBDA seen, x : IF Contains(seen, x) THEN seen ELSE Append(seen, x),
                       <<>>, s)
UpTo(s, n) == SubSeq(s, 1, IF n < Len(s) THEN n ELSE Len(s))
After(s, n) == SubSeq(s, n + 1, Len(s))

\* apply_budget: every fact is a rule; one that does not fit is passed over, and a later,
\* shorter one may still fit.
WithinBudget(labels) ==
    IF Budget = 0 THEN labels
    ELSE FoldLeft(LAMBDA sofar, l :
             IF sofar.spent + Cost[l] > Budget THEN sofar
             ELSE [spent |-> sofar.spent + Cost[l], kept |-> Append(sofar.kept, l)],
             [spent |-> 0, kept |-> <<>>], labels).kept

Line(kind, what, of) == [kind |-> kind, what |-> what, of |-> of]
NoGrounding(degraded) ==
    [ids |-> <<>>, facts |-> <<>>, remembered |-> <<>>, unmatched |-> {}, shed |-> {},
     degraded |-> degraded]

\* QuipuRetriever.retrieve past its guards.  A budget that drops a fact says so in a line.
Grounded(menu, rows) ==
    LET labels == Deduped(menu)
        asked == UpTo(labels, QueryLabels)
        found == SelectSeq(asked, LAMBDA l : l \in rows)
        matched == IF FactLimit = 0 THEN found ELSE UpTo(found, FactLimit)
        kept == WithinBudget(matched)
        note == IF Len(kept) < Len(matched) THEN <<Line("note", "omitted", Nobody)>> ELSE <<>>
    IN [ids |-> kept,
        facts |-> [i \in DOMAIN kept |-> Line("rule", kept[i], Nobody)] \o note,
        remembered |-> <<>>,
        unmatched |-> ToSet(asked) \ rows,
        shed |-> ToSet(After(labels, QueryLabels))
                     \cup (IF FactLimit = 0 THEN {} ELSE ToSet(After(found, FactLimit))),
        degraded |-> FALSE]

\* How the lines are put in front of the brain (orchestrator.py): each with its id when
\* there are as many ids as lines, all of them bare otherwise.
IdsShown(g) == IF Len(g.ids) = Len(g.facts) + Len(g.remembered) THEN ToSet(g.ids) ELSE {}

-------------------------------------------------------------------------------
VARIABLES
    dataset,    \* the rulebook server: "full", "empty" (dataset missing) or "down"
    primed,     \* _turn_rows, oldest key first
    consulted,  \* _turn_consultations, oldest key first
    fetched,    \* the rows an announcing thread holds between the two stores
    memory,     \* the memory server answers
    intents,    \* the intents the memory server holds
    recalled,   \* RememberingRetriever._recalled
    boot,       \* lives of this process: each one is a game id of its own
    clock, outages,
    served,     \* decisions taken up so far
    pc, view, told,
                \* of each decision: where it is, its view, its grounding
    due,        \* history, of each decision: its faction's intents, live when it arrived
                \* and not written again before it read the memory server
    recall,     \* history, of each decision: what that read got: "whole" if every live
                \* intent of this life of the process, "cut" at the limit, "refused"
    evidence,   \* of each decision: the reference it publishes
    holds,      \* of each decision: what the file it has open for writing is by now:
                \* "none", the "scratch", the evidence "file" itself, or "gone"
    scratch,    \* the scratch files of this process: one of a content
    files,      \* the evidence files; of either: its content's name, the time it was
                \* written, and whether the content is in it
    referenced, \* files some record names
    shared,     \* history: contents two threads were writing at once
    lost        \* orders the game confirmed and the caller was told failed

caches == <<primed, consulted, fetched, recalled>>
world == <<dataset, memory, intents, clock, outages, lost>>
decisions == <<pc, served, view, told, due, recall, evidence, holds>>
writing == <<scratch, shared>>
evidenceFiles == <<files, referenced, writing>>
groundingVars == <<caches, boot, world, decisions, evidenceFiles>>

NoRows == [turn |-> 0, faction |-> Nobody, rows |-> {}]
FirstView == CHOOSE v \in Views : TRUE
NoFile == [c |-> [turn |-> 0, faction |-> Nobody, outcome |-> "none", at |-> 0],
           view |-> FirstView, facts |-> <<>>]

GroundingInit ==
    /\ dataset = "full"
    /\ primed = <<>>
    /\ consulted = <<>>
    /\ fetched = [a \in Announcers |-> NoRows]
    /\ memory = TRUE
    /\ intents = {}
    /\ recalled = [f \in Factions |-> Unread]
    /\ boot = 1
    /\ clock = 0
    /\ outages = 0
    /\ served = 0
    /\ pc = [d \in Deciders |-> "new"]
    /\ view = [d \in Deciders |-> FirstView]
    /\ told = [d \in Deciders |-> NoGrounding(FALSE)]
    /\ due = [d \in Deciders |-> {}]
    /\ recall = [d \in Deciders |-> "none"]
    /\ evidence = [d \in Deciders |-> NoFile]
    /\ holds = [d \in Deciders |-> "none"]
    /\ scratch = {}
    /\ files = {}
    /\ referenced = {}
    /\ shared = {}
    /\ lost = {}

-------------------------------------------------------------------------------
(* The game announces a turn. *)

SameKey(x, y) == x.turn = y.turn /\ x.faction = y.faction
Keyed(s, k) == {s[i] : i \in {j \in DOMAIN s : SameKey(s[j], k)}}

\* An ordered dict: a key written again keeps its place; past the bound the oldest goes.
Stored(s, entry) ==
    LET written == IF Keyed(s, entry) = {} THEN Append(s, entry)
                   ELSE [i \in DOMAIN s |-> IF SameKey(s[i], entry) THEN entry ELSE s[i]]
    IN IF Len(written) > KeptTurns THEN Tail(written) ELSE written

RowsOf(answer) == IF answer = "full" THEN Rules ELSE {}
OutcomeOf(answer) == CASE answer = "down" -> "transport-error"
                       [] answer = "empty" -> "empty"
                       [] OTHER -> "used"

\* prime_turn: the query, and _remember of what came back, failures included.
Prime(a, turn, faction) ==
    /\ fetched[a] = NoRows
    /\ consulted' = Stored(consulted, [turn |-> turn, faction |-> faction,
                                       outcome |-> OutcomeOf(dataset), at |-> clock])
    /\ fetched' = IF dataset = "down" THEN fetched
                  ELSE [fetched EXCEPT ![a] = [turn |-> turn, faction |-> faction,
                                               rows |-> RowsOf(dataset)]]
    /\ UNCHANGED <<primed, recalled, boot, world, decisions, evidenceFiles>>

\* prime_turn: the rows, under the lock once more.
KeepRows(a) ==
    /\ fetched[a] # NoRows
    /\ primed' = Stored(primed, fetched[a])
    /\ fetched' = [fetched EXCEPT ![a] = NoRows]
    /\ UNCHANGED <<consulted, recalled, boot, world, decisions, evidenceFiles>>

-------------------------------------------------------------------------------
(* The memory server. *)

\* memory_scope: one graph per game and faction; a new life of the process is a new game id.
InScope(i, faction) == i.boot = boot /\ i.faction = faction

Live(i, turn) == turn <= i.until
LiveFor(faction, turn) == {i \in intents : InScope(i, faction) /\ Live(i, turn)}
PlansOf(faction, turn) == {i \in intents : i.faction = faction /\ Live(i, turn)}
Lessons(ts) == SetToSeq({Line("tactic", t, Nobody) : t \in ts})

\* POST /order with an intent: the game has confirmed the order, then the reason is posted.
\* write_intent lets a server that does not answer raise, and the reply is an error.
RecordIntent(faction, unit, until) ==
    LET others == {i \in intents : ~(InScope(i, faction) /\ i.unit = unit)}
    IN /\ IF memory
          THEN /\ Cardinality(others) < MaxIntents
               /\ intents' = others \cup {[boot |-> boot, faction |-> faction,
                                           unit |-> unit, until |-> until]}
               /\ due' = [d \in Deciders |->
                             IF pc[d] \in {"rows", "intents"}
                             THEN due[d] \cap others ELSE due[d]]
               /\ lost' = lost
          ELSE lost' = lost \cup {unit} /\ UNCHANGED <<intents, due>>
       /\ UNCHANGED <<caches, boot, dataset, memory, clock, outages, pc, served, view, told,
                      recall, evidence, holds, evidenceFiles>>

-------------------------------------------------------------------------------
(* One decision. *)

Goto(d, place) == pc' = [pc EXCEPT ![d] = place]

Arrive(d, v) ==
    /\ pc[d] = "new"
    /\ served < MaxServed
    /\ served' = served + 1
    /\ view' = [view EXCEPT ![d] = v]
    /\ due' = [due EXCEPT ![d] = IF v.faction = Nobody THEN {} ELSE PlansOf(v.faction, v.turn)]
    /\ Goto(d, "rows")
    /\ UNCHANGED <<caches, boot, world, told, recall, evidence, holds, evidenceFiles>>

\* QuipuRetriever.retrieve.  What it raises ends the whole retrieval, the memory's part too.
ReadRows(d) ==
    /\ pc[d] = "rows"
    /\ LET mine == Keyed(primed, view[d])
           rows == UNION {e.rows : e \in mine}
           idle == view[d].menu = <<>>
           raises == ~idle /\ (view[d].faction = Nobody \/ mine = {} \/ rows = {})
       IN /\ told' = [told EXCEPT ![d] = IF idle \/ raises THEN NoGrounding(raises)
                                         ELSE Grounded(view[d].menu, rows)]
          /\ Goto(d, IF raises \/ view[d].faction = Nobody THEN "bind" ELSE "intents")
    /\ UNCHANGED <<caches, boot, world, served, view, due, recall, evidence, holds, evidenceFiles>>

Told(d, lines) == told' = [told EXCEPT ![d].remembered = @ \o lines]

\* Mutant: intents are cached with the lessons, so only a first recall reads the server.
IntentsCached(d) ==
    IF ~memory \/ recalled[view[d].faction] # Unread THEN {}
    ELSE LiveFor(view[d].faction, view[d].turn)

\* recall_intents: nothing, when the server does not answer.
RecallIntents(d) == IF memory THEN LiveFor(view[d].faction, view[d].turn) ELSE {}

ReadIntents(d) ==
    /\ pc[d] = "intents"
    /\ \E is \in SUBSET RecallIntents(d) :
         /\ \/ is = RecallIntents(d) /\ Cardinality(is) <= RecallLimit
            \/ Cardinality(is) = RecallLimit
         /\ Told(d, SetToSeq({Line("intent", i.unit, i.faction) : i \in is}))
    /\ recall' = [recall EXCEPT ![d] =
           IF ~memory THEN "refused"
           ELSE IF Cardinality(LiveFor(view[d].faction, view[d].turn)) <= RecallLimit
                THEN "whole" ELSE "cut"]
    /\ Goto(d, "lessons")
    /\ UNCHANGED <<caches, boot, world, served, view, due, evidence, holds, evidenceFiles>>

\* _tactics: read once in the life of the process and kept, an empty answer included.
ReadTactics(d) ==
    /\ pc[d] = "lessons"
    /\ LET f == view[d].faction
           answer == IF recalled[f] # Unread THEN recalled[f]
                     ELSE IF memory THEN Tactics ELSE {}
       IN /\ recalled' = [recalled EXCEPT ![f] = answer]
          /\ Told(d, Lessons(answer))
    /\ Goto(d, "bind")
    /\ UNCHANGED <<primed, consulted, fetched, boot, world, served, view, due, recall, evidence,
                   holds, evidenceFiles>>

-------------------------------------------------------------------------------
(* The evidence of a decision, for a reader that trusts nothing else. *)

OnDisk(file) == \E f \in files : f.file = file
Placed(fs, f) == {g \in fs : g.file # f.file} \cup {f}
Record(d, ref) ==
    /\ evidence' = [evidence EXCEPT ![d] = ref]
    /\ referenced' = IF ref = NoFile THEN referenced ELSE referenced \cup {ref}
    /\ Goto(d, "done")

\* _grounding_ref and publish, to its test of the path: the file's name is its content.
Bind(d) ==
    /\ pc[d] = "bind"
    /\ LET mine == Keyed(consulted, view[d])
       IN IF mine = {} THEN Record(d, NoFile)
          ELSE \E c \in mine :
               LET file == [c |-> c, view |-> view[d], facts |-> told[d].facts \o told[d].remembered]
               IN IF OnDisk(file) THEN Record(d, file)
                  ELSE /\ evidence' = [evidence EXCEPT ![d] = file]
                       /\ Goto(d, "open")
                       /\ UNCHANGED referenced
    /\ UNCHANGED <<caches, boot, world, served, view, told, due, recall, holds, files, writing>>

(* _write_atomic.  The scratch file's name carries the content's and the process's, so two *)
(* threads with one content have one scratch file: what either opens is cut to nothing,    *)
(* what either renames or unlinks is the other's too.                                      *)
Entry(d, whole) == [file |-> evidence[d], written |-> clock, whole |-> whole]
Others(d) == {e \in Deciders \ {d} : evidence[e] = evidence[d]}

OpenScratch(d) ==
    /\ pc[d] = "open"
    /\ scratch' = Placed(scratch, Entry(d, FALSE))
    /\ holds' = [holds EXCEPT ![d] = "scratch"]
    /\ shared' = IF \E e \in Others(d) : pc[e] \in {"write", "rename"}
                 THEN shared \cup {evidence[d]} ELSE shared
    /\ Goto(d, "write")
    /\ UNCHANGED <<caches, boot, world, served, view, told, due, recall, evidence, files, referenced>>

WriteScratch(d) ==
    /\ pc[d] = "write"
    /\ scratch' = IF holds[d] = "scratch" THEN Placed(scratch, Entry(d, TRUE)) ELSE scratch
    /\ files' = IF holds[d] = "file" THEN Placed(files, Entry(d, TRUE)) ELSE files
    /\ holds' = [holds EXCEPT ![d] = "none"]
    /\ Goto(d, "rename")
    /\ UNCHANGED <<caches, boot, world, served, view, told, due, recall, evidence, referenced, shared>>

\* What has the scratch open has the evidence file open, and what had that, nothing.
RenameScratch(d) ==
    /\ pc[d] = "rename"
    /\ \E s \in scratch : /\ s.file = evidence[d]
                         /\ scratch' = scratch \ {s}
                         /\ files' = Placed(files, s)
    /\ holds' = [e \in Deciders |->
                    CASE e \in Others(d) /\ holds[e] = "scratch" -> "file"
                      [] e \in Others(d) /\ holds[e] = "file" -> "gone"
                      [] OTHER -> holds[e]]
    /\ Goto(d, "prune")
    /\ UNCHANGED <<caches, boot, world, served, view, told, due, recall, evidence, referenced, shared>>

\* The `finally`: the scratch file is unlinked, whosever it is.
Unlink(d) == scratch' = {s \in scratch : s.file # evidence[d]}
LetGo(d, left) ==
    [e \in Deciders |->
        CASE e = d -> "none"
          [] e \in Others(d) /\ holds[e] = "scratch" -> "gone"
          [] holds[e] = "file" /\ (\A f \in left : f.file # evidence[e]) -> "gone"
          [] OTHER -> holds[e]]

\* Mutant: a disk that refuses the file is passed over.
PublishAnyway(d) ==
    /\ pc[d] \in {"open", "write", "rename"}
    /\ Unlink(d) /\ holds' = LetGo(d, files)
    /\ Record(d, evidence[d])
    /\ UNCHANGED <<caches, boot, world, served, view, told, due, recall, files, shared>>

\* publish: an OSError, the missing of the scratch file included, leaves the record without
\* a reference.
PublishFails(d) ==
    /\ pc[d] \in {"open", "write", "rename"}
    /\ \/ Unlink(d) /\ holds' = LetGo(d, files)
       \/ pc[d] = "open" /\ UNCHANGED <<scratch, holds>>
    /\ Record(d, NoFile)
    /\ UNCHANGED <<caches, boot, world, served, view, told, due, recall, files, shared>>

\* The unlinking, and _prune.
PruneEvidence(d) ==
    /\ pc[d] = "prune"
    /\ files' = {f \in files :
                    clock <= f.written + (IF Ceiling = 0 THEN 1 ELSE Ceiling) * Generous}
    /\ Unlink(d) /\ holds' = LetGo(d, files')
    /\ Record(d, evidence[d])
    /\ UNCHANGED <<caches, boot, world, served, view, told, due, recall, shared>>

\* The reply is sent; the thread takes the next decision.
Reply(d) ==
    /\ pc[d] = "done"
    /\ Goto(d, "new")
    /\ told' = [told EXCEPT ![d] = NoGrounding(FALSE)]
    /\ view' = [view EXCEPT ![d] = FirstView]
    /\ due' = [due EXCEPT ![d] = {}]
    /\ recall' = [recall EXCEPT ![d] = "none"]
    /\ evidence' = [evidence EXCEPT ![d] = NoFile]
    /\ UNCHANGED <<caches, boot, world, served, holds, evidenceFiles>>

-------------------------------------------------------------------------------
(* The two servers come and go, time passes, the process dies. *)

Outage == outages < MaxOutages /\ outages' = outages + 1

DatasetTurns(now) ==
    /\ dataset # now
    /\ dataset' = now
    /\ Outage
    /\ UNCHANGED <<caches, boot, memory, intents, clock, lost, decisions, evidenceFiles>>

MemoryTurns ==
    /\ Outage
    /\ memory' = ~memory
    /\ UNCHANGED <<caches, boot, dataset, intents, clock, lost, decisions, evidenceFiles>>

Tick ==
    /\ clock < MaxClock
    /\ clock' = clock + 1
    /\ UNCHANGED <<caches, boot, dataset, memory, intents, outages, lost, decisions, evidenceFiles>>

Restart ==
    /\ boot < MaxBoots
    /\ boot' = boot + 1
    /\ primed' = <<>>
    /\ consulted' = <<>>
    /\ fetched' = [a \in Announcers |-> NoRows]
    /\ recalled' = [f \in Factions |-> Unread]
    /\ pc' = [d \in Deciders |-> "new"]
    /\ view' = [d \in Deciders |-> FirstView]
    /\ told' = [d \in Deciders |-> NoGrounding(FALSE)]
    /\ due' = [d \in Deciders |-> {}]
    /\ recall' = [d \in Deciders |-> "none"]
    /\ evidence' = [d \in Deciders |-> NoFile]
    /\ holds' = [d \in Deciders |-> "none"]
    /\ scratch' = {}
    /\ UNCHANGED <<served, world, files, referenced, shared>>

Boundary ==
    \E a \in Announcers :
         \/ \E v \in Views : v.faction # Nobody /\ Prime(a, v.turn, v.faction)
         \/ KeepRows(a)
Deciding ==
    \E d \in Deciders :
         \/ \E v \in Views : Arrive(d, v)
         \/ ReadRows(d) \/ ReadIntents(d) \/ ReadTactics(d)
         \/ Bind(d) \/ OpenScratch(d) \/ WriteScratch(d) \/ RenameScratch(d)
         \/ PublishFails(d) \/ PruneEvidence(d) \/ Reply(d)
RulebookTurns == \E now \in {"full", "empty", "down"} : DatasetTurns(now)
Ordering == \E f \in Factions, u \in Units, t \in Turns : RecordIntent(f, u, t)

GroundingNext ==
    Boundary \/ Deciding \/ Ordering \/ RulebookTurns \/ MemoryTurns \/ Tick \/ Restart

GroundingSpec == GroundingInit /\ [][GroundingNext]_groundingVars

-------------------------------------------------------------------------------
(* Properties. *)

GroundingTypeOK ==
    /\ dataset \in {"full", "empty", "down"}
    /\ \A i \in DOMAIN primed : primed[i].rows \subseteq Rules
    /\ ToSet(consulted) \subseteq Consultations
    /\ {Len(primed), Len(consulted)} \subseteq 0..KeptTurns
    /\ \A f \in Factions : recalled[f] = Unread \/ recalled[f] \subseteq Tactics
    /\ \A d \in Deciders :
          /\ view[d] \in Views
          /\ pc[d] \in {"new", "rows", "intents", "lessons", "bind", "open", "write", "rename",
                       "prune", "done"}
          /\ holds[d] = "scratch" => \E s \in scratch : s.file = evidence[d]
          /\ holds[d] = "file" => OnDisk(evidence[d])
          /\ ToSet(told[d].ids) \subseteq ToSet(view[d].menu)
    /\ boot \in 1..MaxBoots
    /\ clock \in 0..MaxClock

Shown(d, kind) ==
    {l \in ToSet(told[d].facts) \cup ToSet(told[d].remembered) : l.kind = kind}

\* What a faction intends is shown to that faction's decisions only, and the evidence a
\* record names is of its own faction's turn, whatever the threads interleave with
\* (memory.py: _scope_for; quipu.py: consultation_for).
OwnFog ==
    \A d \in Deciders :
        /\ \A l \in Shown(d, "intent") : l.of = view[d].faction
        /\ evidence[d] # NoFile => SameKey(evidence[d].c, view[d])

\* An intent recorded in this life of the process before a decision arrives, whose horizon
\* has not passed and which no later order of the unit replaces, is in front of it: forming a
\* plan on one turn and not seeing it on the next is what the uncached recall is for
\* (memory.py: _intents).  Only of a decision whose retrieval did not degrade as a whole, and
\* whose own read the memory server answered with no more plans live than it returns; a plan
\* of an earlier life is of another game id, and is not among them (orchestrator.py:218).
OwnPlansShown ==
    \A d \in Deciders :
        pc[d] = "done" /\ ~told[d].degraded /\ recall[d] = "whole"
            => {i.unit : i \in {j \in due[d] : j.boot = boot}}
                   \subseteq {l.what : l \in Shown(d, "intent")}

\* A file a record names is there until the consultation in it is too old to count, and is
\* whole unless two threads of the process were writing that content at once
\* (grounding_evidence.py: publish, _write_atomic, _prune).
ReferencesVerify ==
    \A r \in referenced :
        \/ clock > r.c.at + Ceiling
        \/ \E f \in files : f.file = r /\ (f.whole \/ r \in shared)

(* Claims of the comments that the code does not keep; each has a configuration of its  *)
(* own. *)

\* grounding_evidence.py:248: "so a reader sees either no file or the whole one".  The scratch
\* file's name tells processes apart and not their threads: one renames what another has
\* just cut to nothing, and that one's disk is full, or the process dies.
WholeOrAbsent == \A r \in referenced : \A f \in files : f.file = r => f.whole

\* memory.py: "a plan the agent formed on turn 40 is invisible to it on turn 41, which is
\* precisely the case the mechanism exists for".  A process started again between the two
\* mints another game id, and reads another graph.
PlansOutliveTheProcess ==
    \A d \in Deciders :
        pc[d] = "done" /\ ~told[d].degraded /\ recall[d] = "whole"
            => {i.unit : i \in due[d]} \subseteq {l.what : l \in Shown(d, "intent")}

\* quipu.py: the evidence is "Keyed identically to `_turn_rows` so the evidence and the
\* facts it describes can never drift apart."  A second announcement that fails, or one
\* more turn that does, changes the evidence and leaves the rows.
EvidenceAgrees ==
    \A d \in Deciders :
        pc[d] = "done" /\ evidence[d] # NoFile /\ Shown(d, "rule") # {}
            => evidence[d].c.outcome = "used"

\* orchestrator.py: "The id has to be visible": an id the record says was offered is one
\* the brain could cite.  A line of memory or a budget's note leaves every id out.
OfferedIdsVisible ==
    \A d \in Deciders : pc[d] = "done" => ToSet(told[d].ids) \subseteq IdsShown(told[d])

\* knowledge.py, ungrounded: "Options that reached the model with no fact beside them,
\* however that happened."  What a token budget drops is in neither count.
UnarguedIsCounted ==
    \A d \in Deciders :
        pc[d] = "done" /\ ~told[d].degraded
            => ToSet(view[d].menu) \subseteq
                   ToSet(told[d].ids) \cup told[d].unmatched \cup told[d].shed

\* memory.py: "memory is worth having in an ungrounded run, and arguably worth more".  A
\* rulebook that is configured and does not answer takes the memory's lines with it.
MemoryStandsAlone ==
    \A d \in Deciders :
        pc[d] = "done" /\ memory /\ view[d].faction # Nobody
            => Shown(d, "tactic") # {} \/ recalled[view[d].faction] # Tactics

\* memory.py: "a store that is down costs an unaugmented prompt": one, not all that follow.
OutageCostsOnePrompt ==
    [][\A d \in Deciders : ReadTactics(d) /\ memory =>
           Tactics \subseteq {l.what : l \in ToSet(told'[d].remembered)}]_groundingVars

\* service.py: "a confirmed order's outcome is never thrown away by a 422 about its
\* annotation"; a memory server that is down throws it away by a 500.
ConfirmedIsReported == lost = {}
================================================================================
