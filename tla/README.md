# NeuralAmplifier in TLA+

NeuralAmplifier lets a language model, or an agent with tools, play *Sid Meier's
Alpha Centauri*. A Python service (`orchestrator/src/neural_amplifier`) sits
between the game and whoever decides. The game is one process with one thread: it
asks one decision at a time over HTTP (`POST /decide`) and is **blocked** until it
gets orders back. This directory models the service's own logic: what it
keeps in memory, who changes it when, and what it tells the game and the agent.

All paths below are under `orchestrator/src/neural_amplifier/` unless they say
otherwise.

## 1. The system

### Parts, state, operations

| part | state | operations | what makes it correct |
|---|---|---|---|
| **Decision queue** `pending.py`, `agent_brain.py` | the decisions an agent may claim, an index and an order list under one lock, an event per decision, tombstones, the run id of the game, a thread-local "current decision" per worker | `post` (with `_supersede` and the depth check), `claim`, `answer`, `await_answer`, `_forget`, `publish_outcome` | each decision closes once; an answer is taken at most once; an agent is offered only decisions somebody waits for, of one game process; nobody sleeps or blocks for nothing; what an agent is told is true |
| **Decision loop** `orchestrator.py`, `validate.py`, `policy.py` | none of its own between requests; per request the view, advisories, repairs, record | `decide`: policy gate, plan, standing answer, brain, validation, guard, repair, degradation, deferral, directives | the game is only told to do what it offered; a failure degrades and never stalls; a degraded decision says so and leaves no plan |
| **Standing answers, turn plans** `queued.py`, `turnplan.py` | answers per faction, surface and base; one table per faction | `install`, `find`, `check`, `retire`, `miss` | an answer is used only on a board it was meant for, and leaves only when overtaken |
| **Turn board** `turns.py` | slots per turn and base, an index by trace, the current turn | `announce`, `note_raised`, `note_answered`, `note_outcome`, `_evict` | a decision never walks backwards; "applied" means the engine said so |
| **Deferrals** `deferrals.py` | the parked decisions, oldest first | `open`, `resolve_for_base`, `expire_before`, `_evict` | each closes once; open work is forgotten last |
| **Engine outcomes** `outcomes.py` | reports by trace, a cursor | `record`, `get`, `since` | silence is not success |
| **Order channel** ("door 2") `orders.py`, `POST /order` in `service.py` | a lock, `na-command`, `na-command-result` | `issue`, `issue_batch`, the confirmation of each line | a success is of something the game did; one result answers one order |
| **Directive store** `directives.py` | the plan in force, in memory and in a file rewritten in place; a seed file | `in_force` (which prunes), `relevant`, `add`, `_save`, `_load` | a restart gives back what was saved; a decision is told of all that stands; the cap cuts what is far |
| **Knowledge and memory** `knowledge.py`, `datalinks/quipu.py`, `grounding_evidence.py`, `memory.py`, `intents.py` | caches of consultations and lessons, evidence files, a graph per game and faction | `prime_turn`, `retrieve`, `publish`, `_prune`, `write_intent`, `recall` | a broken source degrades the grounding, never the decision; what is shown is the faction's own and its own plans are among it |
| **Guards** `hank.py`, `yupana.py`, `jev.py` | a session with the board server, boards in its tenants | `rule` of each guard and of the chain, `what_if` | a decision is judged on a board its faction put there; a guard that is down allows and the others still rule |
| **Brains** `brain.py`, `claude_code_brain.py`, `response.py` | counters, the result of one probe | `decide` with its retries | every attempt is counted; a failure surfaces as a `BrainError` |
| **MCP server** `mcp_server.py` | one HTTP call under way | next, submit, directive | a claim is made only for a client that is listening |
| **Record** `decisions.py`, `replay.py`, `telemetry.py`, exports, dashboard | append-only log, content-addressed views, sinks | `put`, `write`, `emit`; read, replay, summarise | what is lost to a death is bounded and known; the reports count what the log says |
| **Measurement** `fairness.py`, `trajectory.py`, `coverage.py`, `scripts/*_report.py`, `scripts/ab_outcomes.py` | none | derive, compare | like is compared with like; a number stands under its own heading |
| **Run scripts** `scripts/drive-unattended.py`, `reap-orphan-runs.py`, `game_fixture.py`, `fixture.py`, `play-preflight.py`, `win_ladder.py` | budgets of the driver, a look at the host, a manifest, a scratch tenant, the ladder's rows | one cycle; look and signal; scan, verify, stage; check; play and judge | the driver ends; no run at work is stopped; what is staged is the game's; what is reported was earned |

`PROJECT.json` lists them all under `components`, with what is left out and why.

### How they interact

    game --POST /decide--> Orchestrator.decide --> AgentBrain.decide --> DecisionQueue
      ^                       |   |                                        ^     |
      |  orders               |   +- policy, plan, standing answers     answer  claim
      +-----------------------+                                            |     v
    game --POST /turn, /outcome--> TurnStore, OutcomeStore               agent (HTTP, MCP)
    game <--na-command / na-command-result--> OrderChannel <--POST /order--+
                                                  |  confirmed build
                                                  v
                                             DeferralSet

`POST /decide` runs on a worker thread of the service and blocks it. The agent's
calls run on other threads of the same process. Every store has a lock of its own
and there is **no lock over two stores or over two calls on one store**: a handler
is a sequence of critical sections, and anything may happen between two of them.
Nothing here survives the service except the directive file and the logs. The
*game* dies and is restarted often (a watchdog kills and reloads it); its death is
seen by the service only through the next world view's `run_id` or turn number.

### What is hard to test

Two actors between two critical sections (a timeout and a submit; a lookup and an
installation; an order and a turn's end); a dead process whose request is still
being served; a late result file; reports that arrive in any order or never; a
repair loop; bounded memories (tombstones, kept turns, open deferrals). A save cut in
half or refused by the disk, a scratch file that two threads share, a line torn by a death and continued by the next writer; a cache that outlives
what it was read from; a wait longer than the one it is nested in. Each is
listed under `hazards` in `PROJECT.json` at the line where it bites, with the
properties that watch it.

## 2. The modules

| module | models | atomic step |
|---|---|---|
| `DecisionLedger` | *abstract*: what the queue promises | opening, answering, abandoning or taking a decision |
| `DecisionQueue` | `pending.py`, `agent_brain.py` and the loop around them | one region under the queue's lock, or one unlocked effect (setting or waiting on an event) |
| `MCDecisionQueue` | symmetry for it | |
| `DecisionQueue_proofs` | its theorems | |
| `OrderChannel` | `orders.py`, `POST /order` | one file operation, one lock operation |
| `DecisionLoop` | `Orchestrator.decide`, `queued.py`, `turnplan.py`, `policy.py` | one critical section of a store, one call of the brain |
| `MCDecisionLoop` | five world views for it | |
| `DecisionLoop_proofs` | its theorems | |
| `TurnBoard` | `turns.py`, `deferrals.py`, `outcomes.py` and the handlers that write them | one critical section of a store |
| `MCTurnBoard` | symmetry for it | |
| `TurnBoard_proofs` | its theorems | |
| `CommandFile` | the order channel's files, shared with `dashboard.py`, `fixture.py` and `win_ladder.py`, which take no lock | one file operation |
| `DirectivePlan` | the pure part of `directives.py`: activity, expiry, compliance, the walk over shared entities, its ranking | operators |
| `DirectiveStore` | the store, `_issue`, `_plan_block`, a review | one use of the map, one step of a save |
| `MCDirectives` | five directives and three decisions for it | |
| `Directives_proofs` | theorems of the store and of the ranking | |
| `Grounding` | `quipu.py`, `knowledge.py`, `memory.py`, `grounding_evidence.py` | one critical section, one call of a server, one file operation |
| `OrderGuards` | `hank.py`, `yupana.py`, `jev.py`, `knowledge.apply` | one call of the board server, one guard |
| `MCKnowledge` | both, side by side | |
| `Knowledge_proofs` | theorems of `Grounding` and `OrderGuards` | |
| `RunLog` | `decisions.py`, `telemetry.py`, `replay.py`'s store, `Orchestrator._record` | one file operation, one sink |
| `LogReaders` | `memory._decisions`, `workflow_export.py`, `replay.py`, `coverage.py`, the dashboard and the two directive reports | operators over the log as it stands |
| `Arms` | `fairness.py`, `trajectory.py`, `ab_outcomes.py` | one logged decision |
| `MCRecords` | the three, and small answers and setups | |
| `Files_proofs` | theorems of the files: `OrderChannel` and `CommandFile` together, `RunLog` and `LogReaders` | |
| `ModelCalls` | `brain.py`, `claude_code_brain.py`, `response.py` and the repairs around them | one process or request |
| `AgentSeat` | `agent_brain.py` with the deadline, and the submitters | one unit of time or one call |
| `OutcomeFeed` | `outcomes.py` and a poller | one call |
| `AgentDesk` | `mcp_server.py` and the `/agent` handlers it calls | sending, handling, answering or losing a call |
| `MCSeats` | the four, side by side | |
| `Seats_proofs` | theorems of the four | |
| `RunDriver` | `drive-unattended.py` | one cycle of the driver, one move of the game |
| `RunReaper` | `reap-orphan-runs.py` | the look, the verdict, a signal |
| `GameFixture`, `SaveFixture`, `Preflight`, `WinLadder` | `game_fixture.py`, `fixture.py`, `play-preflight.py`, `win_ladder.py` | one command, one reading, one check or write, one seed |
| `MCSupervision` | the six, side by side | |
| `Scripts_proofs` | theorems of `Preflight`, `GameFixture`, `RunReaper`, `WinLadder`, `RunDriver`, and of `Arms` | |

Parts that share no state are explored side by side, each behavior in one *scene* of
an MC module, and not in product: a product would multiply the states and add no
behaviour.

**DecisionQueue.** A worker's `pc` goes *asked* (inside `decide`, before the post),
*posted* (lock released, events of superseded decisions still to be set),
*waiting*, *expired* (the wait ended, the lock not yet taken), then *loop* and
*reply*, or *degraded*. A request need not ask the brain: `Unasked` is the policy, the plan and
the standing answers, which end in the same `publish_outcome`, and `Unstored` a view that could
not be stored. `Judge` lets the orders stand, throws them out, or throws them out and raises over
the repair's view, and then `_current` outlives the request. An agent is *asleep* in `claim`, *holding* a decision,
*releasing* (answered, event not yet set) or *listening* for the outcome. `_order` is always
increasing because ids come from a counter under the lock, so it is the index
itself and "oldest" is "least". `Restart` is the game's death: its worker threads
stay. `status`, `outcome`, `run`, `done` are the fields of `Pending`; `closedAt`
and `epitaph` stand for the bounded `_settled` map; `taken` records answers that
were returned to the loop, `kept` those it let stand and `adrift` those it threw out in a
handler that raised. The two places where a raise is modelled are the two `store.put` of
`decide`; other exceptions on the same path leave the queue as these do.

**OrderChannel.** An order is a number; `cmd` and `slot` are the two files;
`slot.of` remembers, as the code does not, whose result it is. The game takes the
file, acts on as many lines as a tick allows, opens and closes the result file, and can
die between any two. `report.confirmed` is what `POST /order` derives by
position. `quiet` is history: the orders whose slot was cleared with nothing
of an earlier order under way.

**DecisionLoop.** `pc` is the place in `decide`: *gate* (policy and plan lookup),
*missing* (an entry was found and is not on offer, `miss` is next), *standing*,
*retiring*, *asking* (the brain), *parking* (recorded as deferred, not yet in the
set), *done*. The guard may deny any subset of the legal choices, and the brain
may answer any set of ids, fail, or defer; a predicate is one metric with a floor,
and a view may omit the metric. `dropped` is history: what each miss and
retirement had found and what it removed. `held` is the entry the lookup returned.

**TurnBoard.** A slot is a base on a turn, a trace is the number of the ask.
The game asks only when it is not waiting; `Reload` is its death, with or without
a decision in flight, and a load of this or an earlier turn; the request of the
dead process is still served. `Build` is the game confirming a door-2 order, and
`Resolve` is the handler linking it back, later. `on` is history: the turn on which the
resolving order was given.

**CommandFile.** The observer (the page, a fixture, the ladder) removes the result,
opens the command file, which empties it, fills it with `game-state` and waits for any
result. `queries` says whether there is one at all, so that the channel's own
promises can be told from those that hold with company. `crossed` is history: the orders that
were being written or waited for when an observer opened the command file.
`NeverSuccessOnSilence` says what the channel owes every order (a success is of something the
game acted on once, and all of which succeeded) and what it owes one that was neither `crossed`
nor sent behind another (`quiet`): its own result, line by line.

**DirectiveStore.** `byId` is the map and `object` which dict it is: a loop over a dict that
another thread grows raises, over one that was replaced it does not. `disk` is the file. A
request that prunes is *pruning* between reading the map and binding its copy; a save is
*serialising*, *opening* (the file is cut to nothing) and *writing*, and a crash in between
leaves a file that `_load` answers by clearing everything, the seed included. At each of the
three the disk may refuse (`Refuse`, up to `MaxRefusals`), which leaves the file as it was or
torn, and which the code swallows (`Unsaved`): in a prune the decision goes on without a plan, in
an issue the map keeps what the record calls refused. Three variables are history: `standing` is
what was accepted since the last start, `missed` whether the last save failed, `crossed` whether
two requests were between the start and the end of their use of the plan at once. The map is a
set with one directive of each id, since every reader sorts it first; a ranking is a key (score,
hops, priority, age, then the sorted plan's own order) and the cap a count of those that come
before. `RestartRestores` says when a start gives back all of the plan (the last save succeeded
and none is under way), when the file is unreadable, and the two ways in which a start brings back
more than was in force. Where a definition is preceded by one marked *Mutant*, in this module
and the others, that is the form of it a plausible bug would have.

**Grounding, OrderGuards.** A consultation is the turn and faction it was made for; a line is
what it speaks of and whose it is. `due` is history: the plans of the faction, of any life of the
process, that were live when the decision arrived and not written again since; `recall` says how
its own read of the memory server went (*whole*, cut by the limit, or failed). A file of evidence is
named by its content and has an age. It is written as `_write_atomic` does: the scratch file is
opened, which empties it, filled, renamed and unlinked, one step each; its name is that of
the file and the pid, so threads that write the same content have one scratch file between them.
`holds` is what a thread's handle leads to (the scratch file, the file another thread has renamed it
to, or nothing that has a name), and `shared` is history: the contents that two threads were
writing at once. A board server's reply is a report, silence, or JSON that is no report; the last is
read outside the guard's `try` and raises through the chain (`JudgeThrows`), so that
`knowledge.rule` lets the whole answer through (`thrown`). An order's effect on a pool or a metric
is the engine's statement. The servers, the disk and the process fail and return within named
bounds (`MaxOutages`, `MaxBoots`, `MaxEpoch`).

**RunLog, LogReaders, Arms.** A log is a sequence of records and `Garbage`, a torn line with
whatever was glued to it; `open` says that the last line has no end. `lossy` is history: the
lives whose telemetry told of a loss. Some readers split the file with `splitlines()` and some
iterate over its lines; a torn line is one line to all of them here, as it is unless the text
itself holds one of the rarer separators. `Funnels` is the carry report after each line; a
faction's history is the places of its lines in the log (`HistoryOf`). An answer's shape (what
it issued, followed, overrode, could not measure) comes from a set in `MCRecords`, chosen to
tell the readers apart.

**ModelCalls, AgentSeat, OutcomeFeed, AgentDesk.** A process of the command-line lane ends with
an event, with one the log did not take (`lost`), with a reply that is no envelope (`garbled`), or
with JSON that is no object, which makes the search for the diagnosis, or for the envelope's error,
raise past the brain (`uncaught`). Time in the seat counts units of the
deadline (the margin, the engine's limit and the configured timeout in the same unit); a
submitter is *listening* from its submit to the outcome. In the feed, `order` is the set of
numbered entries, a number being a place, and `TrimFactor` and
`Capacity` stand for 4 and 512. At the desk one client runs one call at a time, as
the stdio server does, and `asked.age` is how long its socket has been open.

**RunDriver and the scripts.** The game moves between two cycles of the driver: it thinks,
freezes, dies, is reloaded, shows and closes dialogs, of which only the number of rows and
the one that dismisses it matter. `clicks` is history. Of the bytes of a file only the
origin counts, and of a save only which one was read. A preflight's session is the
life of the server it was opened in.

## 3. The runs

| run | question | bounds | what it shows |
|---|---|---|---|
| `queue_safety` | can any interleaving break the queue? | 2 workers, 2 agents, 3 decisions, 2 game runs, depth 2, 1 tombstone; symmetric | the invariants and `KeepsLedger`: the queue implements the ledger |
| `queue_live` | is anyone left blocked, or lied to, with repairs, handlers that raise and unbounded waits? | 2 workers, 1 agent, 2 decisions, 3 runs (one unstamped), depth 1, 1 repair | `OutcomeIsTrue`, `BlockedIsReleased` |
| `order_channel` | can a result be invented, doubled, replayed or lost for ever, with a reader that takes no lock? | 2 threads, 1 observer, 2 orders of at most 3 lines, cap 2, 2 deaths | the channel's promises and `EveryOrderAnswered` |
| `order_channel_late` | is what is reported of an order its own outcome? | 2 single-line orders | no: see findings |
| `decision_loop` | what can a request reply, with the tables changing under it? | 2 requests, 1 key, 2 actions, 5 views, 2 installs, 1 repair | predicates, honesty about degradation, the reason the brain is woken with, progress |
| `turn_board` | can the view or the deferrals misstate what happened? | 2 bases, 2 turns of which 1 is kept, 3 asks, 2 open deferrals, 1 order, 2 late events, 1 reload; symmetric | order of statuses, when the turn in play is kept, closing once |
| `directives` | can a plan be lost, hidden or brought back? | 5 directives, 3 asks, 3 turns, 2 shown, 2 hops, 1 crash, 1 refused save | restart, telling, ranking |
| `supervision` | do the scripts end, spare, stage and report what they say? | driver: budgets of 2, 3 dialogs, 3 turns; reaper: 2 runs, 2 passes; fixture: 4 paths, 5 commands; preflight: 2 on one tenant, 2 restarts; ladder: 3 seeds, 4 plays | six properties, one a liveness property |
| `knowledge` | what reaches a decision, and what judges it, while servers fail? | four scenes; 2 factions, 2 turns, 2 rules, 2 intents, 1 outage, 2 lives; 2 threads that publish one turn's evidence; 2 judges, 1 asker, 2 lives of the board server | own plans, evidence on disk, the right board, a dead guard |
| `records` | what survives of a log, and do its readers agree? | 2 threads, 3 decisions, 2 lives, 1 fault; 4 turns, 3 lines per arm | losses, the funnel, the totals, the series |
| `seats` | does the answerer hear what it must, in time, and is every attempt counted? | attempts unset, none and 3; 3 outcomes for 2 places, 2 posts, 1 repair, limits of 2 and 8, margin 4; 2 clients, 2 decisions, waits of 0 and 9 against 1 and 3 | metering, deadlines, the feed, the claim |
| `seat_late` | is an accepted answer in time? | the same | no |

**Why these bounds.** The queue's races need two workers (a live one and the one being
retired), a decision each and a third for the tombstone to be pushed out; two agents are
needed for one to hold a claim while another polls. A result can be misattributed with two
orders; three lines against a cap of two give a batch that is cut and a position that has no
result. In the loop one key is enough because stores are keyed and no operation touches two
keys; two requests and two installs give a find, a replacement and a retire. Five views differ
from the first in one thing each: another turn, a metric too low, no metric, an option gone.
On the board, keeping one turn of two exercises eviction, and three asks with room for two
deferrals give an open entry older than a closed one. Raising a bound by one (a third order, a
fourth ask) multiplies the states and adds no new kind of overlap; and every invariant and
action property of these runs has a proof without bounds (section 4), so that the bounds
matter only for the three liveness properties. A directive that is revised, one that starts
late, one that ends early and two that the walk reaches at different hops are in the small
plan. The driver's limits are 2 where the code has 6 silences and 90 busy polls: a limit is
counted up to and reset, and 2 is the least at which a reset in the middle matters. An
answer's wait of 9 against the server's 1 and the client's 3 keeps the order of 110 and 120
seconds. Three traces for two places evict, and one more report than the trim keeps trims.
Three lines of an arm let a turn be logged twice, after a reload, with another value. Two
threads that publish the same evidence are what it takes to share a scratch file; one refused save
is what parts map and file. The directives' run has one request, so that every step of a save can
meet a crash or a refusal; what two at once can do is in `Directives_race.cfg`, and the theorems
hold for any number. Attempts unset, zero and three are the default, the clamp and a retry of a retry.

**Fairness.** `queue_live`: a thread that can run does, a wait that has a bound ends,
and a handler that holds an answer sets the event. Nothing makes a game ask or an
agent answer, so "every decision is answered" is *not* claimed: by default
the wait has no bound (`pending.py:260`), on purpose. `order_channel`: threads run,
deadlines pass, and the lock is strongly fair, since with two or more issuers a
`threading.Lock` must not starve one for ever; the game owes nothing. The loop's
and the board's runs need no fairness: `ReplyComesNearer` is an action property with a
decreasing measure. `DriverStops`: weak fairness of the driver's own cycle, which is a
loop with a sleep in it and waits for nobody; the game owes it nothing.

**Deadlock** is checked for the queue. In the other runs a bound is eventually
reached and the system rightly stops.

**What the modules state beyond the runs.** Each module has its type invariant, and several
have further properties that hold with the same constants and are not listed in the
configurations: `OneOrderUnobserved`, `OnlyOffered`, `OffIsSilent`,
`PlanOfItsTurn`, `ParkedIsLogged`, `LatestAskIsIndexed`, `AppliedWasSaid`, `OpenWorkIsKept`,
`OwnFog`, `ExportedIsWhole`, `InputKept`, `FairPlayIsEarned`, `ComparedIsFair`,
`EffortIsSupported`, `BlockIsBounded`, `HandedOnce`, `ShownIsItsSource`. The type invariants
of the composed runs are `TypeOK` of `MCSupervision`, `KnowledgeTypeOK`, `RecordsTypeOK`,
`SeatsTypeOK` and `SharedTypeOK`. Naming any of them in the `.cfg` checks it.

### Findings

Two runs check a statement of the documentation and refute it; `PROJECT.json` quotes the line.

1. *A late result is credited to the next order* (`orders.py:191`): the lock
   serialises orders, the slot carries no identity.
2. *An answer is accepted after the game moved on* (`agent_brain.py:160`): each attempt
   gets the engine's whole deadline from its own post, whatever grounding and earlier
   attempts have used of it.

### Statements of the code that do not hold

Each is stated in its module with the sentence it quotes, and TLC refutes it with the
configuration named (where none is, put it in place of the properties of the run's own).

| statement | where | what happens |
|---|---|---|
| `OnlyDeadRunsRetired` | `pending.py:220`, `DecisionQueue_stale.cfg` | run ids are compared for difference: a late post of a dead process retires the live one's decisions |
| `UnansweredIsAbandoned` | `pending.py:260`, `DecisionQueue_race.cfg` | an answer accepted after the wait ended is thrown away |
| `AppliedMeansKept` | `agent_brain.py:175`, in `DecisionQueue_live.cfg` | a handler that raised leaves `_current` set, and the thread's next request, answered by a plan or a standing answer, reports "applied" on the answer that was thrown out |
| `AnswersWhatWasRead`, `RestartLosesNothing` | `pending.py:118`, `mcp_server.py` | ids start again with the process; a claim is lost with its client |
| `OnlyOvertakenLeave` | `queued.py:219` | a fresh standing answer is retired in place of the overtaken one |
| `ComplianceRemembered` | `orchestrator.py:727` | a demand accepted from a table stores no promise |
| `AnnouncedIsHeld` | `turns.py:330` | after a reload to an earlier turn the turn in play is the lowest, and is what makes room |
| `AppliedWasReported` | `turns.py:231`, `TurnBoard_late.cfg` | a re-asked decision shows the previous one's "applied" |
| `ResolvedOnItsBoard` | `service.py:691`, `TurnBoard_late.cfg` | a deferral of the last turn is resolved on the next |
| `ObserverPerturbsNothing` | `service.py:577`, `CommandFile_observer.cfg` | the page's query replaces an order, or takes its result |
| `KeptUntilHorizon` | `directives.py:527`, `Directives_race.cfg` | a directive added during a prune is lost |
| `DroppedStaysDropped` | `directives.py:6` | a start brings back a directive of the seed that was replaced, once the replacement has expired |
| `SurvivalIsShown` | `directives.py:127` | more than fit of the highest priority are cut |
| `PlansOutliveTheProcess` | `orchestrator.py:218`, `memory.py:618` | a new life of the process is a new game id, and reads another graph: the plans of the last one are gone |
| `WholeOrAbsent` | `grounding_evidence.py:248` | threads of one process share a scratch file: one renames what another has just emptied, and that one's disk is full or the process dies |
| `DenyWins` | `hank.py:249`, `yupana.py:387` | a board reply that is JSON and no report raises through the chain, and what another guard denied is played |
| `OutcomesAreAppended` | `README.md:425` of the repository, `claude_code_brain.py:176` | a process whose event the log refuses, whose reply is no envelope or whose JSON is no object leaves no event |
| `Reestablishes` | `yupana.py:248`, `Knowledge_session.cfg` | a session lost with the server is never opened again |
| `JudgedOnOwnBoard`, `OfferedIdsVisible`, `EvidenceAgrees`, `UnarguedIsCounted`, `MemoryStandsAlone`, `ConfirmedIsReported`, `OutageCostsOnePrompt` | `Grounding`, `OrderGuards` | two calls of a guard are not one; ids, rows, counts and lines are dropped together with what failed beside them |
| `InputIsStored` | `orchestrator.py:399` | an advisory joins the view after it was stored |
| `ComparableMeansSameRules` | `ab_outcomes.py`, `Records_rules.cfg` | a profile reads a name that handicaps do not have, and only their number is left |
| `DegradeRateIsAShare`, `DriftSeesSilence`, `ReplayIsConsistent`, `AttentionIsARate`, `HeaderIsCurrent`, `FinishedGameExports`, `NodesDistinct`, `LearnedInItsGame`, `CarryCanBeProven`, `SeriesTakesLatest`, `RecordedIsInForce` | `LogReaders`, `Arms` | reviews, reloads, restarts and silent adapters that a reader does not expect (`Setups <- MCSilent` for the second, `Shapes <- MCShapesAll` for the first) |
| `ToldOfItsOwn`, `TokensAreActuals`, `LimitsAreNotRetried`, `BaseSetsNoPolicy`, `NewLifeIsHeard`, `DivergenceIsHeard`, `KeptIsServed` | the modules of `MCSeats` | a thread's memory of an aborted request, usage of thrown-out calls, a limit beside an overload, cursors across a restart |
| `BottomRowFirst`, `OnlyDataGone`, `VerifiedIsPristine`, `SourceNeverWritten`, `ModIsOverlaid`, `ReadingsAreOfTheSave`, `HonouredIsSaid`, `OwnVictoryIsNoLoss`, `MetIsTwoOfThree` | the modules of `MCSupervision` | a dialog of a known shape starts mid-rotation; a missing log counts as a deleted directory; links and nested files of the install; two preflights on one tenant; verdicts of the ladder |

## 4. What is proved

`DecisionQueue_proofs` proves, for any sets of workers and agents, any number of
runs and decisions, any depth, tombstone and repair bounds (only `ConstantsOK` is
assumed):

- `Inductive`: `Spec => []IInv`; from it `TypeCorrect`, `WaiterPresent`,
  `OneRunAtATime`, `NoLostWakeup`, `HonestOutcome`, `HonestRefusal`;
- `Refinement`: `Spec => KeepsLedger`, the queue implements `DecisionLedger`.

**The argument.** None of the safety properties is inductive alone. That every
live decision has a waiter breaks when a decision is opened unless ids are
fresh (`CounterOK`) and workers own distinct decisions (`WorkersOK`); that a taken
answer was given needs "an event is set only for a settled decision" (`EventsOK`); what a submitter hears needs that nothing was said yet of the decision a thread names, and that
one a new request finds there was thrown out by a handler that raised (`VerdictsOK`); what
a late submit hears needs "a decision leaves the index only settled, and with the
matching tombstone" (`IndexOK`). `IInv` is the conjunction, there is one lemma per
conjunct, and in each lemma one step per action that can disturb it. `ForgetEffect`
and `PostEffect` say once what `_forget` and `post` do to the decisions.
`HonestRefusal` is about cardinality: the tombstones pushed out are those with
more than `SettledMemory` younger ones. `Refinement` maps each action to a
ledger step or a stutter and takes the worker's uniqueness and `taken` from `IInv`.

`DecisionLoop_proofs` proves, for any keys, actions, tables, bounds and number of requests at once
(from `ConstantsOK` and `AskedOK`):

- `LoopInvariant`, and from it `StandingAnswersStand`: `[]StandingStands`, `DegradedSaysSo`:
  `[]DegradedIsHonest`, `NobodyWokenInTheDark`: `[]WokenWithReason`; `RepliesComeNearer`:
  `Spec => ReplyComesNearer`.

A record is true of the view it was made for, and the view of a request does not change
(`Unrecorded` says that nothing is recorded, issued or counted before its place). What was dropped
on a request's behalf is in what it has been told as long as it is open, and what it has been told
is in every prompt (`ToldOf`): the two together are what a repair could break. No store is in the
invariant: whatever other requests install or retire, a request answers for the entry it *read*.

`Directives_proofs` proves of the plan, for any directives, views, cap and hops:

- `PlanInvariant`, `TypeCorrect`, `NearestAreShown`: `Spec => []NearerShownFirst`, for any number
  of requests at once;
- `FiledInvariant`, `PlanComesBack`: `Spec => []RestartRestores`, `StandingIsHeard`:
  `Spec => []StandingIsTold`, for any number of requests, crashes and refused saves.

Nothing locks the plan, and two requests at it at once can lose a directive; that is stated
(`Directives_race.cfg`, `KeptUntilHorizon`). So the two properties speak of a life of the service in
which that has not happened (`~crossed`), however many requests there are, and of a start whose last
save did not fail (`~missed`). `FiledInv` says that the file is then the map, or that starting from
it gives the map (`Filed`: before the first save there may be no file and a seed), that the map
lacks only the expired of what was accepted (`Over`, which ages with the turn), that a file is
unreadable only for a save that was cut short (`Kept`), and where each request is between reading
the map and closing the file (`InStep`): it iterates over the map as it is, since nobody else is
between (`Alone`). A refused save changes the map's file and no map, so it leaves all of this but
`Filed`. The cap: what is shown is ranked before what is not, and of the walk's hits the
rank falls with the hops; a shortest chain of shared entities to a directive is where the walk
first meets it, found as the least of a set of numbers.

`Knowledge_proofs` proves, from `GuardConstantsOK` and `GroundingConstantsOK`:

- `JudgedOnOwnFaction`: `GuardsSpec => []JudgedOnFactionsBoard`, `LivingGuardsRule`:
  `[]DeadGuardAllows`. In the guards' tenant each faction's board is a judge's of that faction
  (`JudgesBoards`), whatever askers and restarts do: a restart of the board server empties it, an
  asker writes elsewhere. The chain strips what the state's guard stripped and, if the board's was
  silent, no more (`ChainRuled`). A reply that raises ends at once in an answer nobody ruled, which
  the property excepts by name and `DenyWins` states as refuted; it judges no board.
- `PlansAreShown`: `GroundingSpec => []OwnPlansShown`. A plan that is due is among those the
  server has until it is read, and among the lines told after (`PlansLive`, `PlansTold`): no
  cache is between them. It is of the plans of this life of the process, and of a read that was
  answered in full: what the server did not say, or cut, is not promised.
- `NamedFilesVerify`: `[]ReferencesVerify`. Nothing is written before what it binds was
  consulted (`FilesDated`) and no file is pruned before that is too old (`PrunedIsOld`), so
  that a file found there already is as good as one written (`Underway`). That it is whole is
  `UnsharedIsWhole`: of a content that no two threads were writing at once, the only writer has the
  scratch file, or what it has open has lost its name, and whoever renames has filled it (`Unmixed`).

`Seats_proofs` proves of whoever answers (from `SeatOK`, `DeskTimes`, `ModelCallsOK`, `FeedOK`):

- `WaitsInside`: `SeatSpec => []GivesUpFirst`, for any even limit (so that half of one is a
  number) and any margin, and `SubmittersAreTold`: `[]SubmittersHear`. A thread in hope of an
  answer has its last post as its current decision, so a submitter who listens answered that
  one, or its handler raised (`ListenedTo`).
- `ClaimsAreHeard`: `DeskSpec => []ClaimIsHeard`. A claim is late by its own wait, capped, and the
  service's slack (`Punctual`); that this is less than the client's patience is the assumption
  `DeskTimes`, 110 s against 120 s in the code.
- `AttemptsAreMetered`: `CallsSpec => []EveryAttemptIsMetered`. One process may be running
  that has left nothing yet; every other is an event or one of the three that leave none
  (`Accounted`), and the successes in the log and the charges differ by lost events only (`Charged`).
- `NothingKeptIsPassed`: `FeedSpec => []PassedIsHeard`. A trace's reports ascend and each is
  still listed unless a trim took it (`Ascending`, `Listed`), so a batch that ends at a number
  has served, for every trace, its last report at or after every number before it.

`Files_proofs` proves of the channel shared with any number of observers, for any issuers, batch
sizes, caps and deaths (from `ConstantsOK`, which asks only that 0, the free lock, is no issuer):

- `ActedOnOnce`, `ResultCreditedOnce`, `SuccessWasSeen`: `SharedSpec => []NeverReplayed`,
  `[]CreditedOnce`, `[]NeverSuccessOnSilence`.

`ChannelInv` follows an order through the two files. "Acted on once" needs that what lies in
the command file was not acted on (`FileIsFresh`), which needs that a number not yet written
was not either (`UnsentIsUntouched`), which needs that a number belongs to one asker
(`OwnNumbers`). "Credited once" needs that a thread waits beside a result nobody was credited
with (`SlotIsNew`); that breaks when another thread takes the result first, unless only one is
past the lock (`Exclusive`), and when the game writes, unless what it writes of is unheard
(`GameOK`). The observers take no lock: they may take a result from under a waiting thread,
but credit it to no order, and what they write is numbered like the rest. `SuccessWasSeen` needs
that what the slot holds is what became of the order it is about (`SlotIsTrue`), and, of an order
sent with nothing under way that no observer has crossed, that the file, the game and the slot hold
it or nothing while it is waited for (`AloneWithGame`).

and of the log and its readers, for any deciders, answers, faults and lives (from `RunLogBoundsOK`
and `ShapesOK`):

- `LogIsTyped`: `RunLogSpec => []RecordsTypeOK`; `FewAreLost`: `[]LossIsBounded`; `CarryCountsOnce`:
  `[]FunnelCountsOnce`; `ReportsAgree`: `[]ReportersAgree`.

A torn line swallows the decision it cuts short and the one glued to it, yet the loss is one a
line: the thread that was cut short never replied. `LossInv` counts that in advance: while the
last line has no end it has swallowed none that was answered. What the funnel counts is proved
for *every* sequence of lines, by induction over it (`CountedTo`, `OneLife`): after line n its
totals are of the first n lines, each directive's turn is that of its first issue, and the
chances are the pairs of a line and a directive issued before it on an earlier turn. That the
readers agree needs of the log that an answer's words are of what it was shown (`LogSays`).

`Scripts_proofs` proves, from the shapes of the constants alone (`HostShapes`, `RestartBound`,
`FixtureShapes`, `DriverBoundsOK`, `ArmsBoundsOK`):

- `ReplaceRowEarned`: `PreflightSpec => []IgnoredIsSaid`, for any number of preflights and
  restarts. Inductive is that a session between its first write and its count, if
  the server that answered it still runs, is with the build the preflight spoke to,
  and that the tenant then holds both scratch entities unless that build replaces
  (`SessionKnown`). The count is 1 only of one entity (`TwoEntities`), so a build that
  merges is never counted as one that replaces, whatever other preflights write in between.
  `QuietStep` covers the five checks that touch neither tenant nor session.
- `ReaperSpares`: `ReaperSpec => WorkSurvives`. The invariant (`KeptHasLog`) is that a run whose
  decisions were there when the pass began, and were not removed since, still had its log when
  the logs were read, whichever of the three looks came before a move of the host.
- `GoalIsEarned`: `LadderSpec => []MetIsEarned`. The invariant (`LadderTruth`) is that the rows
  are finite in number, a recorded win is ours (`WinIsOurs`: no rival holds a base), and a report
  of a goal is of the rows there are: any new row empties it.
- `StagingIsClean`: `FixtureSpec => StagedIsClean`. The invariant is that the manifest
  records no path with a known mod's bytes, whatever a scan was allowed; staging is refused
  where a path of it now holds them, and what is copied else is the install's own.
- `OneRoundClears`: `DriverSpec => []ClearedInOneRound`. The number of clicks itself is not
  inductive: the rotation starts where the last dialog of the shape left it. Inductive is that
  there is a number of clicks after which the row that dismisses is due, and that with those
  done already it fits in the round (`RoundInv`); each click lowers it by one, and any start
  of a rotation has one (`EveryRowComes`: n, n + 1, … run through every remainder).
- `HistoryIsHonest`: `ArmsSpec => []SeriesIsHonest`, of any lines an arm may hold.

`TurnBoard_proofs` proves, for any bases, turns, places and reloads (from `ConstantsOK`):

- `TurnStaysInView`: `Spec => []CurrentInView`; `DeferralClosesOnce`: `Spec => ClosedOnce`;
  `SlotsGoForward`: `Spec => SlotsMoveForward`.

`BoardInv` says that a request under way is of a decision that was asked (`AskedFirst`), that
nothing is parked before its answer (`ParkedLast`: else `open` could reopen a closed one), that,
until a reload, the turns kept and asked about are none later than the game's and the one in view
is the last (`InOrder`), and that after one the turn in view is held, or there is no room and all
that are held are later (`InView`). `EvictKeepsLast` shows that making room spares the last
turn; the lowest goes, so the one in view goes only if it is the lowest.

**What is assumed.** The named assumptions of the modules, which TLC evaluates in every run.
The library's induction rules cannot be
used (no prover here takes an operator for an argument), so an induction is a least
counterexample: the set of numbers a statement fails for has no least element, by `WFMin` and
`NatLessThanWellFounded`. `SelectSeq` is recursive in the library
and opaque to the provers: where a theorem needs them the model says the same by places in the
sequence (`ReadLines`, `HistoryOf`, `Before`, `Later`).

**Only model-checked.** `BlockedIsReleased`, `EveryOrderAnswered` and `DriverStops` are
liveness, out of the prover's reach. The two statements the findings refute have nothing to
prove. The further properties named in section 3 hold in TLC's instances and have no theorems
yet, and so has what the tables of `LogReaders` other than the funnel and the totals compute
(memory, export, replay, coverage), the comparison of two arms, the save reader, and the
evaluation of a directive's status.

## 5. What is not modelled

Text: prompts, reasons, advisories (an advisory is the id of what it is about, 0
for the reason of a repair). The servers (Quipu, Yupana, the memory store, the model
provider): what this code does with their answers, silences and restarts is modelled, their
answers are free. HTTP parsing and its 422s. The game itself, except for what
the service relies on. Duplicated HTTP requests: the adapter does not retry, and the game is
blocked. Turn announcements that omit a faction; slots of two factions under one key. Spans and
metric attributes, hashing, HTML, process control, screen capture. `datalinks/parse.py` parses
the game's data files once and keeps no state; the eval harness and the recorded runs are
analyses and data; `cli.py` and `config.py` read arguments whose effects are constants here.
What a component leaves out is in its `note` in `PROJECT.json`.

## 6. Plan

1. *Done:* every part of section 1 modelled but those of section 5; twelve runs; a theorem for each
   invariant and action property they check; the queue with its abstract ledger.
2. *Further proofs*, of the properties that hold beyond the runs: `AppliedWasSaid`, from an invariant that
   ties slots, traces and reports together; `OnlyOffered` and `ParkedIsLogged` for the loop;
   `HandedOnce` at the desk; `InputKept` and `ExportedIsWhole` for the log; `FairPlayIsEarned`
   for the arms; the type invariants of the composed runs.
3. *Refinement*: an abstract plan that `DirectiveStore` implements while no two requests are
   at it at once, and an abstract stream of reports that `OutcomeFeed` implements within one life.
4. *The contract's fallback and the fog filter* as operators against reference definitions.
