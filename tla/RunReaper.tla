------------------------------- MODULE RunReaper -------------------------------
(* scripts/reap-orphan-runs.py beside the runs it looks at: the processes of    *)
(* each run's orchestrator, its game, and its decision log.  The reaper reads   *)
(* the games, then the orchestrators, then each log, then signals: four looks   *)
(* at a host that moves between them.                                           *)
EXTENDS Naturals, FiniteSets

CONSTANTS Runs,
          Unlabelled,   \* runs whose environment shows no NA_DECISION_LOG
          MaxPasses,    \* bound: times the reaper is run
          MaxMoves      \* bound: things that happen to the runs

ASSUME ReaperBoundsOK == {MaxPasses, MaxMoves} \subseteq Nat /\ Unlabelled \subseteq Runs

VARIABLES
    procs,    \* the live processes of each run's orchestrator
    playing,  \* the runs with a game process
    log,      \* each run's decision log: "none", "recent", "old" or "removed"
    moves,    \* how many things happened to the runs
    passes,   \* passes of the reaper begun
    pass,     \* where the pass is, and what it has read
    signalled,\* history: the runs this pass signalled
    kept      \* history: the runs with a log when this pass began, and ever since

reaperVars == <<procs, playing, log, moves, passes, pass, signalled, kept>>

\* The uv wrapper holds the port, its child serves; the child has the higher pid.
Processes == {"wrapper", "child"}
NotReading == [at |-> "idle", games |-> {}, pids |-> [r \in Runs |-> {}],
               logs |-> [r \in Runs |-> "none"]]

ReaperInit == /\ procs = [r \in Runs |-> {}]
              /\ playing = {}
              /\ log = [r \in Runs |-> "none"]
              /\ moves = 0 /\ passes = 0
              /\ pass = NotReading
              /\ signalled = {} /\ kept = {}

(*---------------------------------------------------------------------------*)
(* The runs, external: DecisionLog makes its file with the first record, and  *)
(* a run's data outlives it until someone removes it.                         *)

Moves == moves < MaxMoves /\ moves' = moves + 1 /\ UNCHANGED <<passes, pass, signalled>>
Serving(r) == "child" \in procs[r]

Serve(r) == /\ procs[r] = {} /\ log[r] = "none" /\ Moves
            /\ procs' = [procs EXCEPT ![r] = Processes]
            /\ UNCHANGED <<playing, log, kept>>

StartGame(r) == /\ Serving(r) /\ r \notin playing /\ Moves
                /\ playing' = playing \cup {r}
                /\ UNCHANGED <<procs, log, kept>>

EndGame(r) == /\ r \in playing /\ Moves
              /\ playing' = playing \ {r}
              /\ UNCHANGED <<procs, log, kept>>

WriteDecision(r) == /\ Serving(r) /\ r \in playing /\ log[r] # "recent" /\ Moves
                    /\ log' = [log EXCEPT ![r] = "recent"]
                    /\ UNCHANGED <<procs, playing, kept>>

Idle(r) == /\ log[r] = "recent" /\ Moves
           /\ log' = [log EXCEPT ![r] = "old"]
           /\ UNCHANGED <<procs, playing, kept>>

RemoveData(r) == /\ log[r] \in {"recent", "old"} /\ r \notin playing /\ Moves
                 /\ log' = [log EXCEPT ![r] = "removed"] /\ kept' = kept \ {r}
                 /\ UNCHANGED <<procs, playing>>

Exit(r) == /\ procs[r] # {} /\ Moves
           /\ procs' = [procs EXCEPT ![r] = {}]
           /\ UNCHANGED <<playing, log, kept>>

(*---------------------------------------------------------------------------*)
(* A pass of the reaper.                                                      *)

Host == UNCHANGED <<procs, playing, log, moves>>
Said == UNCHANGED <<passes, signalled, kept>>
Exists(r) == log[r] \in {"recent", "old"}

ReadGames == /\ pass.at = "idle" /\ passes < MaxPasses
             /\ passes' = passes + 1
             /\ pass' = [NotReading EXCEPT !.at = "orchestrators", !.games = playing]
             /\ kept' = {r \in Runs : Exists(r)} /\ signalled' = {}
             /\ Host

ReadOrchestrators == /\ pass.at = "orchestrators"
                     /\ pass' = [pass EXCEPT !.at = "logs", !.pids = procs]
                     /\ Host /\ Said

ReadLogs == /\ pass.at = "logs"
            /\ pass' = [pass EXCEPT !.at = "acting", !.logs = log]
            /\ Host /\ Said

\* Mutant: a run that has been idle long enough is taken for dead.
ByAge(r, seen) ==
    IF seen.logs[r] = "recent" THEN "active" ELSE "orphan-data-gone"

\* classify, in its order.
Verdict(r, seen) ==
    CASE r \in Unlabelled -> "unknown"
      [] r \notin Unlabelled /\ r \in seen.games -> "live-game"
      [] r \notin Unlabelled \cup seen.games /\ seen.logs[r] \in {"none", "removed"}
            -> "orphan-data-gone"
      [] OTHER -> IF seen.logs[r] = "recent" THEN "active" ELSE "idle-no-game"

Reapable(r) == pass.pids[r] # {} /\ Verdict(r, pass) = "orphan-data-gone"

\* SIGTERM, the higher pid first; a process already gone is passed over, and one
\* that may not be signalled ends the attempt.
Reap(r) ==
    /\ pass.at = "acting" /\ Reapable(r)
    /\ \E stopped \in {{}, {"child"}, Processes} :
         procs' = [procs EXCEPT ![r] = @ \ stopped]
    /\ pass' = [pass EXCEPT !.pids[r] = {}]
    /\ signalled' = signalled \cup {r}
    /\ UNCHANGED <<playing, log, moves, passes, kept>>

EndPass == /\ pass.at = "acting" /\ \A r \in Runs : ~Reapable(r)
           /\ pass' = NotReading
           /\ Host /\ Said

ReaperNext == \/ ReadGames \/ ReadOrchestrators \/ ReadLogs \/ EndPass
              \/ \E r \in Runs : \/ Serve(r) \/ StartGame(r) \/ EndGame(r) \/ Idle(r)
                                 \/ WriteDecision(r) \/ RemoveData(r) \/ Exit(r) \/ Reap(r)

ReaperSpec == ReaperInit /\ [][ReaperNext]_reaperVars

(*---------------------------------------------------------------------------*)
(* Properties.                                                                *)

ReaperTypeOK ==
    /\ procs \in [Runs -> SUBSET Processes] /\ playing \subseteq Runs
    /\ log \in [Runs -> {"none", "recent", "old", "removed"}]
    /\ moves \in 0..MaxMoves /\ passes \in 0..MaxPasses /\ signalled \subseteq Runs
    /\ pass.at \in {"idle", "orchestrators", "logs", "acting"}

\* A run whose decisions were on disk when the pass began, and still are, is not
\* stopped by it, however idle, with or without a game; nor is a run whose game the
\* pass saw.  "a run can be paused ... and another agent's session can own it".
WorkSurvives ==
    [][\A r \in Runs : r \in signalled' \ signalled
         => /\ r \notin pass.games
            /\ r \notin kept]_reaperVars

\* "Exactly one class: orphan-data-gone - the run directory the orchestrator was
\* started against no longer exists" (reap-orphan-runs.py:26).
OnlyDataGone ==
    [][\A r \in Runs : r \in signalled' \ signalled => log[r] = "removed"]_reaperVars
================================================================================
