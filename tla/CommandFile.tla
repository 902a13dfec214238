------------------------------ MODULE CommandFile -------------------------------
(* The two files of Door 2 as everything that writes them uses them: beside     *)
(* OrderChannel.issue, the dashboard's census (dashboard.py: faction_census)    *)
(* and the unattended driver's poll (scripts/drive-unattended.py: cmd).  Both   *)
(* clear the result, open the command file, write their question and wait; they *)
(* know nothing of the channel's lock.  A question is a command and has a       *)
(* number of its own.                                                           *)
EXTENDS OrderChannel

CONSTANTS Observers     \* threads and processes that ask in this way

VARIABLES
    queries,  \* query_game_state, or whether a driver runs
    look,     \* where each observer is
    asks,     \* the number of its question
    crossed   \* history: orders in service while an observer opened the file

observerVars == <<queries, look, asks, crossed>>
sharedVars == <<vars, observerVars>>

SharedInit ==
    /\ Init
    /\ queries \in BOOLEAN
    /\ look = [w \in Observers |-> "idle"]
    /\ asks = [w \in Observers |-> 0]
    /\ crossed = {}

Glance(w, place) == look' = [look EXCEPT ![w] = place]
Orderly == UNCHANGED <<size, lock, pc, mine, did, runs, crashes, quiet, report>>

\* The result file is unlinked, with whatever it holds.
LookAway(w) ==
    /\ queries /\ look[w] = "idle"
    /\ issued < MaxOrders
    /\ issued' = issued + 1
    /\ asks' = [asks EXCEPT ![w] = issued + 1]
    /\ slot' = NoFile
    /\ game' = IF game.at = "writing" THEN Resting ELSE game
    /\ Glance(w, "opening")
    /\ UNCHANGED <<queries, crossed, cmd>> /\ Orderly

\* write_text: the file is there, or is cut to nothing, before its text is in it.
OpenCommand(w) ==
    /\ look[w] = "opening"
    /\ cmd' = asks[w]
    /\ crossed' = crossed \cup {mine[i] : i \in {j \in Issuers : pc[j] \in {"writing", "waiting"}}}
    /\ Glance(w, "filling")
    /\ UNCHANGED <<queries, asks, issued, slot, game>> /\ Orderly

\* The text goes to the file that was opened, which may be gone or replaced by now.
FillCommand(w) ==
    /\ look[w] = "filling"
    /\ Glance(w, "waiting")
    /\ UNCHANGED <<queries, asks, crossed, issued, cmd, slot, game>> /\ Orderly

\* Any result will do; at the deadline none is needed.
LookBack(w) ==
    /\ look[w] = "waiting"
    /\ Glance(w, "idle")
    /\ asks' = [asks EXCEPT ![w] = 0]
    /\ UNCHANGED <<queries, crossed, issued, cmd, slot, game>> /\ Orderly

Blank == \E w \in Observers : look[w] = "filling" /\ cmd = asks[w]

\* The game takes an empty line: there is nothing to act on.
TakeBlank ==
    /\ game = Resting /\ Blank
    /\ cmd' = 0
    /\ UNCHANGED <<observerVars, issued, slot, game>> /\ Orderly

Observed(w) == LookAway(w) \/ OpenCommand(w) \/ FillCommand(w) \/ LookBack(w)

SharedNext ==
    \/ /\ \/ \E i \in Issuers : \/ \E k \in 0..MaxLines : Ask(i, k)
                                \/ Unavailable(i)
                                \/ IssuerStep(i)
          \/ ~Blank /\ Take
          \/ Act \/ OpenResult \/ CloseResult \/ Crash
       /\ UNCHANGED observerVars
    \/ TakeBlank
    \/ \E w \in Observers : Observed(w)

\* As for the channel alone; an observer owes it nothing.
SharedSpec ==
    /\ SharedInit /\ [][SharedNext]_sharedVars
    /\ \A i \in Issuers :
          /\ WF_sharedVars((Clear(i) \/ Fail(i) \/ Write(i) \/ Read(i) \/ Expire(i))
                           /\ UNCHANGED observerVars)
          /\ SF_sharedVars(Enter(i) /\ UNCHANGED observerVars)

-------------------------------------------------------------------------------
(* Every variable keeps its type. *)
SharedTypeOK ==
    /\ TypeOK
    /\ look \in [Observers -> {"idle", "opening", "filling", "waiting"}]
    /\ asks \in [Observers -> Orders \cup {0}]
    /\ crossed \subseteq Orders

(* With no observer, the command file and the wait for its result belong to one *)
(* thread at a time (orders.py: OrderChannel._lock).                             *)
OneOrderUnobserved == queries \/ OneOrderAtATime

(* "An unobserved result is never success" (orders.py:25), as far as the        *)
(* channel keeps it.  ok and refused are said only on the result of something   *)
(* the game acted on, once, and ok only if every command of that succeeded.     *)
(* That something is the order itself, and each command taken as confirmed was  *)
(* carried out at its own place in the batch, if nothing was under way when the *)
(* slot was cleared and no observer opened the command file before the answer.  *)
(* Otherwise it may be an earlier order's, or an observer's: an order that was  *)
(* overwritten, or lost with the game, is then reported on their result         *)
(* (ReportedIsOwn and ObserverPerturbsNothing are refuted).                     *)
NeverSuccessOnSilence ==
    \A n \in Orders : report[n].status \in {"ok", "refused"} =>
        LET m == report[n].from IN
        /\ m # 0 /\ runs[m] = 1
        /\ report[n].status = "ok" => Succeeded(m)
        /\ n \in quiet \ crossed => m = n /\ Carried(n)

(* "it ... has no reference to the decision methods and therefore cannot        *)
(* perturb a running game" (service.py:577): with an observer too, an order     *)
(* sent with nothing else under way is reported as what became of it.           *)
ObserverPerturbsNothing == TrueWhenQuiet
================================================================================
