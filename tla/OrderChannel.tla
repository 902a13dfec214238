------------------------------ MODULE OrderChannel ------------------------------
(* Door 2 (orders.py): the requests that command the game through one command   *)
(* file and one result file, and what POST /order concludes from a result.  The *)
(* game's half of the channel is external; it polls the command file, removes   *)
(* it before it acts, acts, and writes the result file, and it can die at any   *)
(* point of that.                                                                *)
(*                                                                              *)
(* An order is known by its number.  It is a single command, of size 0, or a    *)
(* batch of as many lines as its size.                                          *)
EXTENDS Naturals, Sequences, FiniteSets

CONSTANTS Issuers,    \* request threads that call OrderChannel.issue
          MaxOrders,  \* bound: orders ever issued
          MaxLines,   \* bound: lines of a batch
          Cap,        \* lines the game runs in one tick
          MaxCrashes  \* bound: deaths of the game

ASSUME ConstantsOK ==
    /\ 0 \notin Issuers
    /\ MaxOrders \in Nat
    /\ MaxLines \in Nat
    /\ Cap \in Nat \ {0}
    /\ MaxCrashes \in Nat

Orders == 1..MaxOrders
Outcomes == UNION {[1..k -> BOOLEAN] : k \in 0..MaxLines}

VARIABLES
    issued,   \* orders issued so far
    size,     \* the lines of each order, 0 for a single command
    lock,     \* the thread that holds OrderChannel._lock, 0 for none
    pc,       \* where each thread is
    mine,     \* the order each thread issues
    cmd,      \* the order in na-command, 0 when there is no such file
    slot,     \* na-command-result
    game,     \* what the game's poll is doing, and with which order
    did,      \* what the game did for each order, command by command
    runs,     \* how often the game acted on each order
    crashes,  \* deaths of the game so far
    quiet,    \* orders whose slot was cleared with nothing under way before
    report    \* what issue returned, and the lines POST /order took as confirmed

vars == <<issued, size, lock, pc, mine, cmd, slot, game, did, runs, crashes,
          quiet, report>>

NoFile == [of |-> 0, ok |-> FALSE, results |-> <<>>]
Resting == [at |-> "polling", order |-> 0]
NoReport == [status |-> "none", from |-> 0, confirmed |-> {}]

-------------------------------------------------------------------------------
Init ==
    /\ issued = 0
    /\ size = [n \in Orders |-> 0]
    /\ lock = 0
    /\ pc = [i \in Issuers |-> "idle"]
    /\ mine = [i \in Issuers |-> 0]
    /\ cmd = 0
    /\ slot = NoFile
    /\ game = Resting
    /\ did = [n \in Orders |-> <<>>]
    /\ runs = [n \in Orders |-> 0]
    /\ crashes = 0
    /\ quiet = {}
    /\ report = [n \in Orders |-> NoReport]

\* issue returns: the lock goes, and POST /order reads the result.
Return(i, status, from, confirmed) ==
    /\ report' = [report EXCEPT ![mine[i]] =
                     [status |-> status, from |-> from, confirmed |-> confirmed]]
    /\ lock' = 0
    /\ pc' = [pc EXCEPT ![i] = "idle"]
    /\ mine' = [mine EXCEPT ![i] = 0]

\* POST /order: a well-formed order arrives and waits for the lock.
Ask(i, k) ==
    /\ pc[i] = "idle"
    /\ issued < MaxOrders
    /\ issued' = issued + 1
    /\ size' = [size EXCEPT ![issued + 1] = k]
    /\ mine' = [mine EXCEPT ![i] = issued + 1]
    /\ pc' = [pc EXCEPT ![i] = "queued"]
    /\ UNCHANGED <<lock, cmd, slot, game, did, runs, crashes, quiet, report>>

\* No game directory: nothing is written at all.
Unavailable(i) ==
    /\ pc[i] = "idle"
    /\ issued < MaxOrders
    /\ issued' = issued + 1
    /\ report' = [report EXCEPT ![issued + 1].status = "unavailable"]
    /\ UNCHANGED <<size, lock, pc, mine, cmd, slot, game, did, runs, crashes, quiet>>

Enter(i) ==
    /\ pc[i] = "queued"
    /\ lock = 0
    /\ lock' = i
    /\ pc' = [pc EXCEPT ![i] = "clearing"]
    /\ UNCHANGED <<issued, size, mine, cmd, slot, game, did, runs, crashes,
                   quiet, report>>

\* Mutant: the slot is not cleared before the order is written.
SlotKept(i) ==
    /\ pc[i] = "clearing"
    /\ pc' = [pc EXCEPT ![i] = "writing"]
    /\ quiet' = IF cmd = 0 /\ game = Resting THEN quiet \cup {mine[i]} ELSE quiet
    /\ UNCHANGED <<issued, size, lock, mine, cmd, slot, game, did, runs, crashes,
                   report>>

\* The result file is unlinked, whoever's result it holds; a result the game is
\* still writing goes with it.
Clear(i) ==
    /\ pc[i] = "clearing"
    /\ slot' = NoFile
    /\ game' = IF game.at = "writing" THEN Resting ELSE game
    /\ quiet' = IF cmd = 0 /\ game.at \in {"polling", "writing"}
                THEN quiet \cup {mine[i]} ELSE quiet
    /\ pc' = [pc EXCEPT ![i] = "writing"]
    /\ UNCHANGED <<issued, size, lock, mine, cmd, did, runs, crashes, report>>

\* The file system refuses to unlink, or to write: unknown, and nothing was sent.
Fail(i) ==
    /\ pc[i] \in {"clearing", "writing"}
    /\ Return(i, "unknown", 0, {})
    /\ UNCHANGED <<issued, size, cmd, slot, game, did, runs, crashes, quiet>>

\* os.replace: the whole order appears at once, over one the game never took.
Write(i) ==
    /\ pc[i] = "writing"
    /\ cmd' = mine[i]
    /\ pc' = [pc EXCEPT ![i] = "waiting"]
    /\ UNCHANGED <<issued, size, lock, mine, slot, game, did, runs, crashes,
                   quiet, report>>

\* The commands of order n that POST /order takes as done: a batch's lines are
\* matched to the results by position, a single command goes by the status.
Confirmed(n) ==
    IF size[n] = 0 THEN (IF slot.ok THEN {1} ELSE {})
    ELSE {i \in 1..size[n] : i <= Len(slot.results) /\ slot.results[i]}

\* A whole result is in the slot: it is this order's, as far as issue can tell.
Read(i) ==
    /\ pc[i] = "waiting"
    /\ slot.of # 0
    /\ Return(i, IF slot.ok THEN "ok" ELSE "refused", slot.of, Confirmed(mine[i]))
    /\ UNCHANGED <<issued, size, cmd, slot, game, did, runs, crashes, quiet>>

\* Mutant: an order the game took is reported as done.
TakenIsDone(i) ==
    /\ pc[i] = "waiting"
    /\ slot.of = 0
    /\ Return(i, IF cmd = 0 THEN "ok" ELSE "unknown", 0, {})
    /\ UNCHANGED <<issued, size, cmd, slot, game, did, runs, crashes, quiet>>

\* Mutant: the wait has no deadline.
NeverExpires(i) == FALSE

\* Mutant: at the deadline the order is written again instead.
ExpireRetries(i) ==
    /\ pc[i] = "waiting"
    /\ slot.of = 0
    /\ cmd' = mine[i]
    /\ UNCHANGED <<issued, size, lock, pc, mine, slot, game, did, runs, crashes,
                   quiet, report>>

\* The deadline passes: unknown, whether or not the game took the file.
Expire(i) ==
    /\ pc[i] = "waiting"
    /\ slot.of = 0
    /\ Return(i, "unknown", 0, {})
    /\ UNCHANGED <<issued, size, cmd, slot, game, did, runs, crashes, quiet>>

-------------------------------------------------------------------------------
(* The game. *)

Take ==
    /\ game = Resting
    /\ cmd # 0
    /\ game' = [at |-> "acting", order |-> cmd]
    /\ cmd' = 0
    /\ UNCHANGED <<issued, size, lock, pc, mine, slot, did, runs, crashes, quiet,
                   report>>

\* It runs the command, or as many lines as one tick takes.
Act ==
    /\ game.at = "acting"
    /\ \E o \in Outcomes :
           /\ Len(o) = IF size[game.order] = 0 THEN 1
                       ELSE IF size[game.order] < Cap THEN size[game.order] ELSE Cap
           /\ did' = [did EXCEPT ![game.order] = o]
    /\ runs' = [runs EXCEPT ![game.order] = @ + 1]
    /\ game' = [game EXCEPT !.at = "acted"]
    /\ UNCHANGED <<issued, size, lock, pc, mine, cmd, slot, crashes, quiet, report>>

\* The result file is opened: until it is closed it parses as nothing.
OpenResult ==
    /\ game.at = "acted"
    /\ slot' = NoFile
    /\ game' = [game EXCEPT !.at = "writing"]
    /\ UNCHANGED <<issued, size, lock, pc, mine, cmd, did, runs, crashes, quiet,
                   report>>

\* The envelope is ok when every line ran and succeeded.
CloseResult ==
    LET n == game.order IN
    /\ game.at = "writing"
    /\ slot' = [of |-> n,
                ok |-> /\ \A j \in DOMAIN did[n] : did[n][j]
                       /\ size[n] <= Len(did[n]),
                results |-> IF size[n] = 0 THEN <<>> ELSE did[n]]
    /\ game' = Resting
    /\ UNCHANGED <<issued, size, lock, pc, mine, cmd, did, runs, crashes, quiet,
                   report>>

\* The process dies, whatever it was doing, and is started again.
Crash ==
    /\ crashes < MaxCrashes
    /\ crashes' = crashes + 1
    /\ game' = Resting
    /\ UNCHANGED <<issued, size, lock, pc, mine, cmd, slot, did, runs, quiet, report>>

-------------------------------------------------------------------------------
IssuerStep(i) == Enter(i) \/ Clear(i) \/ Fail(i) \/ Write(i) \/ Read(i) \/ Expire(i)
GameStep == Take \/ Act \/ OpenResult \/ CloseResult

Next == \/ \E i \in Issuers : \/ \E k \in 0..MaxLines : Ask(i, k)
                              \/ Unavailable(i)
                              \/ IssuerStep(i)
        \/ GameStep
        \/ Crash

Spec == Init /\ [][Next]_vars

\* A thread of the service runs and its deadline passes; the lock, which many
\* may wait for, is not kept from one of them forever.  The game owes nothing.
FairSpec == Spec /\ \A i \in Issuers :
                        WF_vars(Clear(i) \/ Fail(i) \/ Write(i) \/ Read(i) \/ Expire(i))
                        /\ SF_vars(Enter(i))

-------------------------------------------------------------------------------
(* Every variable keeps its type. *)
TypeOK ==
    /\ issued \in 0..MaxOrders
    /\ size \in [Orders -> 0..MaxLines]
    /\ lock \in Issuers \cup {0}
    /\ pc \in [Issuers -> {"idle", "queued", "clearing", "writing", "waiting"}]
    /\ mine \in [Issuers -> Orders \cup {0}]
    /\ cmd \in Orders \cup {0}
    /\ slot \in [of : Orders \cup {0}, ok : BOOLEAN, results : Outcomes]
    /\ game \in [at : {"polling", "acting", "acted", "writing"}, order : Orders \cup {0}]
    /\ did \in [Orders -> Outcomes]
    /\ runs \in [Orders -> Nat]
    /\ crashes \in 0..MaxCrashes
    /\ quiet \subseteq Orders
    /\ report \in [Orders -> [status : {"none", "ok", "refused", "unknown", "unavailable"},
                              from : Orders \cup {0}, confirmed : SUBSET (1..MaxLines + 1)]]

(* The command file and the wait for its result belong to one thread at a time: *)
(* while a thread waits, no other order has taken the place of its own.         *)
OneOrderAtATime ==
    \A i \in Issuers : pc[i] \in {"clearing", "writing", "waiting"} =>
        /\ lock = i
        /\ pc[i] = "waiting" => cmd \in {0, mine[i]}

(* The result of one act is credited to one order at most, however late it is:  *)
(* clearing the slot first keeps a result from being read a second time.        *)
CreditedOnce ==
    \A n, m \in Orders : report[n].from = report[m].from /\ report[n].from # 0 => n = m

\* Every command of n ran and succeeded.
Succeeded(n) == size[n] <= Len(did[n]) /\ \A j \in DOMAIN did[n] : did[n][j]

\* Each command of n that was taken as confirmed was carried out, at its place.
Carried(n) == \A j \in report[n].confirmed : j <= Len(did[n]) /\ did[n][j]

(* If no earlier order was in the file or in the game's hands when the slot was *)
(* cleared, what is reported of an order is what became of it: each command     *)
(* taken as confirmed was carried out, at its own place in the batch.           *)
TrueWhenQuiet ==
    \A n \in quiet : report[n].status \in {"ok", "refused"} =>
        report[n].from = n /\ Carried(n)

(* An order is acted on at most once, even when the game dies with it: it is    *)
(* removed before it is acted on, and no thread writes it twice.                *)
NeverReplayed == \A n \in Orders : runs[n] <= 1

(* A modal, a dead game or a lost result cannot hang an agent: every order gets *)
(* an answer, and the lock goes round.                                          *)
EveryOrderAnswered ==
    \A i \in Issuers : pc[i] # "idle" ~> pc[i] = "idle"

(* "clear the slot, write the command, wait for the slot to refill.  Without    *)
(* that an order's reported outcome could belong to a different order"          *)
(* (orders.py:21-23): with it, what is reported of an order is its own outcome. *)
ReportedIsOwn == \A n \in Orders : report[n].from \in {0, n}
===============================================================================
