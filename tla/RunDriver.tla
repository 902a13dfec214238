------------------------------- MODULE RunDriver -------------------------------
(* scripts/drive-unattended.py: the process that keeps an unattended game       *)
(* moving, against a game that answers, thinks, freezes, dies or shows a        *)
(* dialog.  A cycle of the driver's loop is one step; time is counted in        *)
(* cycles.  Of a dialog only its rows of buttons matter, and which row holds,   *)
(* at the right, the button that dismisses it (_dialog_bars.py finds the rows). *)
EXTENDS Integers, FiniteSets

CONSTANTS Dialogs,        \* records [rows, dismiss, shape]: shape is what the driver sees of it
          NoProgress,     \* NO_PROGRESS_LIMIT, in cycles
          SilentLimit, BusyLimit,
          ViableByTurn,   \* win_ladder.VIABLE_BY_TURN
          MaxTurn         \* bound: the turn the game ends at

ASSUME DriverBoundsOK == {NoProgress, SilentLimit, BusyLimit, ViableByTurn, MaxTurn} \subseteq Nat \ {0}
                         /\ \A d \in Dialogs : d.rows \in Nat \ {0} /\ d.dismiss \in 1..d.rows

VARIABLES
    game,       \* what the game is doing
    ticked,     \* whether its heartbeat moved since the driver read it
    turn,       \* its turn
    dialog,     \* the dialog it shows
    clicks,     \* history: how often that dialog was clicked
    driver,     \* the driver's local variables
    ended       \* why the driver stopped, "" while it runs

driverVars == <<game, ticked, turn, dialog, clicks, driver, ended>>

NoDialog == [rows |-> 0, dismiss |-> 0, shape |-> "none"]
Start == [best |-> 0, idle |-> 0, silent |-> 0, busy |-> 0, known |-> FALSE,
          playing |-> FALSE, viable |-> FALSE, seen |-> "none", tries |-> 0]

DriverInit == /\ game = "answering" /\ ticked = FALSE /\ turn = 0
              /\ dialog = NoDialog /\ clicks = 0
              /\ driver = Start
              /\ ended = ""

(*---------------------------------------------------------------------------*)
(* The game, external.                                                        *)

SameDriver == UNCHANGED <<driver, ended>>

\* na-input-heartbeat: the game's own thread writes it, thinking or not.
Tick == /\ game \in {"answering", "thinking"} /\ ~ticked
        /\ ticked' = TRUE
        /\ UNCHANGED <<game, turn, dialog, clicks>> /\ SameDriver

EndTurn == /\ game = "answering" /\ dialog = NoDialog /\ turn < MaxTurn
           /\ turn' = turn + 1
           /\ UNCHANGED <<game, ticked, dialog, clicks>> /\ SameDriver

Reload == /\ game = "answering" /\ turn > 1
          /\ turn' \in 1..turn - 1
          /\ UNCHANGED <<game, ticked, dialog, clicks>> /\ SameDriver

Show(d) == /\ game = "answering" /\ dialog = NoDialog
           /\ dialog' = d /\ clicks' = 0
           /\ UNCHANGED <<game, ticked, turn>> /\ SameDriver

\* A model decision in flight, a modal that deafens the channel, the process gone.
Silence(how) == /\ game = "answering"
                /\ game' = how
                /\ UNCHANGED <<ticked, turn, dialog, clicks>> /\ SameDriver

Recover == /\ game \in {"thinking", "frozen"}
           /\ game' = "answering"
           /\ UNCHANGED <<ticked, turn, dialog, clicks>> /\ SameDriver

Game == \/ Tick \/ EndTurn \/ Reload \/ Recover
        \/ \E d \in Dialogs : Show(d)
        \/ \E how \in {"thinking", "frozen", "gone"} : Silence(how)

(*---------------------------------------------------------------------------*)
(* The driver.                                                                *)

\* A counter stops mattering at the limit it is compared with.
Count(n, limit) == IF n < limit THEN n + 1 ELSE n

\* No result: the heartbeat tells a busy game from one that is gone or deafened.
\* The first heartbeat seen has nothing to be compared with.
Unanswered ==
    /\ game # "answering"
    /\ LET moved == ticked /\ driver.known
           next == [driver EXCEPT !.idle = Count(@, NoProgress),
                                  !.known = driver.known \/ ticked,
                                  !.busy = IF moved THEN @ + 1 ELSE @,
                                  !.silent = IF moved THEN @ ELSE @ + 1]
       IN /\ driver' = next
          /\ ended' = CASE moved /\ next.busy >= BusyLimit -> "never answers"
                        [] ~moved /\ next.silent >= SilentLimit -> "gone"
                        [] OTHER -> ""
    /\ ticked' = FALSE
    /\ UNCHANGED <<game, turn, dialog, clicks>>

\* Mutant: the rotation starts over from the top on every click.
TopOrBottom(d, tries) == IF tries < 3 THEN d.rows ELSE 1

\* Rows are numbered from the top.  The bottom one is tried three times, then each
\* row in turn; what counts as one dialog is its shape.
RowFor(d, tries) == IF tries < 3 THEN d.rows ELSE ((tries \div 3) % d.rows) + 1

\* Mutant: any change of the turn is progress.
NotedAnyChange ==
    [driver EXCEPT !.silent = 0, !.busy = 0, !.known = driver.known \/ ticked,
                   !.best = turn, !.viable = @ \/ turn >= ViableByTurn,
                   !.idle = IF turn # driver.best THEN 0 ELSE Count(@, NoProgress),
                   !.playing = @ \/ turn > 0]

\* A result: what the cycle does with the shot, whichever way it goes on.
Noted == LET advanced == turn > driver.best
         IN [driver EXCEPT !.silent = 0, !.busy = 0, !.known = driver.known \/ ticked,
                           !.best = IF advanced THEN turn ELSE @,
                           !.idle = IF advanced THEN 0 ELSE Count(@, NoProgress),
                           !.viable = @ \/ turn >= ViableByTurn,
                           !.playing = @ \/ turn > 0]

\* `halted` reads true before play too, while the save is loading.
Halt == ended' = IF turn = MaxTurn /\ driver.playing THEN "halted" ELSE ""

Answers == game = "answering" /\ ticked' = FALSE /\ UNCHANGED <<game, turn>>

\* The checkpoint, once: the probe answered and our faction is below the bar.
Refuse == /\ Answers /\ turn >= ViableByTurn /\ ~driver.viable
          /\ driver' = Noted /\ ended' = "refused"
          /\ UNCHANGED <<dialog, clicks>>

\* `tries` starts again after the last row of a rotation: what follows is the same.
Click == LET tries == IF dialog.shape = driver.seen THEN driver.tries ELSE 0
             round == 3 + 3 * dialog.rows
         IN /\ Answers /\ dialog # NoDialog
            /\ driver' = [Noted EXCEPT
                             !.seen = dialog.shape,
                             !.tries = IF tries + 1 = round THEN 3 ELSE tries + 1]
            /\ dialog' = IF RowFor(dialog, tries) = dialog.dismiss THEN NoDialog ELSE dialog
            /\ clicks' = clicks + 1
            /\ Halt

\* No dialog, or a screen written only in half: RETURN or SPACE, or nothing.
NoClick == Answers /\ driver' = Noted /\ Halt /\ UNCHANGED <<dialog, clicks>>

\* Looked at before the poll, so that a silence counts as time.
Cycle == /\ ended = ""
         /\ IF driver.idle >= NoProgress
            THEN ended' = "no progress" /\ UNCHANGED <<game, ticked, turn, dialog, clicks,
                                                       driver>>
            ELSE Unanswered \/ Refuse \/ Click \/ NoClick

DriverNext == (ended = "" /\ Game) \/ Cycle
DriverSpec == DriverInit /\ [][DriverNext]_driverVars

(*---------------------------------------------------------------------------*)
(* Properties.                                                                *)

DriverTypeOK ==
    /\ game \in {"answering", "thinking", "frozen", "gone"} /\ ticked \in BOOLEAN
    /\ turn \in 0..MaxTurn /\ dialog \in Dialogs \cup {NoDialog}
    /\ driver.best \in 0..MaxTurn /\ driver.idle \in 0..NoProgress
    /\ driver.silent \in 0..SilentLimit /\ driver.busy \in 0..BusyLimit
    /\ ended \in {"", "no progress", "gone", "never answers", "refused", "halted"}

\* Whatever the game does (dies, thinks for ever, freezes, is reloaded again and again,
\* shows dialogs), the driver stops: no loop of it gets an unlimited budget.
NoEndlessRun == <>(ended # "")

\* A dialog one of whose rows dismisses it at the right is gone after at most three
\* clicks on the bottom row and one round of three clicks on every row, from whatever
\* place in the rotation an earlier dialog of its shape left the driver at.
ClearedInOneRound == dialog # NoDialog => clicks < 3 + 3 * dialog.rows

\* "Rotation is keyed on THIS DIALOG" (drive-unattended.py:331): a dialog that was not
\* clicked before is clicked on its bottom row first.
BottomRowFirst ==
    [][dialog # NoDialog /\ clicks = 0 /\ clicks' = 1
         => RowFor(dialog, IF dialog.shape = driver.seen THEN driver.tries ELSE 0)
                = dialog.rows]_driverVars
================================================================================
