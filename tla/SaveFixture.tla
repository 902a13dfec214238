------------------------------ MODULE SaveFixture ------------------------------
(* scripts/fixture.py: a save state kept under a name, with a manifest of where *)
(* it came from and of what the live game said.  A save's bytes are the turn it *)
(* holds.                                                                       *)
EXTENDS Naturals

CONSTANTS MaxSaves,     \* bound: autosaves the game writes
          MaxCaptures   \* bound: captures begun

ASSUME SaveBoundsOK == MaxSaves \in Nat /\ MaxCaptures \in Nat

VARIABLES autosave,  \* the newest file of saves/auto, 0 for none
          live,      \* the state the game is in, a turn
          sav,       \* the fixture's .sav, 0 for none
          record,    \* its .json: [md5, source, readings], NoRecord for none
          capture,   \* the capture under way: [at, newest]
          captures

saveVars == <<autosave, live, sav, record, capture, captures>>

NoRecord == [md5 |-> 0, source |-> 0, readings |-> 0]
NotCapturing == [at |-> "idle", newest |-> 0, readings |-> 0]

SaveInit == /\ autosave = 0 /\ live = 1 /\ sav = 0
            /\ record = NoRecord
            /\ capture = NotCapturing /\ captures = 0

\* The game, external: it plays a turn on, and autosaves.
PlaysOn == /\ live <= MaxSaves
           /\ live' = live + 1 /\ autosave' = live
           /\ UNCHANGED <<sav, record, capture, captures>>

\* cmd_capture: the newest autosave is chosen, ...
Choose == /\ capture.at = "idle" /\ autosave # 0 /\ captures < MaxCaptures
          /\ captures' = captures + 1
          /\ capture' = [NotCapturing EXCEPT !.at = "chosen", !.newest = autosave]
          /\ UNCHANGED <<autosave, live, sav, record>>

\* ... refused if the name is taken and --force was not given, and else copied, ...
Copy(force) ==
    /\ capture.at = "chosen"
    /\ \/ /\ sav # 0 /\ ~force
          /\ capture' = NotCapturing /\ UNCHANGED sav
       \/ /\ sav = 0 \/ force
          /\ sav' = capture.newest
          /\ capture' = [capture EXCEPT !.at = "copied"]
    /\ UNCHANGED <<autosave, live, record, captures>>

\* ... the game is asked for its readings, which it may not answer (0), ...
Ask == /\ capture.at = "copied"
       /\ \E readings \in {0, live} :
            capture' = [capture EXCEPT !.at = "asked", !.readings = readings]
       /\ UNCHANGED <<autosave, live, sav, record, captures>>

\* ... and the manifest is written, with the hash of the copy.
WriteRecord == /\ capture.at = "asked"
               /\ record' = [md5 |-> sav, source |-> capture.newest,
                             readings |-> capture.readings]
               /\ capture' = NotCapturing
               /\ UNCHANGED <<autosave, live, sav, captures>>

\* The capture dies with its terminal; nothing is undone.
Killed == /\ capture.at \in {"copied", "asked"}
          /\ capture' = NotCapturing
          /\ UNCHANGED <<autosave, live, sav, record, captures>>

SaveNext == PlaysOn \/ Choose \/ Ask \/ WriteRecord \/ Killed \/ \E force \in BOOLEAN : Copy(force)

\* cmd_show: "OK" exactly when the save still has the manifest's hash.
ShownOK == record # NoRecord /\ sav # 0 /\ sav = record.md5

(*---------------------------------------------------------------------------*)
(* Properties.                                                                *)

SaveTypeOK == /\ autosave \in 0..MaxSaves /\ live \in 1..MaxSaves + 1 /\ sav \in 0..MaxSaves
              /\ capture.at \in {"idle", "chosen", "copied", "asked"}
              /\ captures \in 0..MaxCaptures

\* A fixture that is shown as unchanged is the autosave its manifest names.
ShownIsItsSource == ShownOK => sav = record.source

\* "the readings that make the state worth keeping": the readings beside a save are
\* of the turn it holds.
ReadingsAreOfTheSave == ShownOK /\ record.readings # 0 => record.readings = sav
================================================================================
