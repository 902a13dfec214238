----------------------------- MODULE MCTurnBoard -----------------------------
(* TurnBoard with bases that are interchangeable: every announcement expects    *)
(* either all of them or none.                                                  *)
EXTENDS TurnBoard, TLC

Alike == Permutations(Bases)
==============================================================================
