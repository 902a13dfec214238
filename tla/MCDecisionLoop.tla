----------------------------- MODULE MCDecisionLoop -----------------------------
(* DecisionLoop with few world views: each differs from the first in one thing. *)
EXTENDS DecisionLoop

CONSTANTS k1, comply, other

MCView(turn, metric, space, first) ==
    [key |-> k1, turn |-> turn, metric |-> metric, space |-> space, first |-> first]

MCAsked ==
    {MCView(1, 1, {comply, other}, comply),
     MCView(2, 1, {comply, other}, comply),
     MCView(1, 0, {comply, other}, comply),
     MCView(1, Absent, {comply, other}, comply),
     MCView(1, 1, {comply}, comply)}
===============================================================================
