---------------------------- MODULE MCDecisionQueue ----------------------------
(* Values for DecisionQueue's constants that a cfg cannot write itself. *)
EXTENDS DecisionQueue, TLC

\* Workers are interchangeable, and so are agents: no action tells them apart.
\* Used by the safety run only; symmetry is unsound for liveness.
Interchangeable == Permutations(Workers) \cup Permutations(Agents)
===============================================================================
