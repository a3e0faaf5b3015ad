----------------------------- MODULE AgentRunsMC -----------------------------
(* Model values and symmetry for the TLC runs of AgentRuns. *)
EXTENDS AgentRuns, TLC

\* Run ids and request ids are random strings the code only compares.
Symmetry == Permutations(Runs) \cup Permutations(Cancels)
=============================================================================
