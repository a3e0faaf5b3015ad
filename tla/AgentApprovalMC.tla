--------------------------- MODULE AgentApprovalMC ---------------------------
(* Symmetry for the TLC runs of AgentApproval: ids are only ever compared. *)
EXTENDS AgentApproval, TLC

SpendSymmetry == Permutations(Cards) \cup Permutations(Calls)
=============================================================================
