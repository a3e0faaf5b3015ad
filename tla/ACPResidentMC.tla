----------------------------- MODULE ACPResidentMC -----------------------------
(* The instance of ACPResident: the runs of one session. *)
EXTENDS ACPResident

CONSTANT s1

OneSession == [r \in Runs |-> s1]
=============================================================================
