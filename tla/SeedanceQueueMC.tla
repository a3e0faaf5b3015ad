--------------------------- MODULE SeedanceQueueMC ---------------------------
(* Model values and symmetry for the TLC runs of SeedanceQueue. *)
EXTENDS SeedanceQueue, TLC

\* Task ids are random strings the code only compares.
Symmetry == Permutations(Tasks)
=============================================================================
