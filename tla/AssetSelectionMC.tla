-------------------------- MODULE AssetSelectionMC --------------------------
(* Symmetry for the TLC runs of AssetSelection: task ids are only compared. *)
EXTENDS AssetSelection, TLC

Symmetry == Permutations(Tasks)
=============================================================================
