------------------------ MODULE MCSnapshotGovernance ------------------------
(***************************************************************************)
(* SnapshotGovernance with three accounts and three hooks: enough for a    *)
(* holder, a successor and a bystander, and for the middle hook of the     *)
(* dense set to be removed.                                                *)
(***************************************************************************)
EXTENDS SnapshotGovernance, TLC

Symmetry == Permutations(Accounts) \cup Permutations(Hooks)
            \cup Permutations(Documents)
=============================================================================
