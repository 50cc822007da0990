-------------------------- MODULE MCMerkleSnapshot --------------------------
(***************************************************************************)
(* MerkleSnapshot on small instances.  Blocks, logs and checkpoint ids are *)
(* ordered, so they are integers; everything else is a model value.        *)
(* Contracts and hashes are only compared for equality, so permuting a set *)
(* of them maps behaviours to behaviours.                                  *)
(***************************************************************************)
EXTENDS MerkleSnapshot, TLC

SymAccumulators == Permutations(Accumulators)
SymParams == Permutations(Params)
SymVerifiers == Permutations(Verifiers)
SymContracts == SymAccumulators \cup SymVerifiers
=============================================================================
