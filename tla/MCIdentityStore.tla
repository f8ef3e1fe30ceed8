-------------------------- MODULE MCIdentityStore --------------------------
(* TLC instances of IdentityStore.                                         *)
EXTENDS IdentityStore, TLC

(* Callers are alike, and so are attestations.                             *)
StoreSymmetry == Permutations(Proc) \cup Permutations(Attestations)

=============================================================================
