-------------------------- MODULE MCIdentityChain --------------------------
(* TLC instance of IdentityChain: values are interchangeable payloads.     *)
EXTENDS IdentityChain, TLC

ValueSymmetry == Permutations(Values)

=============================================================================
