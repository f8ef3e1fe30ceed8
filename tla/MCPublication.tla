--------------------------- MODULE MCPublication ---------------------------
(* TLC instances of Publication.                                           *)
EXTENDS Publication, TLC

(* Callers are alike, and so are attestations.                             *)
PublicationSymmetry == Permutations(Proc) \cup Permutations(Attestations)

=============================================================================
