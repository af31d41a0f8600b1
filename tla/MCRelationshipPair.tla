------------------------- MODULE MCRelationshipPair -------------------------
(* Small instances of RelationshipPair. *)
EXTENDS RelationshipPair, TLC

Symmetry == Permutations(Users) \cup Permutations(Workers)

=============================================================================
