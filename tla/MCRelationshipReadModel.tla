----------------------- MODULE MCRelationshipReadModel -----------------------
(* Small instances of RelationshipReadModel. *)
EXTENDS RelationshipReadModel, TLC

Symmetry == Permutations(Users)

=============================================================================
