----------------------------- MODULE MCRoomHub -----------------------------
(***************************************************************************)
(* Two connections of one user, opened with the same client id, as a       *)
(* reconnecting client does, or with two.                                  *)
(***************************************************************************)
EXTENDS RoomHub

CONSTANTS u1, c1, i1

MCuserOf == [c \in Conns |-> u1]

\* The names of the ids do not matter: the first connection has the first one.
MCInit == Init /\ idOf[c1] = i1

MCSpec == MCInit /\ [][Next]_vars /\ Fairness
=============================================================================
