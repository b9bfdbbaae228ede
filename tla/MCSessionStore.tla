--------------------------- MODULE MCSessionStore ---------------------------
(***************************************************************************)
(* SessionStore on a small instance: two connections, one derived session, *)
(* room for two sessions, so that every insertion after the second evicts. *)
(***************************************************************************)
EXTENDS SessionStore, TLC

Symmetry == Permutations(Connections) \cup Permutations(GeneratedIds)
=============================================================================
