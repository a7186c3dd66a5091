---------------------------- MODULE MCRouteIndex ----------------------------
(* RouteIndex for TLC. *)
EXTENDS RouteIndex, TLC

Symmetry == Permutations(Group) \cup Permutations(User)
=============================================================================
