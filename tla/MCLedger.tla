------------------------------- MODULE MCLedger -------------------------------
(* Ledger for TLC: two processes on one state path, one membership key, a  *)
(* legacy and a canonical source key that may be bound to two targets.     *)
EXTENDS Ledger, TLC

Symmetry == Permutations(Proc) \cup Permutations(Target)
===============================================================================
