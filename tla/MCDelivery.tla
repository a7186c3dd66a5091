------------------------------ MODULE MCDelivery ------------------------------
(* Delivery for TLC: a transaction with three hints. *)
EXTENDS Delivery, TLC

Transactions == {1}

Hints == <<<<"a", "b", "c">>>>

Clocks == {0, 1}
===============================================================================
