----------------------------- MODULE AtomicLedger -----------------------------
(***************************************************************************)
(* What state.Store promises its callers, without files, renames or locks: *)
(* one value that operations change one at a time, and a set of contents   *)
(* that can be found again after a stop.  An operation that returned nil   *)
(* leaves exactly its own result to be found.  One that returned an error  *)
(* changed nothing for its caller and may or may not be found afterwards.  *)
(***************************************************************************)
EXTENDS LedgerContents

CONSTANT Closed   \* the value while no process has the ledger open

VARIABLES
    value,        \* the contents the operations of the open ledger work on
    survivors     \* the contents that the next open can find

vars == <<value, survivors>>

Init ==
    /\ value = Closed
    /\ survivors = {EmptyContents}

Open ==
    /\ value = Closed
    /\ value' \in survivors
    /\ UNCHANGED survivors

(* An operation has put its result where a later open may find it, and has *)
(* not returned yet.                                                       *)
Attempt ==
    /\ value # Closed
    /\ \E c \in Results(value) : survivors' = survivors \cup {c}
    /\ UNCHANGED value

(* An operation returns nil. *)
Commit ==
    /\ value # Closed
    /\ value' \in Results(value)
    /\ survivors' = {value'}

Stop ==
    /\ value # Closed
    /\ value' = Closed
    /\ UNCHANGED survivors

(* Power loss decides which of the candidates was on disk. *)
PowerLoss ==
    /\ value' = Closed
    /\ \E c \in survivors : survivors' = {c}

Next == Open \/ Attempt \/ Commit \/ Stop \/ PowerLoss

Spec == Init /\ [][Next]_vars
===============================================================================
