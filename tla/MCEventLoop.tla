----------------------------- MODULE MCEventLoop -----------------------------
(* EventLoop for TLC. *)
EXTENDS EventLoop

Base == [global |-> FALSE, user |-> NoRoute, group |-> NoRoute, op |-> "CREATE",
         resource |-> "GROUP_MEMBERSHIP"]

(* A topology hint, membership changes, group changes, logins, disables. *)
MCHints ==
    {[Base EXCEPT !.global = TRUE]}
    \cup {[Base EXCEPT !.group = g, !.op = "DELETE"] : g \in Group}
    \cup {[Base EXCEPT !.group = g, !.resource = "GROUP"] : g \in Group}
    \cup {[Base EXCEPT !.user = u, !.op = o] : u \in User, o \in {"LOGIN", "UPDATE"}}
==============================================================================
