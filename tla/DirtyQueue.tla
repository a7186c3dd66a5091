------------------------------ MODULE DirtyQueue ------------------------------
(***************************************************************************)
(* The keyed dirty queue between the webhook and the reconciler, as its    *)
(* two users see it (eventQueue of src/internal/reconcile/events.go): work *)
(* that is ready, work that is delayed, a wake-up that holds one signal.   *)
(* Time is left out: delayed work is released some time later.  EventQueue *)
(* adds the due times and the timer and implements this module.            *)
(*                                                                         *)
(* A hint selects a group route, a user route, or everything.  More than   *)
(* MaxDirtyRoutes routes collapse into everything.                         *)
(***************************************************************************)
EXTENDS Naturals, FiniteSets

CONSTANTS
    Group,            \* group routes
    User,             \* user routes
    NoRoute,          \* the empty routing key
    Hints,            \* hints that the webhook accepts
    MaxDirtyRoutes    \* capacity (10,000 in the code)

Operations == {"LOGIN", "CREATE", "UPDATE", "DELETE"}
Resources == {"GROUP", "GROUP_MEMBERSHIP", "USER"}

ASSUME NoRouteAssumption == NoRoute \notin Group \cup User

ASSUME HintsAssumption ==
    Hints \subseteq [global : BOOLEAN, user : User \cup {NoRoute}, group : Group \cup {NoRoute},
                     op : Operations, resource : Resources]

ASSUME RoutesAssumption == IsFiniteSet(Group) /\ IsFiniteSet(User)

ASSUME MaxDirtyRoutesAssumption == MaxDirtyRoutes \in Nat \ {0}

(* The keys of delayed work: the reason and the route. *)
GlobalKey == <<"global", NoRoute>>
ConfirmKey(g) == <<"membership-confirmation", g>>
JitKey(g) == <<"jit-provisioning", g>>
DelayKeys == {GlobalKey} \cup {ConfirmKey(g) : g \in Group} \cup {JitKey(g) : g \in Group}

VARIABLES
    pending,    \* the ready work, see Batches
    delayed,    \* keys of the delayed work
    wake,       \* the wake channel holds its one signal
    closed

queue == <<pending, delayed, wake, closed>>

(* The maps groups and users of the queue, and global.  all and confirm    *)
(* are the flags of eventWork, jit and disable those of eventUserWork.     *)
Batches == [groups : SUBSET Group, all : SUBSET Group, confirm : SUBSET Group,
            users : SUBSET User, jit : SUBSET User, disable : SUBSET User,
            global : BOOLEAN]

EmptyBatch == [groups |-> {}, all |-> {}, confirm |-> {}, users |-> {}, jit |-> {},
               disable |-> {}, global |-> FALSE]

QueueTypeOK ==
    /\ pending \in Batches
    /\ delayed \in SUBSET DelayKeys
    /\ wake \in BOOLEAN
    /\ closed \in BOOLEAN

QueueInit ==
    /\ pending = EmptyBatch
    /\ delayed = {}
    /\ wake = FALSE
    /\ closed = FALSE

Size(batch, keys) ==
    Cardinality(batch.groups) + Cardinality(batch.users) + Cardinality(keys)

-------------------------------------------------------------------------------
(* Producers *)

Routeless(h) == h.user = NoRoute /\ h.group = NoRoute

IsGlobal(h) == h.global \/ Routeless(h)

Only(route, flag) == IF flag THEN {route} ELSE {}

(* Mutant: a user hint also marks its group route, which is empty. *)
MergeBoth(batch, h) ==
    [batch EXCEPT !.users = @ \cup ({h.user} \ {NoRoute}), !.groups = @ \cup {h.group}]

(* Mutant: the last hint of a route decides its flags. *)
MergeLast(batch, h) ==
    IF h.user # NoRoute
    THEN [batch EXCEPT !.users = @ \cup {h.user}]
    ELSE [batch EXCEPT
             !.groups = @ \cup {h.group},
             !.all    = (@ \ {h.group}) \cup Only(h.group, h.resource = "GROUP")]

(* The ready work with one more hint: flags of a route accumulate. *)
Merge(batch, h) ==
    IF h.user # NoRoute
    THEN [batch EXCEPT
             !.users   = @ \cup {h.user},
             !.jit     = @ \cup Only(h.user, h.op = "LOGIN"),
             !.disable = @ \cup Only(h.user, h.op \in {"UPDATE", "DELETE"})]
    ELSE [batch EXCEPT
             !.groups  = @ \cup {h.group},
             !.all     = @ \cup Only(h.group, h.resource = "GROUP"),
             !.confirm = @ \cup Only(h.group, h.resource # "GROUP" /\ h.op = "DELETE")]

(* Mutant: the worker is not signalled. *)
BecomeGlobalSilently ==
    /\ pending' = [EmptyBatch EXCEPT !.global = TRUE]
    /\ delayed' = {}
    /\ UNCHANGED wake

(* Everything is dirty: all other work, delayed work too, is dropped. *)
BecomeGlobal ==
    /\ pending' = [EmptyBatch EXCEPT !.global = TRUE]
    /\ delayed' = {}
    /\ wake' = TRUE

Add(h) ==
    /\ ~closed
    /\ \/ h.global /\ BecomeGlobal
       \/ ~h.global /\ pending.global /\ UNCHANGED <<pending, delayed, wake>>
       \/ /\ ~h.global /\ ~pending.global
          /\ IF Routeless(h) \/ Size(Merge(pending, h), delayed) > MaxDirtyRoutes
             THEN BecomeGlobal
             ELSE /\ pending' = Merge(pending, h)
                  /\ wake' = TRUE
                  /\ UNCHANGED delayed
    /\ UNCHANGED closed

(* ScheduleGroup and AddGlobalAfter. *)
Schedule(k) ==
    /\ ~closed
    /\ \/ k \in delayed /\ UNCHANGED <<pending, delayed, wake>>
       \/ /\ k \notin delayed
          /\ IF Size(pending, delayed) >= MaxDirtyRoutes
             THEN BecomeGlobal
             ELSE delayed' = delayed \cup {k} /\ UNCHANGED <<pending, wake>>
    /\ UNCHANGED closed

(* The timer callback releases the keys K that are due; with none it only  *)
(* signals.                                                                *)
Release(K) ==
    /\ ~closed
    /\ K \subseteq delayed
    /\ \/ GlobalKey \in K /\ BecomeGlobal
       \/ /\ GlobalKey \notin K
          /\ delayed' = delayed \ K
          /\ pending' = IF pending.global THEN pending
                        ELSE [pending EXCEPT !.groups = @ \cup {k[2] : k \in K}]
          /\ wake' = TRUE
    /\ UNCHANGED closed

-------------------------------------------------------------------------------
(* The consumer *)

TakeWake ==
    /\ wake
    /\ wake' = FALSE
    /\ UNCHANGED <<pending, delayed, closed>>

Drain ==
    /\ pending' = EmptyBatch
    /\ UNCHANGED <<delayed, wake, closed>>

Close ==
    /\ closed' = TRUE
    /\ UNCHANGED <<pending, delayed, wake>>

QueueNext ==
    \/ \E h \in Hints : Add(h)
    \/ \E k \in DelayKeys : Schedule(k)
    \/ \E K \in SUBSET DelayKeys : Release(K)
    \/ TakeWake
    \/ Drain
    \/ Close

QueueSpec == QueueInit /\ [][QueueNext]_queue
===============================================================================
