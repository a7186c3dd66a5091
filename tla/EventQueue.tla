------------------------------ MODULE EventQueue ------------------------------
(***************************************************************************)
(* eventQueue with its due times and its timer.  time.AfterFunc starts     *)
(* releaseDue in a goroutine of its own, which then has to wait for the    *)
(* mutex: between the two, other calls stop, reset or replace the timer.   *)
(* A timer that releaseDue forgets while it is armed still fires.          *)
(*                                                                         *)
(* Times are the time left; the unit is the shortest delay.                *)
(***************************************************************************)
EXTENDS Naturals, FiniteSets, FiniteSetsExt

CONSTANTS
    Group, User, NoRoute, Hints, MaxDirtyRoutes,
    ConfirmDelay,     \* membershipConfirmDelay
    JitDelay,         \* jitProvisioningRetryDelay
    RepairDelay,      \* topologyRepairMinInterval
    MaxCallbacks      \* bound: callbacks that wait for the mutex at once

MaxDelay == Max({ConfirmDelay, JitDelay, RepairDelay})

ASSUME DelaysAssumption == {ConfirmDelay, JitDelay, RepairDelay} \subseteq Nat \ {0}

VARIABLES
    pending, wake, closed,    \* as in DirtyQueue
    due,          \* due[k]: time left of the delayed work k
    timer,        \* the timer that q.timer points to, if any
    forgotten,    \* time left of armed timers that q.timer no longer points to
    callbacks     \* releaseDue goroutines before the mutex

vars == <<pending, wake, closed, due, timer, forgotten, callbacks>>

Q == INSTANCE DirtyQueue WITH delayed <- DOMAIN due

(* What DirtyQueue assumes, and the bound. *)
ASSUME QueueAssumption ==
    /\ NoRoute \notin Group \cup User
    /\ IsFiniteSet(Group) /\ IsFiniteSet(User)
    /\ Hints \subseteq [global : BOOLEAN, user : User \cup {NoRoute}, group : Group \cup {NoRoute},
                        op : Q!Operations, resource : Q!Resources]
    /\ MaxDirtyRoutes \in Nat \ {0}
    /\ MaxCallbacks \in Nat

NoTimer == [present |-> FALSE, armed |-> FALSE, left |-> 0]
Armed(left) == [present |-> TRUE, armed |-> TRUE, left |-> left]
Fired == [present |-> TRUE, armed |-> FALSE, left |-> 0]

TypeOK ==
    /\ Q!QueueTypeOK
    /\ due \in UNION {[K -> 0..MaxDelay] : K \in SUBSET Q!DelayKeys}
    /\ timer \in {NoTimer, Fired} \cup {Armed(n) : n \in 0..MaxDelay}
    /\ forgotten \in SUBSET (0..MaxDelay)
    /\ callbacks \in 0..MaxCallbacks

NoDue == [k \in {} |-> 0]

Init ==
    /\ pending = Q!EmptyBatch
    /\ wake = FALSE
    /\ closed = FALSE
    /\ due = NoDue
    /\ timer = NoTimer
    /\ forgotten = {}
    /\ callbacks = 0

-------------------------------------------------------------------------------
Earliest(d) == Min({d[k] : k \in DOMAIN d})

(* Mutant: the timer is armed for the latest delayed work. *)
ResetTimerLatest(d) ==
    IF DOMAIN d = {} THEN NoTimer ELSE Armed(Max({d[k] : k \in DOMAIN d}))

(* resetTimerLocked: one timer, armed for the earliest delayed work. *)
ResetTimer(d) == IF DOMAIN d = {} THEN NoTimer ELSE Armed(Earliest(d))

(* Mutant: the delayed work survives, without its timer. *)
BecomeGlobalKeepingDelayed ==
    /\ pending' = [Q!EmptyBatch EXCEPT !.global = TRUE]
    /\ timer' = NoTimer
    /\ wake' = TRUE
    /\ UNCHANGED due

(* globalLocked also stops the timer. *)
BecomeGlobal ==
    /\ pending' = [Q!EmptyBatch EXCEPT !.global = TRUE]
    /\ due' = NoDue
    /\ timer' = NoTimer
    /\ wake' = TRUE

Add(h) ==
    /\ ~closed
    /\ \/ h.global /\ BecomeGlobal
       \/ ~h.global /\ pending.global /\ UNCHANGED <<pending, due, timer, wake>>
       \/ /\ ~h.global /\ ~pending.global
          /\ IF Q!Routeless(h) \/ Q!Size(Q!Merge(pending, h), DOMAIN due) > MaxDirtyRoutes
             THEN BecomeGlobal
             ELSE /\ pending' = Q!Merge(pending, h)
                  /\ wake' = TRUE
                  /\ UNCHANGED <<due, timer>>
    /\ UNCHANGED <<closed, forgotten, callbacks>>

(* Mutant: off by one, the queue takes one delayed key too many. *)
FullOffByOne(k) == k \notin DOMAIN due /\ Q!Size(pending, DOMAIN due) > MaxDirtyRoutes

(* There is no room for a new delayed key. *)
Full(k) == k \notin DOMAIN due /\ Q!Size(pending, DOMAIN due) >= MaxDirtyRoutes

(* Scheduling a key again postpones it. *)
Schedule(k, delay) ==
    LET scheduled == [x \in DOMAIN due \cup {k} |-> IF x = k THEN delay ELSE due[x]]
    IN  /\ ~closed
        /\ IF Full(k)
           THEN BecomeGlobal
           ELSE /\ due' = scheduled
                /\ timer' = ResetTimer(scheduled)
                /\ UNCHANGED <<pending, wake>>
        /\ UNCHANGED <<closed, forgotten, callbacks>>

ScheduleGroup ==
    \E g \in Group : Schedule(Q!ConfirmKey(g), ConfirmDelay) \/ Schedule(Q!JitKey(g), JitDelay)

(* What is left of the rate limit, or all of it. *)
AddGlobalAfter == \E delay \in 1..RepairDelay : Schedule(Q!GlobalKey, delay)

(* Mutant: while everything is dirty, due work is left where it is. *)
ExpiredUnlessGlobal == IF pending.global THEN {} ELSE {k \in DOMAIN due : due[k] = 0}

Expired == {k \in DOMAIN due : due[k] = 0}

(* Mutant: the reason of the delayed work is taken for its route. *)
ReasonsOf(K) == {k[1] : k \in K}

RoutesOf(K) == {k[2] : k \in K}

(* releaseDue: what is due moves to the ready work, and a new timer is     *)
(* armed for the rest whatever the old one was doing.                      *)
ReleaseDue ==
    /\ callbacks > 0
    /\ callbacks' = callbacks - 1
    /\ ~closed
    /\ LET K == Expired
           rest == [k \in DOMAIN due \ K |-> due[k]]
       IN  \/ Q!GlobalKey \in K /\ BecomeGlobal /\ UNCHANGED forgotten
           \/ /\ Q!GlobalKey \notin K
              /\ due' = rest
              /\ pending' = IF pending.global THEN pending
                            ELSE [pending EXCEPT !.groups = @ \cup RoutesOf(K)]
              /\ forgotten' = IF timer.armed THEN forgotten \cup {timer.left} ELSE forgotten
              /\ timer' = ResetTimer(rest)
              /\ wake' = TRUE
    /\ UNCHANGED closed

ReleaseAfterClose ==
    /\ callbacks > 0
    /\ callbacks' = callbacks - 1
    /\ closed
    /\ UNCHANGED <<pending, wake, closed, due, timer, forgotten>>

TakeWake ==
    /\ wake
    /\ wake' = FALSE
    /\ UNCHANGED <<pending, closed, due, timer, forgotten, callbacks>>

Drain ==
    /\ pending' = Q!EmptyBatch
    /\ UNCHANGED <<wake, closed, due, timer, forgotten, callbacks>>

Close ==
    /\ ~closed
    /\ closed' = TRUE
    /\ timer' = NoTimer
    /\ UNCHANGED <<pending, wake, due, forgotten, callbacks>>

-------------------------------------------------------------------------------
(* The runtime *)

(* A timer that ran out starts its callback. *)
Fire ==
    /\ callbacks < MaxCallbacks
    /\ callbacks' = callbacks + 1
    /\ \/ timer.armed /\ timer.left = 0 /\ timer' = Fired /\ UNCHANGED forgotten
       \/ 0 \in forgotten /\ forgotten' = forgotten \ {0} /\ UNCHANGED timer
    /\ UNCHANGED <<pending, wake, closed, due>>

Less(n) == IF n > 0 THEN n - 1 ELSE 0

Tick ==
    /\ due' = [k \in DOMAIN due |-> Less(due[k])]
    /\ timer' = [timer EXCEPT !.left = Less(@)]
    /\ forgotten' = {Less(n) : n \in forgotten}
    /\ UNCHANGED <<pending, wake, closed, callbacks>>

Next ==
    \/ \E h \in Hints : Add(h)
    \/ ScheduleGroup \/ AddGlobalAfter
    \/ ReleaseDue \/ ReleaseAfterClose
    \/ TakeWake \/ Drain \/ Close
    \/ Fire \/ Tick

(* Time passes, timers run and callbacks get the mutex. *)
Spec == Init /\ [][Next]_vars
             /\ WF_vars(Tick) /\ WF_vars(Fire) /\ WF_vars(ReleaseDue)

-------------------------------------------------------------------------------
(* Properties *)

(* However a callback races with Stop and Reset, delayed work is never     *)
(* stranded: the timer the queue holds fires by the earliest due time, or  *)
(* a callback that will look at the due times is already on its way.       *)
TimerCoversDelayed ==
    ~closed /\ DOMAIN due # {} =>
       \/ callbacks > 0
       \/ timer.armed /\ \A k \in DOMAIN due : timer.left <= due[k]

(* The queue never holds more than MaxDirtyRoutes routes, released delayed *)
(* work included.                                                          *)
Capacity == Q!Size(pending, DOMAIN due) <= MaxDirtyRoutes

(* Every delayed key is released, collapsed into a global repair or        *)
(* postponed by a later schedule; none lies overdue forever.               *)
OverdueReleased ==
    \A k \in Q!DelayKeys :
       (k \in DOMAIN due /\ due[k] = 0) ~> (closed \/ k \notin DOMAIN due \/ due[k] > 0)

(* Mutex, due times and timer implement the queue its users reason about. *)
ImplementsDirtyQueue == Q!QueueSpec

(* The safety properties are inductive together. *)
EventQueueInv == TypeOK /\ TimerCoversDelayed /\ Capacity
===============================================================================
