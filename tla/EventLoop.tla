------------------------------- MODULE EventLoop -------------------------------
(***************************************************************************)
(* Reconciler.Run and processEventBatch (src/internal/reconcile): one      *)
(* worker that reconciles everything at start and on every tick, and what  *)
(* the hints of the dirty queue select in between.  The webhook adds hints *)
(* and the timer releases delayed work at any step, also while a pass is   *)
(* running.                                                                *)
(*                                                                         *)
(* The routing index answers nondeterministically: a route may resolve or  *)
(* not, a user route to any groups.  A pass is two steps, because hints    *)
(* that arrive during it are not served by it, and it can fail.            *)
(***************************************************************************)
EXTENDS DirtyQueue

Kinds == {"members", "all"}

VARIABLES
    pc,          \* "select", "burst", "repair", "full", "targets", "group", "jit", "stopped"
    why,         \* what the running full pass is for: "start", "tick" or "event"
    todo,        \* the batch in hand, resolved to groups
    cur,         \* the group of the running targeted pass
    cooling,     \* less than topologyRepairMinInterval since the last full pass
    cancelled,   \* the worker's context is cancelled
    \* history
    owed,        \* <<g, kind>>: hinted, and no pass that began later has ended
    owedUsers,   \* the same for users that are not resolved yet
    covered,     \* the part of owed that the running pass began after
    coveredUsers

loop == <<pc, why, todo, cur, cooling, cancelled>>
history == <<owed, owedUsers, covered, coveredUsers>>
vars == <<queue, loop, history>>

(* jit holds groups here: the fan-out of the users that logged in. *)
Todos == [groups : SUBSET Group, all : SUBSET Group, confirm : SUBSET Group,
          jit : SUBSET Group, global : BOOLEAN]

NoTodo == [groups |-> {}, all |-> {}, confirm |-> {}, jit |-> {}, global |-> FALSE]

TypeOK ==
    /\ QueueTypeOK
    /\ pc \in {"select", "burst", "repair", "full", "targets", "group", "jit", "stopped"}
    /\ why \in {"start", "tick", "event"}
    /\ todo \in Todos
    /\ cur \in Group \cup {NoRoute}
    /\ cooling \in BOOLEAN
    /\ cancelled \in BOOLEAN
    /\ owed \in SUBSET (Group \X Kinds)
    /\ owedUsers \in SUBSET User
    /\ covered \in SUBSET (Group \X Kinds)
    /\ coveredUsers \in SUBSET User

(* Run begins with a full pass. *)
Init ==
    /\ QueueInit
    /\ pc = "full"
    /\ why = "start"
    /\ todo = NoTodo
    /\ cur = NoRoute
    /\ cooling = FALSE
    /\ cancelled = FALSE
    /\ owed = {}
    /\ owedUsers = {}
    /\ covered = {}
    /\ coveredUsers = {}

-------------------------------------------------------------------------------
(* The other actors *)

(* What a hint asks to be read again: a hint of a whole group all its      *)
(* targets, any other its memberships; a global hint and one without a     *)
(* route everything.                                                       *)
Asks(h) ==
    IF IsGlobal(h) THEN Group \X Kinds
    ELSE IF h.user # NoRoute THEN {}
    ELSE {h.group} \X (IF h.resource = "GROUP" THEN Kinds ELSE {"members"})

EnqueueEvent(h) ==
    /\ Add(h)
    /\ owed' = owed \cup Asks(h)
    /\ covered' = covered \ Asks(h)
    /\ LET user == IF IsGlobal(h) THEN {} ELSE {h.user} \ {NoRoute}
       IN  owedUsers' = owedUsers \cup user /\ coveredUsers' = coveredUsers \ user
    /\ UNCHANGED loop

ReleaseDue(K) ==
    /\ K # {} \/ ~wake
    /\ Release(K)
    /\ UNCHANGED <<loop, history>>

(* topologyRepairMinInterval has passed. *)
CoolDown ==
    /\ cooling
    /\ cooling' = FALSE
    /\ UNCHANGED <<queue, pc, why, todo, cur, cancelled, history>>

(* main.run gives up waiting. *)
Cancel ==
    /\ ~cancelled
    /\ cancelled' = TRUE
    /\ UNCHANGED <<queue, pc, why, todo, cur, cooling, history>>

-------------------------------------------------------------------------------
(* The select of Run *)

Stop ==
    /\ pc \in {"select", "burst"}
    /\ pc' = "stopped"
    /\ Close
    /\ UNCHANGED <<why, todo, cur, cooling, cancelled, history>>

(* A full pass reads everything that is dirty as it begins. *)
BeginFull(reason) ==
    /\ pc' = "full"
    /\ why' = reason
    /\ covered' = owed
    /\ coveredUsers' = owedUsers
    /\ UNCHANGED <<owed, owedUsers>>

TickerFires ==
    /\ pc = "select"
    /\ BeginFull("tick")
    /\ UNCHANGED <<queue, todo, cur, cooling, cancelled>>

WakeUp ==
    /\ pc = "select"
    /\ TakeWake
    /\ pc' = "burst"
    /\ UNCHANGED <<why, todo, cur, cooling, cancelled, history>>

(* waitForTriggerBurst swallows further signals until it has been quiet,   *)
(* or for eventMaxDelay.                                                   *)
SwallowWake ==
    /\ pc = "burst"
    /\ TakeWake
    /\ UNCHANGED <<loop, history>>

-------------------------------------------------------------------------------
(* processEventBatch *)

(* The burst is over: the batch is drained and its routes are resolved.    *)
(* resolved are the group routes the index knows, fan the groups of a user *)
(* (none: an unknown user).  An unknown route asks for a full repair.      *)
DrainBatch(resolved, fan) ==
    LET fanned(users) == UNION {fan[u] : u \in users}
    IN  /\ pc = "burst"
        /\ todo' = [groups  |-> resolved \cup fanned(pending.users),
                    all     |-> pending.all \cap resolved,
                    confirm |-> (pending.confirm \cap resolved) \cup fanned(pending.disable),
                    jit     |-> fanned(pending.jit),
                    global  |-> \/ pending.global
                                \/ resolved # pending.groups
                                \/ \E u \in pending.users : fan[u] = {}]
        /\ Drain
        /\ pc' = "repair"
        /\ owed' = owed \cup (fanned(pending.users) \X {"members"})
        /\ owedUsers' = {u \in owedUsers : u \in pending.users => fan[u] = {}}
        /\ UNCHANGED <<why, cur, cooling, cancelled, covered, coveredUsers>>

(* Mutant: a burst ends only when it is quiet; there is no eventMaxDelay. *)
BurstOverWhenQuiet ==
    /\ ~wake
    /\ \E resolved \in SUBSET pending.groups, fan \in [pending.users -> SUBSET Group] :
          DrainBatch(resolved, fan)

BurstOver ==
    \E resolved \in SUBSET pending.groups, fan \in [pending.users -> SUBSET Group] :
       DrainBatch(resolved, fan)

NoRepair ==
    /\ pc = "repair"
    /\ ~todo.global
    /\ pc' = "targets"
    /\ UNCHANGED <<queue, why, todo, cur, cooling, cancelled, history>>

(* runEventFullRepair: within the rate limit the repair is put off. *)
RepairLater ==
    /\ pc = "repair"
    /\ todo.global /\ cooling
    /\ Schedule(GlobalKey)
    /\ pc' = "targets"
    /\ UNCHANGED <<why, todo, cur, cooling, cancelled, history>>

RepairNow ==
    /\ pc = "repair"
    /\ todo.global /\ ~cooling
    /\ BeginFull("event")
    /\ cooling' = TRUE
    /\ UNCHANGED <<queue, todo, cur, cancelled>>

(* A full pass that succeeds has read everything.  For an event this also  *)
(* ends the batch.                                                         *)
FullSucceeds ==
    /\ pc = "full"
    /\ pc' = "select"
    /\ todo' = NoTodo
    /\ cooling' = TRUE
    /\ owed' = owed \ covered
    /\ owedUsers' = owedUsers \ coveredUsers
    /\ covered' = {} /\ coveredUsers' = {}
    /\ UNCHANGED <<queue, why, cur, cancelled>>

(* For an event the repair is tried again later, unless the error is that  *)
(* of the cancelled context, and the groups that did resolve are read one  *)
(* by one.                                                                 *)
FullFails ==
    /\ pc = "full"
    /\ pc' = IF why = "event" THEN "targets" ELSE "select"
    /\ \/ why = "event" /\ Schedule(GlobalKey)
       \/ (why = "event" => cancelled) /\ UNCHANGED queue
    /\ covered' = {} /\ coveredUsers' = {}
    /\ UNCHANGED <<why, todo, cur, cooling, cancelled, owed, owedUsers>>

(* RunGroupOnce for one of the groups, its memberships only unless some    *)
(* hint was about the group itself.                                        *)
BeginGroup(g) ==
    /\ pc = "targets"
    /\ g \in todo.groups
    /\ pc' = "group"
    /\ cur' = g
    /\ covered' = owed \cap ({g} \X (IF g \in todo.all THEN Kinds ELSE {"members"}))
    /\ UNCHANGED <<queue, why, todo, cooling, cancelled, owed, owedUsers, coveredUsers>>

(* It ends, well or with an error that is only logged; a revocation gets   *)
(* its second read.                                                        *)
EndGroup ==
    /\ pc = "group"
    /\ pc' = "targets"
    /\ cur' = NoRoute
    /\ todo' = [todo EXCEPT !.groups = @ \ {cur}, !.confirm = @ \ {cur}]
    /\ IF cur \in todo.confirm THEN Schedule(ConfirmKey(cur)) ELSE UNCHANGED queue
    /\ owed' = owed \ covered
    /\ covered' = {}
    /\ UNCHANGED <<why, cooling, cancelled, owedUsers, coveredUsers>>

(* After the groups, the second reads for users that just logged in. *)
TargetsDone ==
    /\ pc = "targets"
    /\ todo.groups = {}
    /\ pc' = "jit"
    /\ UNCHANGED <<queue, why, todo, cur, cooling, cancelled, history>>

ScheduleJit(g) ==
    /\ pc = "jit"
    /\ g \in todo.jit
    /\ Schedule(JitKey(g))
    /\ todo' = [todo EXCEPT !.jit = @ \ {g}]
    /\ UNCHANGED <<pc, why, cur, cooling, cancelled, history>>

BatchDone ==
    /\ pc = "jit"
    /\ todo.jit = {}
    /\ pc' = "select"
    /\ todo' = NoTodo
    /\ UNCHANGED <<queue, why, cur, cooling, cancelled, history>>

-------------------------------------------------------------------------------
Worker ==
    \/ BurstOver
    \/ NoRepair \/ RepairLater \/ RepairNow
    \/ FullSucceeds \/ FullFails
    \/ \E g \in Group : BeginGroup(g) \/ ScheduleJit(g)
    \/ EndGroup \/ TargetsDone \/ BatchDone

Next ==
    \/ Worker
    \/ TickerFires \/ WakeUp \/ SwallowWake \/ Stop
    \/ \E h \in Hints : EnqueueEvent(h)
    \/ \E K \in SUBSET DelayKeys : ReleaseDue(K)
    \/ CoolDown \/ Cancel

(***************************************************************************)
(* Fairness.  The worker goes on: a burst ends within eventMaxDelay and    *)
(* every call has a timeout.  A select with several ready cases takes each *)
(* of them again and again, so a wake-up is not passed over for ever.      *)
(* A delayed repair is released (OverdueReleased of EventQueue): putting   *)
(* it off again asks for what is left of the same interval, so that it     *)
(* keeps its due time.  The rate limit runs out.  Nothing is assumed of    *)
(* other delayed work, of the ticker, of success or of the webhook.        *)
(***************************************************************************)
Fairness ==
    /\ WF_vars(Worker)
    /\ SF_vars(WakeUp)
    /\ SF_vars(\E K \in SUBSET DelayKeys : GlobalKey \in K /\ ReleaseDue(K))
    /\ WF_vars(CoolDown)

Spec == Init /\ [][Next]_vars

FairSpec == Spec /\ Fairness

-------------------------------------------------------------------------------
(* Properties *)

(* Ready work is never left without a wake-up: the signal is in the        *)
(* channel, or the worker has taken it and has not drained yet.  A signal  *)
(* that finds the channel full, or is swallowed by the burst, loses        *)
(* nothing.                                                                *)
WakeNotLost ==
    ~closed /\ pending # EmptyBatch => wake \/ pc = "burst"

(* A full pass is certain: it is ready, delayed, in hand or running. *)
RepairAhead ==
    \/ pending.global
    \/ GlobalKey \in delayed
    \/ pc = "repair" /\ todo.global

(* The memberships, or all targets, of g are going to be read. *)
ReadAhead(g, kind) ==
    \/ g \in pending.groups /\ (kind = "all" => g \in pending.all)
    \/ g \in todo.groups /\ (kind = "all" => g \in todo.all)
       /\ (pc = "group" /\ cur = g => <<g, kind>> \in covered)
    \/ RepairAhead
    \/ pc = "full" /\ why = "event" /\ <<g, kind>> \in covered

(* No accepted hint is forgotten: until a pass that began after it has     *)
(* ended, a read of what it asked for is ahead - through coalescing,       *)
(* overflow, rate limiting, unknown routes, failed repairs and hints that  *)
(* arrive in the middle of the pass they concern.                          *)
NoHintForgotten ==
    ~closed /\ ~cancelled =>
       /\ \A x \in owed : ReadAhead(x[1], x[2])
       /\ \A u \in owedUsers : \/ u \in pending.users
                               \/ RepairAhead
                               \/ pc = "full" /\ why = "event" /\ u \in coveredUsers

(* Every accepted hint is followed by a pass that begins after it and      *)
(* reads what it asked for.                                                *)
EveryHintRead ==
    \A x \in Group \X Kinds : x \in owed ~> (x \in covered \/ cancelled \/ closed)

(* A group whose membership was revoked leaves the batch with a second     *)
(* read scheduled, or with a full one ahead ("Membership removal and       *)
(* direct user disable/delete schedule a second exact read after 1.5       *)
(* seconds", docs/architecture.md).                                        *)
RevocationConfirmed ==
    [][\A g \in todo.confirm \ todo'.confirm :
          ConfirmKey(g) \in delayed' \/ pending'.global \/ closed]_vars

-------------------------------------------------------------------------------
(* The inductive invariant behind WakeNotLost and NoHintForgotten *)

(* The flags of users belong to users of the batch. *)
FlagsOfUsers == pending.jit \subseteq pending.users /\ pending.disable \subseteq pending.users

(* A read of x, or of the groups of u, is ahead in the queue alone. *)
Queued(x) ==
    \/ x[1] \in pending.groups /\ (x[2] = "all" => x[1] \in pending.all)
    \/ pending.global
    \/ GlobalKey \in delayed

QueuedUser(u) == u \in pending.users \/ pending.global \/ GlobalKey \in delayed

(* The batch in hand reads x. *)
InHand(x) == x[1] \in todo.groups /\ (x[2] = "all" => x[1] \in todo.all)

(* ReadAhead by the step the worker is at: what is in hand counts only     *)
(* while the worker still gets to it.                                      *)
Ahead(x) ==
    \/ Queued(x)
    \/ pc = "repair" /\ (todo.global \/ InHand(x))
    \/ pc = "targets" /\ InHand(x)
    \/ pc = "group" /\ InHand(x) /\ (cur = x[1] => x \in covered)
    \/ pc = "full" /\ why = "event" /\ x \in covered

AheadUser(u) ==
    \/ QueuedUser(u)
    \/ pc = "repair" /\ todo.global
    \/ pc = "full" /\ why = "event" /\ u \in coveredUsers

LoopInv ==
    /\ TypeOK
    /\ FlagsOfUsers
    /\ WakeNotLost
    /\ ~closed /\ ~cancelled => /\ \A x \in owed : Ahead(x)
                                /\ \A u \in owedUsers : AheadUser(u)
===============================================================================
