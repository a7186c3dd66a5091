---------------------------- MODULE EventLoopProofs ----------------------------
(***************************************************************************)
(* The event loop neither loses a wake-up nor forgets a hint, for every    *)
(* set of routes, every set of hints and every capacity of the queue.      *)
(***************************************************************************)
EXTENDS EventLoop, TLAPS

(* What every call of a producer and of the timer leaves behind: the queue *)
(* is well formed, nothing that was queued is lost, and if there is more   *)
(* ready work the wake-up is signalled.                                    *)
QueueKeeps ==
    /\ QueueTypeOK'
    /\ FlagsOfUsers'
    /\ \A x \in Group \X Kinds : Queued(x) => Queued(x)'
    /\ \A u \in User : QueuedUser(u) => QueuedUser(u)'
    /\ wake' \/ UNCHANGED <<pending, wake>>
    /\ UNCHANGED closed

(* globalLocked queues everything. *)
LEMMA BecomeGlobalKeeps ==
    ASSUME QueueTypeOK, BecomeGlobal, UNCHANGED closed
    PROVE  QueueKeeps /\ pending'.global
<1>1. pending' = [groups |-> {}, all |-> {}, confirm |-> {}, users |-> {}, jit |-> {},
                  disable |-> {}, global |-> TRUE]
  BY DEF BecomeGlobal, EmptyBatch
<1>2. pending' \in Batches /\ pending'.global
  BY <1>1 DEF Batches
<1>3. QueueTypeOK' /\ FlagsOfUsers' /\ wake'
  BY <1>1, <1>2 DEF QueueTypeOK, BecomeGlobal, FlagsOfUsers
<1> QED
  BY <1>2, <1>3 DEF QueueKeeps, Queued, QueuedUser

(* A hint with a route adds it, and loses nothing. *)
LEMMA MergeGrows ==
    ASSUME NEW batch \in Batches, NEW h \in Hints, ~IsGlobal(h)
    PROVE  /\ Merge(batch, h) \in Batches
           /\ batch.groups \subseteq Merge(batch, h).groups
           /\ batch.all \subseteq Merge(batch, h).all
           /\ batch.users \subseteq Merge(batch, h).users
           /\ batch.jit \subseteq batch.users =>
                 Merge(batch, h).jit \subseteq Merge(batch, h).users
           /\ batch.disable \subseteq batch.users =>
                 Merge(batch, h).disable \subseteq Merge(batch, h).users
           /\ h.user # NoRoute => h.user \in Merge(batch, h).users
           /\ h.user = NoRoute =>
                 /\ h.group \in Merge(batch, h).groups
                 /\ h.resource = "GROUP" => h.group \in Merge(batch, h).all
<1> USE HintsAssumption DEF Batches
<1>1. CASE h.user # NoRoute
  <2>1. h.user \in User
    BY <1>1
  <2> QED
    BY <1>1, <2>1 DEF Merge, Only
<1>2. CASE h.user = NoRoute
  <2>1. h.group \in Group
    BY <1>2 DEF IsGlobal, Routeless
  <2> QED
    BY <1>2, <2>1 DEF Merge, Only
<1> QED
  BY <1>1, <1>2

(* Add queues what the hint asks for. *)
LEMMA AddKeeps ==
    ASSUME QueueTypeOK, FlagsOfUsers, NEW h \in Hints, Add(h)
    PROVE  /\ QueueKeeps
           /\ \A x \in Asks(h) : Queued(x)'
           /\ ~IsGlobal(h) /\ h.user # NoRoute => QueuedUser(h.user)'
<1>1. CASE BecomeGlobal
  BY <1>1, BecomeGlobalKeeps DEF Add, Queued, QueuedUser
<1>2. CASE ~h.global /\ pending.global /\ UNCHANGED <<pending, delayed, wake>>
  BY <1>2 DEF Add, QueueKeeps, QueueTypeOK, FlagsOfUsers, Queued, QueuedUser
<1>3. CASE ~IsGlobal(h) /\ pending' = Merge(pending, h) /\ wake' = TRUE /\ UNCHANGED delayed
  <2>1. pending \in Batches
    BY DEF QueueTypeOK
  <2>2. UNCHANGED closed
    BY DEF Add
  <2>3. QueueTypeOK' /\ FlagsOfUsers'
    BY <1>3, <2>1, <2>2, MergeGrows DEF QueueTypeOK, FlagsOfUsers
  <2>4. \A x \in Group \X Kinds : Queued(x) => Queued(x)'
    <3> SUFFICES ASSUME NEW x \in Group \X Kinds, Queued(x) PROVE Queued(x)'
      OBVIOUS
    <3>1. CASE pending.global
      <4>1. pending'.global = pending.global
        BY <1>3, <2>1 DEF Merge, Batches
      <4> QED
        BY <3>1, <4>1 DEF Queued
    <3>2. CASE ~pending.global
      BY <3>2, <1>3, <2>1, MergeGrows DEF Queued
    <3> QED
      BY <3>1, <3>2
  <2>5. \A u \in User : QueuedUser(u) => QueuedUser(u)'
    <3>1. pending'.global = pending.global
      BY <1>3, <2>1 DEF Merge, Batches
    <3> QED
      BY <3>1, <1>3, <2>1, MergeGrows DEF QueuedUser
  <2>6. \A x \in Asks(h) : Queued(x)'
    <3> SUFFICES ASSUME NEW x \in Asks(h) PROVE Queued(x)'
      OBVIOUS
    <3>1. h.user = NoRoute /\ x[1] = h.group /\ (x[2] = "all" => h.resource = "GROUP")
      BY <1>3 DEF Asks, Kinds
    <3> QED
      BY <3>1, <1>3, <2>1, MergeGrows DEF Queued
  <2>7. h.user # NoRoute => QueuedUser(h.user)'
    BY <1>3, <2>1, MergeGrows DEF QueuedUser
  <2> QED
    BY <1>3, <2>2, <2>3, <2>4, <2>5, <2>6, <2>7 DEF QueueKeeps
<1> QED
  BY <1>1, <1>2, <1>3 DEF Add, IsGlobal

(* Scheduling delayed work loses nothing, and a delayed repair is ahead. *)
LEMMA ScheduleKeeps ==
    ASSUME QueueTypeOK, FlagsOfUsers, NEW k \in DelayKeys, Schedule(k)
    PROVE  /\ QueueKeeps
           /\ k = GlobalKey => /\ \A x \in Group \X Kinds : Queued(x)'
                               /\ \A u \in User : QueuedUser(u)'
<1>1. CASE BecomeGlobal
  BY <1>1, BecomeGlobalKeeps DEF Schedule, Queued, QueuedUser
<1>2. CASE k \in delayed /\ UNCHANGED <<pending, delayed, wake>>
  BY <1>2 DEF Schedule, QueueKeeps, QueueTypeOK, FlagsOfUsers, Queued, QueuedUser
<1>3. CASE delayed' = delayed \cup {k} /\ UNCHANGED <<pending, wake>>
  BY <1>3 DEF Schedule, QueueKeeps, QueueTypeOK, FlagsOfUsers, Queued, QueuedUser
<1> QED
  BY <1>1, <1>2, <1>3 DEF Schedule

(* releaseDue loses nothing. *)
LEMMA ReleaseKeeps ==
    ASSUME QueueTypeOK, FlagsOfUsers, NEW K \in SUBSET DelayKeys, Release(K)
    PROVE  QueueKeeps
<1>1. CASE BecomeGlobal
  BY <1>1, BecomeGlobalKeeps DEF Release
<1>2. CASE ~BecomeGlobal
  <2>1. /\ GlobalKey \notin K
        /\ delayed' = delayed \ K
        /\ pending' = IF pending.global THEN pending
                      ELSE [pending EXCEPT !.groups = @ \cup {k[2] : k \in K}]
        /\ wake' = TRUE
        /\ UNCHANGED closed
    BY <1>2 DEF Release
  <2>2. {k[2] : k \in K} \subseteq Group
    BY <2>1 DEF DelayKeys, ConfirmKey, JitKey
  <2>3. /\ pending' \in Batches
        /\ pending'.users = pending.users
        /\ pending'.jit = pending.jit
        /\ pending'.disable = pending.disable
        /\ pending'.all = pending.all
        /\ pending'.global = pending.global
        /\ pending.groups \subseteq pending'.groups
    BY <2>1, <2>2 DEF QueueTypeOK, Batches
  <2>4. QueueTypeOK' /\ FlagsOfUsers'
    BY <2>1, <2>3 DEF QueueTypeOK, FlagsOfUsers
  <2> QED
    BY <2>1, <2>3, <2>4 DEF QueueKeeps, Queued, QueuedUser
<1> QED
  BY <1>1, <1>2

-------------------------------------------------------------------------------
(* The part of LoopInv about owed reads, for one state. *)
AllAhead == (\A x \in owed : Ahead(x)) /\ (\A u \in owedUsers : AheadUser(u))

(* Run starts with an empty queue and owes nothing. *)
LEMMA LoopInit == Init => LoopInv
<1> SUFFICES ASSUME Init PROVE LoopInv
  OBVIOUS
<1>1. EmptyBatch \in Batches /\ NoTodo \in Todos
  BY DEF EmptyBatch, Batches, NoTodo, Todos
<1>2. TypeOK
  BY <1>1 DEF Init, QueueInit, TypeOK, QueueTypeOK
<1>3. FlagsOfUsers /\ WakeNotLost
  BY DEF Init, QueueInit, FlagsOfUsers, WakeNotLost, EmptyBatch
<1> QED
  BY <1>2, <1>3 DEF LoopInv, Init

(* A hint is ahead as soon as it is accepted. *)
LEMMA EnqueueEventKeeps ==
    ASSUME LoopInv, NEW h \in Hints, EnqueueEvent(h)
    PROVE  LoopInv'
<1> USE DEF LoopInv
<1>1. /\ QueueKeeps
      /\ \A x \in Asks(h) : Queued(x)'
      /\ ~IsGlobal(h) /\ h.user # NoRoute => QueuedUser(h.user)'
  BY AddKeeps DEF TypeOK, EnqueueEvent
<1>2. Asks(h) \in SUBSET (Group \X Kinds)
  <2>1. h.group \in Group \cup {NoRoute}
    BY HintsAssumption
  <2> QED
    BY <2>1 DEF Asks, IsGlobal, Routeless, Kinds
<1> DEFINE user == IF IsGlobal(h) THEN {} ELSE {h.user} \ {NoRoute}
<1>3. user \in SUBSET User
  BY HintsAssumption
<1>4. /\ owed' = owed \cup Asks(h)
      /\ covered' = covered \ Asks(h)
      /\ owedUsers' = owedUsers \cup user
      /\ coveredUsers' = coveredUsers \ user
      /\ UNCHANGED <<pc, why, todo, cur, cooling, cancelled>>
  BY DEF EnqueueEvent, loop
<1>5. TypeOK' /\ FlagsOfUsers'
  BY <1>1, <1>2, <1>3, <1>4 DEF TypeOK, QueueKeeps
<1>6. WakeNotLost'
  BY <1>1, <1>4 DEF WakeNotLost, QueueKeeps
<1>7. ASSUME ~closed', ~cancelled' PROVE AllAhead'
  <2>1. AllAhead
    BY <1>1, <1>4, <1>7 DEF AllAhead, QueueKeeps
  <2>2. ASSUME NEW x \in owed' PROVE Ahead(x)'
    <3>1. CASE x \in Asks(h)
      BY <1>1, <3>1 DEF Ahead
    <3>2. CASE x \notin Asks(h)
      <4>1. x \in owed /\ x \in Group \X Kinds
        BY <1>4, <2>2, <3>2 DEF TypeOK
      <4>2. Ahead(x) /\ (Queued(x) => Queued(x)') /\ (x \in covered => x \in covered')
        BY <1>1, <1>4, <2>1, <3>2, <4>1 DEF AllAhead, QueueKeeps
      <4> QED
        BY <1>4, <4>2 DEF Ahead, InHand
    <3> QED
      BY <3>1, <3>2
  <2>3. ASSUME NEW u \in owedUsers' PROVE AheadUser(u)'
    <3>1. CASE u \in user
      BY <1>1, <3>1 DEF AheadUser
    <3>2. CASE u \notin user
      <4>1. u \in owedUsers /\ u \in User
        BY <1>4, <2>3, <3>2 DEF TypeOK
      <4>2. AheadUser(u) /\ (QueuedUser(u) => QueuedUser(u)')
        BY <1>1, <2>1, <4>1 DEF AllAhead, QueueKeeps
      <4>3. u \in coveredUsers => u \in coveredUsers'
        BY <1>4, <3>2
      <4> QED
        BY <1>4, <4>2, <4>3 DEF AheadUser
    <3> QED
      BY <3>1, <3>2
  <2> QED
    BY <2>2, <2>3 DEF AllAhead
<1> QED
  BY <1>5, <1>6, <1>7 DEF AllAhead

(* A step that keeps the queue, leaves the batch in hand where it is and   *)
(* owes no more than before keeps what is ahead ahead.                     *)
LEMMA QueueStepKeeps ==
    ASSUME LoopInv, QueueKeeps, UNCHANGED <<loop, history>>
    PROVE  LoopInv'
<1> USE DEF LoopInv, loop, history
<1>1. TypeOK' /\ FlagsOfUsers'
  BY DEF TypeOK, QueueKeeps
<1>2. WakeNotLost'
  BY DEF WakeNotLost, QueueKeeps
<1>3. ASSUME ~closed', ~cancelled' PROVE AllAhead'
  <2>1. ASSUME NEW x \in owed' PROVE Ahead(x)'
    <3>1. Ahead(x) /\ (Queued(x) => Queued(x)')
      BY <1>3, <2>1 DEF TypeOK, QueueKeeps
    <3> QED
      BY <3>1 DEF Ahead, InHand
  <2>2. ASSUME NEW u \in owedUsers' PROVE AheadUser(u)'
    <3>1. AheadUser(u) /\ (QueuedUser(u) => QueuedUser(u)')
      BY <1>3, <2>2 DEF TypeOK, QueueKeeps
    <3> QED
      BY <3>1 DEF AheadUser
  <2> QED
    BY <2>1, <2>2 DEF AllAhead
<1> QED
  BY <1>1, <1>2, <1>3 DEF AllAhead

(* Draining moves everything that was ready into the worker's hands, or    *)
(* asks for a full repair.                                                 *)
LEMMA DrainBatchKeeps ==
    ASSUME LoopInv,
           NEW resolved \in SUBSET pending.groups,
           NEW fan \in [pending.users -> SUBSET Group],
           DrainBatch(resolved, fan)
    PROVE  LoopInv'
<1> USE DEF LoopInv
<1> DEFINE fanned(users) == UNION {fan[u] : u \in users}
<1>1. /\ fanned(pending.users) \in SUBSET Group
      /\ fanned(pending.disable) \in SUBSET Group
      /\ fanned(pending.jit) \in SUBSET Group
  BY DEF FlagsOfUsers
<1> DEFINE global == \/ pending.global
                     \/ resolved # pending.groups
                     \/ \E u \in pending.users : fan[u] = {}
<1>2. /\ pc = "burst" /\ pc' = "repair"
      /\ todo' = [groups  |-> resolved \cup fanned(pending.users),
                  all     |-> pending.all \cap resolved,
                  confirm |-> (pending.confirm \cap resolved) \cup fanned(pending.disable),
                  jit     |-> fanned(pending.jit),
                  global  |-> global]
      /\ pending' = EmptyBatch
      /\ owed' = owed \cup (fanned(pending.users) \X {"members"})
      /\ owedUsers' = {u \in owedUsers : u \in pending.users => fan[u] = {}}
      /\ UNCHANGED <<delayed, wake, closed, why, cur, cooling, cancelled, covered, coveredUsers>>
  BY DEF DrainBatch, Drain
<1>3. global \in BOOLEAN
  BY DEF TypeOK, QueueTypeOK, Batches
<1> HIDE DEF fanned, global
<1>4. todo' \in Todos
  BY <1>1, <1>2, <1>3 DEF Todos, TypeOK, QueueTypeOK, Batches
<1>5. EmptyBatch \in Batches
  BY DEF EmptyBatch, Batches
<1>6. owed' \in SUBSET (Group \X Kinds) /\ owedUsers' \in SUBSET User
  BY <1>1, <1>2 DEF TypeOK, Kinds
<1>7. TypeOK'
  BY <1>2, <1>4, <1>5, <1>6 DEF TypeOK, QueueTypeOK
<1>8. FlagsOfUsers' /\ WakeNotLost'
  BY <1>2 DEF FlagsOfUsers, WakeNotLost, EmptyBatch
<1>9. ASSUME ~closed', ~cancelled' PROVE AllAhead'
  <2>1. /\ todo'.groups = resolved \cup fanned(pending.users)
        /\ todo'.all = pending.all \cap resolved
        /\ todo'.global = global
    BY <1>2
  <2>2. ASSUME NEW x \in owed' PROVE Ahead(x)'
    <3>1. CASE x \in owed
      <4>1. Queued(x)
        BY <1>2, <1>9, <3>1 DEF Ahead
      <4>2. CASE pending.global
        BY <1>2, <2>1, <4>2 DEF Ahead, global
      <4>3. CASE GlobalKey \in delayed
        BY <1>2, <4>3 DEF Ahead, Queued
      <4>4. CASE x[1] \in pending.groups /\ (x[2] = "all" => x[1] \in pending.all)
        <5>1. CASE resolved = pending.groups
          BY <1>2, <2>1, <4>4, <5>1 DEF Ahead, InHand
        <5>2. CASE resolved # pending.groups
          BY <1>2, <2>1, <5>2 DEF Ahead, global
        <5> QED
          BY <5>1, <5>2
      <4> QED
        BY <4>1, <4>2, <4>3, <4>4 DEF Queued
    <3>2. CASE x \in fanned(pending.users) \X {"members"}
      <4>1. x[1] \in todo'.groups /\ x[2] # "all"
        BY <2>1, <3>2
      <4> QED
        BY <1>2, <4>1 DEF Ahead, InHand
    <3> QED
      BY <1>2, <2>2, <3>1, <3>2
  <2>3. ASSUME NEW u \in owedUsers' PROVE AheadUser(u)'
    <3>1. u \in owedUsers /\ (u \in pending.users => fan[u] = {})
      BY <1>2, <2>3
    <3>2. QueuedUser(u)
      BY <1>2, <1>9, <3>1 DEF AheadUser
    <3>3. CASE u \in pending.users
      BY <1>2, <2>1, <3>1, <3>3 DEF AheadUser, global
    <3>4. CASE pending.global
      BY <1>2, <2>1, <3>4 DEF AheadUser, global
    <3>5. CASE GlobalKey \in delayed
      BY <1>2, <3>5 DEF AheadUser, QueuedUser
    <3> QED
      BY <3>2, <3>3, <3>4, <3>5 DEF QueuedUser
  <2> QED
    BY <2>2, <2>3 DEF AllAhead
<1> QED
  BY <1>7, <1>8, <1>9 DEF AllAhead

(* A full pass begins: everything owed is covered by it, or still queued. *)
LEMMA BeginFullKeeps ==
    ASSUME LoopInv, TickerFires \/ RepairNow
    PROVE  LoopInv'
<1> USE DEF LoopInv
<1>1. /\ pc' = "full"
      /\ covered' = owed /\ coveredUsers' = owedUsers
      /\ UNCHANGED <<queue, todo, cur, cancelled, owed, owedUsers>>
      /\ cooling' \in BOOLEAN
      /\ \/ pc = "select" /\ why' = "tick"
         \/ pc = "repair" /\ why' = "event"
  BY DEF TickerFires, RepairNow, BeginFull, TypeOK
<1> USE DEF queue
<1>2. TypeOK' /\ FlagsOfUsers'
  BY <1>1 DEF TypeOK, QueueTypeOK, FlagsOfUsers
<1>3. WakeNotLost'
  BY <1>1 DEF WakeNotLost
<1>4. ASSUME ~closed', ~cancelled' PROVE AllAhead'
  <2>1. ASSUME NEW x \in owed' PROVE Ahead(x)'
    <3>1. Ahead(x)
      BY <1>1, <1>4, <2>1
    <3> QED
      BY <1>1, <2>1, <3>1 DEF Ahead, Queued
  <2>2. ASSUME NEW u \in owedUsers' PROVE AheadUser(u)'
    <3>1. AheadUser(u)
      BY <1>1, <1>4, <2>2
    <3> QED
      BY <1>1, <2>2, <3>1 DEF AheadUser, QueuedUser
  <2> QED
    BY <2>1, <2>2 DEF AllAhead
<1> QED
  BY <1>2, <1>3, <1>4 DEF AllAhead

(* Putting a repair off, or trying it again later, keeps everything ahead. *)
LEMMA RepairAgainKeeps ==
    ASSUME LoopInv, Schedule(GlobalKey), pc # "burst",
           pc' \in {"targets", "select"}, UNCHANGED <<why, todo, cur, cooling, cancelled>>,
           covered' \subseteq covered, coveredUsers' \subseteq coveredUsers,
           UNCHANGED <<owed, owedUsers>>
    PROVE  LoopInv'
<1> USE DEF LoopInv
<1>1. /\ QueueKeeps
      /\ \A x \in Group \X Kinds : Queued(x)'
      /\ \A u \in User : QueuedUser(u)'
  BY ScheduleKeeps DEF TypeOK, DelayKeys
<1>2. TypeOK' /\ FlagsOfUsers'
  BY <1>1 DEF TypeOK, QueueKeeps
<1>3. WakeNotLost'
  BY <1>1 DEF WakeNotLost, QueueKeeps
<1>4. AllAhead'
  BY <1>1, <1>2 DEF AllAhead, Ahead, AheadUser, TypeOK
<1> QED
  BY <1>2, <1>3, <1>4 DEF AllAhead

(* What a full pass that succeeds did not cover arrived during it and is   *)
(* queued.                                                                 *)
LEMMA FullSucceedsKeeps ==
    ASSUME LoopInv, FullSucceeds
    PROVE  LoopInv'
<1> USE DEF LoopInv, FullSucceeds, queue
<1>1. NoTodo \in Todos
  BY DEF NoTodo, Todos
<1>2. TypeOK' /\ FlagsOfUsers' /\ WakeNotLost'
  BY <1>1 DEF TypeOK, QueueTypeOK, FlagsOfUsers, WakeNotLost
<1>3. ASSUME ~closed', ~cancelled' PROVE AllAhead'
  BY <1>3 DEF AllAhead, Ahead, AheadUser, Queued, QueuedUser
<1> QED
  BY <1>2, <1>3 DEF AllAhead

(* A full pass that fails is tried again; one of the ticker took nothing   *)
(* from the queue.                                                         *)
LEMMA FullFailsKeeps ==
    ASSUME LoopInv, FullFails
    PROVE  LoopInv'
<1>1. CASE why = "event" /\ Schedule(GlobalKey)
  BY <1>1, RepairAgainKeeps DEF FullFails
<1>2. CASE (why = "event" => cancelled) /\ UNCHANGED queue
  <2> USE DEF LoopInv, FullFails, queue
  <2>1. TypeOK' /\ FlagsOfUsers' /\ WakeNotLost'
    BY <1>2 DEF TypeOK, QueueTypeOK, FlagsOfUsers, WakeNotLost
  <2>2. ASSUME ~closed', ~cancelled' PROVE AllAhead'
    BY <1>2, <2>2 DEF AllAhead, Ahead, AheadUser, Queued, QueuedUser
  <2> QED
    BY <2>1, <2>2 DEF AllAhead
<1> QED
  BY <1>1, <1>2 DEF FullFails

(* Steps of the worker that leave the queue and what is owed alone. *)
LEMMA WorkerMovesOn ==
    ASSUME LoopInv, NoRepair \/ TargetsDone \/ BatchDone
    PROVE  LoopInv'
<1> USE DEF LoopInv, NoRepair, TargetsDone, BatchDone, queue, history
<1>1. NoTodo \in Todos
  BY DEF NoTodo, Todos
<1>2. TypeOK' /\ FlagsOfUsers'
  BY <1>1 DEF TypeOK, QueueTypeOK, FlagsOfUsers
<1>3. WakeNotLost'
  BY DEF WakeNotLost
<1>4. ASSUME ~closed', ~cancelled' PROVE AllAhead'
  BY <1>4 DEF AllAhead, Ahead, AheadUser, Queued, QueuedUser, InHand
<1> QED
  BY <1>2, <1>3, <1>4 DEF AllAhead

(* A targeted pass covers what is owed of its group and in hand. *)
LEMMA BeginGroupKeeps ==
    ASSUME LoopInv, NEW g \in Group, BeginGroup(g)
    PROVE  LoopInv'
<1> USE DEF LoopInv, BeginGroup, queue
<1>1. TypeOK' /\ FlagsOfUsers'
  BY DEF TypeOK, QueueTypeOK, FlagsOfUsers
<1>2. WakeNotLost'
  BY DEF WakeNotLost
<1>3. ASSUME ~closed', ~cancelled' PROVE AllAhead'
  <2>1. ASSUME NEW x \in owed' PROVE Ahead(x)'
    <3>1. x \in owed /\ x \in Group \X Kinds /\ Ahead(x)
      BY <1>3, <2>1 DEF TypeOK
    <3>2. InHand(x) /\ x[1] = g => x \in covered'
      BY <3>1 DEF InHand, Kinds
    <3> QED
      BY <3>1, <3>2 DEF Ahead, Queued, InHand
  <2>2. ASSUME NEW u \in owedUsers' PROVE AheadUser(u)'
    BY <1>3, <2>2 DEF AheadUser, QueuedUser
  <2> QED
    BY <2>1, <2>2 DEF AllAhead
<1> QED
  BY <1>1, <1>2, <1>3 DEF AllAhead

(* What the pass did not cover of its group arrived during it. *)
LEMMA EndGroupKeeps ==
    ASSUME LoopInv, EndGroup
    PROVE  LoopInv'
<1> USE DEF LoopInv
<1>1. QueueKeeps
  <2>1. CASE cur \in todo.confirm
    <3>1. cur \in Group
      BY <2>1 DEF TypeOK, Todos
    <3>2. ConfirmKey(cur) \in DelayKeys
      BY <3>1 DEF DelayKeys
    <3> QED
      BY <2>1, <3>2, ScheduleKeeps DEF EndGroup, TypeOK
  <2>2. CASE cur \notin todo.confirm
    BY <2>2 DEF EndGroup, queue, TypeOK, QueueKeeps, QueueTypeOK, FlagsOfUsers, Queued, QueuedUser
  <2> QED
    BY <2>1, <2>2
<1>2. /\ pc = "group" /\ pc' = "targets"
      /\ cur' = NoRoute
      /\ todo' = [todo EXCEPT !.groups = @ \ {cur}, !.confirm = @ \ {cur}]
      /\ owed' = owed \ covered
      /\ covered' = {}
      /\ UNCHANGED <<why, cooling, cancelled, owedUsers, coveredUsers>>
  BY DEF EndGroup
<1>3. /\ todo' \in Todos
      /\ todo'.groups = todo.groups \ {cur}
      /\ todo'.all = todo.all
  BY <1>2 DEF TypeOK, Todos
<1>4. TypeOK' /\ FlagsOfUsers'
  BY <1>1, <1>2, <1>3 DEF TypeOK, QueueKeeps
<1>5. WakeNotLost'
  BY <1>1, <1>2 DEF WakeNotLost, QueueKeeps
<1>6. ASSUME ~closed', ~cancelled' PROVE AllAhead'
  <2>1. ASSUME NEW x \in owed' PROVE Ahead(x)'
    <3>1. x \in owed /\ x \notin covered /\ x \in Group \X Kinds
      BY <1>2, <2>1 DEF TypeOK
    <3>2. Ahead(x) /\ (Queued(x) => Queued(x)')
      BY <1>1, <1>2, <1>6, <3>1 DEF QueueKeeps
    <3> QED
      BY <1>2, <1>3, <3>1, <3>2 DEF Ahead, InHand
  <2>2. ASSUME NEW u \in owedUsers' PROVE AheadUser(u)'
    <3>1. AheadUser(u) /\ (QueuedUser(u) => QueuedUser(u)')
      BY <1>1, <1>2, <1>6, <2>2 DEF QueueKeeps, TypeOK
    <3> QED
      BY <1>2, <3>1 DEF AheadUser
  <2> QED
    BY <2>1, <2>2 DEF AllAhead
<1> QED
  BY <1>4, <1>5, <1>6 DEF AllAhead

(* Scheduling the second reads of a login loses nothing. *)
LEMMA ScheduleJitKeeps ==
    ASSUME LoopInv, NEW g \in Group, ScheduleJit(g)
    PROVE  LoopInv'
<1> USE DEF LoopInv
<1>1. QueueKeeps
  <2>1. JitKey(g) \in DelayKeys
    BY DEF DelayKeys
  <2> QED
    BY <2>1, ScheduleKeeps DEF ScheduleJit, TypeOK
<1>2. /\ pc = "jit" /\ UNCHANGED <<pc, why, cur, cooling, cancelled, history>>
      /\ todo' \in Todos
  BY DEF ScheduleJit, TypeOK, Todos
<1> USE DEF history
<1>3. TypeOK' /\ FlagsOfUsers'
  BY <1>1, <1>2 DEF TypeOK, QueueKeeps
<1>4. WakeNotLost'
  BY <1>1, <1>2 DEF WakeNotLost, QueueKeeps
<1>5. ASSUME ~closed', ~cancelled' PROVE AllAhead'
  BY <1>1, <1>2, <1>5 DEF AllAhead, Ahead, AheadUser, QueueKeeps, TypeOK
<1> QED
  BY <1>3, <1>4, <1>5 DEF AllAhead

(* Taking the wake-up, the rate limit and the end of the loop. *)
LEMMA SelectKeeps ==
    ASSUME LoopInv, WakeUp \/ SwallowWake \/ Stop \/ CoolDown \/ Cancel
    PROVE  LoopInv'
<1> USE DEF LoopInv, WakeUp, SwallowWake, Stop, Close, CoolDown, Cancel, TakeWake, queue, loop, history
<1>1. TypeOK' /\ FlagsOfUsers'
  BY DEF TypeOK, QueueTypeOK, FlagsOfUsers
<1>2. WakeNotLost'
  BY DEF WakeNotLost
<1>3. ASSUME ~closed', ~cancelled' PROVE AllAhead'
  BY <1>3 DEF AllAhead, Ahead, AheadUser, Queued, QueuedUser, InHand
<1> QED
  BY <1>1, <1>2, <1>3 DEF AllAhead

(* Every step of the worker, the webhook and the timer keeps LoopInv. *)
LEMMA LoopStep == LoopInv /\ [Next]_vars => LoopInv'
<1> SUFFICES ASSUME LoopInv, [Next]_vars PROVE LoopInv'
  OBVIOUS
<1>1. CASE \E h \in Hints : EnqueueEvent(h)
  BY <1>1, EnqueueEventKeeps
<1>2. CASE \E K \in SUBSET DelayKeys : ReleaseDue(K)
  <2>1. PICK K \in SUBSET DelayKeys : ReleaseDue(K)
    BY <1>2
  <2>2. QueueKeeps
    BY <2>1, ReleaseKeeps DEF ReleaseDue, LoopInv, TypeOK
  <2> QED
    BY <2>1, <2>2, QueueStepKeeps DEF ReleaseDue
<1>3. CASE BurstOver
  BY <1>3, DrainBatchKeeps DEF BurstOver
<1>4. CASE TickerFires \/ RepairNow
  BY <1>4, BeginFullKeeps
<1>5. CASE RepairLater
  BY <1>5, RepairAgainKeeps DEF RepairLater, history
<1>6. CASE FullSucceeds \/ FullFails
  BY <1>6, FullSucceedsKeeps, FullFailsKeeps
<1>7. CASE NoRepair \/ TargetsDone \/ BatchDone
  BY <1>7, WorkerMovesOn
<1>8. CASE \E g \in Group : BeginGroup(g) \/ ScheduleJit(g)
  BY <1>8, BeginGroupKeeps, ScheduleJitKeeps
<1>9. CASE EndGroup
  BY <1>9, EndGroupKeeps
<1>10. CASE WakeUp \/ SwallowWake \/ Stop \/ CoolDown \/ Cancel
  BY <1>10, SelectKeeps
<1>11. CASE UNCHANGED vars
  <2>1. QueueKeeps
    BY <1>11 DEF vars, queue, QueueKeeps, LoopInv, TypeOK, QueueTypeOK, FlagsOfUsers,
                 Queued, QueuedUser
  <2> QED
    BY <1>11, <2>1, QueueStepKeeps DEF vars
<1> QED
  BY <1>1, <1>2, <1>3, <1>4, <1>5, <1>6, <1>7, <1>8, <1>9, <1>10, <1>11 DEF Next, Worker

(* LoopInv is an invariant of the event loop. *)
THEOREM LoopInvariant == Spec => []LoopInv
BY LoopInit, LoopStep, PTL DEF Spec

(* The queue, the batch in hand and the worker's position keep their       *)
(* types: a batch never names a route, a user or a retry that is unknown.  *)
THEOREM LoopTypeOK == Spec => []TypeOK
<1>1. LoopInv => TypeOK
  BY DEF LoopInv
<1> QED
  BY LoopInvariant, <1>1, PTL

(* eventQueue and Run lose no wake-up: ready work always has a signal in   *)
(* the channel or a worker that has taken it and will drain.               *)
THEOREM LoopWakeNotLost == Spec => []WakeNotLost
<1>1. LoopInv => WakeNotLost
  BY DEF LoopInv
<1> QED
  BY LoopInvariant, <1>1, PTL

(* No hint that Add accepts is forgotten before a pass that begins after   *)
(* it has ended, whatever the number of routes and the capacity.           *)
THEOREM LoopNoHintForgotten == Spec => []NoHintForgotten
<1>1. LoopInv => NoHintForgotten
  <2> SUFFICES ASSUME LoopInv, ~closed, ~cancelled
               PROVE  /\ \A x \in owed : ReadAhead(x[1], x[2])
                      /\ \A u \in owedUsers : \/ u \in pending.users
                                              \/ RepairAhead
                                              \/ pc = "full" /\ why = "event" /\ u \in coveredUsers
    BY DEF NoHintForgotten
  <2>1. ASSUME NEW x \in owed PROVE ReadAhead(x[1], x[2])
    <3>1. Ahead(x) /\ x = <<x[1], x[2]>>
      BY DEF LoopInv, TypeOK
    <3> QED
      BY <3>1 DEF Ahead, Queued, InHand, ReadAhead, RepairAhead
  <2>2. ASSUME NEW u \in owedUsers
        PROVE  \/ u \in pending.users
               \/ RepairAhead
               \/ pc = "full" /\ why = "event" /\ u \in coveredUsers
    BY DEF LoopInv, AheadUser, QueuedUser, RepairAhead
  <2> QED
    BY <2>1, <2>2
<1> QED
  BY LoopInvariant, <1>1, PTL
================================================================================
