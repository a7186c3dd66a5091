--------------------------- MODULE EventQueueProofs ---------------------------
(***************************************************************************)
(* The event queue never strands delayed work, never grows past its        *)
(* capacity and implements DirtyQueue, for every finite set of routes,     *)
(* every capacity, every three delays and every number of callbacks that   *)
(* wait for the mutex.                                                     *)
(***************************************************************************)
EXTENDS EventQueue, FiniteSetTheorems, WellFoundedInduction, TLAPS

-------------------------------------------------------------------------------
(* Delays *)

LEMMA MaxDelayBounds ==
    /\ MaxDelay \in Nat
    /\ ConfirmDelay \in 0..MaxDelay /\ JitDelay \in 0..MaxDelay /\ RepairDelay \in 0..MaxDelay
<1> DEFINE S == {ConfirmDelay, JitDelay, RepairDelay}
<1>1. ConfirmDelay \in Nat /\ JitDelay \in Nat /\ RepairDelay \in Nat
  BY DelaysAssumption
<1>2. \E x \in S : \A y \in S : x >= y
  BY <1>1
<1>3. MaxDelay \in S /\ \A y \in S : MaxDelay >= y
  BY <1>2 DEF MaxDelay, Max
<1> QED
  BY <1>1, <1>3

LEMMA LeastDelay ==
    ASSUME NEW T \in SUBSET Nat, T # {}
    PROVE  Min(T) \in T /\ \A n \in T : Min(T) <= n
<1> DEFINE Rel == OpToRel(<, Nat)
<1>1. IsWellFoundedOn(Rel, Nat)
  BY NatLessThanWellFounded
<1>2. \A m, n \in Nat : n < m => <<n, m>> \in Rel
  BY DEF OpToRel
<1> HIDE DEF Rel
<1>3. PICK m \in T : \A n \in T : ~(<<n, m>> \in Rel)
  BY <1>1, WFMin
<1>4. ASSUME NEW n \in T
      PROVE  m <= n
  <2>1. m \in Nat /\ n \in Nat
    OBVIOUS
  <2>2. ~(n < m)
    BY <1>2, <1>3, <2>1
  <2> QED
    BY <2>1, <2>2
<1> QED
  BY <1>4 DEF Min

(* The due times of delayed work. *)
DueTimes == UNION {[K -> 0..MaxDelay] : K \in SUBSET Q!DelayKeys}

LEMMA DueTimesFields ==
    ASSUME NEW d
    PROVE  d \in DueTimes <=> /\ d = [k \in DOMAIN d |-> d[k]]
                              /\ DOMAIN d \subseteq Q!DelayKeys
                              /\ \A k \in DOMAIN d : d[k] \in 0..MaxDelay
<1> HIDE DEF Q!DelayKeys
<1> QED
  BY DEF DueTimes

Timers == {NoTimer, Fired} \cup {Armed(n) : n \in 0..MaxDelay}

LEMMA TimerFields ==
    ASSUME NEW t \in Timers
    PROVE  /\ t.armed \in BOOLEAN /\ t.left \in 0..MaxDelay
           /\ [t EXCEPT !.left = Less(@)] \in Timers
           /\ [t EXCEPT !.left = Less(@)].armed = t.armed
           /\ [t EXCEPT !.left = Less(@)].left = Less(t.left)
<1> DEFINE less == Less(t.left)
<1>1. t \in [present : BOOLEAN, armed : BOOLEAN, left : 0..MaxDelay]
  <2>1. \A n \in 0..MaxDelay : Armed(n) \in [present : BOOLEAN, armed : BOOLEAN, left : 0..MaxDelay]
    BY DEF Armed
  <2>2. {NoTimer, Fired} \subseteq [present : BOOLEAN, armed : BOOLEAN, left : 0..MaxDelay]
    BY MaxDelayBounds DEF NoTimer, Fired
  <2> QED
    BY <2>1, <2>2 DEF Timers
<1>2. [t EXCEPT !.left = less].armed = t.armed /\ [t EXCEPT !.left = less].left = less
  BY <1>1
<1>3. [t EXCEPT !.left = less] \in Timers
  <2>1. CASE t = NoTimer
    <3>1. less = 0
      BY <2>1 DEF NoTimer, Less
    <3> HIDE DEF less
    <3>2. [t EXCEPT !.left = less] = NoTimer
      BY <2>1, <3>1 DEF NoTimer
    <3> QED
      BY <3>2 DEF Timers
  <2>2. CASE t = Fired
    <3>1. less = 0
      BY <2>2 DEF Fired, Less
    <3> HIDE DEF less
    <3>2. [t EXCEPT !.left = less] = Fired
      BY <2>2, <3>1 DEF Fired
    <3> QED
      BY <3>2 DEF Timers
  <2>3. ASSUME NEW n \in 0..MaxDelay, t = Armed(n)
        PROVE  [t EXCEPT !.left = less] \in Timers
    <3>1. less \in 0..MaxDelay
      BY <1>1, MaxDelayBounds DEF Less
    <3> HIDE DEF less
    <3>2. t.present = TRUE /\ t.armed = TRUE
      BY <2>3 DEF Armed
    <3>3. [t EXCEPT !.left = less] = [present |-> t.present, armed |-> t.armed, left |-> less]
      BY <1>1
    <3> QED
      BY <3>1, <3>2, <3>3 DEF Timers, Armed
  <2> QED
    BY <2>1, <2>2, <2>3 DEF Timers
<1> QED
  BY <1>1, <1>2, <1>3

(* resetTimerLocked covers all that is delayed. *)
LEMMA ResetTimerCovers ==
    ASSUME NEW d \in DueTimes
    PROVE  /\ ResetTimer(d) \in Timers
           /\ DOMAIN d # {} => ResetTimer(d).armed /\ \A k \in DOMAIN d : ResetTimer(d).left <= d[k]
<1> DEFINE T == {d[k] : k \in DOMAIN d}
<1>1. \A k \in DOMAIN d : d[k] \in 0..MaxDelay
  BY DueTimesFields
<1>2. T \in SUBSET (0..MaxDelay) /\ T \in SUBSET Nat
  BY <1>1, MaxDelayBounds
<1>3. CASE DOMAIN d = {}
  BY <1>3 DEF ResetTimer, Timers
<1>4. CASE DOMAIN d # {}
  <2>1. T # {}
    BY <1>4
  <2> HIDE DEF T
  <2>2. Min(T) \in T /\ \A n \in T : Min(T) <= n
    BY <1>2, <2>1, LeastDelay
  <2>3. ResetTimer(d) = Armed(Min(T))
    BY <1>4 DEF ResetTimer, Earliest, T
  <2>4. Armed(Min(T)) \in Timers /\ Armed(Min(T)).armed /\ Armed(Min(T)).left = Min(T)
    BY <1>2, <2>2 DEF Timers, Armed
  <2>5. \A k \in DOMAIN d : Min(T) <= d[k]
    BY <2>2 DEF T
  <2> QED
    BY <2>3, <2>4, <2>5
<1> QED
  BY <1>3, <1>4

-------------------------------------------------------------------------------
(* Sizes *)

LEMMA SameCardinality == ASSUME NEW S PROVE Q!Cardinality(S) = Cardinality(S)
BY DEF Q!Cardinality, Cardinality

LEMMA KeysFinite == IsFiniteSet(Q!DelayKeys)
<1> DEFINE C == {Q!ConfirmKey(g) : g \in Group}
           J == {Q!JitKey(g) : g \in Group}
<1>1. IsFiniteSet(Group)
  BY QueueAssumption
<1>2. [g \in Group |-> Q!ConfirmKey(g)] \in Surjection(Group, C)
  BY DEF Surjection
<1>3. [g \in Group |-> Q!JitKey(g)] \in Surjection(Group, J)
  BY DEF Surjection
<1>4. IsFiniteSet(C) /\ IsFiniteSet(J)
  BY <1>1, <1>2, <1>3, FS_Surjection
<1>5. IsFiniteSet({Q!GlobalKey})
  BY FS_Singleton
<1> HIDE DEF C, J
<1>6. IsFiniteSet({Q!GlobalKey} \cup C)
  BY <1>4, <1>5, FS_Union
<1>7. IsFiniteSet(({Q!GlobalKey} \cup C) \cup J)
  BY <1>4, <1>6, FS_Union
<1> QED
  BY <1>7 DEF Q!DelayKeys, C, J

LEMMA Sizes ==
    ASSUME NEW b \in Q!Batches, NEW K \in SUBSET Q!DelayKeys
    PROVE  /\ IsFiniteSet(b.groups) /\ IsFiniteSet(b.users) /\ IsFiniteSet(K)
           /\ Cardinality(b.groups) \in Nat /\ Cardinality(b.users) \in Nat /\ Cardinality(K) \in Nat
           /\ Q!Size(b, K) \in Nat
<1>1. IsFiniteSet(Group) /\ IsFiniteSet(User) /\ b.groups \in SUBSET Group /\ b.users \in SUBSET User
  BY QueueAssumption DEF Q!Batches
<1>2. IsFiniteSet(b.groups) /\ IsFiniteSet(b.users)
  BY <1>1, FS_Subset
<1> HIDE DEF Q!DelayKeys
<1>3. IsFiniteSet(K)
  BY KeysFinite, FS_Subset
<1>4. Cardinality(b.groups) \in Nat /\ Cardinality(b.users) \in Nat /\ Cardinality(K) \in Nat
  BY <1>2, <1>3, FS_CardinalityType
<1> QED
  BY <1>2, <1>3, <1>4, SameCardinality DEF Q!Size

LEMMA EmptySize == /\ Q!EmptyBatch \in Q!Batches /\ [Q!EmptyBatch EXCEPT !.global = TRUE] \in Q!Batches
                   /\ Q!Size(Q!EmptyBatch, {}) = 0
                   /\ Q!Size([Q!EmptyBatch EXCEPT !.global = TRUE], {}) = 0
<1> DEFINE all == [Q!EmptyBatch EXCEPT !.global = TRUE]
<1>1. Q!EmptyBatch \in Q!Batches /\ all \in Q!Batches
  BY DEF Q!EmptyBatch, Q!Batches
<1>2. /\ Q!EmptyBatch.groups = {} /\ Q!EmptyBatch.users = {}
      /\ all.groups = {} /\ all.users = {}
  BY DEF Q!EmptyBatch
<1> HIDE DEF all
<1>3. Q!Size(Q!EmptyBatch, {}) = 0 /\ Q!Size(all, {}) = 0
  BY <1>2, FS_EmptySet, SameCardinality DEF Q!Size
<1> QED
  BY <1>1, <1>3 DEF all

LEMMA MergeType ==
    ASSUME NEW b \in Q!Batches, NEW h \in Hints, ~Q!Routeless(h)
    PROVE  Q!Merge(b, h) \in Q!Batches
<1>1. h.user \in User \cup {NoRoute} /\ h.group \in Group \cup {NoRoute}
  BY QueueAssumption
<1>2. CASE h.user # NoRoute
  <2>1. Q!Only(h.user, h.op = "LOGIN") \subseteq User /\ Q!Only(h.user, h.op \in {"UPDATE", "DELETE"}) \subseteq User
    BY <1>1, <1>2 DEF Q!Only
  <2> QED
    BY <1>1, <1>2, <2>1 DEF Q!Merge, Q!Batches
<1>3. CASE h.user = NoRoute
  <2>1. h.group \in Group
    BY <1>1, <1>3 DEF Q!Routeless
  <2>2. /\ Q!Only(h.group, h.resource = "GROUP") \subseteq Group
        /\ Q!Only(h.group, h.resource # "GROUP" /\ h.op = "DELETE") \subseteq Group
    BY <2>1 DEF Q!Only
  <2> QED
    BY <1>3, <2>1, <2>2 DEF Q!Merge, Q!Batches
<1> QED
  BY <1>2, <1>3

(* Work that is released takes no more room than it took while delayed. *)
LEMMA ReleaseFits ==
    ASSUME NEW b \in Q!Batches, NEW D \in SUBSET Q!DelayKeys, NEW K \in SUBSET D, Q!GlobalKey \notin K
    PROVE  /\ [b EXCEPT !.groups = @ \cup RoutesOf(K)] \in Q!Batches
           /\ Q!Size([b EXCEPT !.groups = @ \cup RoutesOf(K)], D \ K) <= Q!Size(b, D)
           /\ Q!Size(b, D \ K) <= Q!Size(b, D)
<1> DEFINE R == RoutesOf(K)
           c == [b EXCEPT !.groups = @ \cup R]
<1>1. R \in SUBSET Group
  BY DEF RoutesOf, Q!DelayKeys, Q!ConfirmKey, Q!JitKey
<1>2. [k \in K |-> k[2]] \in Surjection(K, R)
  BY DEF Surjection, RoutesOf
<1> HIDE DEF R
<1>3. c \in Q!Batches /\ c.groups = b.groups \cup R /\ c.users = b.users
  BY <1>1 DEF Q!Batches
<1> HIDE DEF c, Q!DelayKeys
<1>4. D \ K \in SUBSET Q!DelayKeys /\ K \in SUBSET Q!DelayKeys
  OBVIOUS
<1>5. /\ IsFiniteSet(b.groups) /\ IsFiniteSet(D) /\ IsFiniteSet(K)
      /\ Cardinality(b.groups) \in Nat /\ Cardinality(b.users) \in Nat
      /\ Cardinality(D) \in Nat /\ Cardinality(K) \in Nat /\ Cardinality(D \ K) \in Nat
      /\ Cardinality(c.groups) \in Nat
  BY <1>3, <1>4, Sizes
<1>6. IsFiniteSet(R) /\ Cardinality(R) <= Cardinality(K)
  BY <1>2, <1>5, FS_Surjection
<1>7. Cardinality(R) \in Nat /\ Cardinality(b.groups \cap R) \in Nat
  BY <1>5, <1>6, FS_CardinalityType, FS_Intersection
<1>8. Cardinality(c.groups) = Cardinality(b.groups) + Cardinality(R) - Cardinality(b.groups \cap R)
  BY <1>3, <1>5, <1>6, FS_Union
<1>9. Cardinality(D \ K) = Cardinality(D) - Cardinality(K)
  <2>1. D \cap K = K
    OBVIOUS
  <2> QED
    BY <1>5, <2>1, FS_Difference
<1>10. /\ Q!Size(c, D \ K) = Cardinality(c.groups) + Cardinality(b.users) + Cardinality(D \ K)
       /\ Q!Size(b, D \ K) = Cardinality(b.groups) + Cardinality(b.users) + Cardinality(D \ K)
       /\ Q!Size(b, D) = Cardinality(b.groups) + Cardinality(b.users) + Cardinality(D)
  BY <1>3, SameCardinality DEF Q!Size
<1>11. Q!Size(c, D \ K) <= Q!Size(b, D) /\ Q!Size(b, D \ K) <= Q!Size(b, D)
  BY <1>5, <1>6, <1>7, <1>8, <1>9, <1>10
<1> QED
  BY <1>3, <1>11 DEF c, R

-------------------------------------------------------------------------------
(* The invariant *)

LEMMA NoDueFields == NoDue \in DueTimes /\ DOMAIN NoDue = {}
<1>1. NoDue \in [{} -> 0..MaxDelay] /\ DOMAIN NoDue = {}
  BY DEF NoDue
<1>2. {} \in SUBSET Q!DelayKeys
  OBVIOUS
<1> QED
  BY <1>1, <1>2 DEF DueTimes

(* The parts of the type invariant. *)
LEMMA TypeParts ==
    TypeOK <=> /\ pending \in Q!Batches /\ wake \in BOOLEAN /\ closed \in BOOLEAN
               /\ due \in DueTimes /\ timer \in Timers
               /\ forgotten \in SUBSET (0..MaxDelay) /\ callbacks \in 0..MaxCallbacks
<1>1. due \in DueTimes => DOMAIN due \in SUBSET Q!DelayKeys
  BY DueTimesFields
<1> QED
  BY <1>1 DEF TypeOK, Q!QueueTypeOK, DueTimes, Timers

LEMMA TypePartsNext ==
    /\ pending' \in Q!Batches /\ wake' \in BOOLEAN /\ closed' \in BOOLEAN
    /\ due' \in DueTimes /\ timer' \in Timers
    /\ forgotten' \in SUBSET (0..MaxDelay) /\ callbacks' \in 0..MaxCallbacks
    => TypeOK'
<1>1. (TypeOK <=> /\ pending \in Q!Batches /\ wake \in BOOLEAN /\ closed \in BOOLEAN
                  /\ due \in DueTimes /\ timer \in Timers
                  /\ forgotten \in SUBSET (0..MaxDelay) /\ callbacks \in 0..MaxCallbacks)'
  BY TypeParts, PTL
<1> QED
  BY <1>1

LEMMA EventQueueInit == Init => EventQueueInv
<1> SUFFICES ASSUME Init PROVE EventQueueInv
  OBVIOUS
<1>1. /\ pending = Q!EmptyBatch /\ wake = FALSE /\ closed = FALSE /\ due = NoDue /\ timer = NoTimer
      /\ forgotten = {} /\ callbacks = 0
  BY DEF Init
<1>2. 0 \in 0..MaxCallbacks /\ {} \in SUBSET (0..MaxDelay) /\ NoTimer \in Timers
  BY QueueAssumption DEF Timers
<1>3. TypeOK
  BY <1>1, <1>2, TypeParts, NoDueFields, EmptySize
<1>4. TimerCoversDelayed /\ Capacity
  BY NoDueFields, EmptySize, QueueAssumption DEF Init, TimerCoversDelayed, Capacity
<1> QED
  BY <1>3, <1>4 DEF EventQueueInv

(* A queue with a global repair holds nothing else. *)
LEMMA GlobalKeeps ==
    ASSUME EventQueueInv, BecomeGlobal, closed' = closed, forgotten' \in SUBSET (0..MaxDelay),
           callbacks' \in 0..MaxCallbacks
    PROVE  EventQueueInv'
<1>1. TypeOK'
  BY TypeParts, TypePartsNext, NoDueFields, EmptySize DEF EventQueueInv, BecomeGlobal, Timers
<1>2. TimerCoversDelayed' /\ Capacity'
  BY NoDueFields, EmptySize, QueueAssumption DEF BecomeGlobal, TimerCoversDelayed, Capacity
<1> QED
  BY <1>1, <1>2 DEF EventQueueInv

LEMMA AddKeeps == ASSUME EventQueueInv, NEW h \in Hints, Add(h) PROVE EventQueueInv'
<1>1. /\ pending \in Q!Batches /\ due \in DueTimes /\ timer \in Timers /\ TypeOK
      /\ UNCHANGED <<closed, forgotten, callbacks>>
  BY TypeParts DEF EventQueueInv, Add
<1>2. CASE BecomeGlobal
  BY <1>1, <1>2, GlobalKeeps, TypeParts
<1>3. CASE UNCHANGED <<pending, due, timer, wake>>
  BY <1>1, <1>3, TypeParts, TypePartsNext DEF EventQueueInv, TimerCoversDelayed, Capacity
<1>4. CASE /\ ~Q!Routeless(h) /\ ~(Q!Size(Q!Merge(pending, h), DOMAIN due) > MaxDirtyRoutes)
           /\ pending' = Q!Merge(pending, h) /\ wake' = TRUE /\ UNCHANGED <<due, timer>>
  <2>1. Q!Merge(pending, h) \in Q!Batches
    BY <1>1, <1>4, MergeType
  <2>2. TypeOK'
    BY <1>1, <1>4, <2>1, TypeParts, TypePartsNext
  <2>3. TimerCoversDelayed'
    BY <1>1, <1>4 DEF EventQueueInv, TimerCoversDelayed
  <2>4. Q!Size(Q!Merge(pending, h), DOMAIN due) \in Nat
    BY <1>1, <2>1, Sizes, DueTimesFields
  <2>5. Capacity'
    BY <1>4, <2>4, QueueAssumption DEF Capacity
  <2> QED
    BY <2>2, <2>3, <2>5 DEF EventQueueInv
<1> QED
  BY <1>2, <1>3, <1>4 DEF Add

(* One more key, in a queue that has room for it. *)
LEMMA ScheduleKeeps ==
    ASSUME EventQueueInv, NEW k \in Q!DelayKeys, NEW delay \in 0..MaxDelay, Schedule(k, delay)
    PROVE  EventQueueInv'
<1> DEFINE d == [x \in DOMAIN due \cup {k} |-> IF x = k THEN delay ELSE due[x]]
<1>1. /\ pending \in Q!Batches /\ due \in DueTimes /\ timer \in Timers /\ TypeOK
      /\ UNCHANGED <<closed, forgotten, callbacks>>
  BY TypeParts DEF EventQueueInv, Schedule
<1>2. CASE BecomeGlobal
  BY <1>1, <1>2, GlobalKeeps, TypeParts
<1>3. CASE ~Full(k) /\ due' = d /\ timer' = ResetTimer(d) /\ UNCHANGED <<pending, wake>>
  <2>1. DOMAIN due \subseteq Q!DelayKeys /\ \A x \in DOMAIN due : due[x] \in 0..MaxDelay
    BY <1>1, DueTimesFields
  <2>2. DOMAIN d = DOMAIN due \cup {k} /\ d = [x \in DOMAIN d |-> d[x]]
    OBVIOUS
  <2>3. \A x \in DOMAIN d : d[x] \in 0..MaxDelay
    BY <2>1
  <2> HIDE DEF d, Q!DelayKeys
  <2>4. d \in DueTimes
    BY <2>1, <2>2, <2>3, DueTimesFields
  <2>5. TypeOK'
    BY <1>1, <1>3, <2>4, ResetTimerCovers, TypeParts, TypePartsNext
  <2>6. TimerCoversDelayed'
    BY <1>3, <2>4, ResetTimerCovers DEF TimerCoversDelayed
  <2>7. Capacity'
    <3>1. CASE k \in DOMAIN due
      <4>1. DOMAIN d = DOMAIN due
        BY <2>2, <3>1
      <4> QED
        BY <1>3, <4>1 DEF EventQueueInv, Capacity
    <3>2. CASE k \notin DOMAIN due
      <4>1. /\ IsFiniteSet(DOMAIN due) /\ Cardinality(DOMAIN due) \in Nat
            /\ Cardinality(pending.groups) \in Nat /\ Cardinality(pending.users) \in Nat
        BY <1>1, <2>1, Sizes
      <4>2. Cardinality(DOMAIN d) = Cardinality(DOMAIN due) + 1
        BY <2>2, <3>2, <4>1, FS_AddElement
      <4>3. /\ Q!Size(pending, DOMAIN due) = Cardinality(pending.groups) + Cardinality(pending.users)
                                              + Cardinality(DOMAIN due)
            /\ Q!Size(pending, DOMAIN d) = Cardinality(pending.groups) + Cardinality(pending.users)
                                            + Cardinality(DOMAIN d)
        BY SameCardinality DEF Q!Size
      <4>4. ~(Q!Size(pending, DOMAIN due) >= MaxDirtyRoutes)
        BY <1>3, <3>2 DEF Full
      <4>5. Q!Size(pending, DOMAIN d) <= MaxDirtyRoutes
        BY <4>1, <4>2, <4>3, <4>4, QueueAssumption
      <4> QED
        BY <1>3, <4>5 DEF Capacity
    <3> QED
      BY <3>1, <3>2
  <2> QED
    BY <2>5, <2>6, <2>7 DEF EventQueueInv
<1> QED
  BY <1>2, <1>3 DEF Schedule

LEMMA SchedulesKeep == ASSUME EventQueueInv, ScheduleGroup \/ AddGlobalAfter PROVE EventQueueInv'
<1>1. ASSUME NEW g \in Group, Schedule(Q!ConfirmKey(g), ConfirmDelay) \/ Schedule(Q!JitKey(g), JitDelay)
      PROVE  EventQueueInv'
  <2>1. Q!ConfirmKey(g) \in Q!DelayKeys /\ Q!JitKey(g) \in Q!DelayKeys
    BY DEF Q!DelayKeys
  <2> QED
    BY <1>1, <2>1, ScheduleKeeps, MaxDelayBounds
<1>2. ASSUME NEW delay \in 1..RepairDelay, Schedule(Q!GlobalKey, delay)
      PROVE  EventQueueInv'
  <2>1. Q!GlobalKey \in Q!DelayKeys
    BY DEF Q!DelayKeys
  <2>2. delay \in 0..MaxDelay
    BY MaxDelayBounds
  <2> QED
    BY <1>2, <2>1, <2>2, ScheduleKeeps
<1> QED
  BY <1>1, <1>2 DEF ScheduleGroup, AddGlobalAfter

(* The callback that is used up leaves an armed timer for the rest. *)
LEMMA ReleaseKeeps == ASSUME EventQueueInv, ReleaseDue PROVE EventQueueInv'
<1> DEFINE rest == [k \in DOMAIN due \ Expired |-> due[k]]
<1>1. /\ pending \in Q!Batches /\ due \in DueTimes /\ timer \in Timers /\ closed \in BOOLEAN
      /\ forgotten \in SUBSET (0..MaxDelay) /\ callbacks \in 0..MaxCallbacks /\ closed' = closed
      /\ callbacks > 0 /\ callbacks' = callbacks - 1
  BY TypeParts DEF EventQueueInv, ReleaseDue
<1>2. callbacks' \in 0..MaxCallbacks
  BY <1>1, QueueAssumption
<1>3. CASE BecomeGlobal /\ UNCHANGED forgotten
  BY <1>1, <1>2, <1>3, GlobalKeeps
<1>4. CASE /\ Q!GlobalKey \notin Expired /\ due' = rest
           /\ pending' = IF pending.global THEN pending
                         ELSE [pending EXCEPT !.groups = @ \cup RoutesOf(Expired)]
           /\ forgotten' = IF timer.armed THEN forgotten \cup {timer.left} ELSE forgotten
           /\ timer' = ResetTimer(rest) /\ wake' = TRUE
  <2>1. DOMAIN due \in SUBSET Q!DelayKeys /\ \A x \in DOMAIN due : due[x] \in 0..MaxDelay
    BY <1>1, DueTimesFields
  <2>2. Expired \in SUBSET DOMAIN due
    BY DEF Expired
  <2>3. /\ DOMAIN rest = DOMAIN due \ Expired /\ rest = [k \in DOMAIN rest |-> rest[k]]
        /\ \A x \in DOMAIN rest : rest[x] = due[x]
    OBVIOUS
  <2> HIDE DEF rest, Q!DelayKeys
  <2>4. rest \in DueTimes
    BY <2>1, <2>3, DueTimesFields
  <2>5. forgotten' \in SUBSET (0..MaxDelay)
    BY <1>1, <1>4, TimerFields
  <2>6. pending' \in Q!Batches /\ Q!Size(pending', DOMAIN rest) <= Q!Size(pending, DOMAIN due)
    BY <1>1, <1>4, <2>1, <2>2, <2>3, ReleaseFits
  <2>7. TypeOK'
    BY <1>1, <1>2, <1>4, <2>4, <2>5, <2>6, ResetTimerCovers, TypePartsNext
  <2>8. TimerCoversDelayed'
    BY <1>4, <2>4, ResetTimerCovers DEF TimerCoversDelayed
  <2>9. Capacity'
    <3>1. DOMAIN rest \in SUBSET Q!DelayKeys
      BY <2>1, <2>3
    <3>2. Q!Size(pending', DOMAIN rest) \in Nat /\ Q!Size(pending, DOMAIN due) \in Nat
      BY <1>1, <2>1, <2>6, <3>1, Sizes
    <3>3. Q!Size(pending', DOMAIN rest) <= MaxDirtyRoutes
      BY <2>6, <3>2, QueueAssumption DEF EventQueueInv, Capacity
    <3> QED
      BY <1>4, <3>3 DEF Capacity
  <2> QED
    BY <2>7, <2>8, <2>9 DEF EventQueueInv
<1> QED
  BY <1>3, <1>4 DEF ReleaseDue

(* Time, and timers that fire *)
LEMMA TickKeeps == ASSUME EventQueueInv, Tick PROVE EventQueueInv'
<1>1. /\ pending \in Q!Batches /\ due \in DueTimes /\ timer \in Timers /\ closed \in BOOLEAN
      /\ forgotten \in SUBSET (0..MaxDelay) /\ callbacks \in 0..MaxCallbacks /\ wake \in BOOLEAN
      /\ UNCHANGED <<pending, wake, closed, callbacks>>
      /\ due' = [k \in DOMAIN due |-> Less(due[k])]
      /\ timer' = [timer EXCEPT !.left = Less(@)]
      /\ forgotten' = {Less(n) : n \in forgotten}
  BY TypeParts DEF EventQueueInv, Tick
<1>2. \A m \in 0..MaxDelay, n \in 0..MaxDelay :
        Less(m) \in 0..MaxDelay /\ (m <= n => Less(m) <= Less(n))
  BY MaxDelayBounds DEF Less
<1>3. DOMAIN due \subseteq Q!DelayKeys /\ \A k \in DOMAIN due : due[k] \in 0..MaxDelay
  BY <1>1, DueTimesFields
<1>4. /\ DOMAIN due' = DOMAIN due /\ due' = [k \in DOMAIN due' |-> due'[k]]
      /\ \A k \in DOMAIN due' : due'[k] = Less(due[k])
  BY <1>1
<1>5. due' \in DueTimes
  BY <1>2, <1>3, <1>4, DueTimesFields
<1>6. timer' \in Timers /\ timer'.armed = timer.armed /\ timer'.left = Less(timer.left)
  BY <1>1, TimerFields
<1>7. forgotten' \in SUBSET (0..MaxDelay)
  BY <1>1, <1>2
<1>8. TypeOK'
  BY <1>1, <1>5, <1>6, <1>7, TypePartsNext
<1>9. TimerCoversDelayed'
  BY <1>1, <1>2, <1>3, <1>4, <1>6, TimerFields DEF EventQueueInv, TimerCoversDelayed
<1>10. Capacity'
  BY <1>1, <1>4 DEF EventQueueInv, Capacity
<1> QED
  BY <1>8, <1>9, <1>10 DEF EventQueueInv

LEMMA FireKeeps == ASSUME EventQueueInv, Fire PROVE EventQueueInv'
<1>1. /\ pending \in Q!Batches /\ due \in DueTimes /\ timer \in Timers /\ closed \in BOOLEAN
      /\ forgotten \in SUBSET (0..MaxDelay) /\ callbacks \in 0..MaxCallbacks /\ wake \in BOOLEAN
      /\ UNCHANGED <<pending, wake, closed, due>>
      /\ callbacks < MaxCallbacks /\ callbacks' = callbacks + 1
      /\ timer' \in {timer, Fired} /\ forgotten' \in {forgotten, forgotten \ {0}}
  BY TypeParts DEF EventQueueInv, Fire
<1>2. callbacks' \in 0..MaxCallbacks /\ callbacks' > 0
  BY <1>1, QueueAssumption
<1>3. TypeOK'
  BY <1>1, <1>2, TypePartsNext DEF Timers
<1>4. TimerCoversDelayed' /\ Capacity'
  BY <1>1, <1>2 DEF EventQueueInv, TimerCoversDelayed, Capacity
<1> QED
  BY <1>3, <1>4 DEF EventQueueInv

LEMMA ConsumerKeeps ==
    ASSUME EventQueueInv, TakeWake \/ Drain \/ Close \/ ReleaseAfterClose \/ UNCHANGED vars
    PROVE  EventQueueInv'
<1>1. /\ pending \in Q!Batches /\ due \in DueTimes /\ timer \in Timers /\ closed \in BOOLEAN
      /\ forgotten \in SUBSET (0..MaxDelay) /\ callbacks \in 0..MaxCallbacks /\ wake \in BOOLEAN
  BY TypeParts DEF EventQueueInv
<1>2. /\ UNCHANGED <<due, forgotten>> /\ timer' \in {timer, NoTimer} /\ wake' \in BOOLEAN
      /\ pending' \in {pending, Q!EmptyBatch} /\ closed' \in BOOLEAN
      /\ closed' = TRUE \/ (closed' = closed /\ timer' = timer /\ callbacks' = callbacks)
      /\ callbacks' = callbacks \/ (callbacks > 0 /\ callbacks' = callbacks - 1)
  <2>1. CASE TakeWake \/ Drain
    BY <1>1, <2>1 DEF TakeWake, Drain
  <2>2. CASE Close
    BY <1>1, <2>2 DEF Close
  <2>3. CASE ReleaseAfterClose
    BY <1>1, <2>3 DEF ReleaseAfterClose
  <2>4. CASE UNCHANGED vars
    BY <1>1, <2>4 DEF vars
  <2> QED
    BY <2>1, <2>2, <2>3, <2>4
<1>3. callbacks' \in 0..MaxCallbacks
  BY <1>1, <1>2, QueueAssumption
<1>4. pending' \in Q!Batches
  BY <1>1, <1>2, EmptySize
<1>5. TypeOK'
  BY <1>1, <1>2, <1>3, <1>4, TypePartsNext DEF Timers
<1>6. TimerCoversDelayed'
  <2>1. CASE closed' = TRUE
    BY <2>1 DEF TimerCoversDelayed
  <2>2. CASE closed' = closed /\ timer' = timer /\ callbacks' = callbacks
    BY <1>2, <2>2 DEF EventQueueInv, TimerCoversDelayed
  <2> QED
    BY <1>2, <2>1, <2>2
<1>7. Capacity'
  <2>1. CASE pending' = pending
    BY <1>2, <2>1 DEF EventQueueInv, Capacity
  <2>2. CASE pending' = Q!EmptyBatch
    <3>1. /\ Cardinality(pending.groups) \in Nat /\ Cardinality(pending.users) \in Nat
          /\ Cardinality(DOMAIN due) \in Nat
      BY <1>1, Sizes, DueTimesFields
    <3>2. Q!EmptyBatch.groups = {} /\ Q!EmptyBatch.users = {}
      BY DEF Q!EmptyBatch
    <3>3. /\ Q!Size(pending, DOMAIN due) = Cardinality(pending.groups) + Cardinality(pending.users)
                                            + Cardinality(DOMAIN due)
          /\ Q!Size(Q!EmptyBatch, DOMAIN due) = Cardinality(DOMAIN due)
      BY <3>1, <3>2, SameCardinality, FS_EmptySet DEF Q!Size
    <3>4. Q!Size(Q!EmptyBatch, DOMAIN due) <= MaxDirtyRoutes
      BY <3>1, <3>3, QueueAssumption DEF EventQueueInv, Capacity
    <3> QED
      BY <1>2, <2>2, <3>4 DEF Capacity
  <2> QED
    BY <1>2, <2>1, <2>2
<1> QED
  BY <1>5, <1>6, <1>7 DEF EventQueueInv

LEMMA EventQueueStep == EventQueueInv /\ [Next]_vars => EventQueueInv'
BY AddKeeps, SchedulesKeep, ReleaseKeeps, TickKeeps, FireKeeps, ConsumerKeeps DEF Next

(* The three invariants of the queue hold together in every state. *)
THEOREM EventQueueInvariant == Spec => []EventQueueInv
BY EventQueueInit, EventQueueStep, PTL DEF Spec

(* Routes, keys of delayed work, due times and timers are what they should *)
(* be; at most MaxCallbacks releaseDue goroutines wait.                    *)
THEOREM EventQueueTypeOK == Spec => []TypeOK
<1>1. EventQueueInv => TypeOK
  BY DEF EventQueueInv
<1> QED
  BY EventQueueInvariant, <1>1, PTL

(* However Stop, Reset and the callbacks of old timers race, delayed work  *)
(* has an armed timer in time or a callback on its way.                    *)
THEOREM EventQueueTimerCoversDelayed == Spec => []TimerCoversDelayed
<1>1. EventQueueInv => TimerCoversDelayed
  BY DEF EventQueueInv
<1> QED
  BY EventQueueInvariant, <1>1, PTL

(* The queue never exceeds maxDirtyRoutes, not even when delayed work is   *)
(* released: for every capacity and any number of routes.                  *)
THEOREM EventQueueCapacity == Spec => []Capacity
<1>1. EventQueueInv => Capacity
  BY DEF EventQueueInv
<1> QED
  BY EventQueueInvariant, <1>1, PTL

-------------------------------------------------------------------------------
(* The refinement *)

LEMMA GlobalImplements == ASSUME BecomeGlobal PROVE Q!BecomeGlobal
BY NoDueFields DEF BecomeGlobal, Q!BecomeGlobal

LEMMA AddImplements == ASSUME NEW h, Add(h) PROVE Q!Add(h)
<1>1. CASE BecomeGlobal
  BY <1>1, GlobalImplements DEF Add, Q!Add
<1>2. CASE ~BecomeGlobal
  BY <1>2 DEF Add, Q!Add
<1> QED
  BY <1>1, <1>2

LEMMA ScheduleImplements == ASSUME NEW k, NEW delay, Schedule(k, delay) PROVE Q!Schedule(k)
<1>1. CASE Full(k)
  BY <1>1, GlobalImplements DEF Schedule, Q!Schedule, Full
<1>2. CASE ~Full(k)
  <2>1. DOMAIN due' = DOMAIN due \cup {k} /\ UNCHANGED <<pending, wake, closed>> /\ ~closed
    BY <1>2 DEF Schedule
  <2>2. k \in DOMAIN due \/ ~(Q!Size(pending, DOMAIN due) >= MaxDirtyRoutes)
    BY <1>2 DEF Full
  <2>3. CASE k \in DOMAIN due
    <3>1. DOMAIN due' = DOMAIN due
      BY <2>1, <2>3
    <3> QED
      BY <2>1, <2>3, <3>1 DEF Q!Schedule
  <2>4. CASE k \notin DOMAIN due
    BY <2>1, <2>2, <2>4 DEF Q!Schedule
  <2> QED
    BY <2>3, <2>4
<1> QED
  BY <1>1, <1>2

LEMMA ReleaseImplements == ASSUME ReleaseDue PROVE Q!Release(Expired)
<1>1. Expired \subseteq DOMAIN due /\ ~closed /\ closed' = closed
  BY DEF ReleaseDue, Expired
<1>2. CASE Q!GlobalKey \in Expired
  BY <1>1, <1>2, GlobalImplements DEF ReleaseDue, Q!Release
<1>3. CASE Q!GlobalKey \notin Expired
  BY <1>1, <1>3 DEF ReleaseDue, Q!Release, RoutesOf
<1> QED
  BY <1>2, <1>3

LEMMA QueueStepImplements == EventQueueInv /\ [Next]_vars => [Q!QueueNext]_(Q!queue)
<1> SUFFICES ASSUME EventQueueInv, [Next]_vars PROVE [Q!QueueNext]_(Q!queue)
  OBVIOUS
<1>1. ASSUME NEW h \in Hints, Add(h) PROVE Q!QueueNext
  BY <1>1, AddImplements DEF Q!QueueNext
<1>2. CASE ScheduleGroup \/ AddGlobalAfter
  <2>1. \E k \in Q!DelayKeys : Q!Schedule(k)
    BY <1>2, ScheduleImplements DEF ScheduleGroup, AddGlobalAfter, Q!DelayKeys
  <2> QED
    BY <2>1 DEF Q!QueueNext
<1>3. CASE ReleaseDue
  <2>1. Expired \in SUBSET Q!DelayKeys
    BY TypeParts, DueTimesFields DEF EventQueueInv, Expired
  <2> QED
    BY <1>3, <2>1, ReleaseImplements DEF Q!QueueNext
<1>4. CASE TakeWake \/ Drain \/ Close
  BY <1>4 DEF TakeWake, Drain, Close, Q!TakeWake, Q!Drain, Q!Close, Q!QueueNext
<1>5. CASE ReleaseAfterClose \/ Fire \/ Tick \/ UNCHANGED vars
  BY <1>5 DEF ReleaseAfterClose, Fire, Tick, vars, Q!queue
<1> QED
  BY <1>1, <1>2, <1>3, <1>4, <1>5 DEF Next

(* With its due times, its timer and callbacks that come late or twice,    *)
(* eventQueue is the queue that EventLoop reasons about.                   *)
THEOREM EventQueueImplementsDirtyQueue == Spec => ImplementsDirtyQueue
<1>1. Init => Q!QueueInit
  BY NoDueFields DEF Init, Q!QueueInit
<1> QED
  BY <1>1, QueueStepImplements, EventQueueInvariant, PTL DEF Spec, ImplementsDirtyQueue, Q!QueueSpec
===============================================================================
