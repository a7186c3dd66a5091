---------------------------- MODULE DeliveryProofs ----------------------------
(***************************************************************************)
(* The way of a hint keeps DeliveryInv, and with it the safety properties  *)
(* of Delivery, for every set of transactions and hints, every number of   *)
(* threads, every capacity and every clock skew.                           *)
(***************************************************************************)
EXTENDS Delivery, FiniteSetTheorems, TLAPS

LEMMA Bounds ==
    /\ Workers \in Nat /\ QueueCapacity \in Nat /\ QueueCapacity > 0
    /\ MaxSkew \in Nat /\ SeenCapacity \in Nat /\ SeenCapacity > 0
    /\ MaxTime \in Nat /\ MaxReplays \in Nat
    /\ Offsets \subseteq Int /\ Never \notin Int
BY BoundsAssumption

(* A hint is a hint of exactly one transaction. *)
LEMMA TxOfHint ==
    ASSUME NEW t \in Tx, NEW i \in 1..Len(HintsOf[t])
    PROVE  HintsOf[t][i] \in Hint /\ TxOf(HintsOf[t][i]) = t
<1>1. HintsOf[t][i] \in Hint
  BY DEF Hint
<1>2. \A u \in Tx : (\E j \in 1..Len(HintsOf[u]) : HintsOf[u][j] = HintsOf[t][i]) => u = t
  BY HintsAssumption
<1> QED
  BY <1>1, <1>2 DEF TxOf

LEMMA TxOfIsTx == ASSUME NEW h \in Hint PROVE TxOf(h) \in Tx
BY DEF Hint, TxOf

(* What the executor does with a task: a thread, the queue, or the log. *)
LEMMA SubmitOutcomes ==
    ASSUME TypeOK, NEW h \in Hint, Submit(h)
    PROVE  \/ /\ \E s \in {"started", "logged"} : stage' = [stage EXCEPT ![h] = s]
              /\ queue' = queue
           \/ /\ stage' = [stage EXCEPT ![h] = "queued"]
              /\ Len(queue) < QueueCapacity
              /\ queue' = Append(queue, h)
<1>1. CASE pool = "running" /\ Cardinality(Busy) < Workers
           /\ stage' = [stage EXCEPT ![h] = "started"] /\ UNCHANGED queue
  BY <1>1
<1>2. CASE pool = "running" /\ Cardinality(Busy) >= Workers /\ Len(queue) < QueueCapacity
           /\ stage' = [stage EXCEPT ![h] = "queued"] /\ queue' = Append(queue, h)
  BY <1>2
<1>3. CASE stage' = [stage EXCEPT ![h] = "logged"] /\ UNCHANGED queue
  BY <1>3
<1> QED
  BY <1>1, <1>2, <1>3 DEF Submit

-------------------------------------------------------------------------------
(* The initial states *)
LEMMA DeliveryInit == Init => DeliveryInv
<1> SUFFICES ASSUME Init PROVE DeliveryInv
  OBVIOUS
<1>1. {h \in Hint : seen[h] # Never} = {}
  BY DEF Init
<1>2. IsFiniteSet({}) /\ Cardinality({}) = 0
  BY FS_EmptySet
<1>3. [time |-> Never, valid |-> FALSE] \in Message
  BY DEF Message
<1>4. TypeOK
  <2>1. tx \in [Tx -> {"open", "committed", "rolledBack"}] /\ stage \in [Hint -> Stages]
    BY DEF Init, Stages
  <2>2. todo \in [Tx -> Seq(Hint)] /\ queue \in Seq(Hint) /\ Len(queue) <= QueueCapacity
    BY Bounds DEF Init
  <2>3. message \in [Hint -> Message] /\ client \in BOOLEAN /\ secret \in BOOLEAN
    BY <1>3 DEF Init
  <2>4. now \in 0..MaxTime /\ seen \in [Hint -> 0..MaxTime \cup {Never}] /\ replays \in 0..MaxReplays
    BY Bounds DEF Init
  <2>5. Cardinality({h \in Hint : seen[h] # Never}) <= SeenCapacity
    BY <1>1, <1>2, Bounds
  <2> QED
    BY <2>1, <2>2, <2>3, <2>4, <2>5 DEF Init, TypeOK
<1>5. HeldOnce /\ QueuedOnce /\ OneWay /\ SignedInTime /\ EntryOutlivesFreshness /\ SignedRequests
  BY DEF Init, HeldOnce, QueuedOnce, OneWay, SignedInTime, EntryOutlivesFreshness, SignedRequests
<1> QED
  BY <1>1, <1>2, <1>4, <1>5 DEF DeliveryInv, TypeOK

-------------------------------------------------------------------------------
(* The transaction *)

(* onEvent only appends to what an open transaction holds. *)
LEMMA AddHintKeeps ==
    ASSUME DeliveryInv, NEW t \in Tx, AddHint(t)
    PROVE  DeliveryInv'
<1> DEFINE h == HintsOf[t][Len(todo[t]) + 1]
<1>1. todo[t] \in Seq(Hint) /\ Len(todo[t]) + 1 \in 1..Len(HintsOf[t])
  BY HintsAssumption DEF DeliveryInv, TypeOK, AddHint
<1>2. h \in Hint /\ TxOf(h) = t
  BY <1>1, TxOfHint
<1>3. todo' = [todo EXCEPT ![t] = Append(todo[t], h)]
  BY DEF AddHint, DeliveryInv, TypeOK
<1>4. /\ UNCHANGED <<tx, pool, queue, stage, client, secret, message, offset, sent, now>>
      /\ UNCHANGED <<handlers, seen, accepted, replays>>
  BY DEF AddHint, sender, receiver
<1> HIDE DEF h
<1>5. todo' \in [Tx -> Seq(Hint)]
  BY <1>1, <1>2, <1>3 DEF DeliveryInv, TypeOK
<1>6. HeldOnce'
  <2>1. stage[h] = "none"
    BY <1>2 DEF AddHint, DeliveryInv, OneWay
  <2>2. \A i \in 1..Len(todo[t]) : todo[t][i] = HintsOf[t][i] /\ todo[t][i] # h
    BY <1>1, HintsAssumption DEF h, AddHint, DeliveryInv, HeldOnce
  <2>3. ASSUME NEW u \in Tx, u # t
        PROVE  todo'[u] = todo[u]
    BY <1>3, <2>3 DEF DeliveryInv, TypeOK
  <2>4. /\ todo'[t] = Append(todo[t], h) /\ Len(todo'[t]) = Len(todo[t]) + 1
        /\ \A i \in 1..Len(todo[t]) : todo'[t][i] = todo[t][i]
        /\ todo'[t][Len(todo[t]) + 1] = h
    BY <1>1, <1>2, <1>3 DEF DeliveryInv, TypeOK
  <2>5. ASSUME NEW i \in 1..Len(todo'[t])
        PROVE  /\ TxOf(todo'[t][i]) = t
               /\ stage[todo'[t][i]] = "none"
               /\ i <= Len(HintsOf[t]) /\ todo'[t][i] = HintsOf[t][i]
               /\ \A j \in 1..Len(todo'[t]) : todo'[t][i] = todo'[t][j] => i = j
    <3>1. i \in 1..Len(todo[t]) \/ i = Len(todo[t]) + 1
      BY <1>1, <2>4
    <3>2. CASE i \in 1..Len(todo[t])
      <4>1. /\ TxOf(todo[t][i]) = t /\ stage[todo[t][i]] = "none"
            /\ i <= Len(HintsOf[t]) /\ todo[t][i] = HintsOf[t][i]
            /\ \A j \in 1..Len(todo[t]) : todo[t][i] = todo[t][j] => i = j
        BY <3>2 DEF DeliveryInv, HeldOnce, AddHint
      <4> QED
        BY <1>1, <2>2, <2>4, <3>2, <4>1
    <3>3. CASE i = Len(todo[t]) + 1
      BY <1>1, <1>2, <2>1, <2>2, <2>4, <3>3 DEF h
    <3> QED
      BY <3>1, <3>2, <3>3
  <2> QED
    BY <1>4, <2>3, <2>5 DEF HeldOnce, DeliveryInv
<1> QED
  BY <1>4, <1>5, <1>6 DEF DeliveryInv, TypeOK, QueuedOnce, OneWay, SignedInTime,
                          EntryOutlivesFreshness, SignedRequests

(* An open transaction has not submitted anything, so it can end either way. *)
LEMMA EndOfTxKeeps ==
    ASSUME DeliveryInv, NEW t \in Tx, Commit(t) \/ Rollback(t)
    PROVE  DeliveryInv'
<1>1. /\ UNCHANGED <<pool, queue, stage, client, secret, message, offset, sent, now>>
      /\ UNCHANGED <<handlers, seen, accepted, replays>>
  BY DEF Commit, Rollback, sender, receiver
<1>2. /\ tx' \in [Tx -> {"open", "committed", "rolledBack"}]
      /\ todo' \in [Tx -> Seq(Hint)]
      /\ tx[t] = "open" /\ tx'[t] # "open"
      /\ \A u \in Tx : u # t => tx'[u] = tx[u]
      /\ \A u \in Tx : todo'[u] \in {todo[u], <<>>}
  <2>1. CASE Commit(t)
    BY <2>1 DEF Commit, DeliveryInv, TypeOK
  <2>2. CASE Rollback(t)
    BY <2>2 DEF Rollback, DeliveryInv, TypeOK
  <2> QED
    BY <2>1, <2>2
<1>3. TypeOK'
  BY <1>1, <1>2 DEF DeliveryInv, TypeOK
<1>4. HeldOnce'
  BY <1>1, <1>2 DEF DeliveryInv, TypeOK, HeldOnce
<1>5. OneWay'
  BY <1>1, <1>2, TxOfIsTx DEF DeliveryInv, OneWay
<1> QED
  BY <1>1, <1>2, <1>3, <1>4, <1>5 DEF DeliveryInv, QueuedOnce, SignedInTime,
                                      EntryOutlivesFreshness, SignedRequests

(* commitImpl hands the first hint that is left to the executor. *)
LEMMA SubmitHintKeeps ==
    ASSUME DeliveryInv, NEW t \in Tx, SubmitHint(t)
    PROVE  DeliveryInv'
<1> DEFINE h == Head(todo[t])
<1>1. todo[t] \in Seq(Hint) /\ todo[t] # <<>> /\ h \in Hint /\ h = todo[t][1]
      /\ 1 \in 1..Len(todo[t])
  BY DEF SubmitHint, DeliveryInv, TypeOK
<1>2. TxOf(h) = t /\ stage[h] = "none" /\ tx[t] = "committed"
  BY <1>1 DEF SubmitHint, DeliveryInv, TypeOK, HeldOnce
<1>3. todo' = [todo EXCEPT ![t] = Tail(todo[t])]
  BY DEF SubmitHint, DeliveryInv, TypeOK
<1>4. \/ /\ \E s \in {"started", "logged"} : stage' = [stage EXCEPT ![h] = s]
         /\ queue' = queue
      \/ /\ stage' = [stage EXCEPT ![h] = "queued"]
         /\ Len(queue) < QueueCapacity
         /\ queue' = Append(queue, h)
  BY <1>1, SubmitOutcomes DEF SubmitHint, DeliveryInv, TypeOK
<1>5. /\ UNCHANGED <<tx, pool, client, secret, message, offset, sent, now>>
      /\ UNCHANGED <<handlers, seen, accepted, replays>>
  BY DEF SubmitHint, receiver
<1> HIDE DEF h
<1>6. /\ stage' \in [Hint -> Stages]
      /\ stage'[h] \in {"started", "logged", "queued"}
      /\ \A x \in Hint : x # h => stage'[x] = stage[x]
  BY <1>1, <1>4 DEF DeliveryInv, TypeOK, Stages
<1>7. queue' \in Seq(Hint) /\ Len(queue') <= QueueCapacity
  <2>1. queue \in Seq(Hint) /\ Len(queue) <= QueueCapacity
    BY DEF DeliveryInv, TypeOK
  <2> QED
    BY <1>1, <1>4, <2>1, Bounds
<1>8. todo' \in [Tx -> Seq(Hint)]
  BY <1>1, <1>3 DEF DeliveryInv, TypeOK
<1>9. TypeOK'
  BY <1>5, <1>6, <1>7, <1>8 DEF DeliveryInv, TypeOK
<1>10. HeldOnce'
  <2>1. ASSUME NEW u \in Tx, u # t
        PROVE  todo'[u] = todo[u] /\ \A i \in 1..Len(todo[u]) : todo[u][i] # h /\ todo[u][i] \in Hint
    BY <1>2, <1>3, <2>1 DEF DeliveryInv, TypeOK, HeldOnce
  <2>2. /\ todo'[t] = Tail(todo[t]) /\ Len(todo'[t]) = Len(todo[t]) - 1
        /\ \A i \in 1..Len(todo'[t]) : todo'[t][i] = todo[t][i + 1] /\ i + 1 \in 1..Len(todo[t])
    BY <1>1, <1>3 DEF DeliveryInv, TypeOK
  <2>3. \A i \in 1..Len(todo'[t]) : todo'[t][i] # h /\ todo'[t][i] \in Hint
    BY <1>1, <2>2 DEF DeliveryInv, TypeOK, HeldOnce
  <2>4. ASSUME NEW i \in 1..Len(todo'[t])
        PROVE  /\ TxOf(todo'[t][i]) = t
               /\ stage'[todo'[t][i]] = "none"
               /\ \A j \in 1..Len(todo'[t]) : todo'[t][i] = todo'[t][j] => i = j
    <3>1. /\ TxOf(todo[t][i + 1]) = t /\ stage[todo[t][i + 1]] = "none"
          /\ \A j \in 1..Len(todo[t]) : todo[t][i + 1] = todo[t][j] => i + 1 = j
      BY <2>2 DEF DeliveryInv, HeldOnce
    <3> QED
      BY <1>6, <2>2, <2>3, <3>1
  <2> QED
    BY <1>2, <1>5, <1>6, <2>1, <2>4 DEF DeliveryInv, TypeOK, HeldOnce
<1>11. QueuedOnce'
  <2>1. \A i \in 1..Len(queue) : queue[i] \in Hint /\ queue[i] # h /\ stage'[queue[i]] = "queued"
    BY <1>2, <1>6 DEF DeliveryInv, TypeOK, QueuedOnce
  <2>2. CASE queue' = queue
    BY <2>1, <2>2 DEF DeliveryInv, QueuedOnce
  <2>3. CASE queue' = Append(queue, h) /\ stage' = [stage EXCEPT ![h] = "queued"]
    <3>1. /\ Len(queue') = Len(queue) + 1 /\ queue'[Len(queue) + 1] = h
          /\ \A i \in 1..Len(queue) : queue'[i] = queue[i]
          /\ Len(queue) \in Nat
      BY <1>1, <2>3 DEF DeliveryInv, TypeOK
    <3>2. stage'[h] = "queued"
      BY <1>1, <2>3 DEF DeliveryInv, TypeOK
    <3> QED
      BY <2>1, <3>1, <3>2 DEF DeliveryInv, QueuedOnce
  <2> QED
    BY <1>4, <2>2, <2>3
<1>12. OneWay'
  BY <1>2, <1>5, <1>6 DEF DeliveryInv, TypeOK, OneWay
<1>13. SignedInTime'
  BY <1>5, <1>6 DEF DeliveryInv, SignedInTime
<1> QED
  BY <1>5, <1>8, <1>9, <1>10, <1>11, <1>12, <1>13
     DEF DeliveryInv, EntryOutlivesFreshness, SignedRequests

-------------------------------------------------------------------------------
(* A delivery thread *)

(* A thread takes the oldest task of the queue. *)
LEMMA TakeKeeps == ASSUME DeliveryInv, Take PROVE DeliveryInv'
<1> DEFINE h == Head(queue)
<1>1. queue \in Seq(Hint) /\ h \in Hint /\ h = queue[1] /\ 1 \in 1..Len(queue)
  BY DEF Take, DeliveryInv, TypeOK
<1>2. stage[h] = "queued"
  BY <1>1 DEF DeliveryInv, QueuedOnce
<1>3. stage' = [stage EXCEPT ![h] = "started"] /\ queue' = Tail(queue)
  BY DEF Take
<1>4. /\ UNCHANGED <<tx, todo, pool, client, secret, message, offset, sent, now>>
      /\ UNCHANGED <<handlers, seen, accepted, replays>>
  BY DEF Take, keycloak, receiver
<1> HIDE DEF h
<1>5. /\ stage' \in [Hint -> Stages] /\ stage'[h] = "started"
      /\ \A x \in Hint : x # h => stage'[x] = stage[x]
  BY <1>1, <1>3 DEF DeliveryInv, TypeOK, Stages
<1>6. /\ queue' \in Seq(Hint) /\ Len(queue') = Len(queue) - 1
      /\ \A i \in 1..Len(queue') : queue'[i] = queue[i + 1] /\ i + 1 \in 1..Len(queue)
  BY <1>1, <1>3
<1>7. TypeOK'
  <2>1. Len(queue') <= QueueCapacity
    BY <1>1, <1>6, Bounds DEF DeliveryInv, TypeOK
  <2> QED
    BY <1>4, <1>5, <1>6, <2>1 DEF DeliveryInv, TypeOK
<1>8. HeldOnce'
  BY <1>2, <1>4, <1>5 DEF DeliveryInv, TypeOK, HeldOnce
<1>9. QueuedOnce'
  <2> SUFFICES ASSUME NEW i \in 1..Len(queue')
               PROVE  /\ stage'[queue'[i]] = "queued"
                      /\ \A j \in 1..Len(queue') : queue'[i] = queue'[j] => i = j
    BY DEF QueuedOnce
  <2>1. /\ stage[queue[i + 1]] = "queued" /\ queue[i + 1] \in Hint
        /\ \A j \in 1..Len(queue) : queue[i + 1] = queue[j] => i + 1 = j
    BY <1>1, <1>6 DEF DeliveryInv, QueuedOnce
  <2>2. queue[i + 1] # h
    BY <1>1, <2>1
  <2> QED
    BY <1>5, <1>6, <2>1, <2>2
<1>10. OneWay'
  BY <1>2, <1>4, <1>5 DEF DeliveryInv, TypeOK, OneWay
<1>11. SignedInTime'
  BY <1>4, <1>5 DEF DeliveryInv, SignedInTime
<1> QED
  BY <1>4, <1>7, <1>8, <1>9, <1>10, <1>11
     DEF DeliveryInv, EntryOutlivesFreshness, SignedRequests

(* A step of h alone, behind the queue and not back to it. *)
Moves(h) ==
    /\ stage[h] \notin {"none", "queued"}
    /\ stage' \in [Hint -> Stages]
    /\ stage'[h] \notin {"none", "queued"}
    /\ \A x \in Hint : x # h => stage'[x] = stage[x]
    /\ UNCHANGED <<tx, todo, queue>>

(* Such a step does not touch what is held or queued. *)
LEMMA MovesKeeps ==
    ASSUME DeliveryInv, NEW h \in Hint, Moves(h)
    PROVE  /\ HeldOnce' /\ QueuedOnce'
           /\ \A x \in Hint : stage'[x] # "none" => tx'[TxOf(x)] = "committed"
<1>1. HeldOnce'
  BY DEF Moves, DeliveryInv, TypeOK, HeldOnce
<1>2. QueuedOnce'
  BY DEF Moves, DeliveryInv, TypeOK, QueuedOnce
<1>3. \A x \in Hint : stage'[x] # "none" => tx'[TxOf(x)] = "committed"
  BY DEF Moves, DeliveryInv, OneWay
<1> QED
  BY <1>1, <1>2, <1>3

(* A hint that is signed has not been sent, so no request that is out      *)
(* changes under the network.                                              *)
LEMMA SignKeeps == ASSUME DeliveryInv, NEW h \in Hint, Sign(h) PROVE DeliveryInv'
<1> DEFINE m == [time |-> now + offset, valid |-> secret]
<1>1. /\ now \in Nat /\ offset \in Int /\ now + offset \in Int /\ secret \in BOOLEAN
  BY Bounds DEF DeliveryInv, TypeOK
<1>2. m \in Message /\ m.time = now + offset /\ m.valid = secret
  BY <1>1 DEF Message
<1>3. /\ stage[h] = "started"
      /\ stage' = [stage EXCEPT ![h] = "signed"]
      /\ message' = [message EXCEPT ![h] = m]
      /\ UNCHANGED <<tx, todo, pool, queue, client, secret, offset, sent, now>>
      /\ UNCHANGED <<handlers, seen, accepted, replays>>
  BY DEF Sign, keycloak, receiver
<1> HIDE DEF m
<1>4. stage \in [Hint -> Stages] /\ message \in [Hint -> Message]
  BY DEF DeliveryInv, TypeOK
<1>5. /\ stage' \in [Hint -> Stages] /\ stage'[h] = "signed"
      /\ \A x \in Hint : x # h => stage'[x] = stage[x]
      /\ message' \in [Hint -> Message] /\ message'[h] = m
      /\ \A x \in Hint : x # h => message'[x] = message[x]
  BY <1>2, <1>3, <1>4 DEF Stages
<1>6. Moves(h)
  BY <1>3, <1>5 DEF Moves
<1>7. h \notin sent /\ h \notin accepted /\ sent \subseteq Hint /\ accepted \subseteq Hint
  BY <1>3 DEF DeliveryInv, OneWay, TypeOK
<1>8. TypeOK'
  BY <1>3, <1>5 DEF DeliveryInv, TypeOK
<1>9. OneWay'
  BY <1>3, <1>5, <1>6, <1>7, MovesKeeps DEF DeliveryInv, OneWay
<1>10. SignedInTime'
  BY <1>1, <1>2, <1>3, <1>5 DEF DeliveryInv, SignedInTime
<1>11. EntryOutlivesFreshness' /\ SignedRequests'
  BY <1>3, <1>5, <1>7 DEF DeliveryInv, EntryOutlivesFreshness, SignedRequests
<1> QED
  BY <1>3, <1>6, <1>8, <1>9, <1>10, <1>11, MovesKeeps DEF DeliveryInv

(* A request goes out only through an open client, so its signature is     *)
(* good; every other end of a request leaves the network as it is.         *)
LEMMA SendKeeps ==
    ASSUME DeliveryInv, NEW h \in Hint, Send(h) \/ SendFails(h)
    PROVE  DeliveryInv'
<1>1. /\ UNCHANGED <<tx, todo, pool, queue, client, secret, message, offset, now>>
      /\ UNCHANGED <<handlers, seen, accepted, replays>>
  BY DEF Send, SendFails, keycloak, receiver
<1>2. \/ stage[h] = "signed" /\ client /\ sent' = sent \cup {h} /\ stage' = [stage EXCEPT ![h] = "sent"]
      \/ /\ stage[h] \in {"signed", "sent", "arrived"}
         /\ sent' = sent /\ stage' = [stage EXCEPT ![h] = "logged"]
  BY DEF Send, SendFails
<1>3. stage \in [Hint -> Stages]
  BY DEF DeliveryInv, TypeOK
<1>4. /\ stage' \in [Hint -> Stages] /\ stage'[h] \in {"sent", "logged"}
      /\ \A x \in Hint : x # h => stage'[x] = stage[x]
  BY <1>2, <1>3 DEF Stages
<1>5. Moves(h)
  BY <1>1, <1>2, <1>4 DEF Moves
<1>6. TypeOK'
  BY <1>1, <1>2, <1>4 DEF DeliveryInv, TypeOK
<1>7. OneWay'
  <2>1. stage'[h] = "sent" => h \in sent'
    BY <1>2, <1>3
  <2>2. sent \subseteq sent' /\ sent' \subseteq sent \cup {h} /\ sent \subseteq Hint
    BY <1>2 DEF DeliveryInv, TypeOK
  <2>3. \A x \in sent' : stage'[x] \in {"sent", "arrived", "delivered", "logged"}
    BY <1>4, <2>2 DEF DeliveryInv, OneWay
  <2>4. \A x \in Hint : stage'[x] \in {"sent", "arrived", "delivered"} => x \in sent'
    BY <1>4, <2>1, <2>2 DEF DeliveryInv, OneWay
  <2>5. accepted' \subseteq sent' /\ \A r \in handlers' : r.hint \in sent'
    BY <1>1, <2>2 DEF DeliveryInv, OneWay
  <2> QED
    BY <1>5, <2>3, <2>4, <2>5, MovesKeeps DEF OneWay
<1>8. SignedInTime'
  BY <1>1, <1>2, <1>4 DEF DeliveryInv, SignedInTime
<1>9. EntryOutlivesFreshness' /\ SignedRequests'
  BY <1>1, <1>2 DEF DeliveryInv, EntryOutlivesFreshness, SignedInTime, SignedRequests
<1> QED
  BY <1>1, <1>5, <1>6, <1>7, <1>8, <1>9, MovesKeeps DEF DeliveryInv

-------------------------------------------------------------------------------
(* close() *)

(* close() drains the queue into the log, and zeroes the secret last. *)
LEMMA CloseKeeps ==
    ASSUME DeliveryInv, Shutdown \/ Close
    PROVE  DeliveryInv'
<1>1. CASE Shutdown
  BY <1>1 DEF Shutdown, keycloak, receiver, DeliveryInv, TypeOK, HeldOnce, QueuedOnce, OneWay,
              SignedInTime, EntryOutlivesFreshness, SignedRequests
<1>2. CASE Stop
  <2>1. /\ pool' = "stopped" /\ queue' = <<>>
        /\ UNCHANGED <<tx, todo, client, secret, message, offset, sent, now>>
        /\ UNCHANGED <<handlers, seen, accepted, replays>>
    BY <1>2 DEF Stop, keycloak, receiver
  <2>2. /\ stage' \in [Hint -> Stages]
        /\ \A x \in Hint : stage'[x] = IF stage[x] = "queued" THEN "logged" ELSE stage[x]
    BY <1>2 DEF Stop, DeliveryInv, TypeOK, Stages
  <2>3. TypeOK'
    BY <2>1, <2>2, Bounds DEF DeliveryInv, TypeOK
  <2>4. HeldOnce'
    BY <2>1, <2>2 DEF DeliveryInv, TypeOK, HeldOnce
  <2>5. QueuedOnce'
    BY <2>1 DEF QueuedOnce
  <2>6. OneWay'
    BY <2>1, <2>2 DEF DeliveryInv, TypeOK, OneWay
  <2>7. SignedInTime'
    BY <2>1, <2>2 DEF DeliveryInv, SignedInTime
  <2> QED
    BY <2>1, <2>3, <2>4, <2>5, <2>6, <2>7 DEF DeliveryInv, EntryOutlivesFreshness, SignedRequests
<1>3. CASE CloseClient \/ ZeroSecret
  <2>1. /\ client' \in BOOLEAN /\ secret' \in BOOLEAN
        /\ client' => client /\ secret'
    <3>1. client \in BOOLEAN /\ secret \in BOOLEAN /\ (client => secret)
      BY DEF DeliveryInv, TypeOK, SignedInTime
    <3>2. CASE CloseClient
      BY <3>1, <3>2, Zenon DEF CloseClient
    <3>3. CASE ZeroSecret
      BY <3>1, <3>3, Zenon DEF ZeroSecret
    <3> QED
      BY <1>3, <3>2, <3>3
  <2>2. /\ UNCHANGED <<tx, todo, pool, queue, stage, message, offset, sent, now>>
        /\ UNCHANGED <<handlers, seen, accepted, replays>>
    BY <1>3 DEF CloseClient, ZeroSecret, keycloak, receiver
  <2>3. TypeOK' /\ SignedInTime'
    BY <2>1, <2>2 DEF DeliveryInv, TypeOK, SignedInTime
  <2> QED
    BY <2>2, <2>3 DEF DeliveryInv, HeldOnce, QueuedOnce, OneWay,
                      EntryOutlivesFreshness, SignedRequests
<1> QED
  BY <1>1, <1>2, <1>3 DEF Close

-------------------------------------------------------------------------------
(* The receiver *)

(* A handler begins only for a request that is out. *)
LEMMA ArriveKeeps == ASSUME DeliveryInv, NEW h \in Hint, Arrive(h) PROVE DeliveryInv'
<1>1. /\ stage[h] = "sent" /\ h \in sent
      /\ UNCHANGED <<tx, todo, pool, queue, client, secret, message, offset, sent, now>>
      /\ UNCHANGED <<seen, accepted, replays>>
  BY DEF Arrive, keycloak, DeliveryInv, OneWay
<1>2. /\ handlers' \subseteq handlers \cup {[hint |-> h, original |-> TRUE]}
      /\ \E s \in {"arrived", "logged"} : stage' = [stage EXCEPT ![h] = s]
  BY DEF Arrive
<1>3. /\ stage' \in [Hint -> Stages] /\ stage'[h] \in {"arrived", "logged"}
      /\ \A x \in Hint : x # h => stage'[x] = stage[x]
  BY <1>2 DEF DeliveryInv, TypeOK, Stages
<1>4. Moves(h)
  BY <1>1, <1>3 DEF Moves
<1>5. handlers' \subseteq Handler /\ \A r \in handlers' : r.hint \in sent
  <2> DEFINE q == [hint |-> h, original |-> TRUE]
  <2>1. q \in Handler /\ q.hint = h
    BY DEF Handler
  <2>2. handlers \subseteq Handler /\ \A r \in handlers : r.hint \in sent
    BY DEF DeliveryInv, TypeOK, OneWay
  <2>3. handlers' \subseteq handlers \cup {q} /\ h \in sent
    BY <1>1, <1>2
  <2> HIDE DEF q
  <2> QED
    BY <2>1, <2>2, <2>3
<1>6. TypeOK'
  BY <1>1, <1>3, <1>5 DEF DeliveryInv, TypeOK
<1>7. OneWay'
  BY <1>1, <1>3, <1>4, <1>5, MovesKeeps DEF DeliveryInv, TypeOK, OneWay
<1>8. SignedInTime'
  BY <1>1, <1>3 DEF DeliveryInv, SignedInTime
<1> QED
  BY <1>1, <1>4, <1>6, <1>7, <1>8, MovesKeeps
     DEF DeliveryInv, EntryOutlivesFreshness, SignedRequests

LEMMA RepeatKeeps == ASSUME DeliveryInv, NEW h \in Hint, Repeat(h) PROVE DeliveryInv'
<1>1. /\ h \in sent /\ replays' \in 0..MaxReplays
      /\ handlers' = handlers \cup {[hint |-> h, original |-> FALSE]}
      /\ UNCHANGED <<tx, todo, pool, queue, stage, client, secret, message, offset, sent, now>>
      /\ UNCHANGED <<seen, accepted>>
  BY Bounds DEF Repeat, keycloak, sender, DeliveryInv, TypeOK
<1>2. handlers' \subseteq Handler /\ \A r \in handlers' : r.hint \in sent
  <2> DEFINE q == [hint |-> h, original |-> FALSE]
  <2>1. q \in Handler /\ q.hint = h
    BY DEF Handler
  <2>2. handlers \subseteq Handler /\ \A r \in handlers : r.hint \in sent
    BY DEF DeliveryInv, TypeOK, OneWay
  <2>3. handlers' \subseteq handlers \cup {q} /\ h \in sent
    BY <1>1
  <2> HIDE DEF q
  <2> QED
    BY <2>1, <2>2, <2>3
<1>3. TypeOK'
  BY <1>1, <1>2 DEF DeliveryInv, TypeOK
<1>4. OneWay'
  BY <1>1, <1>2 DEF DeliveryInv, OneWay
<1> QED
  BY <1>1, <1>3, <1>4 DEF DeliveryInv, HeldOnce, QueuedOnce, SignedInTime,
                          EntryOutlivesFreshness, SignedRequests

(* A purge only shrinks the replay cache. *)
LEMMA PurgedShrinks ==
    ASSUME DeliveryInv
    PROVE  /\ Purged \in [Hint -> 0..MaxTime \cup {Never}]
           /\ \A x \in Hint : Purged[x] # Never => Purged[x] = seen[x]
           /\ \A x \in Hint : Purged[x] = Never /\ seen[x] # Never => seen[x] < now - MaxSkew
           /\ IsFiniteSet({x \in Hint : Purged[x] # Never})
           /\ Cardinality({x \in Hint : Purged[x] # Never}) <= SeenCapacity
<1> DEFINE old == {x \in Hint : seen[x] # Never}
           new == {x \in Hint : Purged[x] # Never}
<1>1. seen \in [Hint -> 0..MaxTime \cup {Never}] /\ IsFiniteSet(old) /\ Cardinality(old) <= SeenCapacity
  BY DEF DeliveryInv, TypeOK
<1>2. /\ Purged \in [Hint -> 0..MaxTime \cup {Never}]
      /\ \A x \in Hint : Purged[x] # Never => Purged[x] = seen[x]
      /\ \A x \in Hint : Purged[x] = Never /\ seen[x] # Never => seen[x] < now - MaxSkew
  BY <1>1 DEF Purged
<1>3. new \subseteq old
  BY <1>2
<1>4. IsFiniteSet(new) /\ Cardinality(new) <= Cardinality(old)
  BY <1>1, <1>3, FS_Subset
<1>5. Cardinality(new) \in Nat /\ Cardinality(old) \in Nat
  BY <1>1, <1>4, FS_CardinalityType
<1> QED
  BY <1>1, <1>2, <1>4, <1>5, Bounds

(* replayed keeps the cache within its limit. *)
LEMMA DecideKeepsSeen ==
    ASSUME DeliveryInv, NEW r \in handlers, Decide(r)
    PROVE  /\ seen' \in [Hint -> 0..MaxTime \cup {Never}]
           /\ IsFiniteSet({x \in Hint : seen'[x] # Never})
           /\ Cardinality({x \in Hint : seen'[x] # Never}) <= SeenCapacity
<1> DEFINE old == {x \in Hint : Purged[x] # Never}
           new == {x \in Hint : seen'[x] # Never}
<1>1. CASE seen' = Purged
  BY <1>1, PurgedShrinks
<1>2. CASE ~Full /\ seen' = [Purged EXCEPT ![r.hint] = now]
  <2>1. r.hint \in Hint /\ now \in 0..MaxTime
    BY DEF DeliveryInv, TypeOK, Handler
  <2>2. seen' \in [Hint -> 0..MaxTime \cup {Never}] /\ new \subseteq old \cup {r.hint}
    BY <1>2, <2>1, PurgedShrinks
  <2>3. IsFiniteSet(old) /\ Cardinality(old) \in Nat
    BY PurgedShrinks, FS_CardinalityType
  <2>4. Cardinality(old) < SeenCapacity
    BY <1>2, <2>3, Bounds DEF Full
  <2>5. IsFiniteSet(old \cup {r.hint}) /\ Cardinality(old \cup {r.hint}) <= Cardinality(old) + 1
        /\ Cardinality(old \cup {r.hint}) \in Nat
    <3>1. /\ IsFiniteSet(old \cup {r.hint})
          /\ Cardinality(old \cup {r.hint})
                = IF r.hint \in old THEN Cardinality(old) ELSE Cardinality(old) + 1
      BY <2>3, FS_AddElement
    <3> QED
      BY <2>3, <3>1
  <2>6. IsFiniteSet(new) /\ Cardinality(new) <= Cardinality(old \cup {r.hint})
        /\ Cardinality(new) \in Nat
    BY <2>2, <2>5, FS_Subset, FS_CardinalityType
  <2>7. Cardinality(new) <= SeenCapacity
    BY <2>3, <2>4, <2>5, <2>6, Bounds
  <2> QED
    BY <2>2, <2>6, <2>7
<1> QED
  BY <1>1, <1>2 DEF Decide

(* An entry is purged only when its request is stale, and a new one is as  *)
(* late as the request unless the sender's clock is ahead.                 *)
LEMMA DecideKeepsEntries ==
    ASSUME DeliveryInv, NEW r \in handlers, Decide(r)
    PROVE  EntryOutlivesFreshness'
<1>1. /\ UNCHANGED <<message, offset, now>>
      /\ accepted \subseteq sent /\ r.hint \in sent /\ sent \subseteq Hint
      /\ accepted' \subseteq accepted \cup {r.hint}
  BY DEF Decide, DeliveryInv, TypeOK, OneWay
<1>2. /\ now \in Int /\ offset \in Int /\ MaxSkew \in Nat
      /\ \A x \in sent : message[x].time \in Int /\ message[x].time <= now + offset
  BY <1>1, Bounds DEF DeliveryInv, TypeOK, SignedInTime
<1>3. seen \in [Hint -> 0..MaxTime \cup {Never}]
  BY DEF DeliveryInv, TypeOK
<1> SUFFICES ASSUME NEW x \in accepted', offset <= 0
             PROVE  \/ now - message[x].time > MaxSkew
                    \/ seen'[x] # Never /\ seen'[x] >= message[x].time
  BY <1>1 DEF EntryOutlivesFreshness
<1>4. x \in Hint /\ message[x].time \in Int /\ message[x].time <= now
  BY <1>1, <1>2
<1>5. CASE seen' = Purged /\ accepted' = accepted
  <2>1. \/ now - message[x].time > MaxSkew
        \/ seen[x] # Never /\ seen[x] >= message[x].time
    BY <1>5 DEF DeliveryInv, EntryOutlivesFreshness
  <2>2. CASE Purged[x] = Never /\ seen[x] # Never
    BY <1>2, <1>3, <1>4, <2>1, <2>2, PurgedShrinks, Bounds
  <2> QED
    BY <1>4, <1>5, <2>1, <2>2, PurgedShrinks
<1>6. CASE seen' = [Purged EXCEPT ![r.hint] = now]
  <2>1. CASE x = r.hint
    BY <1>2, <1>4, <1>6, <2>1, PurgedShrinks, Bounds
  <2>2. CASE x # r.hint
    <3>1. x \in accepted /\ seen'[x] = Purged[x]
      BY <1>1, <1>4, <1>6, <2>2, PurgedShrinks
    <3>2. \/ now - message[x].time > MaxSkew
          \/ seen[x] # Never /\ seen[x] >= message[x].time
      BY <3>1 DEF DeliveryInv, EntryOutlivesFreshness
    <3>3. CASE Purged[x] = Never /\ seen[x] # Never
      BY <1>2, <1>3, <1>4, <3>2, <3>3, PurgedShrinks, Bounds
    <3> QED
      BY <1>4, <3>1, <3>2, <3>3, PurgedShrinks
  <2> QED
    BY <2>1, <2>2
<1> QED
  BY <1>5, <1>6 DEF Decide

(* The answer of replayed, and the acceptance. *)
LEMMA DecideKeeps == ASSUME DeliveryInv, NEW r \in handlers, Decide(r) PROVE DeliveryInv'
<1> DEFINE h == r.hint
<1>1. /\ UNCHANGED <<tx, todo, pool, queue, client, secret, message, offset, sent, now, replays>>
      /\ handlers' \subseteq handlers
      /\ accepted' \subseteq accepted \cup {h}
  BY DEF Decide, keycloak
<1>2. h \in Hint /\ h \in sent
  BY DEF DeliveryInv, TypeOK, Handler, OneWay
<1>3. \/ stage' = stage
      \/ /\ stage[h] = "arrived"
         /\ \E s \in {"logged", "delivered"} : stage' = [stage EXCEPT ![h] = s]
  BY DEF Decide, Answer
<1>4. /\ stage' \in [Hint -> Stages]
      /\ \A x \in Hint : x # h => stage'[x] = stage[x]
      /\ stage'[h] # stage[h] => stage'[h] \in {"logged", "delivered"} /\ stage[h] = "arrived"
  <2>1. stage \in [Hint -> Stages] /\ {"logged", "delivered"} \subseteq Stages
    BY DEF DeliveryInv, TypeOK, Stages
  <2> HIDE DEF h
  <2>2. CASE stage' = stage
    BY <2>1, <2>2
  <2>3. ASSUME NEW s \in {"logged", "delivered"}, stage[h] = "arrived", stage' = [stage EXCEPT ![h] = s]
        PROVE  /\ stage' \in [Hint -> Stages]
               /\ \A x \in Hint : x # h => stage'[x] = stage[x]
               /\ stage'[h] \in {"logged", "delivered"}
    BY <1>2, <2>1, <2>3
  <2> QED
    BY <1>3, <2>2, <2>3
<1>5. Moves(h)
  <2>1. stage[h] \notin {"none", "queued"}
    BY <1>2 DEF DeliveryInv, OneWay
  <2> QED
    BY <1>1, <1>4, <2>1 DEF Moves
<1> HIDE DEF h
<1>6. TypeOK'
  <2>1. accepted' \subseteq Hint /\ handlers' \subseteq Handler
    BY <1>1, <1>2 DEF DeliveryInv, TypeOK
  <2> QED
    BY <1>1, <1>4, <2>1, DecideKeepsSeen DEF DeliveryInv, TypeOK
<1>7. OneWay'
  BY <1>1, <1>2, <1>4, <1>5, MovesKeeps DEF DeliveryInv, TypeOK, OneWay
<1>8. SignedInTime'
  BY <1>1, <1>4 DEF DeliveryInv, SignedInTime
<1>9. SignedRequests'
  BY <1>1 DEF DeliveryInv, SignedRequests
<1> QED
  BY <1>2, <1>5, <1>6, <1>7, <1>8, <1>9, MovesKeeps, DecideKeepsSeen, DecideKeepsEntries
     DEF DeliveryInv

(* Time only makes requests staler. *)
LEMMA TickKeeps == ASSUME DeliveryInv, Tick PROVE DeliveryInv'
<1>1. /\ now' = now + 1 /\ now' \in 0..MaxTime /\ now \in 0..MaxTime
      /\ UNCHANGED <<tx, todo, pool, queue, stage, client, secret, message, offset, sent>>
      /\ UNCHANGED <<handlers, seen, accepted, replays>>
  BY Bounds DEF Tick, keycloak, sender, receiver, DeliveryInv, TypeOK
<1>2. TypeOK'
  BY <1>1 DEF DeliveryInv, TypeOK
<1>3. offset \in Int /\ MaxSkew \in Nat /\ MaxTime \in Nat
  BY Bounds DEF DeliveryInv, TypeOK
<1>4. SignedInTime'
  BY <1>1, <1>3 DEF DeliveryInv, SignedInTime
<1>5. EntryOutlivesFreshness'
  <2> SUFFICES ASSUME NEW x \in accepted', offset' <= 0
               PROVE  \/ now' - message'[x].time > MaxSkew
                      \/ seen'[x] # Never /\ seen'[x] >= message'[x].time
    BY DEF EntryOutlivesFreshness
  <2>1. message[x].time \in Int
    BY <1>1 DEF DeliveryInv, TypeOK, OneWay, SignedInTime
  <2>2. \/ now - message[x].time > MaxSkew
        \/ seen[x] # Never /\ seen[x] >= message[x].time
    BY <1>1 DEF DeliveryInv, EntryOutlivesFreshness
  <2> QED
    BY <1>1, <1>3, <2>1, <2>2
<1> QED
  BY <1>1, <1>2, <1>4, <1>5 DEF DeliveryInv, HeldOnce, QueuedOnce, OneWay, SignedRequests

-------------------------------------------------------------------------------
(* DeliveryInv is kept by every step. *)
LEMMA DeliveryStep == DeliveryInv /\ [Next]_vars => DeliveryInv'
<1> SUFFICES ASSUME DeliveryInv, [Next]_vars
             PROVE  DeliveryInv'
  OBVIOUS
<1>1. CASE Listener
  BY <1>1, SubmitHintKeeps, TakeKeeps, SignKeeps, SendKeeps DEF Listener
<1>2. CASE Close
  BY <1>2, CloseKeeps
<1>3. CASE Requests
  BY <1>3, ArriveKeeps, RepeatKeeps, DecideKeeps DEF Requests
<1>4. CASE Others
  BY <1>4, AddHintKeeps, EndOfTxKeeps, CloseKeeps, TickKeeps DEF Others
<1>5. CASE UNCHANGED vars
  <2>1. /\ UNCHANGED <<tx, todo, pool, queue, stage, client, secret, message, offset, sent, now>>
        /\ UNCHANGED <<handlers, seen, accepted, replays>>
    BY <1>5 DEF vars, keycloak, sender, receiver
  <2>2. TypeOK' /\ OneWay'
    BY <2>1 DEF DeliveryInv, TypeOK, OneWay
  <2> QED
    BY <2>1, <2>2 DEF DeliveryInv, HeldOnce, QueuedOnce, SignedInTime, EntryOutlivesFreshness,
                      SignedRequests
<1> QED
  BY <1>1, <1>2, <1>3, <1>4, <1>5 DEF Next

(* DeliveryInv is an invariant of the delivery. *)
THEOREM DeliveryInvariant == Spec => []DeliveryInv
BY DeliveryInit, DeliveryStep, PTL DEF Spec

(* The queue of the executor and the replay cache of the receiver stay     *)
(* within their limits, and every variable keeps its type.                 *)
THEOREM DeliveryTypeOK == Spec => []TypeOK
<1>1. DeliveryInv => TypeOK
  BY DEF DeliveryInv
<1> QED
  BY DeliveryInvariant, <1>1, PTL

(* HintTransaction submits hints only after the commit: what a receiver    *)
(* accepts is never an event of a transaction that is open or rolled back. *)
THEOREM DeliveryHintsFollowCommit == Spec => []HintsFollowCommit
<1>1. DeliveryInv => HintsFollowCommit
  BY DEF DeliveryInv, TypeOK, OneWay, HintsFollowCommit
<1> QED
  BY DeliveryInvariant, <1>1, PTL

(* However close() races with the delivery threads, no request is out that *)
(* was signed with the zeroed secret.                                      *)
THEOREM DeliverySignedRequests == Spec => []SignedRequests
<1>1. DeliveryInv => SignedRequests
  BY DEF DeliveryInv
<1> QED
  BY DeliveryInvariant, <1>1, PTL

(* A repeated delivery is accepted only if the sender's clock is ahead or  *)
(* its timestamp turned stale on the way to the mutex: for every number of *)
(* repetitions, capacity of the replay cache and skew.                     *)
THEOREM DeliveryReplayRejected == Spec => ReplayRejected
<1> DEFINE Rejected == \A h \in accepted :
             seen'[h] \notin {seen[h], Never} => offset > 0 \/ ~Fresh(message[h].time)
<1>1. DeliveryInv /\ [Next]_vars => [Rejected]_vars
  <2> SUFFICES ASSUME DeliveryInv, Next, NEW h \in accepted, seen'[h] \notin {seen[h], Never}
               PROVE  offset > 0 \/ ~Fresh(message[h].time)
    OBVIOUS
  <2>2. PICK r \in handlers : Decide(r)
    <3>1. seen' # seen
      OBVIOUS
    <3> QED
      BY <3>1 DEF Next, Listener, Close, Requests, Others, SubmitHint, Take, Sign, Send, SendFails,
                  Stop, CloseClient, ZeroSecret, Arrive, Repeat, AddHint, Commit, Rollback,
                  Shutdown, Tick, receiver
  <2>3. /\ h \in Hint /\ message[h].time \in Int /\ now \in Int /\ offset \in Int
        /\ seen \in [Hint -> 0..MaxTime \cup {Never}]
    BY Bounds DEF DeliveryInv, TypeOK, OneWay, SignedInTime
  <2>4. Purged[h] = Never
    <3>1. CASE seen' = Purged
      BY <2>3, <3>1, PurgedShrinks
    <3>2. CASE Purged[r.hint] = Never /\ seen' = [Purged EXCEPT ![r.hint] = now]
      BY <2>3, <3>2, PurgedShrinks
    <3> QED
      BY <2>2, <3>1, <3>2 DEF Decide
  <2>5. CASE offset <= 0
    <3>1. \/ now - message[h].time > MaxSkew
          \/ seen[h] # Never /\ seen[h] >= message[h].time
      BY <2>5 DEF DeliveryInv, EntryOutlivesFreshness
    <3>2. now - message[h].time > MaxSkew
      BY <2>3, <2>4, <3>1, PurgedShrinks, Bounds
    <3> QED
      BY <2>3, <3>2, Bounds DEF Fresh
  <2> QED
    BY <2>3, <2>5
<1> QED
  BY DeliveryInvariant, <1>1, PTL DEF Spec, ReplayRejected

===============================================================================
