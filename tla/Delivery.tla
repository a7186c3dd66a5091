------------------------------- MODULE Delivery -------------------------------
(***************************************************************************)
(* The way of a hint from a Keycloak transaction to the webhook: the event *)
(* listener in Keycloak, which submits the hints of a transaction once it  *)
(* is committed to a bounded pool of delivery threads (HintTransaction,    *)
(* AsyncWebhookDispatcher, WebhookSender of                                *)
(* src/extensions/keycloak-event-listener), a network that loses, delays   *)
(* and repeats messages, and the receiver, which checks the timestamp, the *)
(* signature and the replay cache (src/internal/webhook/keycloak.go).      *)
(*                                                                         *)
(* What the receiver does with a hint that it accepts is in EventLoop.     *)
(* ThreadPoolExecutor and HttpClient are modelled by what they promise.    *)
(***************************************************************************)
EXTENDS Integers, Sequences, FiniteSets

CONSTANTS
    Tx,           \* Keycloak transactions
    HintsOf,      \* HintsOf[t]: the hints of a transaction, in order
    Workers,      \* delivery threads
    QueueCapacity,
    MaxSkew,      \* webhook.maxSkew, in ticks
    SeenCapacity, \* entries of the replay cache
    Offsets,      \* how far the sender's clock can be ahead of the receiver's
    Never,        \* the time of a delivery that is not in the replay cache
    MaxTime,      \* bound: ticks
    MaxReplays    \* bound: repeated arrivals

Hint == UNION {{HintsOf[t][i] : i \in 1..Len(HintsOf[t])} : t \in Tx}

TxOf(h) == CHOOSE t \in Tx : \E i \in 1..Len(HintsOf[t]) : HintsOf[t][i] = h

ASSUME BoundsAssumption ==
    /\ {Workers, QueueCapacity, MaxSkew, SeenCapacity} \subseteq Nat \ {0}
    /\ {MaxTime, MaxReplays} \subseteq Nat
    /\ Offsets \subseteq Int
    /\ Never \notin Int

(* Every hint is a delivery of its own, with an id that no other one has. *)
ASSUME HintsAssumption ==
    /\ \A t \in Tx : HintsOf[t] \in Seq(Hint)
    /\ \A t, u \in Tx : \A i \in 1..Len(HintsOf[t]), j \in 1..Len(HintsOf[u]) :
          HintsOf[t][i] = HintsOf[u][j] => t = u /\ i = j

VARIABLES
    \* Keycloak and the listener in it
    tx,        \* tx[t]: "open", "committed" or "rolledBack"
    todo,      \* todo[t]: hints that the transaction still holds
    pool,      \* the executor: "running", "shutdown", "stopped"
    queue,     \* its queue
    stage,     \* stage[h]: where the listener is with h
    client,    \* the HTTP client takes requests
    secret,    \* the listener's secret is not zeroed
    offset,    \* its clock is ahead by this much; never changes
    \* the network
    message,   \* message[h]: the request for h, as it was signed
    sent,      \* hints whose request has reached the network
    \* the receiver
    now,       \* its clock
    handlers,  \* requests between the checks and the replay cache
    seen,      \* seen[h]: when h entered the replay cache
    \* bounds
    replays,
    \* history
    accepted   \* hints that the receiver accepted

keycloak == <<tx, todo>>
sender == <<pool, queue, stage, client, secret, message>>
receiver == <<handlers, seen, accepted>>
vars == <<keycloak, sender, offset, sent, now, receiver, replays>>

Stages == {"none", "queued", "started", "signed", "sent", "arrived", "delivered", "logged"}

Message == [time : Int \cup {Never}, valid : BOOLEAN]

Handler == [hint : Hint, original : BOOLEAN]

TypeOK ==
    /\ tx \in [Tx -> {"open", "committed", "rolledBack"}]
    /\ todo \in [Tx -> Seq(Hint)]
    /\ pool \in {"running", "shutdown", "stopped"}
    /\ queue \in Seq(Hint) /\ Len(queue) <= QueueCapacity
    /\ stage \in [Hint -> Stages]
    /\ client \in BOOLEAN /\ secret \in BOOLEAN
    /\ offset \in Offsets
    /\ message \in [Hint -> Message]
    /\ sent \subseteq Hint
    /\ now \in 0..MaxTime
    /\ handlers \subseteq Handler
    /\ seen \in [Hint -> 0..MaxTime \cup {Never}]
    /\ Cardinality({h \in Hint : seen[h] # Never}) <= SeenCapacity
    /\ replays \in 0..MaxReplays
    /\ accepted \subseteq Hint

Init ==
    /\ tx = [t \in Tx |-> "open"]
    /\ todo = [t \in Tx |-> <<>>]
    /\ pool = "running"
    /\ queue = <<>>
    /\ stage = [h \in Hint |-> "none"]
    /\ client = TRUE
    /\ secret = TRUE
    /\ offset \in Offsets
    /\ message = [h \in Hint |-> [time |-> Never, valid |-> FALSE]]
    /\ sent = {}
    /\ now = 0
    /\ handlers = {}
    /\ seen = [h \in Hint |-> Never]
    /\ replays = 0
    /\ accepted = {}

-------------------------------------------------------------------------------
(* The executor: a thread of its own for the task, else the queue, else a  *)
(* rejection, which is logged.                                             *)

Busy == {h \in Hint : stage[h] \in {"started", "signed", "sent", "arrived"}}

Submit(h) ==
    CASE pool = "running" /\ Cardinality(Busy) < Workers ->
            stage' = [stage EXCEPT ![h] = "started"] /\ UNCHANGED queue
      [] pool = "running" /\ Cardinality(Busy) >= Workers /\ Len(queue) < QueueCapacity ->
            stage' = [stage EXCEPT ![h] = "queued"] /\ queue' = Append(queue, h)
      [] OTHER ->
            stage' = [stage EXCEPT ![h] = "logged"] /\ UNCHANGED queue

-------------------------------------------------------------------------------
(* The transaction *)

(* Mutant: a hint is submitted when its event happens. *)
AddHintAtOnce(t) ==
    /\ tx[t] = "open"
    /\ Len(todo[t]) < Len(HintsOf[t])
    /\ LET h == HintsOf[t][Len(todo[t]) + 1]
       IN  todo' = [todo EXCEPT ![t] = Append(@, h)] /\ Submit(h)
    /\ UNCHANGED <<tx, pool, client, secret, message, offset, sent, now, receiver, replays>>

(* onEvent *)
AddHint(t) ==
    /\ tx[t] = "open"
    /\ Len(todo[t]) < Len(HintsOf[t])
    /\ todo' = [todo EXCEPT ![t] = Append(@, HintsOf[t][Len(@) + 1])]
    /\ UNCHANGED <<tx, sender, offset, sent, now, receiver, replays>>

Commit(t) ==
    /\ tx[t] = "open"
    /\ tx' = [tx EXCEPT ![t] = "committed"]
    /\ UNCHANGED <<todo, sender, offset, sent, now, receiver, replays>>

Rollback(t) ==
    /\ tx[t] = "open"
    /\ tx' = [tx EXCEPT ![t] = "rolledBack"]
    /\ todo' = [todo EXCEPT ![t] = <<>>]
    /\ UNCHANGED <<sender, offset, sent, now, receiver, replays>>

(* commitImpl, after the completion of the transaction. *)
SubmitHint(t) ==
    /\ tx[t] = "committed"
    /\ todo[t] # <<>>
    /\ Submit(Head(todo[t]))
    /\ todo' = [todo EXCEPT ![t] = Tail(@)]
    /\ UNCHANGED <<tx, pool, client, secret, message, offset, sent, now, receiver, replays>>

-------------------------------------------------------------------------------
(* A delivery thread *)

Take ==
    /\ pool # "stopped"
    /\ queue # <<>>
    /\ Cardinality(Busy) < Workers
    /\ stage' = [stage EXCEPT ![Head(queue)] = "started"]
    /\ queue' = Tail(queue)
    /\ UNCHANGED <<keycloak, pool, client, secret, message, offset, sent, now, receiver, replays>>

Sign(h) ==
    /\ stage[h] = "started"
    /\ message' = [message EXCEPT ![h] = [time |-> now + offset, valid |-> secret]]
    /\ stage' = [stage EXCEPT ![h] = "signed"]
    /\ UNCHANGED <<keycloak, pool, queue, client, secret, offset, sent, now, receiver, replays>>

(* A client that was shut down throws, and the failure is logged. *)
Send(h) ==
    /\ stage[h] = "signed"
    /\ IF client
       THEN sent' = sent \cup {h} /\ stage' = [stage EXCEPT ![h] = "sent"]
       ELSE UNCHANGED sent /\ stage' = [stage EXCEPT ![h] = "logged"]
    /\ UNCHANGED <<keycloak, pool, queue, client, secret, message, offset, now, receiver, replays>>

(* A time-out, a broken connection, an interrupt. *)
SendFails(h) ==
    /\ stage[h] \in {"sent", "arrived"}
    /\ stage' = [stage EXCEPT ![h] = "logged"]
    /\ UNCHANGED <<keycloak, pool, queue, client, secret, message, offset, sent, now, receiver,
                   replays>>

-------------------------------------------------------------------------------
(* close() of the dispatcher: no new tasks; wait for the threads; if they  *)
(* do not end in time, drain the queue and interrupt them; then close the  *)
(* client and zero the secret.                                             *)

Shutdown ==
    /\ pool = "running"
    /\ pool' = "shutdown"
    /\ UNCHANGED <<keycloak, queue, stage, client, secret, message, offset, sent, now, receiver,
                   replays>>

(* Mutant: what is queued is given up without a word. *)
StopWithoutDrain ==
    /\ pool = "shutdown"
    /\ pool' = "stopped"
    /\ queue' = <<>>
    /\ UNCHANGED <<keycloak, stage, client, secret, message, offset, sent, now, receiver, replays>>

Stop ==
    /\ pool = "shutdown"
    /\ pool' = "stopped"
    /\ queue' = <<>>
    /\ stage' = [h \in Hint |-> IF stage[h] = "queued" THEN "logged" ELSE stage[h]]
    /\ UNCHANGED <<keycloak, client, secret, message, offset, sent, now, receiver, replays>>

CloseClient ==
    /\ pool = "stopped"
    /\ client
    /\ client' = FALSE
    /\ UNCHANGED <<keycloak, pool, queue, stage, secret, message, offset, sent, now, receiver,
                   replays>>

(* Mutant: the secret goes before the client does. *)
ZeroSecretFirst ==
    /\ pool = "stopped"
    /\ secret
    /\ secret' = FALSE
    /\ UNCHANGED <<keycloak, pool, queue, stage, client, message, offset, sent, now, receiver,
                   replays>>

ZeroSecret ==
    /\ pool = "stopped"
    /\ ~client
    /\ secret
    /\ secret' = FALSE
    /\ UNCHANGED <<keycloak, pool, queue, stage, client, message, offset, sent, now, receiver,
                   replays>>

-------------------------------------------------------------------------------
(* The receiver *)

Fresh(time) == now - time <= MaxSkew /\ time - now <= MaxSkew

(* The answer reaches the thread that still waits for it. *)
Answer(r, next) ==
    stage' = IF r.original /\ stage[r.hint] = "arrived" THEN [stage EXCEPT ![r.hint] = next]
                                                        ELSE stage

Accepts(m) == Fresh(m.time) /\ m.valid

(* A request arrives, and its timestamp and signature are checked. *)
Arrive(h) ==
    /\ stage[h] = "sent"
    /\ IF Accepts(message[h])
       THEN /\ handlers' = handlers \cup {[hint |-> h, original |-> TRUE]}
            /\ stage' = [stage EXCEPT ![h] = "arrived"]
       ELSE /\ stage' = [stage EXCEPT ![h] = "logged"]
            /\ UNCHANGED handlers
    /\ UNCHANGED <<keycloak, pool, queue, client, secret, message, offset, sent, now, seen,
                   accepted, replays>>

(* The same bytes arrive again, now or later.  Only a repetition that      *)
(* passes the first checks makes a difference.                             *)
Repeat(h) ==
    /\ h \in sent
    /\ replays < MaxReplays
    /\ replays' = replays + 1
    /\ Accepts(message[h])
    /\ handlers' = handlers \cup {[hint |-> h, original |-> FALSE]}
    /\ UNCHANGED <<keycloak, sender, offset, sent, now, seen, accepted>>

(* Mutant: an entry is dropped as soon as it is maxSkew old. *)
PurgedEarly == [h \in Hint |-> IF seen[h] # Never /\ seen[h] <= now - MaxSkew THEN Never
                                                                            ELSE seen[h]]

Purged == [h \in Hint |-> IF seen[h] # Never /\ seen[h] < now - MaxSkew THEN Never ELSE seen[h]]

(* Mutant: the limit is checked one entry too late. *)
FullLate == Cardinality({h \in Hint : Purged[h] # Never}) > SeenCapacity

Full == Cardinality({h \in Hint : Purged[h] # Never}) >= SeenCapacity

(* replayed, under the mutex, and the acceptance.  The cache is in memory: *)
(* the module is about one process of the receiver.                        *)
Decide(r) ==
    /\ r \in handlers
    /\ handlers' = handlers \ {r}
    /\ IF Purged[r.hint] # Never \/ Full
       THEN seen' = Purged /\ Answer(r, "logged") /\ UNCHANGED accepted
       ELSE /\ seen' = [Purged EXCEPT ![r.hint] = now]
            /\ accepted' = accepted \cup {r.hint}
            /\ Answer(r, "delivered")
    /\ UNCHANGED <<keycloak, pool, queue, client, secret, message, offset, sent, now, replays>>

(* Time passes also while a handler is between its two looks at the clock. *)
Tick ==
    /\ now < MaxTime
    /\ now' = now + 1
    /\ UNCHANGED <<keycloak, sender, offset, sent, receiver, replays>>

-------------------------------------------------------------------------------

Listener ==
    \/ \E t \in Tx : SubmitHint(t)
    \/ Take
    \/ \E h \in Hint : Sign(h) \/ Send(h) \/ SendFails(h)

Close == Stop \/ CloseClient \/ ZeroSecret

Requests == (\E h \in Hint : Arrive(h) \/ Repeat(h)) \/ (\E r \in handlers : Decide(r))

Others ==
    \/ \E t \in Tx : AddHint(t) \/ Commit(t) \/ Rollback(t)
    \/ Shutdown \/ Tick

Next == Listener \/ Close \/ Requests \/ Others

(* Threads run, and every request has a time-out.  close() goes on once it *)
(* has begun, because it waits for a bounded time.                         *)
Fairness == WF_vars(Listener) /\ WF_vars(Close)

Spec == Init /\ [][Next]_vars /\ Fairness

-------------------------------------------------------------------------------
(* Properties *)

(* A process of the receiver accepts a delivery a second time, however     *)
(* often and late it is repeated, in two cases only: the sender's clock is *)
(* ahead, which keeps the timestamp fresh beyond the life of its entry, or *)
(* the timestamp turned stale between the handler's check and its turn.    *)
ReplayRejected ==
    [][\A h \in accepted :
          seen'[h] \notin {seen[h], Never} => offset > 0 \/ ~Fresh(message[h].time)]_vars

(* No hint of a transaction that is open or was rolled back reaches a      *)
(* receiver: GroupBridge never reads for an event before its commit.       *)
HintsFollowCommit == \A h \in accepted : tx[TxOf(h)] = "committed"

(* No request leaves the listener that was signed with the zeroed secret,  *)
(* although close() races with the delivery threads.                       *)
SignedRequests == \A h \in sent : message[h].valid

(* Every hint of a committed transaction is accepted by a receiver, or the *)
(* log of the listener names it: dropped at a full queue or at shutdown,   *)
(* rejected, or failed.  The next poll makes up for those.                 *)
EveryHintAccounted ==
    \A h \in Hint :
       tx[TxOf(h)] = "committed" /\ h \in {todo[TxOf(h)][i] : i \in 1..Len(todo[TxOf(h)])}
          ~> h \in accepted \/ stage[h] = "logged"

(***************************************************************************)
(* What makes the safety properties inductive.  A hint moves one way, from *)
(* its transaction to the queue, a thread, the network and the receiver,   *)
(* so it is never signed again once its request is out; the secret goes    *)
(* only after the client; and while the sender's clock is not ahead, an    *)
(* accepted request has an entry as late as its timestamp, or is stale.    *)
(***************************************************************************)
HeldOnce ==
    \A t \in Tx : \A i \in 1..Len(todo[t]) :
       /\ TxOf(todo[t][i]) = t
       /\ stage[todo[t][i]] = "none"
       /\ tx[t] = "open" => i <= Len(HintsOf[t]) /\ todo[t][i] = HintsOf[t][i]
       /\ \A j \in 1..Len(todo[t]) : todo[t][i] = todo[t][j] => i = j

QueuedOnce ==
    \A i \in 1..Len(queue) :
       /\ stage[queue[i]] = "queued"
       /\ \A j \in 1..Len(queue) : queue[i] = queue[j] => i = j

OneWay ==
    /\ \A h \in Hint : stage[h] # "none" => tx[TxOf(h)] = "committed"
    /\ \A h \in sent : stage[h] \in {"sent", "arrived", "delivered", "logged"}
    /\ \A h \in Hint : stage[h] \in {"sent", "arrived", "delivered"} => h \in sent
    /\ \A r \in handlers : r.hint \in sent
    /\ accepted \subseteq sent

SignedInTime ==
    /\ client => secret
    /\ \A h \in Hint : client /\ stage[h] = "signed" => message[h].valid
    /\ \A h \in Hint : h \in sent \/ stage[h] = "signed" =>
          message[h].time \in Int /\ message[h].time <= now + offset

EntryOutlivesFreshness ==
    \A h \in accepted : offset <= 0 =>
       \/ now - message[h].time > MaxSkew
       \/ seen[h] # Never /\ seen[h] >= message[h].time

DeliveryInv ==
    /\ TypeOK
    /\ IsFiniteSet({h \in Hint : seen[h] # Never})
    /\ HeldOnce /\ QueuedOnce /\ OneWay /\ SignedInTime /\ EntryOutlivesFreshness
    /\ SignedRequests
===============================================================================
