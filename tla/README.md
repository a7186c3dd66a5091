# GroupBridge in TLA+

GroupBridge reads group memberships from Keycloak and writes them to GitLab; it
verifies, but never writes, the corresponding objects in Vault.  This directory
holds TLA+ models of its core, the TLC configurations that check them, and
machine-checked proofs of the properties that matter most.  `PROJECT.json` maps
every definition to the lines it stands for and lists runs, mutants, findings,
hazards and theorems.

## 1. The system

| Component | State it keeps | Operations | Source |
| --- | --- | --- | --- |
| Ownership ledger | records of memberships it created, absence counts, group mappings; one JSON file, one lock file | MarkManaged, Unmark, IsManaged, PutGroup, DeleteGroup, MoveGroup, ConfirmAbsent, ResetAbsent, Open, Close | `internal/state` |
| GitLab provider | none between runs but an identity cache | SyncGroup: ensure, bind, list, resolve, add, update, plan, remove | `internal/provider/gitlab` |
| Reconciler: planning | readiness, last full pass | RunOnce, RunGroupOnce, tombstones, retirement, migration of legacy keys | `internal/reconcile/reconciler.go` |
| Reconciler: event loop | batch in hand, time of the last repair | Run, waitForTriggerBurst, processEventBatch, runEventFullRepair | `internal/reconcile/reconciler.go`, `trigger.go` |
| Event queue | ready routes, delayed routes, one timer, a one-slot wake channel | Add, ScheduleGroup, AddGlobalAfter, Drain, releaseDue, Close | `internal/reconcile/events.go` |
| Routing index | HMAC route -> group, HMAC user -> groups, the secret | Replace, Update, Refresh, Resolve... | `internal/reconcile/events.go` |
| Credentials | last usable content of a file | StableLoader.Load | `internal/credential` |
| Webhook | recent delivery ids | verify, classify, replay check | `internal/webhook` |
| Keycloak source | access token | paged snapshots of groups and members | `internal/source/keycloak` |
| Vault provider | cached token | read-only verification, re-login | `internal/provider/vault` |
| Keycloak event listener (Java) | bounded queue, secret | after-commit hints, delivery, shutdown | `extensions/keycloak-event-listener` |
| Process lifecycle | | start, signal, ordered shutdown, error exits | `cmd/groupbridge/main.go` |

How they interact.  One worker goroutine runs passes: a full one at start and on
every tick, targeted ones for what the event queue holds.  A pass reads Keycloak,
plans jobs and calls SyncGroup for each, which talks to GitLab and saves the
ledger after every change.  HTTP handlers of the webhook add hints to the queue
at any time; a timer goroutine releases delayed hints; Kubernetes swaps the
secret file under webhook and worker; administrators change GitLab and Keycloak
between any two calls; the process is killed, or ends without waiting for the
worker, at any point.

What is hard here, and hard to test: a crash or a lost answer between a change in
GitLab and its record in the ledger; decisions taken on a listing that is stale
when they are carried out; counts of observations that persist across restarts; a
timer callback that waits for the mutex while others stop and re-arm the timer;
hints that arrive during the pass they concern; coalescing and overflow that drop
keyed work; a secret that changes between verification and lookup; two processes
on one state file; pages of a listing that shift while they are read; renames,
reused paths and changes of the allowlist that let two sources claim one target; a
shutdown that races with the threads it stops; the edges of two time windows.  Each is listed, at its line, under `hazards`.

What makes each component correct:

* ledger: one writer; an operation that returned nil survives everything, one that
  failed is invisible to its caller, nothing in between is ever read;
* GitLab provider: it removes only what it may, only after two observations, no
  more than the limit, only in the group the source is durably bound to; it never
  claims a membership it did not create; it converges once all is quiet;
* event queue and loop: no hint and no wake-up is lost, delayed work is never
  stranded, the queue is bounded, every hint is followed by a pass;
* routing index: incremental maintenance equals a rebuild, and what the webhook
  verified the worker can resolve;
* reconciler: one source per GitLab group, no access taken away by a rename, a
  missed page, a failed pass or a restart alone, and convergence of each group
  whatever happens to the others;
* listener and webhook: no hint before its commit, none lost without a trace, none
  signed with a wiped secret, none accepted twice within its window.

## 2. The modules

```
LedgerContents      contents of the ledger and what each operation makes of them
AtomicLedger        what state.Store promises           <-- implemented by -- Ledger
   ^ used by                                                                   |
GitLabSync          SyncGroup, step by step                               LedgerProofs
                                                        --- GitLabSyncProofs

DirtyQueue          the queue as its two users see it    <-- implemented by -- EventQueue
   ^ extended by                                                               |
EventLoop           the worker, the webhook, the timer                 EventQueueProofs
                                                        --- EventLoopProofs

RouteIndex          routing index and shared secret     --- RouteIndexProofs

Reconciler          full and targeted passes over all groups and rules
                    (uses LedgerContents; SyncGroup is one step with the
                    outcomes that GitLabSync shows)     --- ReconcilerProofs
Delivery            Keycloak transaction, listener,
                    network, webhook                    --- DeliveryProofs
```

Each module is instantiated for TLC by the module `MC...` of its name.

**LedgerContents, AtomicLedger, Ledger.**  `LedgerContents` has the three maps and
one operator per operation of `Store`.  `Ledger` has the memory of every process
(`mem`), the file (`disk`), the lock, and `durable`, the contents the file can
have after a power loss.  A save is the steps of `save`: write and sync a
temporary file, `Rename`, `SyncDir`; each can fail (`SaveFails`, `SyncDirFails`),
and a failed one rolls the map back in memory although after a failed directory
sync the file has been replaced.  `CloseAfterWorkers` is the ordered shutdown,
`CloseEarly` the error returns of `main.run`.  `OrderlySpec` leaves out
`CloseEarly`, `Spec` has it.  `AtomicLedger` knows only the value in use and the
contents a restart can find.

**GitLabSync** is SyncGroup for one source group under one rule, one step per HTTP
call or save, with the start of the run, the read of the members from Keycloak one
page at a time (`ReadPage`; a user that comes twice, or a group that is gone, ends
the pass) and the retirement of tombstones from the reconciler.  `run` holds the
local variables; its `pc` follows the order of the function.  The members of the
GitLab group are read one per page by their place in GitLab's order, `rows`
(`ListMembers`): whoever joins or leaves between two pages shifts the rest, so that a
member comes twice or not at all.  The code checks for neither.  The slice it appends
to is `entries`, which the removal loop uses up entry by entry (`PlanSkip`,
`PlanRemoval`), and the map it fills from the slice is `listed`.  Every call can fail before it took effect (`CallFails`) or after
(`Answered`), every save can fail with and without being found later (`Save`), the
process is killed at any step (`Kill`) and restarts with any surviving ledger.
The other actors change Keycloak memberships and accounts, grant and revoke by
hand, delete, move and recreate the GitLab group, and select or deselect the
source group.  The ledger is used through the variables of `AtomicLedger`, and
`UsesAtomicLedger` checks that it is used through that interface only.  History are
`made`, `observed` (runs that planned the removal of a membership since it was last
synced), `disturbed` (memberships planned so by a run whose listing of the GitLab
group had somebody join or leave in between), and the run's `quiet`, `steady` and
`counted`.

**DirtyQueue, EventQueue.**  `DirtyQueue` is the queue without time: delayed keys
are released some time later.  `EventQueue` adds due times (as time left), the
timer the queue points to, armed timers it has forgotten (`releaseDue` sets
`q.timer` to nil without stopping it), and callbacks that have started and wait
for the mutex.

**EventLoop** extends `DirtyQueue` with the worker.  A pass begins and ends in two
steps, because a hint that arrives in between is not served by it.  `owed` and
`covered` are history: what was asked for and not read since, and the part of it
that the running pass began after.  Answers of the routing index are
nondeterministic; a user is known exactly if it fans out to some group, which is
what `IndexConsistent` of `RouteIndex` establishes.

**RouteIndex** is the index, its incremental update, and the `StableLoader` shared
by webhook and worker, while the file is swapped and may be unusable for a while.

**Reconciler** is a pass over all groups and rules.  `pass` holds its local
variables and where it is: listing groups page by page (`ListPage`), reading their
members (`Collect`), moving legacy mappings one by one and planning (`Migrate`,
`Plan`), the jobs in any order (`Apply...`), the end.  A targeted pass starts at the
plan with one group.  The operators from `Selects` to `BuildFails` are the planning
loop of `reconcileGroups`; what a job makes of the ledger is `Retired`, in terms of
the operators of `LedgerContents`.  Groups are created, renamed and deleted in
Keycloak between any two steps, Vault goes down or differs from Git, GitLab groups
are deleted under their mappings, calls fail, the process restarts with another
allowlist.  `lost` and `disturbed` are history for `AccessKept`.

**Delivery** follows hints from an open Keycloak transaction through the listener's
thread pool over a network that loses, delays and repeats requests to the webhook,
which checks timestamp and signature (`Arrive`, `Repeat`) and, under its mutex, the
replay cache (`Decide`); time may pass between the two.  `Shutdown`, `Stop`,
`CloseClient` and `ZeroSecret` are the steps of closing the listener, each of which
races with the threads.  What an accepted hint does is in `EventLoop`.

### Abstractions

* A user is a Keycloak user together with the GitLab account it resolves to;
  matching by identity provider, name or email, and the identity cache, are
  left out.  What remains of `findUser` is whether an active account exists at
  the time of the call.
* A page holds one member, of Keycloak as of GitLab.  Keycloak orders its users the
  same way every time; a new member of a GitLab group comes anywhere in GitLab's
  order, because the code asks for none.
* Intermediate subgroups are not modelled: ensureGroup finds or creates one
  group.
* An HMAC is the tuple of its inputs.
* In `GitLabSync` a rule's `allowlist` stands for `sourceGroupPaths`: deselection is
  then a change of configuration, that is a restart, and its tombstone removes
  without a second observation.  A listed path that is missing in Keycloak holds
  its mapping and starts no run; `Reconciler` has that case.
* In `Reconciler` a Keycloak group stands for all of its people, GitLab memberships
  are the recorded ones (managed-only), groups are not nested, one group makes a
  page, and a hint may target any group.  SyncGroup is one step (`Synced`), or fails at
  one of three points: refusals that do not depend on other groups (circuit breaker,
  unresolved users, exempt members, custom roles) and what a failure leaves half done
  among one group's members are in `GitLabSync`, and so are the reasons for which
  a group that is refused for good does not converge.  GitLab's health check is one of the
  calls that fail.  A Vault job verifies and changes nothing.
* In `Delivery` the executor and the HTTP client are modelled by what they promise:
  a thread, else the queue, else a rejection; a client that was shut down takes no
  request.  A request is its timestamp and whether its signature is valid.  One
  process of the webhook is modelled: its replay cache is in memory, so a restart
  forgets it.
* Absence counts are capped at 2, the number the code compares with.
* Metrics, logs and error texts are left out.

## 3. What TLC checks

| Run | Shows |
| --- | --- |
| `ledger` | `SingleWriter`; the ledger implements `AtomicLedger` through failed saves, kills and power loss |
| `ledger_early_close` (violated) | the error returns of `main.run` break `SingleWriter` |
| `gitlab_sync` | two users, two group ids: what is removed (`SteadyRemovalSeenTwice`, `OnlyOwnRemoved`, `PrincipalsKept`, `QuietMeansGone`, `BreakerHolds`, `RetiredMeansRevoked`), what is recorded (`RecordsTruthful`, `BoundBeforeChange`, `UsesAtomicLedger`), and `Convergence` |
| `gitlab_exempt` (violated) | `ExemptKept`: exempt members lose access |
| `gitlab_twice` (violated) | `RemovalSeenTwice`: one snapshot is enough if a page of GitLab shifts |
| `event_queue` | `TimerCoversDelayed`, `Capacity`, `OverdueReleased`; the queue implements `DirtyQueue` |
| `event_loop` | `WakeNotLost`, `NoHintForgotten`, `EveryHintRead` |
| `event_loop_confirm` (violated) | the second read of a revocation is dropped |
| `route_index` | `IndexConsistent`, `AcceptedResolves` |
| `reconciler` | two groups, one GitLab and one Vault rule, with and without an allowlist: `OneSourcePerTarget`, `AccessKept`, `Convergence` |
| `reconciler_collision` (violated) | two rules, one target parent: targeted passes write to one GitLab group for two sources |
| `delivery` | `HintsFollowCommit`, `SignedRequests`, `ReplayRejected`, `EveryHintAccounted` |

Run one with `tlc -config <cfg> <module>`, as `PROJECT.json` pairs them.

### Bounds

* `Ledger`: two processes are enough for a second writer; one membership key and
  two source keys let `MoveGroup` move between a legacy and a canonical key, with
  two targets that can conflict.  `MaxUnsynced` = 3 contents between which a power
  loss can choose: several failed directory syncs in a row.
* `GitLabSync`: two users, so that a page can shift, one user can be unresolved
  while another is to be removed, and the breaker (`maxRemovals` = 1) is reached and
  passed; two group ids, which is what recreation needs.  `MaxEnv` = 2 changes by
  others and `MaxFaults` = 1 failure or kill anywhere: two changes cover a leave with
  a return, a revocation with a grant between two pages, a deletion with a recreation,
  and the group may have members at the start.  One rule is managed-only with an
  allowlist and a protected user, the other authoritative and adopting, enforces the
  level, and its token's user is in the source.  Prune `none` removes nothing by
  `Prunable` and is not run.  The passing run has about a million states and takes
  three minutes with two workers.  The two violated runs need no failure and
  one group id; only `gitlab_exempt` has Owners and maintainers among the grants.
  Safety is proved for every bound.
* `EventQueue`: delays 1, 2 and 2 keep the order of the code's delays (the
  confirmation is the shortest), two callbacks can wait for the mutex at once,
  and capacity 3 is below the number of routes and delayed keys.
* `EventLoop`: one group and one user with capacity 2, so that overflow happens;
  the safety properties are proved for every size.
* `RouteIndex`: two groups, two users, two secrets, two waiting hints; proved for
  every size.

* `Reconciler`: two groups and three paths, one of which has no name in GitLab;
  `MaxEnv` = 3 changes in Keycloak are enough for create, rename and reuse of the
  old path, or delete and recreate; one restart changes the mode in either
  direction; one failed call and one outage can hit any step.  The allowlist holds
  one path.  The run with two rules has what a collision across rules needs.
* `Delivery`: three hints, one thread and a queue of one, so that the queue
  overflows; `MaxSkew` = 1 and three points in time, so that an entry and a
  timestamp run out at every distance from each other; one repetition; a replay
  cache of two, so that it is full; a clock in step or one tick ahead.

Symmetry is used only in runs without liveness (`ledger`, `route_index`).
`CHECK_DEADLOCK FALSE` is set for the event loop (after `Stop` the worker is gone)
and for `delivery` (after the shutdown of the listener, once all requests are
answered): there the system really ends.

### Fairness

* `GitLabSync`: weak fairness of the client.  The poll loop starts a pass again
  and again, and inside a pass the code waits only for calls, which have a
  timeout.  Failures and others are stopped by their bounds only.
* `EventQueue`: time passes, a timer that ran out fires, a started callback gets
  the mutex.
* `EventLoop`: weak fairness of the worker's own steps (a burst ends within
  `eventMaxDelay`, every call has a timeout) and of the end of the rate limit;
  strong fairness of `WakeUp`, because a Go select chooses uniformly among ready
  cases and the ticker therefore cannot win for ever; strong fairness of the
  release of a delayed repair: `OverdueReleased` of `EventQueue` shows that what is
  due is released, and putting the repair off again asks only for what is left of
  the same interval.  Nothing is assumed of other delayed work (a stream of
  revocations can postpone its own confirmation), of the ticker, of the success of
  a pass or of the webhook.

* `Reconciler`: weak fairness of the steps of a pass, because every call has a
  timeout; strong fairness of `StartFull`, because the ticker fires again and again
  and a select takes a ready case sooner or later, however many hints come.  Nothing
  is assumed of targeted passes, so convergence rests on full ones alone.
* `Delivery`: weak fairness of the delivery threads and of a shutdown that has begun:
  every request has a timeout and the wait for the threads is bounded.  Nothing is
  assumed of the network, the webhook or the end of a transaction.

### Findings

Five runs show that the code does not do what the repository's documents say; the
quotations are in `PROJECT.json`.

1. `main.run` returns on a listener error or a failed `Shutdown` without waiting
   for the worker, and the deferred `Close` releases the lock while it can still
   save.  The ledger is then not single-writer.  In one container with one replica
   the process ends right after; the window is that of the exit.
2. With `enforceAccessLevel`, SyncGroup lowers the level of protected users and of
   the token's own user: both are looked at only for removals.  And nothing is looked
   at again before a change: whoever became an Owner, or got a custom role, after the
   run listed the group is lowered or removed as what they were.
3. Two rules with different prefixes and one target parent can give two groups the
   same GitLab path.  A full pass fails on it before it changes anything; a targeted
   pass holds one group and compares only with mappings of its own rule, so both
   groups are bound to, and written into, one GitLab group.
4. A revocation in a batch that also triggers a successful full repair loses its
   second exact read; the removal waits for the next tick.
5. The pages of a GitLab group's members are joined without a look for duplicates,
   and every entry counts as an observation.  If a change between two pages puts a
   member on both, the first run that misses the member in Keycloak counts twice and
   removes at once, where two complete snapshots are promised.  What holds instead is
   `SteadyRemovalSeenTwice`: both counts are of different runs unless somebody joined
   or left the GitLab group during one of the listings.

Two more limits are at odds with a document, and have no violated run of their own:

* With an allowlist of two paths, the mapping of the one that is absent in Keycloak
  is held and skipped before the check for tombstone collisions
  (`reconciler.go:359`).  If a group under the first path was renamed to the second
  while the rule had no allowlist, and so kept its target, both listed paths can
  afterwards be bound to that target.  This contradicts the line of
  `docs/architecture.md` (33) that finding 3 quotes, by another way.
  `OneSourcePerTarget` is checked with one listed path, and proved for rules that do
  not change mode like this.
* A delivery can be accepted twice if the sender's clock is ahead, or if a handler is
  paused between its two looks at the clock; the replay cache then no longer covers
  the time in which the timestamp is fresh.  The repository's README (26) calls the
  hints replay-protected without these exceptions; hints are idempotent, so that a
  repetition costs a pass and grants nothing.

Limits that a reader should know, and that no document rules out:

* A kill or a lost answer between adding a member and recording it leaves a
  membership that managed-only never removes, although GroupBridge created it.  It
  is the price of `RecordsTruthful`: nothing that was there is adopted.
* A member whom a shifted page of GitLab leaves out is not revoked by that run; if it
  is the last run of a tombstone, the mapping is retired all the same
  (`RetiredMeansRevoked` is about those listed).
* A plan that fails does so in every full pass until someone intervenes: after a
  change from an allowlist to the whole prefix (the path keys collide with the ids),
  after a group was deleted and recreated under its path without an allowlist (it
  collides with its own tombstone), with legacy mappings of one path that disagree.
  `Refusing` in `Convergence` names these cases.  A targeted pass can also report a
  collision that is none, because mappings before the group's own are compared with
  the name made from its new path (`TargetedCollision`).

## 4. What is proved

TLAPS checks the proofs for every value of the constants that satisfies the named
assumptions; check those of a module with `tlapm <module>.tla`.  Every invariant and
every action property that a passing run checks is a theorem, but for `AccessKept`.
The inductive invariants were model-checked on the instances of the runs first.

* **LedgerProofs.**  `LedgerInv` is inductive: a process is up exactly while it
  holds the lock, a save in progress is one operation away from what it started
  from, after the rename the file is what that save wrote, and the file is among
  the contents a power loss can leave.  From it follow `SingleWriter` and, step by
  step, the refinement: `Rename` maps to `Attempt`, `SyncDir` to `Commit`,
  `SyncDirFails` and `SaveFails` to stuttering, `Crash` to `Stop`.  The second
  conjunct is needed for `Commit`, the third because `SyncDir` leaves exactly the
  file to be found.  Both are about `OrderlySpec`; the types hold for `Spec`, early
  closes included.  Assumptions: `Nobody` is no process and `Closed` no contents.
* **GitLabSyncProofs.**  `GitLabInv` is inductive over every step of SyncGroup, every
  way a call or a save can fail, kills, restarts and all changes by others.  Its
  parts: every version of the ledger that a restart can find claims no membership
  that was not made and counts no more absences than were observed,
  unless a listing was disturbed (`LedgerTruthful`); once the binding is saved, a
  restart finds what the run works on (`Settled`); removals done and still planned stay
  within the limit (`WithinBreaker`); whoever is to be removed is not desired, neither
  protected nor the token's user, prunable, and observed by two runs or disturbed
  (`RemovalsJustified`); GitLab
  has each member in one place (`RowsDistinct`), so a listing that nothing disturbed is
  a beginning of GitLab's order and has nobody twice (`EntriesDistinct`), and neither
  has the plan made from it (`RemovalsDistinct`); while Keycloak is quiet, what the
  pages gave so far is a beginning of Keycloak's order, so the snapshot misses nobody
  (`SnapshotComplete`); with a tombstone, what could still be revoked has an entry ahead
  (`EntriesListed`), is planned or pending (`RevocationsLeft`).  The action properties
  follow, because a removal takes its user from the plan.  `EntriesDistinct` is what
  makes a count of two mean two runs; `SnapshotComplete` rests on a lemma on lists read
  by offset: if what was read is a beginning of an unchanged list, the page at that
  offset continues it or is empty at its end.  `GitLabUsesAtomicLedger` is the
  refinement of the interface, so these results hold over the state file by
  `LedgerImplementsAtomicLedger`.  Assumptions: a finite set of users, ordered as
  Keycloak orders them, at least one group, limits in Nat, no mapping equal to
  `NoMapping`, no contents equal to `Closed`.
* **EventQueueProofs.**  `TypeOK`, `TimerCoversDelayed` and `Capacity` are inductive
  together.  For the second: whoever rearms the timer arms it for the minimum of the
  due times, a tick keeps the order of times, a timer that fires leaves a callback,
  and the callback that is used up rearms.  For the third: released keys take no
  more room as routes than they took as keys, since a key has one route.  The
  refinement maps `ReleaseDue` to `Release` of the expired keys, `Schedule` of a key
  that is there, `Fire`, `Tick` and callbacks after `Close` to steps that leave the
  abstract queue alone.  Assumptions: finite sets of routes, a positive capacity,
  positive delays, hints as the webhook classifies them.
* **EventLoopProofs.**  `LoopInv` replaces `ReadAhead` by `Ahead`, which counts the
  batch in hand only at the steps from which the worker still gets to it;
  `NoHintForgotten` alone is not inductive, because it does not say where in
  `processEventBatch` a resolved group may be.  Lemmas say what `Add`, `Schedule`
  and `Release` keep ahead.  Assumptions: those of the queue.
* **RouteIndexProofs.**  `RouteInv` adds to `IndexConsistent` that a hint which is
  not outdated was accepted under the secret the loader still has, also while the
  file is unusable.
* **ReconcilerProofs.**  The types hold for every configuration; the one thing to
  show is that no job of a plan has an unsafe or unmatched target, which
  `BuildFails` and `Selects` see to.  `OneSourcePerTarget` does not hold for every
  configuration (findings, above), so its theorem has a hypothesis on the
  configuration, `SoundRules`: GitLab rules never name the same target, and each
  rule always has an allowlist, or else never one of several paths.  What it leaves
  out are the two ways to a collision that are known: two rules with one target
  parent, and a change between a whole prefix and a list of several paths.  `ReconcilerInv` adds that no
  other mapping has the target of a job still to run (`JobsFree`) and that jobs of
  different sources have different targets (`JobsApart`): the plan compares once, and
  the ledger changes with every job after it.  In a full plan every mapping of the
  rule is picked, a tombstone, or held.  A held one that is not the mapping of the
  group picked is held for another listed path, since no legacy mapping is left at
  that point; the rule then lists several paths, so it always had an allowlist, every
  mapping has the target of its path, and `Validate` keeps those apart
  (`ConfigsAssumption`).  A targeted plan compares with the established target or with
  the path's own name, depending on the order of keys; both are the target of the job
  if it has no mapping yet, and if it has one the invariant says that no other mapping
  has it.  Assumptions: ids and paths in the order of their keys, targets and
  allowlists as the configuration is validated, bounds in Nat.
* **DeliveryProofs.**  `DeliveryInv` says that a hint moves one way, from its
  transaction to queue, thread, network and receiver (`HeldOnce`, `QueuedOnce`,
  `OneWay`), so its request is signed once; that the secret is zeroed only after the
  client is closed, and what is signed while the client is open is valid
  (`SignedInTime`); and that, unless the sender's clock is ahead, an accepted request
  is stale or has an entry at least as late as its timestamp
  (`EntryOutlivesFreshness`), which the purge of old entries keeps.
  Assumption: every hint is a delivery of its own.

Only model-checked:

* all liveness (both `Convergence`, `EveryHintRead`, `OverdueReleased`,
  `EveryHintAccounted`): fairness and ENABLED are outside the prover's reach;
* `AccessKept` of `Reconciler`: it relates the count `lost` to what the snapshot
  showed when the read ended, across migrations that change targets in between, and
  needs an invariant of its own.

## 5. Plan

The most important behaviour came first: the ledger and SyncGroup decide what
access is granted and removed, the event path decides when, the reconciler decides
for whom.  All of it is modelled, and the safety properties are proved but for one.
What is left:

1. `Reconciler`: `AccessKept` under `SoundRules`.  The invariant has to say that every
   recorded membership of a mapped target was shown by the read, or counted as lost
   once more than the ledger has observed it absent; and that a target with records
   has a mapping.

## 6. Not modelled

* HTTP serving, reload of TLS certificates, metrics and the readiness flag, parsing
  and validation of configuration and credentials, the provider registry and plain
  data types, the Helm chart, the demo and scripts: pure I/O, static checks or no
  state.
* The access tokens for Keycloak and Vault: one pass runs at a time, a rejected token
  is fetched again once, and what is left of it is a failed call, which the models
  have.  The contents of Vault policies are compared as a whole: they match or not.
* The filters of the event listener and `classify` of the webhook, which are tables
  of event kinds.  They differ: the listener passes on every operation on
  `users/x/groups/y`, the webhook accepts those it knows.
* The exit of Keycloak's process, which ends the listener's daemon threads at once.
* Nested groups, intermediate GitLab subgroups, matching of accounts.
