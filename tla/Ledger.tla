-------------------------------- MODULE Ledger --------------------------------
(***************************************************************************)
(* The ownership ledger as GroupBridge keeps it (src/internal/state): maps *)
(* in the memory of a process, one file that every mutating operation      *)
(* replaces (write and sync a temporary file, rename it, sync the          *)
(* directory), and an flock on a second file that keeps other processes    *)
(* out.  Processes start, stop in order, are killed, or lose power at any  *)
(* step, and every system call of a save can fail.                         *)
(*                                                                         *)
(* The one worker goroutine of a process runs the operations one by one    *)
(* under the Store's mutex, so a process is idle or inside one save.       *)
(***************************************************************************)
EXTENDS LedgerContents, FiniteSets

CONSTANTS
    Proc,         \* processes started on the same state path
    Nobody,       \* the owner of a free lock
    Closed,       \* see AtomicLedger
    MaxUnsynced   \* bound: contents between which a power loss can choose

ASSUME NobodyAssumption == Nobody \notin Proc

ASSUME ClosedAssumption == Closed \notin Contents

VARIABLES
    lock,      \* holder of the flock on path.lock
    phase,     \* phase[p]: "down", "idle", "saving" (before the rename) or "renamed"
    mem,       \* mem[p]: the maps in the memory of p
    prev,      \* prev[p]: what a failed save rolls back to
    disk,      \* the contents of the state file
    durable    \* the contents the state file can have after a power loss

vars == <<lock, phase, mem, prev, disk, durable>>

TypeOK ==
    /\ lock \in Proc \cup {Nobody}
    /\ phase \in [Proc -> {"down", "idle", "saving", "renamed"}]
    /\ mem \in [Proc -> Contents]
    /\ prev \in [Proc -> Contents]
    /\ disk \in Contents
    /\ durable \in SUBSET Contents

Init ==
    /\ lock = Nobody
    /\ phase = [p \in Proc |-> "down"]
    /\ mem = [p \in Proc |-> EmptyContents]
    /\ prev = [p \in Proc |-> EmptyContents]
    /\ disk = EmptyContents
    /\ durable = {EmptyContents}

-------------------------------------------------------------------------------
(* Opening *)

(* Mutant: the flock is not asked for exclusively. *)
OpenWithoutLock(p) ==
    /\ phase[p] = "down"
    /\ lock' = p
    /\ phase' = [phase EXCEPT ![p] = "idle"]
    /\ mem' = [mem EXCEPT ![p] = disk]
    /\ prev' = [prev EXCEPT ![p] = disk]
    /\ UNCHANGED <<disk, durable>>

(* A free lock is taken and the file read.  A held lock, or a file that    *)
(* cannot be read, ends the process before it has done anything.           *)
Open(p) ==
    /\ phase[p] = "down"
    /\ lock = Nobody
    /\ lock' = p
    /\ phase' = [phase EXCEPT ![p] = "idle"]
    /\ mem' = [mem EXCEPT ![p] = disk]
    /\ prev' = [prev EXCEPT ![p] = disk]
    /\ UNCHANGED <<disk, durable>>

-------------------------------------------------------------------------------
(* The operations.  None of them looks at lockFile: an open Store and a    *)
(* closed one behave alike.                                                *)

(* The map is changed in memory, and the save of all three maps begins. *)
BeginSave(p, c) ==
    /\ phase[p] = "idle"
    /\ phase' = [phase EXCEPT ![p] = "saving"]
    /\ mem' = [mem EXCEPT ![p] = c]
    /\ prev' = [prev EXCEPT ![p] = mem[p]]
    /\ UNCHANGED <<lock, disk, durable>>

MarkManagedOp(p, m) == BeginSave(p, MarkManaged(mem[p], m))

UnmarkOp(p, m) == BeginSave(p, Unmark(mem[p], m))

PutGroupOp(p, s, mapping) == BeginSave(p, PutGroup(mem[p], s, mapping))

DeleteGroupOp(p, s) ==
    /\ Mapped(mem[p], s)
    /\ BeginSave(p, DeleteGroup(mem[p], s))

MoveGroupOp(p, old, new, native) ==
    /\ old # new
    /\ CanMoveGroup(mem[p], old, new)
    /\ BeginSave(p, MoveGroup(mem[p], old, new, native))

ConfirmAbsentOp(p, m) == BeginSave(p, ConfirmAbsent(mem[p], m))

ResetAbsentOp(p, m) ==
    /\ mem[p].absences[m] > 0
    /\ BeginSave(p, ResetAbsent(mem[p], m))

Operation(p) ==
    \/ \E m \in Member : MarkManagedOp(p, m)
    \/ \E m \in Member : UnmarkOp(p, m)
    \/ \E s \in Source, g \in Mapping : PutGroupOp(p, s, g)
    \/ \E s \in Source : DeleteGroupOp(p, s)
    \/ \E old, new \in Source, n \in Native : MoveGroupOp(p, old, new, n)
    \/ \E m \in Member : ConfirmAbsentOp(p, m)
    \/ \E m \in Member : ResetAbsentOp(p, m)

-------------------------------------------------------------------------------
(* The steps of a save *)

(* Something up to and including the rename failed. *)
SaveFails(p) ==
    /\ phase[p] = "saving"
    /\ phase' = [phase EXCEPT ![p] = "idle"]
    /\ mem' = [mem EXCEPT ![p] = prev[p]]
    /\ UNCHANGED <<lock, prev, disk, durable>>

(* The synced temporary file replaces the state file; until the directory  *)
(* is synced a power loss can still bring back what was there before.      *)
Rename(p) ==
    /\ phase[p] = "saving"
    /\ Cardinality(durable) < MaxUnsynced
    /\ phase' = [phase EXCEPT ![p] = "renamed"]
    /\ disk' = mem[p]
    /\ durable' = durable \cup {mem[p]}
    /\ UNCHANGED <<lock, mem, prev>>

(* The directory is synced and the operation returns nil. *)
SyncDir(p) ==
    /\ phase[p] = "renamed"
    /\ phase' = [phase EXCEPT ![p] = "idle"]
    /\ prev' = [prev EXCEPT ![p] = mem[p]]
    /\ durable' = {disk}
    /\ UNCHANGED <<lock, mem, disk>>

(* Mutant: a save that failed late is not rolled back in memory. *)
SyncDirFailsKeepingMemory(p) ==
    /\ phase[p] = "renamed"
    /\ phase' = [phase EXCEPT ![p] = "idle"]
    /\ UNCHANGED <<lock, mem, prev, disk, durable>>

(* The directory cannot be opened, synced or closed: the operation returns *)
(* an error and rolls its map back, but the file has been replaced.        *)
SyncDirFails(p) ==
    /\ phase[p] = "renamed"
    /\ phase' = [phase EXCEPT ![p] = "idle"]
    /\ mem' = [mem EXCEPT ![p] = prev[p]]
    /\ UNCHANGED <<lock, prev, disk, durable>>

Save(p) == SaveFails(p) \/ Rename(p) \/ SyncDir(p) \/ SyncDirFails(p)

-------------------------------------------------------------------------------
(* Stopping *)

(* The memory of a process that ended is gone. *)
Forget(P) ==
    /\ mem' = [p \in Proc |-> IF p \in P THEN EmptyContents ELSE mem[p]]
    /\ prev' = [p \in Proc |-> IF p \in P THEN EmptyContents ELSE prev[p]]

(* main.run waits for the worker, then its deferred Close unlocks. *)
CloseAfterWorkers(p) ==
    /\ phase[p] = "idle"
    /\ phase' = [phase EXCEPT ![p] = "down"]
    /\ lock' = IF lock = p THEN Nobody ELSE lock
    /\ Forget({p})
    /\ UNCHANGED <<disk, durable>>

(* The error returns of main.run - the listener failed, or the HTTP server *)
(* did not drain in time - reach the deferred Close with the worker still  *)
(* running.  Close takes the mutex, so it waits for a save to end.         *)
CloseEarly(p) ==
    /\ phase[p] = "idle"
    /\ lock = p
    /\ lock' = Nobody
    /\ UNCHANGED <<phase, mem, prev, disk, durable>>

(* The process is killed, or ends while its worker is anywhere. *)
Crash(p) ==
    /\ phase[p] # "down"
    /\ phase' = [phase EXCEPT ![p] = "down"]
    /\ lock' = IF lock = p THEN Nobody ELSE lock
    /\ Forget({p})
    /\ UNCHANGED <<disk, durable>>

PowerLoss ==
    /\ lock' = Nobody
    /\ phase' = [p \in Proc |-> "down"]
    /\ \E c \in durable : disk' = c /\ durable' = {c}
    /\ Forget(Proc)

-------------------------------------------------------------------------------
(* Every shutdown of this next-state relation waits for the worker. *)
OrderlyNext ==
    \/ \E p \in Proc : \/ Open(p)
                       \/ Operation(p)
                       \/ Save(p)
                       \/ CloseAfterWorkers(p)
                       \/ Crash(p)
    \/ PowerLoss

(* All of main.run. *)
Next == OrderlyNext \/ \E p \in Proc : CloseEarly(p)

OrderlySpec == Init /\ [][OrderlyNext]_vars

Spec == Init /\ [][Next]_vars

-------------------------------------------------------------------------------
(* Properties *)

(* A process that is replacing the state file holds the flock: no two      *)
(* processes ever write the ledger over each other ("deliberately          *)
(* single-writer", docs/architecture.md).                                  *)
SingleWriter == \A p \in Proc : phase[p] \in {"saving", "renamed"} => lock = p

(* The contents the open ledger works on: a save in progress is not        *)
(* visible to anyone before its operation returns.                         *)
Value ==
    IF lock = Nobody THEN Closed
    ELSE IF phase[lock] \in {"saving", "renamed"} THEN prev[lock]
    ELSE mem[lock]

Atomic == INSTANCE AtomicLedger WITH value <- Value, survivors <- durable

(* The file, the rename and the lock implement the atomic ledger: an       *)
(* operation that returned nil survives every later crash and power loss,  *)
(* a failed one is invisible to its process, and no process ever works on  *)
(* contents that are neither.                                              *)
ImplementsAtomicLedger == Atomic!Spec

(***************************************************************************)
(* What makes the two properties inductive: a process is up exactly while  *)
(* it holds the lock, a save in progress is one operation away from what   *)
(* it started from, and after the rename the file is what that save wrote. *)
(***************************************************************************)
LedgerInv ==
    /\ TypeOK
    /\ \A p \in Proc : phase[p] # "down" <=> lock = p
    /\ \A p \in Proc : phase[p] \in {"saving", "renamed"} => mem[p] \in Results(prev[p])
    /\ \A p \in Proc : phase[p] = "renamed" => disk = mem[p]
    /\ disk \in durable
===============================================================================
