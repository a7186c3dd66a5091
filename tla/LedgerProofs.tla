----------------------------- MODULE LedgerProofs -----------------------------
(***************************************************************************)
(* The ledger keeps its invariant and implements AtomicLedger, for every   *)
(* set of processes, keys, mappings and bounds.                            *)
(***************************************************************************)
EXTENDS Ledger, TLAPS

(* Every operation of the Store makes contents of contents. *)
LEMMA ResultsAreContents ==
    ASSUME NEW c \in Contents, NEW d \in Results(c)
    PROVE  d \in Contents
<1> USE MaxObservationsAssumption
<1>1. ASSUME NEW m \in Member
      PROVE  /\ MarkManaged(c, m) \in Contents
             /\ Unmark(c, m) \in Contents
             /\ ConfirmAbsent(c, m) \in Contents
             /\ ResetAbsent(c, m) \in Contents
  BY DEF Contents, MarkManaged, Unmark, ConfirmAbsent, ResetAbsent
<1>2. ASSUME NEW s \in Source, NEW g \in Mapping \cup {NoMapping}
      PROVE  [c EXCEPT !.groups[s] = g] \in Contents
  BY DEF Contents
<1>3. ASSUME NEW old \in Source, NEW new \in Source, NEW n \in Native,
             CanMoveGroup(c, old, new)
      PROVE  MoveGroup(c, old, new, n) \in Contents
  <2> DEFINE kept == IF Mapped(c, new) THEN c.groups[new] ELSE c.groups[old]
  <2>1. kept \in Mapping
    BY <1>3 DEF CanMoveGroup, Mapped, Contents
  <2>2. [kept EXCEPT !.native = n] \in Mapping
    BY <2>1 DEF Mapping
  <2> QED
    BY <2>2 DEF MoveGroup, Contents
<1>4. CASE \E m \in Member : d \in {MarkManaged(c, m), Unmark(c, m), ConfirmAbsent(c, m), ResetAbsent(c, m)}
  BY <1>1, <1>4
<1>5. CASE \E s \in Source, g \in Mapping : d = PutGroup(c, s, g)
  BY <1>2, <1>5 DEF PutGroup
<1>6. CASE \E s \in Source : d = DeleteGroup(c, s)
  BY <1>2, <1>6 DEF DeleteGroup
<1>7. CASE d \in {MoveGroup(c, p[1], p[2], p[3]) :
             p \in {p \in Source \X Source \X Native :
                       p[1] # p[2] /\ CanMoveGroup(c, p[1], p[2])}}
  BY <1>3, <1>7
<1> QED
  BY <1>4, <1>5, <1>6, <1>7 DEF Results

(* Every operation of a process starts a save of one of the Results. *)
LEMMA OperationBeginsSave ==
    ASSUME NEW p \in Proc, TypeOK, Operation(p)
    PROVE  \E c \in Results(mem[p]) : BeginSave(p, c)
<1>1. CASE \E m \in Member : MarkManagedOp(p, m)
  BY <1>1 DEF Results, MarkManagedOp
<1>2. CASE \E m \in Member : UnmarkOp(p, m)
  BY <1>2 DEF Results, UnmarkOp
<1>3. CASE \E s \in Source, g \in Mapping : PutGroupOp(p, s, g)
  BY <1>3 DEF Results, PutGroupOp
<1>4. CASE \E s \in Source : DeleteGroupOp(p, s)
  BY <1>4 DEF Results, DeleteGroupOp
<1>5. CASE \E old, new \in Source, n \in Native : MoveGroupOp(p, old, new, n)
  <2>1. PICK old \in Source, new \in Source, n \in Native : MoveGroupOp(p, old, new, n)
    BY <1>5
  <2> DEFINE key == <<old, new, n>>
  <2>2. key \in Source \X Source \X Native /\ key[1] = old /\ key[2] = new /\ key[3] = n
    OBVIOUS
  <2>3. MoveGroup(mem[p], old, new, n) \in Results(mem[p])
    BY <2>1, <2>2 DEF Results, MoveGroupOp
  <2> QED
    BY <2>1, <2>3 DEF MoveGroupOp
<1>6. CASE \E m \in Member : ConfirmAbsentOp(p, m)
  BY <1>6 DEF Results, ConfirmAbsentOp
<1>7. CASE \E m \in Member : ResetAbsentOp(p, m)
  BY <1>7 DEF Results, ResetAbsentOp
<1> QED
  BY <1>1, <1>2, <1>3, <1>4, <1>5, <1>6, <1>7 DEF Operation

LEMMA EmptyIsContents == EmptyContents \in Contents
BY MaxObservationsAssumption DEF EmptyContents, Contents

-------------------------------------------------------------------------------
(* Types.  No step leaves the types, the early closes of main.run included. *)
LEMMA StepKeepsTypeOK == TypeOK /\ [Next]_vars => TypeOK'
<1> SUFFICES ASSUME TypeOK, [Next]_vars
             PROVE  TypeOK'
  OBVIOUS
<1>1. ASSUME NEW p \in Proc, Operation(p)
      PROVE  TypeOK'
  <2>1. PICK c \in Results(mem[p]) : BeginSave(p, c)
    BY <1>1, OperationBeginsSave
  <2>2. c \in Contents
    BY ResultsAreContents DEF TypeOK
  <2> QED
    BY <2>1, <2>2 DEF BeginSave, TypeOK
<1>2. ASSUME NEW p \in Proc, Open(p) \/ CloseEarly(p)
      PROVE  TypeOK'
  BY <1>2 DEF Open, CloseEarly, TypeOK
<1>3. ASSUME NEW p \in Proc, Save(p)
      PROVE  TypeOK'
  BY <1>3 DEF Save, SaveFails, Rename, SyncDir, SyncDirFails, TypeOK
<1>4. ASSUME NEW p \in Proc, CloseAfterWorkers(p) \/ Crash(p)
      PROVE  TypeOK'
  BY <1>4, EmptyIsContents DEF CloseAfterWorkers, Crash, Forget, TypeOK
<1>5. CASE PowerLoss
  BY <1>5, EmptyIsContents DEF PowerLoss, Forget, TypeOK
<1>6. CASE UNCHANGED vars
  BY <1>6 DEF vars, TypeOK
<1> QED
  BY <1>1, <1>2, <1>3, <1>4, <1>5, <1>6 DEF Next, OrderlyNext

(* Whatever fails, is killed or closes early, the memory of every process  *)
(* and every version of the state file are contents the Store can read.    *)
THEOREM LedgerTypeOK == Spec => []TypeOK
<1>1. Init => TypeOK
  BY EmptyIsContents DEF Init, TypeOK
<1> QED
  BY <1>1, StepKeepsTypeOK, PTL DEF Spec

-------------------------------------------------------------------------------
(* Under orderly shutdowns LedgerInv holds initially and no step breaks it. *)
LEMMA InitEstablishesLedgerInv == Init => LedgerInv
BY EmptyIsContents, NobodyAssumption DEF Init, LedgerInv, TypeOK

LEMMA StepKeepsLedgerInv ==
    LedgerInv /\ [OrderlyNext]_vars => LedgerInv'
<1> SUFFICES ASSUME LedgerInv, [OrderlyNext]_vars
             PROVE  LedgerInv'
  OBVIOUS
<1> USE NobodyAssumption DEF LedgerInv
<1>1. ASSUME NEW p \in Proc, Open(p)
      PROVE  LedgerInv'
  BY <1>1 DEF Open, TypeOK
<1>2. ASSUME NEW p \in Proc, Operation(p)
      PROVE  LedgerInv'
  <2>1. PICK c \in Results(mem[p]) : BeginSave(p, c)
    BY <1>2, OperationBeginsSave
  <2>2. c \in Contents
    BY ResultsAreContents DEF TypeOK
  <2> QED
    BY <2>1, <2>2 DEF BeginSave, TypeOK
<1>3. ASSUME NEW p \in Proc, SaveFails(p)
      PROVE  LedgerInv'
  BY <1>3 DEF SaveFails, TypeOK
<1>4. ASSUME NEW p \in Proc, Rename(p)
      PROVE  LedgerInv'
  BY <1>4 DEF Rename, TypeOK
<1>5. ASSUME NEW p \in Proc, SyncDir(p)
      PROVE  LedgerInv'
  BY <1>5 DEF SyncDir, TypeOK
<1>6. ASSUME NEW p \in Proc, SyncDirFails(p)
      PROVE  LedgerInv'
  BY <1>6 DEF SyncDirFails, TypeOK
<1>7. ASSUME NEW p \in Proc, CloseAfterWorkers(p)
      PROVE  LedgerInv'
  BY <1>7, EmptyIsContents DEF CloseAfterWorkers, Forget, TypeOK
<1>8. ASSUME NEW p \in Proc, Crash(p)
      PROVE  LedgerInv'
  BY <1>8, EmptyIsContents DEF Crash, Forget, TypeOK
<1>9. CASE PowerLoss
  BY <1>9, EmptyIsContents DEF PowerLoss, Forget, TypeOK
<1>10. CASE UNCHANGED vars
  BY <1>10 DEF vars, TypeOK
<1> QED
  BY <1>1, <1>2, <1>3, <1>4, <1>5, <1>6, <1>7, <1>8, <1>9, <1>10 DEF OrderlyNext, Save

THEOREM LedgerInvariant == OrderlySpec => []LedgerInv
BY InitEstablishesLedgerInv, StepKeepsLedgerInv, PTL DEF OrderlySpec

(* With orderly shutdowns only the holder of the flock ever writes the     *)
(* state file, however many processes are started on it and wherever they  *)
(* are killed.                                                             *)
THEOREM LedgerSingleWriter == OrderlySpec => []SingleWriter
<1>1. LedgerInv => SingleWriter
  BY DEF LedgerInv, SingleWriter, TypeOK
<1> QED
  BY <1>1, LedgerInvariant, PTL

-------------------------------------------------------------------------------
(* Refinement *)

(* The two modules speak of the same results. *)
LEMMA SameResults == ASSUME NEW c PROVE Atomic!Results(c) = Results(c)
BY DEF Results, Atomic!Results, MarkManaged, Atomic!MarkManaged, Unmark, Atomic!Unmark,
       PutGroup, Atomic!PutGroup, DeleteGroup, Atomic!DeleteGroup, Mapped, Atomic!Mapped,
       MoveGroup, Atomic!MoveGroup, CanMoveGroup, Atomic!CanMoveGroup,
       ConfirmAbsent, Atomic!ConfirmAbsent, ResetAbsent, Atomic!ResetAbsent,
       Mapping, Atomic!Mapping

LEMMA InitImplements == Init => Atomic!Init
BY DEF Init, Atomic!Init, Value, EmptyContents, Atomic!EmptyContents

LEMMA StepImplements ==
    LedgerInv /\ LedgerInv' /\ [OrderlyNext]_vars => [Atomic!Next]_(Atomic!vars)
<1> SUFFICES ASSUME LedgerInv, LedgerInv', [OrderlyNext]_vars
             PROVE  [Atomic!Next]_(Atomic!vars)
  OBVIOUS
<1> USE NobodyAssumption, ClosedAssumption DEF LedgerInv, Value, Atomic!vars, TypeOK
<1>1. ASSUME NEW p \in Proc, Open(p)
      PROVE  Atomic!Open
  BY <1>1 DEF Open, Atomic!Open
<1>2. ASSUME NEW p \in Proc, Operation(p)
      PROVE  UNCHANGED Atomic!vars
  <2>1. PICK c \in Results(mem[p]) : BeginSave(p, c)
    BY <1>2, OperationBeginsSave
  <2> QED
    BY <2>1 DEF BeginSave
<1>3. ASSUME NEW p \in Proc, SaveFails(p) \/ SyncDirFails(p)
      PROVE  UNCHANGED Atomic!vars
  BY <1>3 DEF SaveFails, SyncDirFails
<1>4. ASSUME NEW p \in Proc, Rename(p)
      PROVE  Atomic!Attempt
  <2>1. mem[p] \in Atomic!Results(prev[p]) /\ lock = p
    BY <1>4, SameResults DEF Rename
  <2>2. Value = prev[p] /\ Value' = prev[p] /\ prev[p] # Closed
    BY <1>4, <2>1 DEF Rename
  <2> QED
    BY <1>4, <2>1, <2>2 DEF Rename, Atomic!Attempt
<1>5. ASSUME NEW p \in Proc, SyncDir(p)
      PROVE  Atomic!Commit
  <2>1. mem[p] \in Atomic!Results(prev[p]) /\ lock = p /\ disk = mem[p]
    BY <1>5, SameResults DEF SyncDir
  <2>2. Value = prev[p] /\ Value' = mem[p] /\ prev[p] # Closed
    BY <1>5, <2>1 DEF SyncDir
  <2> QED
    BY <1>5, <2>1, <2>2 DEF SyncDir, Atomic!Commit
<1>6. ASSUME NEW p \in Proc, CloseAfterWorkers(p) \/ Crash(p)
      PROVE  Atomic!Stop
  BY <1>6 DEF CloseAfterWorkers, Crash, Atomic!Stop
<1>7. CASE PowerLoss
  BY <1>7 DEF PowerLoss, Atomic!PowerLoss, Atomic!Next
<1>8. CASE UNCHANGED vars
  BY <1>8 DEF vars
<1> QED
  BY <1>1, <1>2, <1>3, <1>4, <1>5, <1>6, <1>7, <1>8 DEF OrderlyNext, Save, Atomic!Next

(* The state file, its rename and its lock implement the atomic ledger. *)
THEOREM LedgerImplementsAtomicLedger == OrderlySpec => ImplementsAtomicLedger
BY InitImplements, StepImplements, LedgerInvariant, PTL
   DEF OrderlySpec, ImplementsAtomicLedger, Atomic!Spec

===============================================================================
