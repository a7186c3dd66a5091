--------------------------- MODULE ReconcilerProofs ---------------------------
(***************************************************************************)
(* Passes of the reconciler keep the types for every configuration, and    *)
(* for the rules that SoundRules describes every target has one source.    *)
(***************************************************************************)
EXTENDS Reconciler, WellFoundedInduction, TLAPS

-------------------------------------------------------------------------------
(* What the ledger holds *)

LEMMA ContentsFields ==
    ASSUME NEW c \in Contents
    PROVE  /\ c.records \in SUBSET Member /\ c.groups \in [Source -> Mapping \cup {NoMapping}]
           /\ c.absences \in [Member -> 0..2]
           /\ \A s \in Source : Mapped(c, s) =>
                 /\ c.groups[s] \in Mapping /\ c.groups[s].target \in Tgt
                 /\ c.groups[s].native \in Gid \X Path /\ c.groups[s].owned \in BOOLEAN
BY DEF Contents, Mapped, Mapping

LEMMA EmptyIsContents == EmptyContents \in Contents /\ \A s \in Source : ~Mapped(EmptyContents, s)
BY DEF EmptyContents, Contents, Mapped

(* A binding that is put or deleted. *)
LEMMA BindingType ==
    ASSUME NEW c \in Contents, NEW s \in Source, NEW m \in Mapping \cup {NoMapping}
    PROVE  /\ [c EXCEPT !.groups[s] = m] \in Contents
           /\ [c EXCEPT !.groups[s] = m].records = c.records
           /\ [c EXCEPT !.groups[s] = m].groups = [c.groups EXCEPT ![s] = m]
BY DEF Contents

LEMMA MoveType ==
    ASSUME NEW c \in Contents, NEW s \in Source, NEW q \in Source, NEW n \in Gid \X Path,
           CanMoveGroup(c, s, q)
    PROVE  /\ MoveGroup(c, s, q, n) \in Contents
           /\ \A x \in Source \ {s, q} : MoveGroup(c, s, q, n).groups[x] = c.groups[x]
           /\ MoveGroup(c, s, q, n).groups[s] = NoMapping
           /\ s # q => /\ MoveGroup(c, s, q, n).groups[q].target = c.groups[s].target
                       /\ MoveGroup(c, s, q, n).groups[q].native = n
<1> DEFINE kept == IF Mapped(c, q) THEN c.groups[q] ELSE c.groups[s]
           moved == [kept EXCEPT !.native = n]
           g == [c.groups EXCEPT ![q] = moved, ![s] = NoMapping]
<1>1. c.groups \in [Source -> Mapping \cup {NoMapping}] /\ kept \in Mapping
      /\ kept.target = c.groups[s].target
  BY ContentsFields DEF CanMoveGroup
<1> HIDE DEF kept
<1>2. moved \in Mapping /\ moved.target = kept.target /\ moved.native = n
  BY <1>1 DEF Mapping
<1> HIDE DEF moved
<1>3. /\ g \in [Source -> Mapping \cup {NoMapping}]
      /\ \A x \in Source \ {s, q} : g[x] = c.groups[x]
      /\ g[s] = NoMapping /\ (s # q => g[q] = moved)
  BY <1>1, <1>2
<1> HIDE DEF g
<1>4. [c EXCEPT !.groups = g] \in Contents /\ [c EXCEPT !.groups = g].groups = g
  BY <1>3 DEF Contents
<1>5. MoveGroup(c, s, q, n) = [c EXCEPT !.groups = g]
  BY <1>1 DEF MoveGroup, kept, moved, g, Contents
<1> QED
  BY <1>1, <1>2, <1>3, <1>4, <1>5

-------------------------------------------------------------------------------
(* What a job makes of it *)

LEMMA BoundType ==
    ASSUME NEW j \in Job, ledger \in Contents
    PROVE  /\ JobSource(j) \in Source /\ Bound(j) \in Contents /\ Bound(j).records = ledger.records
           /\ Bound(j).groups = [ledger.groups EXCEPT ![JobSource(j)] =
                                    [target |-> j.target, native |-> j.native, owned |-> FALSE]]
           /\ [target |-> j.target, native |-> j.native, owned |-> FALSE] \in Mapping
<1>1. JobSource(j) \in Source
  BY DEF Job, JobSource, Source
<1>2. [target |-> j.target, native |-> j.native, owned |-> FALSE] \in Mapping
  BY DEF Job, Mapping
<1> QED
  BY <1>1, <1>2, BindingType DEF Bound, PutGroup, JobSource

LEMMA SyncedType ==
    ASSUME NEW j \in Job, ledger \in Contents
    PROVE  Synced(j) \in Contents /\ Synced(j).groups = Bound(j).groups
<1> DEFINE desired == Desired(j)
           absent  == {m \in ledger.records : m[1] = j.target} \ desired
           removed == {m \in absent : Immediate(j) \/ ledger.absences[m] >= 1}
           counts  == [m \in Member |-> IF m \in absent \ removed THEN 1
                                        ELSE IF m \in removed \cup desired THEN 0
                                        ELSE Bound(j).absences[m]]
           recs    == (Bound(j).records \ removed) \cup desired
<1>1. Bound(j) \in Contents
  BY BoundType
<1>2. desired \in SUBSET Member
  BY DEF Desired, Job, Member
<1>3. recs \in SUBSET Member
  BY <1>1, <1>2, ContentsFields
<1>4. counts \in [Member -> 0..2]
  BY <1>1, ContentsFields
<1>5. Synced(j) = [Bound(j) EXCEPT !.records = recs, !.absences = counts]
  BY <1>1 DEF Synced, Contents
<1> HIDE DEF recs, counts
<1> QED
  BY <1>1, <1>3, <1>4, <1>5 DEF Contents

LEMMA RetiredType ==
    ASSUME NEW j \in Job, ledger \in Contents
    PROVE  /\ Retired(j) \in Contents
           /\ \/ Retired(j).groups = Bound(j).groups
              \/ Retired(j).groups = [Bound(j).groups EXCEPT ![JobSource(j)] = NoMapping]
<1>1. Synced(j) \in Contents /\ Synced(j).groups = Bound(j).groups /\ JobSource(j) \in Source
  BY SyncedType, BoundType
<1> QED
  BY <1>1, BindingType DEF Retired, DeleteGroup, JobSource

-------------------------------------------------------------------------------
(* What a plan makes *)

LEMMA SourceTypes == \A r \in Rule, g \in Gid, p \in Path : <<r, KeyOf(r, g, p)>> \in Source
BY DEF KeyOf, Source

LEMMA TargetType ==
    ASSUME TypeOK, NEW r \in Rule, NEW g \in Gid, NEW p \in Path, Selects(r, p), TargetPath(r, p) # Unsafe
    PROVE  Target(r, g, p) \in Tgt /\ TargetPath(r, p) \in Tgt
<1>1. TargetPath(r, p) \in Tgt
  BY RulesAssumption DEF Selects, TargetPath
<1> QED
  BY <1>1, SourceTypes, ContentsFields DEF TypeOK, Target

LEMMA PickJobType ==
    ASSUME TypeOK, NEW snap \in SUBSET (Gid \X Path), NEW memb \in BOOLEAN,
           NEW pick \in Picks(snap, memb), TargetPath(pick[1], pick[2][2]) # Unsafe
    PROVE  /\ PickJob(pick) \in Job /\ PickJob(pick).tomb = FALSE
           /\ pick[1] \in Rule /\ pick[2] \in snap /\ pick[2][1] \in Gid /\ pick[2][2] \in Path
           /\ Selects(pick[1], pick[2][2])
           /\ PickJob(pick).rule = pick[1] /\ PickJob(pick).key = KeyOf(pick[1], pick[2][1], pick[2][2])
           /\ PickJob(pick).native = pick[2]
           /\ PickJob(pick).target = Target(pick[1], pick[2][1], pick[2][2])
<1> DEFINE r == pick[1]
           g == pick[2][1]
           p == pick[2][2]
<1>1. r \in Rule /\ pick[2] \in snap /\ Selects(r, p)
  BY DEF Picks
<1>2. pick[2] \in Gid \X Path
  BY <1>1
<1>3. g \in Gid /\ p \in Path /\ pick[2] = <<g, p>>
  BY <1>2
<1>4. KeyOf(r, g, p) \in Path \cup Gid /\ Target(r, g, p) \in Tgt
  BY <1>1, <1>3, TargetType DEF KeyOf
<1>5. PickJob(pick) = [rule |-> r, key |-> KeyOf(r, g, p), native |-> pick[2],
                       target |-> Target(r, g, p), tomb |-> FALSE]
  BY <1>3 DEF PickJob
<1> QED
  BY <1>1, <1>2, <1>3, <1>4, <1>5 DEF Job

LEMMA TombJobType ==
    ASSUME TypeOK, NEW s \in Source, Mapped(ledger, s)
    PROVE  /\ TombJob(s) \in Job /\ JobSource(TombJob(s)) = s /\ TombJob(s).rule = s[1]
           /\ TombJob(s).key = s[2]
           /\ TombJob(s).target = ledger.groups[s].target /\ TombJob(s).native = ledger.groups[s].native
<1>1. /\ s[1] \in Rule /\ s[2] \in Path \cup Gid /\ s = <<s[1], s[2]>>
  BY DEF Source
<1>2. ledger.groups[s].target \in Tgt /\ ledger.groups[s].native \in Gid \X Path
  BY ContentsFields DEF TypeOK
<1> QED
  BY <1>1, <1>2 DEF TombJob, Job, JobSource

LEMMA PlannedType ==
    ASSUME TypeOK, NEW snap \in SUBSET (Gid \X Path), NEW full \in BOOLEAN, NEW memb \in BOOLEAN,
           ~BuildFails(snap, full, memb)
    PROVE  Planned(snap, full, memb) \in SUBSET Job
<1>1. \A pick \in Picks(snap, memb) : PickJob(pick) \in Job
  BY PickJobType DEF BuildFails
<1>2. \A picks : TombJobs(picks) \in SUBSET Job
  BY TombJobType DEF TombJobs
<1> QED
  BY <1>1, <1>2 DEF Planned

-------------------------------------------------------------------------------
(* Types *)

LEMMA IdleType == Idle \in Passes /\ Idle.jobs = {} /\ Idle.snap = {} /\ Idle.pc = "idle"
BY DEF Idle, Passes

LEMMA TypeInit == Init => TypeOK
<1> SUFFICES ASSUME Init PROVE TypeOK
  OBVIOUS
<1>1. kc \in [Gid -> Path \cup {Absent}] /\ lost \in [Member -> 0..2]
  BY DEF Init
<1>2. vault \in {"up", "wrong", "down"} /\ broken \subseteq Tgt /\ allow \in Configs
  BY DEF Init
<1>3. disturbed \in BOOLEAN
  BY DEF Init
<1>4. ledger \in Contents /\ pass \in Passes
  BY EmptyIsContents, IdleType DEF Init
<1>5. bounds \in [env : 0..MaxEnv, outages : 0..MaxOutages, restarts : 0..MaxRestarts,
                  faults : 0..MaxFaults]
  BY BoundsAssumption DEF Init
<1> QED
  BY <1>1, <1>2, <1>3, <1>4, <1>5 DEF TypeOK

LEMMA CountLostType ==
    ASSUME TypeOK, NEW dist \in BOOLEAN, CountLost(dist) PROVE lost' \in [Member -> 0..2]
BY DEF TypeOK, CountLost

(* One more use of a bound. *)
LEMMA BoundsType ==
    ASSUME TypeOK
    PROVE  /\ bounds.faults < MaxFaults =>
                [bounds EXCEPT !.faults = @ + 1] \in [env : 0..MaxEnv, outages : 0..MaxOutages,
                                                     restarts : 0..MaxRestarts, faults : 0..MaxFaults]
           /\ bounds.restarts < MaxRestarts =>
                [bounds EXCEPT !.restarts = @ + 1] \in [env : 0..MaxEnv, outages : 0..MaxOutages,
                                                     restarts : 0..MaxRestarts, faults : 0..MaxFaults]
           /\ bounds.env < MaxEnv =>
                [bounds EXCEPT !.env = @ + 1] \in [env : 0..MaxEnv, outages : 0..MaxOutages,
                                                     restarts : 0..MaxRestarts, faults : 0..MaxFaults]
           /\ bounds.outages < MaxOutages =>
                [bounds EXCEPT !.outages = @ + 1] \in [env : 0..MaxEnv, outages : 0..MaxOutages,
                                                     restarts : 0..MaxRestarts, faults : 0..MaxFaults]
BY BoundsAssumption DEF TypeOK

(* Steps of a pass *)
LEMMA PassTypes ==
    ASSUME TypeOK
    PROVE  /\ pass.snap \in SUBSET (Gid \X Path) /\ pass.jobs \in SUBSET Job
           /\ pass.full \in BOOLEAN /\ pass.memb \in BOOLEAN
           /\ \A step \in {"idle", "list", "collect", "plan", "apply"} :
                 Goto(step) \in Passes /\ Goto(step).jobs = pass.jobs
           /\ \A j : Done(j) \in Passes /\ Done(j).jobs = pass.jobs \ {j} /\ Done(j).pc = pass.pc
           /\ \A s \in SUBSET (Gid \X Path) : [pass EXCEPT !.snap = s] \in Passes
                                              /\ [pass EXCEPT !.snap = s].jobs = pass.jobs
                                              /\ [pass EXCEPT !.snap = s].pc = pass.pc
<1>1. pass \in Passes
  BY DEF TypeOK
<1> QED
  BY <1>1 DEF Passes, Goto, Done

LEMMA ReadTypes ==
    ASSUME TypeOK, StartFull \/ Targeted \/ ListPage \/ Collect PROVE TypeOK'
<1>1. CASE StartFull
  <2>1. pass' \in Passes
    BY <1>1 DEF StartFull, Idle, Passes
  <2> QED
    BY <1>1, <2>1 DEF StartFull, TypeOK, world
<1>2. ASSUME NEW g \in Gid, NEW memb \in BOOLEAN, StartTargeted(g, memb) PROVE TypeOK'
  <2>1. <<g, kc[g]>> \in Gid \X Path
    BY <1>2 DEF StartTargeted, TypeOK
  <2>2. pass' \in Passes
    BY <1>2, <2>1 DEF StartTargeted, Idle, Passes
  <2>3. lost' \in [Member -> 0..2]
    BY <1>2, CountLostType DEF StartTargeted
  <2> QED
    BY <1>2, <2>2, <2>3 DEF StartTargeted, TypeOK, world
<1>3. CASE ListPage
  <2>1. Page \subseteq {g \in Gid : kc[g] # Absent}
    BY DEF Page
  <2>2. {<<g, kc[g]>> : g \in Page} \in SUBSET (Gid \X Path)
    BY <2>1 DEF TypeOK
  <2>3. [pass EXCEPT !.snap = pass.snap \cup {<<g, kc[g]>> : g \in Page}] \in Passes
    BY <2>2, PassTypes
  <2>4. pass' \in Passes
    BY <1>3, <2>3, PassTypes, IdleType DEF ListPage
  <2>5. lost' \in [Member -> 0..2]
    <3>1. disturbed \in BOOLEAN /\ lost \in [Member -> 0..2]
      BY DEF TypeOK
    <3> QED
      BY <1>3, <3>1, CountLostType DEF ListPage
  <2>6. disturbed' \in BOOLEAN /\ UNCHANGED <<kc, vault, broken, allow, ledger, bounds>>
    BY <1>3 DEF ListPage, world
  <2> QED
    BY <2>4, <2>5, <2>6 DEF TypeOK
<1>4. CASE Collect
  <2>1. pass' \in Passes
    BY <1>4, PassTypes, IdleType DEF Collect
  <2> QED
    BY <1>4, <2>1 DEF Collect, TypeOK, world
<1> QED
  BY <1>1, <1>2, <1>3, <1>4 DEF Targeted

LEMMA LeastKey == ASSUME NEW T \in SUBSET Nat, T # {} PROVE \E m \in T : \A n \in T : m <= n
<1> DEFINE R == OpToRel(<, Nat)
<1>1. PICK m \in T : \A n \in T : ~(<<n, m>> \in R)
  <2>1. IsWellFoundedOn(R, Nat)
    BY NatLessThanWellFounded
  <2> QED
    BY <2>1, WFMin
<1>2. \A n \in T : ~(n < m)
  BY <1>1 DEF OpToRel
<1> QED
  BY <1>2

(* The mapping that is moved, and where to. *)
LEMMA LegacyTypes ==
    ASSUME TypeOK, Legacy(pass.snap) # {}
    PROVE  LET old == FirstLegacy(pass.snap)
               p   == ledger.groups[old].native[2]
               now == CHOOSE gp \in pass.snap : gp[2] = p
           IN  /\ old \in Source /\ Mapped(ledger, old) /\ old[1] \in GitLabRule
               /\ <<old[1], p>> \in Source /\ p # old[2] /\ p \in Path /\ allow[old[1]].declared
               /\ now \in Gid \X Path /\ now[2] = p
<1> DEFINE old == FirstLegacy(pass.snap)
           p == ledger.groups[old].native[2]
           now == CHOOSE gp \in pass.snap : gp[2] = p
<1>1. PICK s \in Legacy(pass.snap) : \A q \in Legacy(pass.snap) : s[2] <= q[2]
  <2> DEFINE T == {s[2] : s \in Legacy(pass.snap)}
  <2>1. \A s \in Legacy(pass.snap) : s \in Source
    BY DEF Legacy
  <2>2. \A s \in Source : s[2] \in Nat
    BY KeysAssumption DEF Source
  <2>3. T \in SUBSET Nat /\ T # {}
    BY <2>1, <2>2
  <2> HIDE DEF T
  <2>4. PICK n \in T : \A k \in T : n <= k
    BY <2>3, LeastKey
  <2> QED
    BY <2>4 DEF T
<1>2. old \in Legacy(pass.snap)
  BY <1>1 DEF FirstLegacy
<1> HIDE DEF old
<1>3. /\ old \in Source /\ Mapped(ledger, old) /\ old[1] \notin VaultRule /\ allow[old[1]].declared
      /\ p \in allow[old[1]].paths /\ p # old[2] /\ p \in {gp[2] : gp \in pass.snap}
  BY <1>2 DEF Legacy
<1>4. now \in pass.snap /\ now[2] = p
  BY <1>3
<1> HIDE DEF now
<1>5. now \in Gid \X Path /\ p \in Path
  BY <1>4, PassTypes
<1>6. old[1] \in GitLabRule /\ <<old[1], p>> \in Source
  BY <1>3, <1>5 DEF Source, GitLabRule
<1> QED
  BY <1>3, <1>4, <1>5, <1>6 DEF old, now

LEMMA PlanTypes == ASSUME TypeOK, Migrate \/ Plan PROVE TypeOK'
<1>1. CASE Migrate
  <2>1. pass' \in Passes /\ ledger' \in Contents
    BY <1>1, LegacyTypes, MoveType, IdleType DEF Migrate, TypeOK
  <2> QED
    BY <1>1, <2>1 DEF Migrate, TypeOK, world
<1>2. CASE Plan
  <2>1. CASE pass' = Idle
    BY <1>2, <2>1, IdleType DEF Plan, TypeOK, world
  <2>2. CASE /\ ~BuildFails(pass.snap, pass.full, pass.memb)
             /\ pass' = [pass EXCEPT !.pc = "apply", !.snap = {},
                                     !.jobs = Planned(pass.snap, pass.full, pass.memb)]
    <3>1. Planned(pass.snap, pass.full, pass.memb) \in SUBSET Job
      BY <2>2, PassTypes, PlannedType
    <3>2. pass' \in Passes
      BY <2>2, <3>1 DEF TypeOK, Passes
    <3> QED
      BY <1>2, <3>2 DEF Plan, TypeOK, world
  <2> QED
    BY <1>2, <2>1, <2>2 DEF Plan
<1> QED
  BY <1>1, <1>2

LEMMA ApplyTypes ==
    ASSUME TypeOK, NEW j \in pass.jobs,
           ApplyAccess(j) \/ ApplyGroup(j) \/ ApplyGroupRefused(j) \/ ApplyGroupFails(j)
    PROVE  TypeOK'
<1>1. j \in Job /\ Done(j) \in Passes /\ AfterFailure(j) \in Passes /\ ledger \in Contents
  BY PassTypes DEF AfterFailure, TypeOK
<1>2. CASE ApplyAccess(j) \/ ApplyGroupRefused(j)
  <2>1. pass' \in Passes
    BY <1>1, <1>2 DEF ApplyAccess, ApplyGroupRefused
  <2> QED
    BY <1>2, <2>1 DEF ApplyAccess, ApplyGroupRefused, TypeOK, world
<1>3. CASE ApplyGroup(j)
  <2>1. pass' \in Passes /\ ledger' \in Contents
    BY <1>1, <1>3, RetiredType DEF ApplyGroup
  <2>2. lost' \in [Member -> 0..2] /\ broken' \in SUBSET Tgt
    BY <1>3 DEF ApplyGroup, TypeOK
  <2> QED
    BY <1>3, <2>1, <2>2 DEF ApplyGroup, TypeOK
<1>4. CASE ApplyGroupFails(j)
  <2>1. pass' \in Passes
    BY <1>1, <1>4 DEF ApplyGroupFails
  <2>2. ledger' \in Contents
    BY <1>1, <1>4, BoundType, SyncedType DEF ApplyGroupFails
  <2>3. bounds' \in [env : 0..MaxEnv, outages : 0..MaxOutages, restarts : 0..MaxRestarts,
                     faults : 0..MaxFaults]
    BY <1>4, BoundsType DEF ApplyGroupFails, Fault
  <2> QED
    BY <1>4, <2>1, <2>2, <2>3 DEF ApplyGroupFails, TypeOK, world
<1> QED
  BY <1>2, <1>3, <1>4

LEMMA OtherTypes ==
    ASSUME TypeOK,
           \/ Finish \/ PassFails \/ (\E c \in Configs : Restart(c)) \/ VaultChanges
           \/ (\E g \in Gid, p \in Path \cup {Absent} : KeycloakChanges(g, p))
           \/ (\E t \in Tgt : GroupDeleted(t))
    PROVE  TypeOK'
<1> DEFINE B == [env : 0..MaxEnv, outages : 0..MaxOutages, restarts : 0..MaxRestarts,
                 faults : 0..MaxFaults]
<1>1. CASE Finish
  BY <1>1, IdleType DEF Finish, TypeOK, world
<1>2. CASE PassFails
  <2>1. bounds' \in B
    BY <1>2, BoundsType DEF PassFails, Fault
  <2> QED
    BY <1>2, <2>1, IdleType DEF PassFails, TypeOK, world
<1>3. ASSUME NEW c \in Configs, Restart(c) PROVE TypeOK'
  <2>1. bounds' \in B
    BY <1>3, BoundsType DEF Restart
  <2> QED
    BY <1>3, <2>1, IdleType DEF Restart, TypeOK, world
<1>4. ASSUME NEW g \in Gid, NEW p \in Path \cup {Absent}, KeycloakChanges(g, p) PROVE TypeOK'
  <2>1. bounds' \in B /\ kc' \in [Gid -> Path \cup {Absent}]
    BY <1>4, BoundsType DEF KeycloakChanges, TypeOK
  <2>2. disturbed' \in BOOLEAN /\ UNCHANGED <<vault, broken, allow, ledger, pass, lost>>
    BY <1>4 DEF KeycloakChanges
  <2> QED
    BY <2>1, <2>2 DEF TypeOK
<1>5. CASE VaultChanges
  <2>1. bounds' \in B
    BY <1>5, BoundsType DEF VaultChanges, Outage
  <2> QED
    BY <1>5, <2>1 DEF VaultChanges, TypeOK
<1>6. ASSUME NEW t \in Tgt, GroupDeleted(t) PROVE TypeOK'
  <2>1. bounds' \in B
    BY <1>6, BoundsType DEF GroupDeleted, Outage
  <2> QED
    BY <1>6, <2>1 DEF GroupDeleted, TypeOK
<1> QED
  BY <1>1, <1>2, <1>3, <1>4, <1>5, <1>6

LEMMA TypeStep == TypeOK /\ [Next]_vars => TypeOK'
<1> SUFFICES ASSUME TypeOK, [Next]_vars PROVE TypeOK'
  OBVIOUS
<1>1. CASE Next
  BY <1>1, ReadTypes, PlanTypes, ApplyTypes, OtherTypes DEF Next, Step, Others
<1>2. CASE UNCHANGED vars
  BY <1>2 DEF vars, TypeOK
<1> QED
  BY <1>1, <1>2

(* Whatever the rules, the allowlists and the order of events: every job   *)
(* that a plan makes has a target in GitLab or Vault (a path without a     *)
(* safe name never gets that far), and what jobs and migrations leave in   *)
(* the ledger is a ledger.                                                 *)
THEOREM ReconcilerTypeOK == Spec => []TypeOK
BY TypeInit, TypeStep, PTL DEF Spec

-------------------------------------------------------------------------------
(* One source for each target *)

LEMMA InvInit == Init => ReconcilerInv
<1> SUFFICES ASSUME Init PROVE ReconcilerInv
  OBVIOUS
<1>1. TypeOK /\ pass.jobs = {} /\ \A s \in Source : ~Mapped(ledger, s)
  BY TypeInit, IdleType, EmptyIsContents DEF Init
<1>2. OneSourcePerTarget /\ SoundMappings
  BY <1>1 DEF OneSourcePerTarget, SoundMappings
<1>3. SoundJobs /\ JobsFree /\ JobsApart /\ JobsPlanned
  BY <1>1 DEF SoundJobs, JobsFree, JobsApart, JobsPlanned
<1> QED
  BY <1>1, <1>2, <1>3 DEF ReconcilerInv

(* A step that leaves the ledger alone and plans nothing. *)
LEMMA QuietKeeps ==
    ASSUME ReconcilerInv, TypeOK', ledger' = ledger, pass'.jobs \subseteq pass.jobs,
           pass'.pc # "apply" => pass'.jobs = {}
    PROVE  ReconcilerInv'
<1>1. OneSourcePerTarget' /\ SoundMappings'
  BY DEF ReconcilerInv, OneSourcePerTarget, SoundMappings
<1>2. SoundJobs' /\ JobsApart' /\ JobsPlanned'
  BY DEF ReconcilerInv, SoundJobs, JobsApart, JobsPlanned
<1>3. JobsFree'
  BY DEF ReconcilerInv, JobsFree
<1> QED
  BY <1>1, <1>2, <1>3 DEF ReconcilerInv

(* A job binds its source, and may retire the binding at once. *)
LEMMA BindKeeps ==
    ASSUME ReconcilerInv, TypeOK', NEW j \in pass.jobs, j.rule \in GitLabRule,
           pass'.jobs = pass.jobs \ {j}, pass'.pc = pass.pc,
           \/ ledger'.groups = ledger.groups
           \/ ledger'.groups = Bound(j).groups
           \/ ledger'.groups = [Bound(j).groups EXCEPT ![JobSource(j)] = NoMapping]
    PROVE  ReconcilerInv'
<1>1. j \in Job /\ ledger \in Contents /\ ledger.groups \in [Source -> Mapping \cup {NoMapping}]
  BY PassTypes, ContentsFields DEF ReconcilerInv, TypeOK
<1>2. /\ \A s \in Source \ {JobSource(j)} : ledger'.groups[s] = ledger.groups[s]
      /\ \/ ledger'.groups[JobSource(j)] = ledger.groups[JobSource(j)]
         \/ /\ ledger'.groups[JobSource(j)].target = j.target
            /\ ledger'.groups[JobSource(j)].native = j.native
         \/ ledger'.groups[JobSource(j)] = NoMapping
      /\ JobSource(j) \in Source
  <2>1. /\ JobSource(j) \in Source
        /\ Bound(j).groups = [ledger.groups EXCEPT ![JobSource(j)] =
                                 [target |-> j.target, native |-> j.native, owned |-> FALSE]]
        /\ [target |-> j.target, native |-> j.native, owned |-> FALSE] \in Mapping
    BY <1>1, BoundType
  <2> QED
    BY <1>1, <2>1
<1>3. /\ SoundBinding(j.rule, j.key, j.target, j.native)
      /\ JobSource(j)[1] = j.rule /\ JobSource(j)[2] = j.key
  BY DEF ReconcilerInv, SoundJobs, JobSource
<1>4. \A q \in Source \ {JobSource(j)} : Mapped(ledger, q) => ledger.groups[q].target # j.target
  BY DEF ReconcilerInv, JobsFree
<1>5. OneSourcePerTarget'
  <2> SUFFICES ASSUME NEW s \in Source, NEW q \in Source, s # q, Mapped(ledger', s), Mapped(ledger', q)
               PROVE  ledger'.groups[s].target # ledger'.groups[q].target
    BY DEF OneSourcePerTarget
  <2>1. CASE s # JobSource(j) /\ q # JobSource(j)
    BY <1>2, <2>1 DEF ReconcilerInv, OneSourcePerTarget, Mapped
  <2>2. CASE s = JobSource(j) \/ q = JobSource(j)
    BY <1>2, <1>4, <2>2 DEF ReconcilerInv, OneSourcePerTarget, Mapped
  <2> QED
    BY <2>1, <2>2
<1>6. SoundMappings'
  <2> SUFFICES ASSUME NEW s \in Source, Mapped(ledger', s)
               PROVE  SoundBinding(s[1], s[2], ledger'.groups[s].target, ledger'.groups[s].native)
    BY DEF SoundMappings
  <2> QED
    BY <1>2, <1>3 DEF ReconcilerInv, SoundMappings, Mapped
<1>7. SoundJobs' /\ JobsApart' /\ JobsPlanned'
  BY DEF ReconcilerInv, SoundJobs, JobsApart, JobsPlanned
<1>8. JobsFree'
  <2> SUFFICES ASSUME NEW i \in pass'.jobs, i.rule \in GitLabRule,
                      NEW q \in Source \ {JobSource(i)}, Mapped(ledger', q)
               PROVE  ledger'.groups[q].target # i.target
    BY DEF JobsFree
  <2>1. i \in pass.jobs /\ (Mapped(ledger, q) => ledger.groups[q].target # i.target)
    BY DEF ReconcilerInv, JobsFree
  <2>2. JobSource(i) # JobSource(j) => i.target # j.target
    BY <2>1 DEF ReconcilerInv, JobsApart
  <2> QED
    BY <1>2, <2>1, <2>2 DEF Mapped
<1> QED
  BY <1>5, <1>6, <1>7, <1>8 DEF ReconcilerInv

LEMMA MigrateKeeps == ASSUME ReconcilerInv, Migrate PROVE ReconcilerInv'
<1> DEFINE old == FirstLegacy(pass.snap)
           p == ledger.groups[old].native[2]
           new == <<old[1], p>>
           now == CHOOSE gp \in pass.snap : gp[2] = p
<1>1. TypeOK' /\ TypeOK /\ pass.jobs = {}
  BY PlanTypes DEF ReconcilerInv, JobsPlanned, Migrate
<1>2. CASE pass' = Idle /\ UNCHANGED ledger
  BY <1>1, <1>2, IdleType, QuietKeeps
<1>3. CASE CanMoveGroup(ledger, old, new) /\ ledger' = MoveGroup(ledger, old, new, now) /\ UNCHANGED pass
  <2>1. /\ old \in Source /\ new \in Source /\ old # new /\ Mapped(ledger, old)
        /\ p # old[2] /\ now \in Gid \X Path /\ ledger \in Contents
    <3>1. Legacy(pass.snap) # {}
      BY DEF Migrate
    <3>2. /\ old \in Source /\ new \in Source /\ p # old[2] /\ now \in Gid \X Path
          /\ Mapped(ledger, old)
      BY <1>1, <3>1, LegacyTypes
    <3>3. new[2] = p
      OBVIOUS
    <3> QED
      BY <1>1, <3>2, <3>3 DEF TypeOK
  <2>2. new[1] = old[1] /\ new[2] = p
    OBVIOUS
  <2>3. p = ledger.groups[old].native[2]
    OBVIOUS
  <2> HIDE DEF old, new, p, now
  <2>4. /\ \A x \in Source \ {old, new} : ledger'.groups[x] = ledger.groups[x]
        /\ ledger'.groups[old] = NoMapping
        /\ ledger'.groups[new].target = ledger.groups[old].target
    BY <1>3, <2>1, MoveType
  <2>5. OneSourcePerTarget'
    <3> SUFFICES ASSUME NEW s \in Source, NEW q \in Source, s # q, Mapped(ledger', s), Mapped(ledger', q)
                 PROVE  ledger'.groups[s].target # ledger'.groups[q].target
      BY DEF OneSourcePerTarget
    <3> QED
      BY <2>1, <2>4 DEF ReconcilerInv, OneSourcePerTarget, Mapped
  <2>6. SoundMappings'
    <3> SUFFICES ASSUME NEW s \in Source, Mapped(ledger', s)
                 PROVE  SoundBinding(s[1], s[2], ledger'.groups[s].target, ledger'.groups[s].native)
      BY DEF SoundMappings
    <3>1. CASE s # new
      BY <2>1, <2>4, <3>1 DEF ReconcilerInv, SoundMappings, Mapped
    <3>2. CASE s = new
      <4>1. SoundBinding(old[1], old[2], ledger.groups[old].target, ledger.groups[old].native)
        BY <2>1 DEF ReconcilerInv, SoundMappings
      <4>2. ~AlwaysListed(old[1])
        BY <2>1, <2>3, <4>1 DEF SoundBinding
      <4> QED
        BY <2>2, <2>4, <3>2, <4>1, <4>2 DEF SoundBinding
    <3> QED
      BY <3>1, <3>2
  <2>7. SoundJobs' /\ JobsFree' /\ JobsApart' /\ JobsPlanned'
    BY <1>1, <1>3 DEF SoundJobs, JobsFree, JobsApart, JobsPlanned
  <2> QED
    BY <1>1, <2>5, <2>6, <2>7 DEF ReconcilerInv
<1> QED
  BY <1>2, <1>3 DEF Migrate

-------------------------------------------------------------------------------
(* The plan: a job gets a target that no other mapping has *)

(* A job for a mapping that exists keeps its target. *)
LEMMA PlannedJob ==
    ASSUME TypeOK, NEW snap \in SUBSET (Gid \X Path), NEW full \in BOOLEAN, NEW memb \in BOOLEAN,
           ~BuildFails(snap, full, memb), NEW j \in Planned(snap, full, memb), j.rule \in GitLabRule
    PROVE  \/ /\ JobSource(j) \in Source /\ Mapped(ledger, JobSource(j))
              /\ j.target = ledger.groups[JobSource(j)].target
              /\ \/ j.native = ledger.groups[JobSource(j)].native
                 \/ j.native \in snap /\ j.key = KeyOf(j.rule, j.native[1], j.native[2])
           \/ \E pick \in Picks(snap, memb) :
                 /\ j = PickJob(pick) /\ ~Mapped(ledger, JobSource(j))
                 /\ j.target = TargetPath(j.rule, j.native[2])
<1>1. ASSUME NEW pick \in Picks(snap, memb), j = PickJob(pick)
      PROVE  \/ /\ JobSource(j) \in Source /\ Mapped(ledger, JobSource(j))
                /\ j.target = ledger.groups[JobSource(j)].target
                /\ j.native \in snap /\ j.key = KeyOf(j.rule, j.native[1], j.native[2])
             \/ /\ ~Mapped(ledger, JobSource(j))
                /\ j.target = TargetPath(j.rule, j.native[2])
  <2>1. /\ j.rule = pick[1] /\ j.native = pick[2] /\ pick[2] \in snap
        /\ pick[1] \in Rule /\ pick[2][1] \in Gid /\ pick[2][2] \in Path
        /\ j.key = KeyOf(j.rule, j.native[1], j.native[2])
        /\ j.target = Target(j.rule, j.native[1], j.native[2])
    BY <1>1, PickJobType DEF BuildFails
  <2>2. JobSource(j) = <<j.rule, KeyOf(j.rule, j.native[1], j.native[2])>> /\ JobSource(j) \in Source
    BY <2>1, SourceTypes DEF JobSource
  <2> QED
    BY <2>1, <2>2 DEF Target, GitLabRule
<1>2. ASSUME NEW s \in Source, Mapped(ledger, s), j = TombJob(s)
      PROVE  /\ JobSource(j) \in Source /\ Mapped(ledger, JobSource(j))
             /\ j.target = ledger.groups[JobSource(j)].target
             /\ j.native = ledger.groups[JobSource(j)].native
  BY <1>2, TombJobType
<1>3. \/ \E pick \in Picks(snap, memb) : j = PickJob(pick)
      \/ \E s \in Source : Mapped(ledger, s) /\ j = TombJob(s)
  BY DEF Planned, TombJobs
<1> QED
  BY <1>1, <1>2, <1>3

LEMMA PlannedSound ==
    ASSUME ReconcilerInv, NEW snap \in SUBSET (Gid \X Path), NEW full \in BOOLEAN, NEW memb \in BOOLEAN,
           ~BuildFails(snap, full, memb), NEW j \in Planned(snap, full, memb), j.rule \in GitLabRule
    PROVE  SoundBinding(j.rule, j.key, j.target, j.native)
<1>1. /\ TypeOK /\ j \in Job /\ JobSource(j)[1] = j.rule /\ JobSource(j)[2] = j.key
      /\ j.rule \in Rule /\ j.rule \notin VaultRule /\ allow \in Configs
  BY PlannedType DEF ReconcilerInv, TypeOK, JobSource, GitLabRule
<1>2. AlwaysListed(j.rule) => \A g, p : KeyOf(j.rule, g, p) = p
  BY <1>1 DEF AlwaysListed, KeyOf
<1>3. CASE /\ JobSource(j) \in Source /\ Mapped(ledger, JobSource(j))
           /\ j.target = ledger.groups[JobSource(j)].target
           /\ \/ j.native = ledger.groups[JobSource(j)].native
              \/ j.native \in snap /\ j.key = KeyOf(j.rule, j.native[1], j.native[2])
  <2>1. SoundBinding(j.rule, j.key, j.target, ledger.groups[JobSource(j)].native)
    BY <1>1, <1>3 DEF ReconcilerInv, SoundMappings
  <2> QED
    BY <1>2, <1>3, <2>1 DEF SoundBinding
<1>4. ASSUME NEW pick \in Picks(snap, memb), j = PickJob(pick),
             j.target = TargetPath(j.rule, j.native[2])
      PROVE  SoundBinding(j.rule, j.key, j.target, j.native)
  <2>1. /\ j.native[2] \in Path /\ j.key = KeyOf(j.rule, j.native[1], j.native[2])
    <3>1. TargetPath(pick[1], pick[2][2]) # Unsafe
      BY DEF BuildFails
    <3>2. /\ j.rule = pick[1] /\ j.native = pick[2] /\ pick[2][2] \in Path
          /\ j.key = KeyOf(pick[1], pick[2][1], pick[2][2])
      BY <1>1, <1>4, <3>1, PickJobType
    <3> QED
      BY <3>2
  <2> QED
    BY <1>2, <1>4, <2>1 DEF SoundBinding, TargetPath
<1> QED
  BY <1>1, <1>3, <1>4, PlannedJob

(* A group without a mapping yet, in a full pass: every other mapping of   *)
(* its rule is a job of the plan, or it is held for another listed path,   *)
(* and then Validate keeps the targets apart.                              *)
LEMMA FullPlanFree ==
    ASSUME ReconcilerInv, NEW snap \in SUBSET (Gid \X Path), NEW memb \in BOOLEAN,
           ~BuildFails(snap, TRUE, memb), Legacy(snap) = {},
           NEW pick \in Picks(snap, memb), pick[1] \in GitLabRule,
           SinglePath(pick[1]) \/ AlwaysListed(pick[1]),
           PickJob(pick).target = TargetPath(pick[1], pick[2][2]),
           NEW q \in Source, q[1] = pick[1], q # JobSource(PickJob(pick)), Mapped(ledger, q)
    PROVE  ledger.groups[q].target # PickJob(pick).target
<1> DEFINE j == PickJob(pick)
           picked == {PickJob(x) : x \in Picks(snap, memb)}
<1>1. /\ TypeOK /\ j.rule = pick[1] /\ j.key = KeyOf(pick[1], pick[2][1], pick[2][2])
      /\ pick[2] \in snap /\ pick[2][2] \in Path /\ Selects(pick[1], pick[2][2])
      /\ pick[1] \in Rule /\ pick[1] \notin VaultRule /\ allow \in Configs
  BY PickJobType DEF ReconcilerInv, TypeOK, BuildFails, GitLabRule
<1>2. j \in Planned(snap, TRUE, memb)
  BY DEF Planned
<1>3. ASSUME NEW i \in Planned(snap, TRUE, memb), i.rule \in GitLabRule, JobSource(i) = q
      PROVE  i.target # j.target
  <2>1. i # j /\ SameProvider(i.rule, j.rule)
    BY <1>1, <1>3 DEF SameProvider, GitLabRule
  <2> QED
    BY <1>2, <2>1 DEF BuildFails, Duplicates
<1>4. CASE q \in {<<i.rule, i.key>> : i \in picked}
  <2>1. PICK x \in Picks(snap, memb) : q = JobSource(PickJob(x))
    BY <1>4 DEF JobSource
  <2>2. PickJob(x) \in Planned(snap, TRUE, memb) /\ PickJob(x).rule = q[1]
    BY <2>1 DEF Planned, JobSource
  <2>3. PickJob(x).target = ledger.groups[q].target
    BY <1>1, <2>1, <2>2, PlannedJob
  <2> QED
    BY <1>3, <2>1, <2>2, <2>3
<1>5. CASE q \notin {<<i.rule, i.key>> : i \in picked} /\ ~Held(q)
  <2>1. TombJob(q) \in Planned(snap, TRUE, memb)
    BY <1>5 DEF Planned, TombJobs
  <2>2. JobSource(TombJob(q)) = q /\ TombJob(q).rule = q[1] /\ TombJob(q).target = ledger.groups[q].target
    BY <1>1, TombJobType
  <2> QED
    BY <1>3, <2>1, <2>2
<1>6. CASE Held(q)
  <2> DEFINE p == ledger.groups[q].native[2]
  <2>1. allow[pick[1]].declared /\ p \in allow[pick[1]].paths /\ pick[2][2] \in allow[pick[1]].paths
    BY <1>1, <1>6 DEF Held, Selects, Allowed
  <2>2. p = pick[2][2] => q[2] = p
    BY <1>1, <2>1 DEF Legacy
  <2>3. q = <<q[1], q[2]>>
    BY DEF Source
  <2>4. p # pick[2][2]
    BY <1>1, <2>1, <2>2, <2>3 DEF JobSource, KeyOf
  <2>5. AlwaysListed(pick[1])
    BY <1>1, <2>1, <2>4 DEF SinglePath
  <2>6. ledger.groups[q].target = TargetOf[pick[1]][p]
    BY <2>5 DEF ReconcilerInv, SoundMappings, SoundBinding
  <2>7. ValidAllowlist(pick[1], allow[pick[1]])
    BY <1>1, ConfigsAssumption
  <2> QED
    BY <2>1, <2>4, <2>6, <2>7 DEF ValidAllowlist, TargetPath
<1> QED
  BY <1>4, <1>5, <1>6

LEMMA PlannedFree ==
    ASSUME ReconcilerInv, SoundRules,
           NEW snap \in SUBSET (Gid \X Path), NEW full \in BOOLEAN, NEW memb \in BOOLEAN,
           ~BuildFails(snap, full, memb), Legacy(snap) = {},
           NEW j \in Planned(snap, full, memb), j.rule \in GitLabRule,
           NEW q \in Source, q # JobSource(j), Mapped(ledger, q)
    PROVE  ledger.groups[q].target # j.target
<1>1. /\ SoundBinding(j.rule, j.key, j.target, j.native)
      /\ SoundBinding(q[1], q[2], ledger.groups[q].target, ledger.groups[q].native)
      /\ TypeOK /\ j \in Job /\ j.target \in Tgt
  BY PlannedSound, PlannedType DEF ReconcilerInv, SoundMappings, Job
<1>2. CASE q[1] # j.rule
  <2>1. q[1] \in GitLabRule
    BY <1>1 DEF SoundBinding
  <2>2. PICK p \in Path, o \in Path : j.target = TargetOf[j.rule][p] /\ ledger.groups[q].target = TargetOf[q[1]][o]
    BY <1>1 DEF SoundBinding
  <2> QED
    BY <1>1, <1>2, <2>1, <2>2 DEF SoundRules, SeparateTargets
<1>3. CASE q[1] = j.rule
  <2>1. CASE /\ JobSource(j) \in Source /\ Mapped(ledger, JobSource(j))
             /\ j.target = ledger.groups[JobSource(j)].target
    BY <2>1 DEF ReconcilerInv, OneSourcePerTarget
  <2>2. ASSUME NEW pick \in Picks(snap, memb), j = PickJob(pick), ~Mapped(ledger, JobSource(j)),
               j.target = TargetPath(j.rule, j.native[2])
        PROVE  ledger.groups[q].target # j.target
    <3>1. j.rule = pick[1] /\ j.native = pick[2] /\ j.rule \notin VaultRule
      <4>1. TargetPath(pick[1], pick[2][2]) # Unsafe /\ j.rule \notin VaultRule
        BY DEF BuildFails, GitLabRule
      <4>2. PickJob(pick).rule = pick[1] /\ PickJob(pick).native = pick[2]
        BY <1>1, <4>1, PickJobType
      <4> QED
        BY <2>2, <4>1, <4>2
    <3>2. SinglePath(pick[1]) \/ AlwaysListed(pick[1])
      BY <3>1 DEF SoundRules
    <3>3. CASE full
      BY <1>3, <2>2, <3>1, <3>2, <3>3, FullPlanFree
    <3>4. CASE ~full
      <4>1. ~TargetedCollision(pick)
        BY <3>4 DEF BuildFails
      <4>2. q = <<j.rule, q[2]>> /\ q[2] \in (Path \cup Gid) \ {j.key}
        BY <1>3 DEF Source, JobSource
      <4> QED
        BY <2>2, <3>1, <4>1, <4>2 DEF TargetedCollision
    <3> QED
      BY <3>3, <3>4
  <2> QED
    BY <1>1, <2>1, <2>2, PlannedJob
<1> QED
  BY <1>2, <1>3

LEMMA PlanKeeps == ASSUME ReconcilerInv, SoundRules, Plan PROVE ReconcilerInv'
<1>1. TypeOK /\ TypeOK' /\ UNCHANGED ledger /\ Legacy(pass.snap) = {}
  BY PlanTypes DEF ReconcilerInv, Plan
<1>2. CASE pass' = Idle
  BY <1>1, <1>2, IdleType, QuietKeeps
<1>3. CASE /\ ~BuildFails(pass.snap, pass.full, pass.memb)
           /\ pass' = [pass EXCEPT !.pc = "apply", !.snap = {},
                                   !.jobs = Planned(pass.snap, pass.full, pass.memb)]
  <2> DEFINE P == Planned(pass.snap, pass.full, pass.memb)
  <2>1. pass'.jobs = P /\ pass'.pc = "apply"
    BY <1>1, <1>3 DEF TypeOK, Passes
  <2>2. pass.snap \in SUBSET (Gid \X Path) /\ pass.full \in BOOLEAN /\ pass.memb \in BOOLEAN
    BY <1>1, PassTypes
  <2>3. \A j \in P : j.rule \in GitLabRule => SoundBinding(j.rule, j.key, j.target, j.native)
    BY <1>3, <2>2, PlannedSound
  <2>4. \A j \in P : j.rule \in GitLabRule =>
           \A q \in Source : q # JobSource(j) /\ Mapped(ledger, q) => ledger.groups[q].target # j.target
    BY <1>1, <1>3, <2>2, PlannedFree
  <2>5. \A i, j \in P : i.rule \in GitLabRule /\ j.rule \in GitLabRule /\ i # j => i.target # j.target
    BY <1>3 DEF BuildFails, Duplicates, SameProvider, GitLabRule
  <2> HIDE DEF P
  <2>6. SoundJobs' /\ JobsPlanned'
    BY <2>1, <2>3 DEF SoundJobs, JobsPlanned
  <2>7. JobsFree'
    BY <1>1, <2>1, <2>4 DEF JobsFree
  <2>8. JobsApart'
    BY <2>1, <2>5 DEF JobsApart
  <2>9. OneSourcePerTarget' /\ SoundMappings'
    BY <1>1 DEF ReconcilerInv, OneSourcePerTarget, SoundMappings
  <2> QED
    BY <1>1, <2>6, <2>7, <2>8, <2>9 DEF ReconcilerInv
<1> QED
  BY <1>2, <1>3 DEF Plan

LEMMA JobKeeps ==
    ASSUME ReconcilerInv, NEW j \in pass.jobs,
           ApplyAccess(j) \/ ApplyGroup(j) \/ ApplyGroupRefused(j) \/ ApplyGroupFails(j)
    PROVE  ReconcilerInv'
<1>1. TypeOK /\ TypeOK' /\ j \in Job /\ ledger \in Contents
  BY ApplyTypes, PassTypes DEF ReconcilerInv, TypeOK
<1>2. pass'.jobs = pass.jobs \ {j} /\ pass'.pc = pass.pc /\ pass.pc = "apply"
  BY <1>1, PassTypes DEF ApplyAccess, ApplyGroup, ApplyGroupRefused, ApplyGroupFails, AfterFailure
<1>3. CASE ApplyAccess(j) \/ ApplyGroupRefused(j)
  <2>1. ledger' = ledger
    BY <1>3 DEF ApplyAccess, ApplyGroupRefused
  <2> QED
    BY <1>1, <1>2, <2>1, QuietKeeps
<1>4. CASE ApplyGroup(j) \/ ApplyGroupFails(j)
  <2>1. j.rule \in GitLabRule
    BY <1>1, <1>4 DEF ApplyGroup, ApplyGroupFails, GitLabRule, Job
  <2>2. \/ ledger'.groups = ledger.groups
        \/ ledger'.groups = Bound(j).groups
        \/ ledger'.groups = [Bound(j).groups EXCEPT ![JobSource(j)] = NoMapping]
    BY <1>1, <1>4, SyncedType, RetiredType DEF ApplyGroup, ApplyGroupFails
  <2> QED
    BY <1>1, <1>2, <2>1, <2>2, BindKeeps
<1> QED
  BY <1>3, <1>4

(* Everything else: no mapping changes and no job is added. *)
LEMMA RestKeeps ==
    ASSUME ReconcilerInv, TypeOK',
           \/ StartFull \/ Targeted \/ ListPage \/ Collect \/ Finish \/ PassFails \/ VaultChanges
           \/ (\E c \in Configs : Restart(c)) \/ (\E t \in Tgt : GroupDeleted(t))
           \/ (\E g \in Gid, p \in Path \cup {Absent} : KeycloakChanges(g, p))
           \/ UNCHANGED vars
    PROVE  ReconcilerInv'
<1>1. TypeOK /\ (pass.pc # "apply" => pass.jobs = {})
  BY DEF ReconcilerInv, JobsPlanned
<1>2. ledger' = ledger
  BY DEF StartFull, Targeted, StartTargeted, ListPage, Collect, Finish, PassFails, VaultChanges,
         Restart, GroupDeleted, KeycloakChanges, vars
<1>3. CASE StartFull \/ Targeted
  <2>1. pass'.jobs = {}
    BY <1>3 DEF StartFull, Targeted, StartTargeted, Idle
  <2> QED
    BY <1>2, <2>1, QuietKeeps
<1>4. CASE ListPage
  <2>1. pass.jobs = {}
    BY <1>1, <1>4 DEF ListPage
  <2>2. pass'.jobs = {}
    <3>1. CASE pass' = Idle \/ pass' = Goto("collect")
      BY <1>1, <2>1, <3>1, PassTypes, IdleType
    <3>2. CASE pass' = [pass EXCEPT !.snap = @ \cup {<<g, kc[g]>> : g \in Page}]
      BY <1>1, <2>1, <3>2 DEF TypeOK, Passes
    <3> QED
      BY <1>4, <3>1, <3>2 DEF ListPage
  <2> QED
    BY <1>2, <2>2, QuietKeeps
<1>5. CASE Collect
  <2>1. pass.jobs = {}
    BY <1>1, <1>5 DEF Collect
  <2>2. pass'.jobs = {}
    BY <1>1, <1>5, <2>1, PassTypes, IdleType DEF Collect
  <2> QED
    BY <1>2, <2>2, QuietKeeps
<1>6. CASE Finish \/ PassFails \/ \E c \in Configs : Restart(c)
  <2>1. pass' = Idle
    BY <1>6 DEF Finish, PassFails, Restart
  <2> QED
    BY <1>2, <2>1, IdleType, QuietKeeps
<1>7. CASE \/ VaultChanges \/ (\E t \in Tgt : GroupDeleted(t)) \/ UNCHANGED vars
           \/ (\E g \in Gid, p \in Path \cup {Absent} : KeycloakChanges(g, p))
  <2>1. pass' = pass
    BY <1>7 DEF VaultChanges, GroupDeleted, KeycloakChanges, vars
  <2> QED
    BY <1>1, <1>2, <2>1, QuietKeeps
<1> QED
  BY <1>3, <1>4, <1>5, <1>6, <1>7

LEMMA InvStep == ASSUME SoundRules PROVE ReconcilerInv /\ [Next]_vars => ReconcilerInv'
<1> SUFFICES ASSUME ReconcilerInv, [Next]_vars PROVE ReconcilerInv'
  OBVIOUS
<1>1. TypeOK'
  BY TypeStep DEF ReconcilerInv
<1> QED
  BY <1>1, MigrateKeeps, PlanKeeps, JobKeeps, RestKeeps DEF Next, Step, Others

(* For rules that SoundRules describes: a target is bound to one source,   *)
(* the jobs of a pass are apart from one another and from every mapping    *)
(* that the pass does not touch, and migrations keep it so.                *)
THEOREM ReconcilerInvariant == SoundRules => (Spec => []ReconcilerInv)
<1>1. SoundRules /\ ReconcilerInv /\ [Next]_vars => ReconcilerInv'
  BY InvStep
<1>2. SoundRules => SoundRules'
  BY DEF SoundRules, SeparateTargets, SinglePath, AlwaysListed, GitLabRule
<1> QED
  BY <1>1, <1>2, InvInit, PTL DEF Spec

(* A target-path collision fails before any provider mutation: through     *)
(* renames, reused paths, migrations, restarts with another allowlist, in  *)
(* full and in targeted passes, no two sources are bound to one GitLab     *)
(* group, for any number of rules and groups, if SoundRules holds.         *)
THEOREM ReconcilerOneSourcePerTarget == SoundRules => (Spec => []OneSourcePerTarget)
<1>1. ReconcilerInv => OneSourcePerTarget
  BY DEF ReconcilerInv
<1> QED
  BY ReconcilerInvariant, <1>1, PTL
===============================================================================
