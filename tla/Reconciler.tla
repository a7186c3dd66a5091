------------------------------ MODULE Reconciler ------------------------------
(***************************************************************************)
(* A pass of the reconciler over all the groups that the rules select: the *)
(* full pass (RunOnce) and the targeted one (RunGroupOnce), from the read  *)
(* of Keycloak (src/internal/source/keycloak/client.go) through the        *)
(* migration of legacy mappings, the plan with its collisions and          *)
(* tombstones, and the health checks to the jobs, one by one               *)
(* (src/internal/reconcile/reconciler.go).  Groups are created, renamed    *)
(* and deleted between any two steps, the process restarts, with another   *)
(* allowlist too, and calls fail.                                          *)
(*                                                                         *)
(* A Keycloak group has one member: itself, that is, all of its people.    *)
(* SyncGroup is one step here, with the outcomes that GitLabSync shows; in *)
(* it the memberships in GitLab are the recorded ones.  GroupBridge writes *)
(* nothing to Vault, so a Vault job only succeeds or fails.                *)
(***************************************************************************)
EXTENDS Naturals, FiniteSets

CONSTANTS
    Gid,          \* ids of Keycloak groups
    Path,         \* full paths of Keycloak groups
    Rule,         \* the configured rules
    VaultRule,    \* those of them with a vault section; the others are GitLab's
    Tgt,          \* GitLab groups and Vault secret paths
    TargetOf,     \* TargetOf[r][p]: the target path that rule r gives to path p
    Unmatched,    \* ... when p is not below r's prefix
    Unsafe,       \* ... when p has no safe name in the target
    Configs,      \* the allowlists of the rules, by rule
    Absent,       \* the path of a group that does not exist
    NoMapping,
    MaxEnv,       \* bound: changes in Keycloak
    MaxOutages,   \* bound: changes of Vault, and GitLab groups deleted
    MaxRestarts,  \* bound: kills and restarts
    MaxFaults     \* bound: calls that fail

(* Mappings are visited in the order of their keys; a path sorts before an *)
(* id.  Keycloak lists groups in the order of their paths.                 *)
ASSUME KeysAssumption ==
    /\ Gid \subseteq Nat /\ Path \subseteq Nat
    /\ \A p \in Path, g \in Gid : p < g

(* sourceGroupPaths; without one, a rule takes all of its prefix. *)
Allowlist == [declared : BOOLEAN, paths : SUBSET Path]

ASSUME RulesAssumption ==
    /\ VaultRule \subseteq Rule
    /\ TargetOf \in [Rule -> [Path -> Tgt \cup {Unmatched, Unsafe}]]
    /\ Configs \subseteq [Rule -> Allowlist]
    /\ Unmatched \notin Tgt /\ Unsafe \notin Tgt
    /\ Absent \notin Path

(* Validate: the listed paths of a GitLab rule have targets, none twice. *)
ValidAllowlist(r, a) ==
    a.declared => \A p \in a.paths : /\ TargetOf[r][p] \in Tgt
                                    /\ \A o \in a.paths \ {p} : TargetOf[r][o] # TargetOf[r][p]

ASSUME ConfigsAssumption == \A c \in Configs, r \in Rule \ VaultRule : ValidAllowlist(r, c[r])

ASSUME MappingAssumption ==
    NoMapping \notin [target : Tgt, native : Gid \X Path, owned : BOOLEAN]

ASSUME BoundsAssumption == {MaxEnv, MaxOutages, MaxRestarts, MaxFaults} \subseteq Nat

Member == Tgt \X Gid

(* Keys of mappings: a rule, and an id or a path. *)
Source == Rule \X (Path \cup Gid)

INSTANCE LedgerContents WITH Target <- Tgt, Native <- Gid \X Path, MaxObservations <- 2

Job == [rule : Rule, key : Path \cup Gid, native : Gid \X Path, target : Tgt, tomb : BOOLEAN]

VARIABLES
    kc,        \* kc[g]: the path of group g in Keycloak
    vault,     \* "up", "wrong" (its objects are not what Git declares) or "down"
    broken,    \* targets whose GitLab group was deleted under its mapping
    allow,     \* the allowlists of the running process
    ledger,    \* the ownership ledger; its records are the access people have
    pass,      \* the pass in progress
    bounds,    \* how much of each bound is used
    lost,      \* history: lost[<<t, g>>]: reads since g's last sync to t that did not, or
               \* could not, show that g belongs there (2 = two or more)
    disturbed  \* history: Keycloak changed since the read in progress began

vars == <<kc, vault, broken, allow, ledger, pass, bounds, lost, disturbed>>
world == <<kc, vault, broken>>

Idle == [pc |-> "idle", full |-> FALSE, memb |-> FALSE, snap |-> {}, jobs |-> {}]

Passes == [pc : {"idle", "list", "collect", "plan", "apply"}, full : BOOLEAN, memb : BOOLEAN,
           snap : SUBSET (Gid \X Path), jobs : SUBSET Job]

TypeOK ==
    /\ kc \in [Gid -> Path \cup {Absent}]
    /\ vault \in {"up", "wrong", "down"}
    /\ broken \subseteq Tgt
    /\ allow \in Configs
    /\ ledger \in Contents
    /\ pass \in Passes
    /\ bounds \in [env : 0..MaxEnv, outages : 0..MaxOutages, restarts : 0..MaxRestarts,
                   faults : 0..MaxFaults]
    /\ lost \in [Member -> 0..2]
    /\ disturbed \in BOOLEAN

Init ==
    /\ kc = [g \in Gid |-> Absent]
    /\ vault = "up"
    /\ broken = {}
    /\ allow \in Configs
    /\ ledger = EmptyContents
    /\ pass = Idle
    /\ bounds = [env |-> 0, outages |-> 0, restarts |-> 0, faults |-> 0]
    /\ lost = [m \in Member |-> 0]
    /\ disturbed = FALSE

-------------------------------------------------------------------------------
(* Which groups a rule selects, under which key and for which target *)

(* sourcePathAllowed *)
Allowed(r, p) == allow[r].declared => p \in allow[r].paths

(* relativeGroupPath and sourcePathAllowed *)
Selects(r, p) == p # Absent /\ TargetOf[r][p] # Unmatched /\ Allowed(r, p)

(* targetGroupPath and vaultSecretPath *)
TargetPath(r, p) == TargetOf[r][p]

(* sourceStateKey *)
KeyOf(r, g, p) == IF r \in VaultRule \/ allow[r].declared THEN p ELSE g

(* An established mapping keeps its target through a rename. *)
Target(r, g, p) ==
    LET s == <<r, KeyOf(r, g, p)>>
    IN  IF r \notin VaultRule /\ Mapped(ledger, s) THEN ledger.groups[s].target
                                                   ELSE TargetPath(r, p)

SameProvider(r, q) == r \in VaultRule <=> q \in VaultRule

(* The pairs of a rule and a group of the snapshot that become jobs. *)
Picks(snap, memb) ==
    {pick \in Rule \X snap :
        ~(memb /\ pick[1] \in VaultRule) /\ Selects(pick[1], pick[2][2])}

PickJob(pick) ==
    LET r == pick[1]
        g == pick[2][1]
        p == pick[2][2]
    IN  [rule |-> r, key |-> KeyOf(r, g, p), native |-> <<g, p>>, target |-> Target(r, g, p),
         tomb |-> FALSE]

(* Mappings of no selected group, but for those whose path is on the       *)
(* allowlist: these are held until their group returns.                    *)
Held(s) == allow[s[1]].declared /\ ledger.groups[s].native[2] \in allow[s[1]].paths

TombJob(s) ==
    LET m == ledger.groups[s]
    IN  [rule |-> s[1], key |-> s[2], native |-> m.native, target |-> m.target, tomb |-> TRUE]

TombJobs(picks) ==
    {TombJob(s) : s \in {s \in Source : /\ Mapped(ledger, s)
                                        /\ s \notin {<<j.rule, j.key>> : j \in picks}
                                        /\ ~Held(s)}}

-------------------------------------------------------------------------------
(* The plan *)

(* Two jobs for one target of one provider. *)
Duplicates(jobs) ==
    \E i, j \in jobs : i # j /\ SameProvider(i.rule, j.rule) /\ i.target = j.target

(* Mutant: a targeted pass does not look for collisions. *)
NoCollision(pick) == FALSE

(* A targeted pass compares the target with the mappings of the same rule, *)
(* in their order: with the name made from the path for those before the   *)
(* group's own mapping, with the established target for the others.        *)
TargetedCollision(pick) ==
    LET r == pick[1]
        k == PickJob(pick).key
    IN  /\ r \notin VaultRule
        /\ \E o \in (Path \cup Gid) \ {k} :
              /\ Mapped(ledger, <<r, o>>)
              /\ ledger.groups[<<r, o>>].target =
                    IF o < k THEN TargetPath(r, pick[2][2]) ELSE PickJob(pick).target

Planned(snap, full, memb) ==
    LET picked == {PickJob(pick) : pick \in Picks(snap, memb)}
    IN  IF full THEN picked \cup TombJobs(picked) ELSE picked

(* Any of these fails the whole pass before a provider is called. *)
BuildFails(snap, full, memb) ==
    \/ \E pick \in Picks(snap, memb) : TargetPath(pick[1], pick[2][2]) = Unsafe
    \/ ~full /\ \E pick \in Picks(snap, memb) : TargetedCollision(pick)
    \/ Duplicates(Planned(snap, full, memb))

(* HealthCheck of the Vault provider: it answers, and its mounts are there. *)
Healthy == vault # "down"

(* A full pass checks every provider, a targeted one those of its jobs. *)
NeedsVault == IF pass.full THEN VaultRule # {}
              ELSE \E j \in Planned(pass.snap, FALSE, pass.memb) : j.rule \in VaultRule

-------------------------------------------------------------------------------
(* What a job makes of the ledger, and with it of access *)

(* Mutant: a tombstone never waits for a second observation. *)
AlwaysImmediate(j) == j.tomb

(* ImmediateRemoval *)
Immediate(j) == j.tomb /\ allow[j.rule].declared

Bound(j) == PutGroup(ledger, <<j.rule, j.key>>,
                     [target |-> j.target, native |-> j.native, owned |-> FALSE])

Desired(j) == IF j.tomb THEN {} ELSE {<<j.target, j.native[1]>>}

(* The group gets access and its observations are forgotten; every other   *)
(* one with access is observed to be absent, and removed the second time.  *)
(* The refusals of SyncGroup that do not depend on other groups (circuit   *)
(* breaker, unresolved users, exempt members, custom roles) are in         *)
(* GitLabSync: here everyone resolves and nobody is exempt.                *)
Synced(j) ==
    LET desired == Desired(j)
        absent  == {m \in ledger.records : m[1] = j.target} \ desired
        removed == {m \in absent : Immediate(j) \/ ledger.absences[m] >= 1}
    IN  [Bound(j) EXCEPT
            !.records = (@ \ removed) \cup desired,
            !.absences = [m \in Member |-> IF m \in absent \ removed THEN 1
                                           ELSE IF m \in removed \cup desired THEN 0
                                           ELSE @[m]]]

(* Everyone is gone from the target of a tombstone: the mapping goes too. *)
Retired(j) ==
    IF j.tomb /\ {m \in Synced(j).records : m[1] = j.target} = {}
    THEN DeleteGroup(Synced(j), <<j.rule, j.key>>)
    ELSE Synced(j)

(* SyncGroup refuses a source that is bound to another group, which a      *)
(* group that was recreated in GitLab is as well.                          *)
Refused(j) ==
    /\ Mapped(ledger, <<j.rule, j.key>>)
    /\ ledger.groups[<<j.rule, j.key>>].target # j.target \/ j.target \in broken

-------------------------------------------------------------------------------
(* Reading Keycloak *)

Fault == bounds.faults < MaxFaults /\ bounds' = [bounds EXCEPT !.faults = @ + 1]

Goto(step) == [pass EXCEPT !.pc = step]

Entitled(m) ==
    \E r \in Rule \ VaultRule : Selects(r, kc[m[2]]) /\ Target(r, m[2], kc[m[2]]) = m[1]

(* What a read that ends now tells of those with access. *)
CountLost(dist) ==
    lost' = [m \in Member |-> IF m \in ledger.records /\ (dist \/ ~Entitled(m)) /\ lost[m] < 2
                              THEN lost[m] + 1 ELSE lost[m]]

StartFull ==
    /\ pass.pc = "idle"
    /\ pass' = [Idle EXCEPT !.pc = "list", !.full = TRUE]
    /\ UNCHANGED <<world, allow, ledger, bounds, lost, disturbed>>

(* A hint names a group.  ReadGroup is one step: a group that is gone is   *)
(* left to the full pass.                                                  *)
StartTargeted(g, memb) ==
    /\ pass.pc = "idle"
    /\ kc[g] # Absent
    /\ pass' = [Idle EXCEPT !.pc = "plan", !.memb = memb, !.snap = {<<g, kc[g]>>}]
    /\ CountLost(FALSE)
    /\ UNCHANGED <<world, allow, ledger, bounds, disturbed>>

(* listGroupsPage, with one group a page. *)
Page == LET present == {g \in Gid : kc[g] # Absent}
        IN  {g \in present : Cardinality({h \in present : kc[h] < kc[g]}) = Cardinality(pass.snap)}

(* A group that comes a second time is an error and ends the pass. *)
ListPage ==
    /\ pass.pc = "list"
    /\ IF Page = {}
       THEN pass' = Goto("collect") /\ CountLost(disturbed)
       ELSE /\ pass' = IF Page \subseteq {gp[1] : gp \in pass.snap} THEN Idle
                       ELSE [pass EXCEPT !.snap = @ \cup {<<g, kc[g]>> : g \in Page}]
            /\ UNCHANGED lost
    /\ disturbed' = (disturbed /\ pass'.pc = "list")
    /\ UNCHANGED <<world, allow, ledger, bounds>>

(* Mutant: a group that was deleted meanwhile has no members. *)
CollectWithoutError ==
    /\ pass.pc = "collect"
    /\ pass' = [pass EXCEPT !.pc = "plan", !.snap = {<<gp[1], kc[gp[1]]>> : gp \in @}]
    /\ UNCHANGED <<world, allow, ledger, bounds, lost, disturbed>>

(* collectGroup: the members of each group, under the path it was listed   *)
(* with.  A group that was deleted meanwhile fails the pass.               *)
Collect ==
    /\ pass.pc = "collect"
    /\ pass' = IF \A gp \in pass.snap : kc[gp[1]] # Absent THEN Goto("plan") ELSE Idle
    /\ UNCHANGED <<world, allow, ledger, bounds, lost, disturbed>>

-------------------------------------------------------------------------------
(* Planning *)

(* Mappings that a declared group of the snapshot owns under an older key. *)
Legacy(snap) ==
    {s \in Source : /\ s[1] \notin VaultRule /\ allow[s[1]].declared
                    /\ Mapped(ledger, s)
                    /\ LET p == ledger.groups[s].native[2]
                       IN  p \in allow[s[1]].paths \ {s[2]} /\ p \in {gp[2] : gp \in snap}}

FirstLegacy(snap) == CHOOSE s \in Legacy(snap) : \A q \in Legacy(snap) : s[2] <= q[2]

(* migrateCanonicalMappings, one MoveGroup at a time. *)
Migrate ==
    /\ pass.pc = "plan"
    /\ Legacy(pass.snap) # {}
    /\ LET old == FirstLegacy(pass.snap)
           p   == ledger.groups[old].native[2]
           new == <<old[1], p>>
           now == CHOOSE gp \in pass.snap : gp[2] = p
       IN  IF CanMoveGroup(ledger, old, new)
           THEN ledger' = MoveGroup(ledger, old, new, now) /\ UNCHANGED pass
           ELSE pass' = Idle /\ UNCHANGED ledger
    /\ UNCHANGED <<world, allow, bounds, lost, disturbed>>

Plan ==
    /\ pass.pc = "plan"
    /\ Legacy(pass.snap) = {}
    /\ pass' = IF BuildFails(pass.snap, pass.full, pass.memb) \/ (NeedsVault /\ ~Healthy)
               THEN Idle
               ELSE [pass EXCEPT !.pc = "apply", !.snap = {},
                                 !.jobs = Planned(pass.snap, pass.full, pass.memb)]
    /\ UNCHANGED <<world, allow, ledger, bounds, lost, disturbed>>

-------------------------------------------------------------------------------
(* The jobs *)

Done(j) == [pass EXCEPT !.jobs = @ \ {j}]

(* Mutant: the first job that fails ends the pass. *)
AbortedBy(j) == Idle

(* A job that fails leaves the others to run. *)
AfterFailure(j) == Done(j)

(* SyncAccessGroup: policy, group and alias are exactly what Git declares. *)
Verified == vault = "up"

ApplyAccess(j) ==
    /\ pass.pc = "apply"
    /\ j \in pass.jobs
    /\ j.rule \in VaultRule
    /\ pass' = IF Verified THEN Done(j) ELSE AfterFailure(j)
    /\ UNCHANGED <<world, allow, ledger, bounds, lost, disturbed>>

ApplyGroup(j) ==
    /\ pass.pc = "apply"
    /\ j \in pass.jobs
    /\ j.rule \notin VaultRule
    /\ ~Refused(j)
    /\ ledger' = Retired(j)
    /\ lost' = [m \in Member |-> IF m \in Desired(j) \/ m \notin ledger'.records THEN 0 ELSE lost[m]]
    /\ broken' = broken \ {j.target}
    /\ pass' = Done(j)
    /\ UNCHANGED <<kc, vault, allow, bounds, disturbed>>

ApplyGroupRefused(j) ==
    /\ pass.pc = "apply"
    /\ j \in pass.jobs
    /\ j.rule \notin VaultRule
    /\ Refused(j)
    /\ pass' = AfterFailure(j)
    /\ UNCHANGED <<world, allow, ledger, bounds, lost, disturbed>>

(* A call or a save fails: before the binding, after it, or before the     *)
(* retirement of the mapping.  What it leaves half done of one group's     *)
(* members is in GitLabSync.                                               *)
ApplyGroupFails(j) ==
    /\ pass.pc = "apply"
    /\ j \in pass.jobs
    /\ j.rule \notin VaultRule
    /\ ~Refused(j)
    /\ Fault
    /\ ledger' \in {ledger, Bound(j), Synced(j)}
    /\ pass' = AfterFailure(j)
    /\ UNCHANGED <<world, allow, lost, disturbed>>

Finish ==
    /\ pass.pc = "apply"
    /\ pass.jobs = {}
    /\ pass' = Idle
    /\ UNCHANGED <<world, allow, ledger, bounds, lost, disturbed>>

Step ==
    \/ ListPage \/ Collect \/ Migrate \/ Plan \/ Finish
    \/ \E j \in pass.jobs : ApplyAccess(j) \/ ApplyGroup(j) \/ ApplyGroupRefused(j)

Targeted == \E g \in Gid, memb \in BOOLEAN : StartTargeted(g, memb)

-------------------------------------------------------------------------------
(* What others do *)

(* A read of Keycloak, a health check or a save of the migration fails. *)
PassFails ==
    /\ pass.pc \in {"list", "collect", "plan"}
    /\ Fault
    /\ pass' = Idle
    /\ disturbed' = FALSE
    /\ UNCHANGED <<world, allow, ledger, lost>>

Restart(c) ==
    /\ bounds.restarts < MaxRestarts
    /\ bounds' = [bounds EXCEPT !.restarts = @ + 1]
    /\ allow' = c
    /\ pass' = Idle
    /\ disturbed' = FALSE
    /\ UNCHANGED <<world, ledger, lost>>

(* A group is created, renamed, moved or deleted. *)
KeycloakChanges(g, p) ==
    /\ bounds.env < MaxEnv
    /\ bounds' = [bounds EXCEPT !.env = @ + 1]
    /\ p # kc[g]
    /\ p = Absent \/ \A h \in Gid : kc[h] # p
    /\ kc' = [kc EXCEPT ![g] = p]
    /\ disturbed' = (pass.pc = "list")
    /\ UNCHANGED <<vault, broken, allow, ledger, pass, lost>>

Outage == bounds.outages < MaxOutages /\ bounds' = [bounds EXCEPT !.outages = @ + 1]

VaultChanges ==
    /\ VaultRule # {}
    /\ Outage
    /\ vault' \in {"up", "wrong", "down"} \ {vault}
    /\ UNCHANGED <<kc, broken, allow, ledger, pass, lost, disturbed>>

GroupDeleted(t) ==
    /\ Outage
    /\ \E s \in Source : Mapped(ledger, s) /\ ledger.groups[s].target = t
    /\ broken' = broken \cup {t}
    /\ UNCHANGED <<kc, vault, allow, ledger, pass, lost, disturbed>>

Others ==
    \/ PassFails
    \/ \E j \in pass.jobs : ApplyGroupFails(j)
    \/ \E c \in Configs : Restart(c)
    \/ \E g \in Gid, p \in Path \cup {Absent} : KeycloakChanges(g, p)
    \/ VaultChanges
    \/ \E t \in Tgt : GroupDeleted(t)

Next == Step \/ StartFull \/ Targeted \/ Others

(* A pass goes on, because every call has a timeout, and the ticker starts *)
(* a full pass again and again, however many hints come: a select takes    *)
(* every ready case sooner or later.                                       *)
Spec == Init /\ [][Next]_vars /\ WF_vars(Step) /\ SF_vars(StartFull)

-------------------------------------------------------------------------------
(* Safety *)

(* No two sources are bound to one GitLab group ("a target-path collision  *)
(* fails before any provider mutation", docs/architecture.md): through     *)
(* renames, reused paths, migrations and changes of the allowlist, by full *)
(* and by targeted passes.                                                 *)
OneSourcePerTarget ==
    \A s, q \in Source :
       s # q /\ Mapped(ledger, s) /\ Mapped(ledger, q) =>
          ledger.groups[s].target # ledger.groups[q].target

(* A group loses the access to a target only if, since its last sync       *)
(* there, two reads did not or could not show it - no rule gave it that    *)
(* target, or Keycloak changed between two pages - or if the path of the   *)
(* mapping was taken out of Git: a rename, a missed page, a failed pass or *)
(* a restart with another allowlist alone takes nothing away.              *)
AccessKept ==
    [][\A t \in Tgt, g \in Gid :
          <<t, g>> \in ledger.records \ ledger'.records =>
             \/ lost[<<t, g>>] >= 2
             \/ \E s \in Source : /\ Mapped(ledger, s) /\ ledger.groups[s].target = t
                                  /\ allow[s[1]].declared /\ ~Held(s)]_vars

-------------------------------------------------------------------------------
(* Convergence *)

Snapshot == {<<g, kc[g]>> : g \in {g \in Gid : kc[g] # Absent}}

(* What fails every full pass until someone intervenes: a plan that fails, *)
(* mappings of one path that disagree, a Vault that is down.               *)
Refusing ==
    \/ BuildFails(Snapshot, TRUE, FALSE)
    \/ \E s \in Legacy(Snapshot) : ~CanMoveGroup(ledger, s, <<s[1], ledger.groups[s].native[2]>>)
    \/ VaultRule # {} /\ ~Healthy

Selected(g) == {r \in Rule \ VaultRule : Selects(r, kc[g])}

InSync(g) ==
    /\ \A r \in Selected(g) : <<Target(r, g, kc[g]), g>> \in ledger.records
    /\ \A t \in Tgt : <<t, g>> \in ledger.records =>
          \/ \E r \in Selected(g) : t = Target(r, g, kc[g])
          \/ \E s \in Source : Mapped(ledger, s) /\ ledger.groups[s].target = t /\ Held(s)

Broken(g) ==
    \/ \E r \in Selected(g) : Target(r, g, kc[g]) \in broken
    \/ \E t \in broken : <<t, g>> \in ledger.records

(* Once everything is quiet, each group has the access of the rules that   *)
(* select it and no other, unless a full pass is refused; a group whose    *)
(* target is gone, a Vault that disagrees with Git and a pass that failed  *)
(* or was killed keep nobody else waiting.                                 *)
Convergence == \A g \in Gid : <>[](Refusing \/ Broken(g) \/ InSync(g))

-------------------------------------------------------------------------------
(* Where OneSourcePerTarget holds, and why *)

GitLabRule == Rule \ VaultRule

(* Rules for GitLab that never name the same target. *)
SeparateTargets ==
    \A r, q \in GitLabRule, p, o \in Path :
       r # q /\ TargetOf[r][p] \in Tgt => TargetOf[r][p] # TargetOf[q][o]

(* r takes all of its prefix, or a single path. *)
SinglePath(r) == \A c \in Configs : c[r].declared => \A p, o \in c[r].paths : p = o

(* r has an allowlist whenever it runs. *)
AlwaysListed(r) == \A c \in Configs : c[r].declared

(* A list of several paths that replaces a whole prefix, or targets that   *)
(* two rules share, can lead to two sources for one target.                *)
SoundRules == SeparateTargets /\ \A r \in GitLabRule : SinglePath(r) \/ AlwaysListed(r)

(* The binding of key k under rule r to target t, with metadata native. *)
SoundBinding(r, k, t, native) ==
    /\ r \in GitLabRule
    /\ \E p \in Path : t = TargetOf[r][p]
    /\ AlwaysListed(r) => k \in Path /\ native[2] = k /\ t = TargetOf[r][k]

SoundMappings ==
    \A s \in Source : Mapped(ledger, s) =>
       SoundBinding(s[1], s[2], ledger.groups[s].target, ledger.groups[s].native)

JobSource(j) == <<j.rule, j.key>>

SoundJobs ==
    \A j \in pass.jobs : j.rule \in GitLabRule => SoundBinding(j.rule, j.key, j.target, j.native)

(* No other mapping has the target of a job that is still to run. *)
JobsFree ==
    \A j \in pass.jobs : j.rule \in GitLabRule =>
       \A q \in Source \ {JobSource(j)} :
          Mapped(ledger, q) => ledger.groups[q].target # j.target

JobsApart ==
    \A i, j \in pass.jobs :
       i.rule \in GitLabRule /\ j.rule \in GitLabRule /\ JobSource(i) # JobSource(j) =>
          i.target # j.target

JobsPlanned == pass.pc # "apply" => pass.jobs = {}

(* With SoundRules, inductive. *)
ReconcilerInv ==
    /\ TypeOK /\ OneSourcePerTarget /\ SoundMappings
    /\ SoundJobs /\ JobsFree /\ JobsApart /\ JobsPlanned
===============================================================================
