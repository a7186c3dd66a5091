------------------------------ MODULE GitLabSync ------------------------------
(***************************************************************************)
(* gitlab.Client.SyncGroup for one source group and one rule, and what the *)
(* reconciler does around it: it reads the members of the Keycloak group   *)
(* page by page and passes them on, or nobody for a tombstone, and retires *)
(* the mapping of a tombstone that converged                               *)
(* (src/internal/provider/gitlab/client.go, listMembers of                 *)
(* src/internal/source/keycloak/client.go and the apply loop of            *)
(* src/internal/reconcile/reconciler.go).                                  *)
(*                                                                         *)
(* A step is one HTTP call or one save of the ledger; between two steps    *)
(* Keycloak and GitLab change, and the process is killed.  Every call can  *)
(* fail before or after it took effect.  The ledger is used through the    *)
(* interface that Ledger implements (AtomicLedger).                        *)
(***************************************************************************)
EXTENDS Naturals, FiniteSets, SequencesExt

CONSTANTS
    User,         \* people, numbered as Keycloak orders them: a Keycloak user and the
                  \* GitLab account it resolves to
    Gid,          \* ids that GitLab gives to groups
    NoGroup,      \* nothing at a path
    NoUser,       \* no user in hand
    NoMapping,
    Closed,
    Rules,        \* configurations of the rule
    Grants,       \* memberships that GitLab administrators give by hand
    MaxEnv,       \* bound: changes made by Keycloak and GitLab
    MaxFaults     \* bound: failed calls, failed saves and kills

Level == 30       \* accessLevel of the rule ("developer")
OwnerLevel == 50

NoMember == [level |-> 0, custom |-> FALSE]
MemberType == [level : 0..OwnerLevel, custom : BOOLEAN]

Prunes == {"none", "managed-only", "authoritative"}

ASSUME UsersAssumption ==
    /\ User \subseteq Nat /\ IsFiniteSet(User) /\ NoUser \notin User
    /\ Gid # {} /\ NoGroup \notin Gid

ASSUME GrantsAssumption == Grants \subseteq MemberType \ {NoMember}

ASSUME BoundsAssumption == MaxEnv \in Nat /\ MaxFaults \in Nat

(* self: the user of the mutation token, if the source could ever name it. *)
(* allowlist: sourceGroupPaths is set, so that a tombstone exists only once *)
(* the path left Git and is retired at once.                                *)
ASSUME RulesAssumption ==
    Rules \subseteq [prune : Prunes, create : BOOLEAN, adopt : BOOLEAN,
                     enforce : BOOLEAN, protected : SUBSET User, self : User \cup {NoUser},
                     max : Nat, allowlist : BOOLEAN]

(* The state key of the one source group. *)
Src == "source"

INSTANCE LedgerContents WITH Member <- Gid \X User, Source <- {Src}, Target <- Gid,
                             Native <- {"native"}, MaxObservations <- 2

ASSUME LedgerAssumption == NoMapping \notin Mapping /\ Closed \notin Contents

VARIABLES
    \* the world
    rule,        \* the configured rule and token; never changes
    selected,    \* the source group exists and the rule selects it
    source,      \* source[u]: u's membership of it in Keycloak
    accounts,    \* users with an active GitLab account
    path,        \* the group at the target path
    alive,       \* ids of existing GitLab groups
    used,        \* ids ever given to a group
    members,     \* members[g][u]: direct memberships
    rows,        \* rows[g]: the members of g in the order in which GitLab lists them
    \* the ledger
    value, survivors,
    \* the run of SyncGroup in progress
    run,
    \* bounds
    envs, faults,
    \* history
    made,        \* memberships that GroupBridge ever created
    observed,    \* observed[<<g, u>>]: runs that planned u's removal from g since u was last
                 \* synced to g or removed (2 = two or more)
    disturbed    \* those of the memberships so planned by a run during whose listing somebody
                 \* joined or left the GitLab group

ledger == <<value, survivors>>
world == <<selected, source, accounts, path, alive, used, members, rows>>
history == <<made, observed, disturbed>>
vars == <<rule, world, ledger, run, envs, faults, history>>

(***************************************************************************)
(* The local variables of SyncGroup; "idle" between runs.  The slice       *)
(* members of the code is entries, which the removal loop uses up, and the *)
(* map existing is listed.                                                 *)
(*                                                                         *)
(* Three fields are history: quiet, Keycloak has not changed since the run *)
(* began to read; steady, nobody has joined or left the GitLab group since *)
(* its first page was read; counted, whose absence the run has observed.   *)
(***************************************************************************)
Steps == {"down", "idle", "read", "ensure", "create", "bind", "list", "resolve", "apply", "add",
          "verifyAdd", "mark", "update", "verifyUpdate", "identity", "plan", "remove",
          "unmark", "clear", "retire"}

(* A disabled user is still listed, and left out of the snapshot. *)
Memberships == {"out", "enabled", "disabled"}

(* A user as a page of GitLab's members shows it. *)
Entry == [user : User, member : MemberType]

Idle == [pc |-> "idle", tomb |-> FALSE, seen |-> {}, snap |-> {}, gid |-> NoGroup, created |-> FALSE,
         entries |-> <<>>, listed |-> [u \in User |-> NoMember], desired |-> {}, todo |-> {},
         cur |-> NoUser, removals |-> <<>>, removed |-> 0, pending |-> FALSE,
         quiet |-> TRUE, steady |-> TRUE, counted |-> {}]

Runs == [pc : Steps, tomb : BOOLEAN, seen : SUBSET User, snap : SUBSET User,
         gid : Gid \cup {NoGroup}, created : BOOLEAN, entries : Seq(Entry),
         listed : [User -> MemberType], desired : SUBSET User, todo : SUBSET User,
         cur : User \cup {NoUser}, removals : Seq(User), removed : Nat, pending : BOOLEAN,
         quiet : BOOLEAN, steady : BOOLEAN, counted : SUBSET User]

Down == [Idle EXCEPT !.pc = "down"]

TypeOK ==
    /\ rule \in Rules
    /\ selected \in BOOLEAN
    /\ source \in [User -> Memberships]
    /\ accounts \in SUBSET User
    /\ path \in Gid \cup {NoGroup}
    /\ alive \in SUBSET Gid
    /\ used \in SUBSET Gid
    /\ members \in [Gid -> [User -> MemberType]]
    /\ rows \in [Gid -> Seq(User)]
    /\ value \in Contents \cup {Closed}
    /\ survivors \in SUBSET Contents
    /\ run \in Runs
    /\ envs \in 0..MaxEnv
    /\ faults \in 0..MaxFaults
    /\ made \in SUBSET (Gid \X User)
    /\ observed \in [Gid \X User -> 0..2]
    /\ disturbed \in SUBSET (Gid \X User)

(* The target group may be there already, with nobody or everybody in it. *)
Init ==
    /\ rule \in Rules
    /\ selected = TRUE
    /\ source \in [User -> {"out", "enabled"}]
    /\ accounts = User
    /\ path \in {NoGroup, CHOOSE g \in Gid : TRUE}
    /\ alive = {path} \ {NoGroup}
    /\ used = alive
    /\ \/ /\ members = [g \in Gid |-> [u \in User |-> NoMember]]
          /\ rows = [g \in Gid |-> <<>>]
       \/ \E m \in Grants, s \in [1..Cardinality(User) -> User] :
             /\ path # NoGroup /\ m.level < Level
             /\ \A i, j \in 1..Cardinality(User) : i < j => s[i] < s[j]
             /\ members = [g \in Gid |-> [u \in User |-> IF g = path THEN m ELSE NoMember]]
             /\ rows = [g \in Gid |-> IF g = path THEN s ELSE <<>>]
    /\ value = Closed
    /\ survivors = {EmptyContents}
    /\ run = Down
    /\ envs = 0
    /\ faults = 0
    /\ made = {}
    /\ observed = [k \in Gid \X User |-> 0]
    /\ disturbed = {}

Key(u) == <<run.gid, u>>

-------------------------------------------------------------------------------
(* How a call and a save can end.  Each leaves everything else to the      *)
(* action that uses it.                                                    *)

Fault == faults < MaxFaults /\ faults' = faults + 1

(* The call had its effect; the answer arrives, or is lost and ends the run. *)
Answered(next) ==
    \/ run' = next /\ UNCHANGED faults
    \/ run' = Idle /\ Fault

(* One operation of the store, which makes c of the contents.  On an error *)
(* the run ends, and c may or may not be what a restart finds.             *)
Save(c, next) ==
    \/ /\ value' = c
       /\ survivors' = {c}
       /\ run' = next
       /\ UNCHANGED faults
    \/ /\ UNCHANGED value
       /\ survivors' \in {survivors, survivors \cup {c}}
       /\ run' = Idle
       /\ Fault

Goto(step) == [run EXCEPT !.pc = step]

(* SyncGroup returns an error of its own. *)
Refuse == run' = Idle /\ UNCHANGED <<ledger, faults>>

-------------------------------------------------------------------------------
(* The process *)

(* Mutant: an unreadable state file counts as an empty one. *)
RestartEmpty ==
    /\ run.pc = "down"
    /\ value' \in survivors \cup {EmptyContents}
    /\ run' = Idle
    /\ UNCHANGED <<rule, world, survivors, envs, faults, history>>

Restart ==
    /\ run.pc = "down"
    /\ value' \in survivors
    /\ run' = Idle
    /\ UNCHANGED <<rule, world, survivors, envs, faults, history>>

Kill ==
    /\ run.pc # "down"
    /\ Fault
    /\ value' = Closed
    /\ run' = Down
    /\ UNCHANGED <<rule, world, survivors, envs, history>>

(* A request that never reached GitLab, or an error status. *)
CallFails ==
    /\ run.pc \in {"read", "ensure", "create", "list", "resolve", "add", "verifyAdd",
                   "update", "verifyUpdate", "identity", "remove"}
    /\ Fault
    /\ run' = Idle
    /\ UNCHANGED <<rule, world, ledger, envs, history>>

(* A pass of the reconciler has found the source group, or that the        *)
(* mapping has no selected source group any more.                          *)
Start ==
    /\ run.pc = "idle"
    /\ selected
    /\ run' = [Idle EXCEPT !.pc = "read"]
    /\ UNCHANGED <<rule, world, ledger, envs, faults, history>>

StartTombstone ==
    /\ run.pc = "idle"
    /\ ~selected
    /\ Mapped(value, Src)
    /\ run' = [Idle EXCEPT !.pc = "ensure", !.tomb = TRUE]
    /\ UNCHANGED <<rule, world, ledger, envs, faults, history>>

(* A pass with nothing to do for this rule. *)
StartEmpty ==
    /\ run.pc = "idle"
    /\ ~selected
    /\ ~Mapped(value, Src)
    /\ UNCHANGED vars

-------------------------------------------------------------------------------
(* listMembers, with one user a page: a join or a leave between two pages  *)
(* shifts the offset, so that a user is read twice or not at all.          *)

Page == LET listed == {u \in User : source[u] # "out"}
        IN  {u \in listed : Cardinality({v \in listed : v < u}) = Cardinality(run.seen)}

(* An empty page is the end; a user who comes a second time is an error,   *)
(* which ends the whole pass.                                              *)
ReadPage ==
    /\ run.pc = "read"
    /\ run' = CASE Page = {} -> [run EXCEPT !.pc = "ensure", !.seen = {}]
               [] Page # {} /\ Page \subseteq run.seen -> Idle
               [] OTHER -> [run EXCEPT !.seen = @ \cup Page,
                                       !.snap = @ \cup {u \in Page : source[u] = "enabled"}]
    /\ UNCHANGED <<rule, world, ledger, envs, faults, history>>

(* The group was deleted meanwhile. *)
ReadPageGone ==
    /\ run.pc = "read"
    /\ ~selected
    /\ Refuse
    /\ UNCHANGED <<rule, world, envs, history>>

-------------------------------------------------------------------------------
(* ensureGroup: the group at the path, or a new one *)

EnsureFound ==
    /\ run.pc = "ensure"
    /\ path # NoGroup
    /\ run' = [run EXCEPT !.pc = "bind", !.gid = path]
    /\ UNCHANGED <<rule, world, ledger, envs, faults, history>>

EnsureMissing ==
    /\ run.pc = "ensure"
    /\ path = NoGroup
    /\ IF rule.create /\ ~run.tomb THEN run' = Goto("create") ELSE run' = Idle
    /\ UNCHANGED <<rule, world, ledger, envs, faults, history>>

(* GitLab gives a new group an id that no group ever had. *)
FreshId == CHOOSE g \in Gid : g \notin used

NewGroup ==
    /\ path = NoGroup /\ Gid \ used # {}
    /\ path' = FreshId
    /\ alive' = alive \cup {FreshId}
    /\ used' = used \cup {FreshId}

CreateGroup ==
    /\ run.pc = "create"
    /\ NewGroup
    /\ Answered([run EXCEPT !.pc = "bind", !.gid = FreshId, !.created = TRUE])
    /\ UNCHANGED <<rule, selected, source, accounts, members, rows, ledger, envs, history>>

(* The second look, before the creation, finds a group that was made       *)
(* meanwhile.                                                              *)
CreateGroupFound ==
    /\ run.pc = "create"
    /\ path # NoGroup
    /\ run' = [run EXCEPT !.pc = "bind", !.gid = path]
    /\ UNCHANGED <<rule, world, ledger, envs, faults, history>>

(* Or the path is taken after that (or, in the model, the ids have run     *)
(* out).                                                                   *)
CreateGroupRefused ==
    /\ run.pc = "create"
    /\ path # NoGroup \/ Gid \ used = {}
    /\ Refuse
    /\ UNCHANGED <<rule, world, envs, history>>

-------------------------------------------------------------------------------
(* The binding of the source group to the target *)

Binding ==
    IF Mapped(value, Src)
    THEN [value.groups[Src] EXCEPT !.owned = @ \/ rule.adopt]
    ELSE [target |-> run.gid, native |-> "native", owned |-> run.created \/ rule.adopt]

(* Mutant: the established target is not compared with the group found. *)
MayBindAnyTarget == rule.prune = "authoritative" => Binding.owned

MayBind ==
    /\ Binding.target = run.gid
    /\ rule.prune = "authoritative" => Binding.owned

Bind ==
    /\ run.pc = "bind"
    /\ MayBind
    /\ Save(PutGroup(value, Src, Binding), Goto("list"))
    /\ UNCHANGED <<rule, world, envs, history>>

BindRefused ==
    /\ run.pc = "bind"
    /\ ~MayBind
    /\ Refuse
    /\ UNCHANGED <<rule, world, envs, history>>

-------------------------------------------------------------------------------
(* Reading both sides *)

(* listMembers, with one member a page, found by its place in GitLab's     *)
(* order.  Whoever joins or leaves between two pages shifts the rest, so   *)
(* that a member is listed twice or not at all; nothing is done about      *)
(* either.  X-Next-Page tells whether there is more.                       *)
ListMembers ==
    LET place == Len(run.entries) + 1
        last == Len(rows[run.gid])
        user == rows[run.gid][place]
        member == members[run.gid][user]
    IN  /\ run.pc = "list"
        /\ run.gid \in alive
        /\ run' = IF place > last
                  THEN [run EXCEPT !.pc = "resolve", !.todo = run.snap]
                  ELSE [run EXCEPT !.entries = Append(@, [user |-> user, member |-> member]),
                                   !.listed[user] = member,
                                   !.pc = IF place < last THEN "list" ELSE "resolve",
                                   !.todo = IF place < last THEN {} ELSE run.snap]
        /\ UNCHANGED <<rule, world, ledger, envs, faults, history>>

ListMembersRefused ==
    /\ run.pc = "list"
    /\ run.gid \notin alive
    /\ Refuse
    /\ UNCHANGED <<rule, world, envs, history>>

(* findUser for every member of the snapshot; those without an active      *)
(* account stay unresolved.                                                *)
ResolveUser(u) ==
    /\ run.pc = "resolve"
    /\ u \in run.todo
    /\ run' = [run EXCEPT !.todo = @ \ {u}, !.desired = @ \cup ({u} \cap accounts)]
    /\ UNCHANGED <<rule, world, ledger, envs, faults, history>>

ResolveDone ==
    /\ run.pc = "resolve"
    /\ run.todo = {}
    /\ run' = [run EXCEPT !.pc = "apply", !.todo = run.desired]
    /\ UNCHANGED <<rule, world, ledger, envs, faults, history>>

Unresolved == run.desired # run.snap

-------------------------------------------------------------------------------
(* Additions and changes of access, in any order *)

Listed(u) == run.listed[u] # NoMember

(* A custom role is never touched: too low a level, or another one where   *)
(* the level is enforced, ends the run.                                    *)
CustomConflict(m) == m.level < Level \/ (rule.enforce /\ m.level # Level)

NeedsUpdate(m) ==
    m.level < Level \/ (rule.enforce /\ m.level # Level /\ m.level < OwnerLevel)

Unowned(u) == rule.prune = "managed-only" /\ ~IsManaged(value, Key(u))

(* Mutant: the absence observations of a desired user are kept. *)
GoWithoutReset(u, next) ==
    /\ run.pc = "apply"
    /\ u \in run.todo
    /\ run' = next
    /\ observed' = [observed EXCEPT ![Key(u)] = 0]
    /\ disturbed' = disturbed \ {Key(u)}
    /\ UNCHANGED <<rule, world, ledger, envs, faults, made>>

(* Each desired user first loses the absence observations, then goes next. *)
ResetAndGo(u, next) ==
    /\ run.pc = "apply"
    /\ u \in run.todo
    /\ IF value.absences[Key(u)] > 0
       THEN Save(ResetAbsent(value, Key(u)), next)
       ELSE run' = next /\ UNCHANGED <<ledger, faults>>
    /\ observed' = IF faults' = faults THEN [observed EXCEPT ![Key(u)] = 0] ELSE observed
    /\ disturbed' = IF faults' = faults THEN disturbed \ {Key(u)} ELSE disturbed
    /\ UNCHANGED <<rule, world, envs, made>>

Without(u) == [run EXCEPT !.todo = @ \ {u}]

ApplyAdd(u) ==
    /\ ~Listed(u)
    /\ ResetAndGo(u, [Without(u) EXCEPT !.pc = "add", !.cur = u])

(* Mutant: a membership that was there already is adopted. *)
ApplyKeepAdopting(u) ==
    /\ run.pc = "apply"
    /\ u \in run.todo
    /\ Listed(u)
    /\ IF run.listed[u].custom THEN ~CustomConflict(run.listed[u]) ELSE ~NeedsUpdate(run.listed[u])
    /\ Save(MarkManaged(value, Key(u)), Without(u))
    /\ UNCHANGED <<rule, world, envs, history>>

ApplyKeep(u) ==
    /\ Listed(u)
    /\ IF run.listed[u].custom THEN ~CustomConflict(run.listed[u]) ELSE ~NeedsUpdate(run.listed[u])
    /\ ResetAndGo(u, Without(u))

ApplyUpdate(u) ==
    /\ Listed(u)
    /\ ~run.listed[u].custom /\ NeedsUpdate(run.listed[u]) /\ ~Unowned(u)
    /\ ResetAndGo(u, [Without(u) EXCEPT !.pc = "update", !.cur = u])

ApplyRefused(u) ==
    /\ Listed(u)
    /\ IF run.listed[u].custom THEN CustomConflict(run.listed[u])
                               ELSE NeedsUpdate(run.listed[u]) /\ Unowned(u)
    /\ ResetAndGo(u, Idle)

(* The group id and the user in hand as GitLab has them now. *)
Current == members[run.gid][run.cur]

SetCurrent(m) == members' = [members EXCEPT ![run.gid][run.cur] = m]

(* A new member comes anywhere in GitLab's order (the code asks for none). *)
Joins(g, u) ==
    \E i \in 1..Len(rows[g]) + 1 : rows' = [rows EXCEPT ![g] = InsertAt(@, i, u)]

Leaves(g, u) ==
    rows' = [rows EXCEPT ![g] = IF \E i \in 1..Len(@) : @[i] = u
                                THEN RemoveAt(@, CHOOSE i \in 1..Len(@) : @[i] = u)
                                ELSE @]

AddMember ==
    /\ run.pc = "add"
    /\ run.gid \in alive /\ Current = NoMember
    /\ SetCurrent([level |-> Level, custom |-> FALSE])
    /\ Joins(run.gid, run.cur)
    /\ made' = made \cup {Key(run.cur)}
    /\ Answered(Goto("verifyAdd"))
    /\ UNCHANGED <<rule, selected, source, accounts, path, alive, used, ledger, envs, observed,
                   disturbed>>

AddMemberRefused ==
    /\ run.pc = "add"
    /\ run.gid \notin alive \/ Current # NoMember
    /\ Refuse
    /\ UNCHANGED <<rule, world, envs, history>>

VerifyAdd ==
    /\ run.pc = "verifyAdd"
    /\ run' = IF Current.level >= Level THEN Goto("mark") ELSE Idle
    /\ UNCHANGED <<rule, world, ledger, envs, faults, history>>

(* Mutant: the user in hand is dropped before it is recorded. *)
MarkAddedLate ==
    /\ run.pc = "mark"
    /\ Save(MarkManaged(value, Key(NoUser)), [run EXCEPT !.pc = "apply", !.cur = NoUser])
    /\ UNCHANGED <<rule, world, envs, history>>

MarkAdded ==
    /\ run.pc = "mark"
    /\ Save(MarkManaged(value, Key(run.cur)), [run EXCEPT !.pc = "apply", !.cur = NoUser])
    /\ UNCHANGED <<rule, world, envs, history>>

(* A PUT without member_role_id also drops a custom role. *)
UpdateMember ==
    /\ run.pc = "update"
    /\ run.gid \in alive /\ Current # NoMember
    /\ SetCurrent([level |-> Level, custom |-> FALSE])
    /\ Answered(Goto("verifyUpdate"))
    /\ UNCHANGED <<rule, selected, source, accounts, path, alive, used, rows, ledger, envs,
                   history>>

UpdateMemberRefused ==
    /\ run.pc = "update"
    /\ run.gid \notin alive \/ Current = NoMember
    /\ Refuse
    /\ UNCHANGED <<rule, world, envs, history>>

VerifyUpdate ==
    /\ run.pc = "verifyUpdate"
    /\ run' = IF Current.level = Level THEN [run EXCEPT !.pc = "apply", !.cur = NoUser] ELSE Idle
    /\ UNCHANGED <<rule, world, ledger, envs, faults, history>>

(* Mutant: an empty snapshot is not trusted, and nothing is removed on it. *)
ApplyDoneUnlessEmpty ==
    /\ run.pc = "apply"
    /\ run.todo = {}
    /\ run' = IF Unresolved \/ run.snap = {} THEN Idle ELSE Goto("identity")
    /\ UNCHANGED <<rule, world, ledger, envs, faults, history>>

(* Mutant: an unresolved user does not stop the removals. *)
ApplyDoneUnresolved ==
    /\ run.pc = "apply"
    /\ run.todo = {}
    /\ run' = Goto("identity")
    /\ UNCHANGED <<rule, world, ledger, envs, faults, history>>

(* An unresolved user ends the run, without an error, before any removal. *)
ApplyDone ==
    /\ run.pc = "apply"
    /\ run.todo = {}
    /\ run' = IF Unresolved THEN Idle ELSE Goto("identity")
    /\ UNCHANGED <<rule, world, ledger, envs, faults, history>>

-------------------------------------------------------------------------------
(* Removals *)

(* Mutant: protectedUsers is not looked at. *)
ExemptUnprotected(u, m) ==
    \/ u = rule.self
    \/ m.level >= OwnerLevel
    \/ m.custom

(* Mutant: the token's own user is not looked at. *)
ExemptNotSelf(u, m) ==
    \/ u \in rule.protected
    \/ m.level >= OwnerLevel
    \/ m.custom

(* Owners, custom roles, the token's own user and the protected users; u   *)
(* was listed as m.                                                        *)
Exempt(u, m) ==
    \/ u = rule.self
    \/ u \in rule.protected
    \/ m.level >= OwnerLevel
    \/ m.custom

(* Mutant: managed-only does not ask the ledger. *)
PrunableUnmanaged(u) == rule.prune # "none"

Prunable(u) ==
    \/ rule.prune = "authoritative"
    \/ rule.prune = "managed-only" /\ IsManaged(value, Key(u))

CurrentIdentity ==
    /\ run.pc = "identity"
    /\ run' = Goto("plan")
    /\ UNCHANGED <<rule, world, ledger, envs, faults, history>>

(* The removal loop visits every entry of the listing. *)
Condemns(e) == e.user \notin run.desired /\ ~Exempt(e.user, e.member) /\ Prunable(e.user)

PlanSkip ==
    /\ run.pc = "plan"
    /\ run.entries # <<>> /\ ~Condemns(Head(run.entries))
    /\ run' = [run EXCEPT !.entries = Tail(@)]
    /\ UNCHANGED <<rule, world, ledger, envs, faults, history>>

Immediate == run.tomb /\ rule.allowlist

(* A removal is planned at once, or once its absence has been counted      *)
(* twice.                                                                  *)
PlanRemoval ==
    LET u == Head(run.entries).user
        counted == ConfirmAbsent(value, Key(u))
        rest == [run EXCEPT !.entries = Tail(@), !.counted = @ \cup {u}]
        planned == [rest EXCEPT !.removals = Append(@, u)]
        waiting == [rest EXCEPT !.pending = TRUE]
    IN  /\ run.pc = "plan"
        /\ run.entries # <<>> /\ Condemns(Head(run.entries))
        /\ \/ Immediate /\ run' = planned /\ UNCHANGED <<ledger, faults>>
           \/ ~Immediate /\ Save(counted, IF ConfirmedAbsent(counted, Key(u)) THEN planned
                                                                              ELSE waiting)
        /\ observed' = IF u \in run.counted \/ observed[Key(u)] = 2 THEN observed
                       ELSE [observed EXCEPT ![Key(u)] = @ + 1]
        /\ disturbed' = IF run.steady THEN disturbed ELSE disturbed \cup {Key(u)}
        /\ UNCHANGED <<rule, world, envs, made>>

(* Mutant: the circuit breaker is off by one. *)
PlanDoneOffByOne ==
    /\ run.pc = "plan"
    /\ run.entries = <<>>
    /\ run' = IF Len(run.removals) > rule.max + 1 THEN Idle ELSE Goto("remove")
    /\ UNCHANGED <<rule, world, ledger, envs, faults, history>>

(* The circuit breaker. *)
PlanDone ==
    /\ run.pc = "plan"
    /\ run.entries = <<>>
    /\ run' = IF Len(run.removals) > rule.max THEN Idle ELSE Goto("remove")
    /\ UNCHANGED <<rule, world, ledger, envs, faults, history>>

(* 404 is success: the member, or the whole group, is gone. *)
RemoveMember ==
    /\ run.pc = "remove"
    /\ run.removals # <<>>
    /\ LET u == Head(run.removals)
       IN  /\ members' = [members EXCEPT ![run.gid][u] = NoMember]
           /\ Leaves(run.gid, u)
           /\ Answered([run EXCEPT !.pc = "unmark", !.cur = u, !.removals = Tail(@),
                                   !.removed = @ + 1])
    /\ UNCHANGED <<rule, selected, source, accounts, path, alive, used, ledger, envs, history>>

UnmarkRemoved ==
    /\ run.pc = "unmark"
    /\ Save(Unmark(value, Key(run.cur)), Goto("clear"))
    /\ UNCHANGED <<rule, world, envs, history>>

(* Mutant: the absence observations of a removed user are kept. *)
ClearAbsenceKept ==
    /\ run.pc = "clear"
    /\ run' = [run EXCEPT !.pc = "remove", !.cur = NoUser]
    /\ observed' = [observed EXCEPT ![Key(run.cur)] = 0]
    /\ UNCHANGED <<rule, world, ledger, envs, faults, made, disturbed>>

ClearAbsence ==
    /\ run.pc = "clear"
    /\ LET next == [run EXCEPT !.pc = "remove", !.cur = NoUser]
       IN  IF value.absences[Key(run.cur)] > 0
           THEN Save(ResetAbsent(value, Key(run.cur)), next)
           ELSE run' = next /\ UNCHANGED <<ledger, faults>>
    /\ observed' = IF faults' = faults THEN [observed EXCEPT ![Key(run.cur)] = 0] ELSE observed
    /\ UNCHANGED <<rule, world, envs, made, disturbed>>

(* Mutant: a tombstone is retired although a removal is pending. *)
RemoveDonePending ==
    /\ run.pc = "remove"
    /\ run.removals = <<>>
    /\ run' = IF run.tomb THEN Goto("retire") ELSE Idle
    /\ UNCHANGED <<rule, world, ledger, envs, faults, history>>

(* The run converged unless a removal waits for its second observation. *)
RemoveDone ==
    /\ run.pc = "remove"
    /\ run.removals = <<>>
    /\ run' = IF run.tomb /\ ~run.pending THEN Goto("retire") ELSE Idle
    /\ UNCHANGED <<rule, world, ledger, envs, faults, history>>

Retire ==
    /\ run.pc = "retire"
    /\ Save(DeleteGroup(value, Src), Idle)
    /\ UNCHANGED <<rule, world, envs, history>>

Client ==
    \/ Restart \/ Start \/ StartTombstone \/ StartEmpty \/ ReadPage \/ ReadPageGone
    \/ EnsureFound \/ EnsureMissing \/ CreateGroup \/ CreateGroupFound \/ CreateGroupRefused
    \/ Bind \/ BindRefused \/ ListMembers \/ ListMembersRefused
    \/ ResolveDone
    \/ \E u \in User : \/ ResolveUser(u)
                      \/ ApplyAdd(u) \/ ApplyKeep(u) \/ ApplyUpdate(u) \/ ApplyRefused(u)
    \/ AddMember \/ AddMemberRefused \/ VerifyAdd \/ MarkAdded
    \/ UpdateMember \/ UpdateMemberRefused \/ VerifyUpdate
    \/ ApplyDone \/ CurrentIdentity \/ PlanSkip \/ PlanRemoval \/ PlanDone
    \/ RemoveMember \/ UnmarkRemoved \/ ClearAbsence \/ RemoveDone \/ Retire

-------------------------------------------------------------------------------
(* What others do *)

Env == envs < MaxEnv /\ envs' = envs + 1

Unaffected == UNCHANGED <<rule, ledger, run, faults, history>>

(* Somebody joins or leaves g, perhaps between two pages of its listing. *)
ListChanges(g) ==
    /\ run' = [run EXCEPT !.steady = @ /\ ~(/\ run.pc = "list" /\ g = run.gid
                                            /\ run.entries # <<>>)]
    /\ UNCHANGED <<rule, ledger, faults, history>>

KeycloakChanges ==
    /\ run' = [run EXCEPT !.quiet = run.pc \in {"idle", "down"}]
    /\ UNCHANGED <<rule, ledger, faults, history>>

(* Joins, leaves, is disabled or enabled. *)
KeycloakMembership(u) ==
    /\ Env
    /\ \E m \in Memberships \ {source[u]} : source' = [source EXCEPT ![u] = m]
    /\ UNCHANGED <<selected, accounts, path, alive, used, members, rows>>
    /\ KeycloakChanges

(* Deleted, moved out of the rule's prefix, or taken out of Git; or back.  *)
(* A change in Git needs a new configuration, that is a new process.       *)
SourceSelection ==
    /\ Env
    /\ rule.allowlist => run.pc = "down"
    /\ selected' = ~selected
    /\ UNCHANGED <<source, accounts, path, alive, used, members, rows>>
    /\ KeycloakChanges

(* First login (JIT provisioning), block, unblock. *)
AccountState(u) ==
    /\ Env
    /\ accounts' = IF u \in accounts THEN accounts \ {u} ELSE accounts \cup {u}
    /\ UNCHANGED <<selected, source, path, alive, used, members, rows>>
    /\ Unaffected

AdminGrants(g, u, m) ==
    /\ Env
    /\ g \in alive
    /\ members' = [members EXCEPT ![g][u] = m]
    /\ IF members[g][u] = NoMember THEN Joins(g, u) /\ ListChanges(g)
                                   ELSE UNCHANGED rows /\ Unaffected
    /\ UNCHANGED <<selected, source, accounts, path, alive, used>>

AdminRevokes(g, u) ==
    /\ Env
    /\ members[g][u] # NoMember
    /\ members' = [members EXCEPT ![g][u] = NoMember]
    /\ Leaves(g, u) /\ ListChanges(g)
    /\ UNCHANGED <<selected, source, accounts, path, alive, used>>

GroupDeleted ==
    /\ Env
    /\ path # NoGroup
    /\ path' = NoGroup
    /\ alive' = alive \ {path}
    /\ members' = [members EXCEPT ![path] = [u \in User |-> NoMember]]
    /\ rows' = [rows EXCEPT ![path] = <<>>]
    /\ UNCHANGED <<selected, source, accounts, used>>
    /\ ListChanges(path)

GroupMoved ==
    /\ Env
    /\ path # NoGroup
    /\ path' = NoGroup
    /\ UNCHANGED <<selected, source, accounts, alive, used, members, rows>>
    /\ Unaffected

GroupCreatedByHand ==
    /\ Env
    /\ NewGroup
    /\ UNCHANGED <<selected, source, accounts, members, rows>>
    /\ Unaffected

Others ==
    \/ \E u \in User : KeycloakMembership(u) \/ AccountState(u)
    \/ SourceSelection
    \/ \E g \in Gid, u \in User : AdminRevokes(g, u) \/ \E m \in Grants : AdminGrants(g, u, m)
    \/ GroupDeleted \/ GroupMoved \/ GroupCreatedByHand

Next == Client \/ CallFails \/ Kill \/ Others

(* The poll loop starts a pass again and again and a pass takes its next   *)
(* step: the code waits for nothing but answers, and every call has a      *)
(* timeout.  Nothing is assumed of failures and of others but that the     *)
(* bounds stop them.                                                       *)
Spec == Init /\ [][Next]_vars /\ WF_vars(Client)

-------------------------------------------------------------------------------
(* Safety *)

Enabled == {u \in User : source[u] = "enabled"}

Wanted == IF selected THEN Enabled ELSE {}

(* A step of SyncGroup, and not of an administrator, that changes (removes) *)
(* a membership.                                                            *)
ClientChanges(g, u) == envs' = envs /\ members'[g][u] # members[g][u]

ClientRemoves(g, u) == ClientChanges(g, u) /\ members'[g][u] = NoMember

(* "A missing membership must be seen in two complete snapshots before     *)
(* deletion" (docs/architecture.md; ConfirmAbsent in store.go says so      *)
(* too), unless its path has left Git.  The code counts the entries of a   *)
(* listing, not the listings.                                              *)
RemovalSeenTwice ==
    [][\A g \in Gid, u \in User : ClientRemoves(g, u) => observed[<<g, u>>] >= 2 \/ Immediate]_vars

(* What is left of it: a membership is deleted only after two runs have    *)
(* each found it missing from Keycloak since the last run that synced it,  *)
(* or removed it, across crashes, restarts, failed saves and lost answers  *)
(* - unless one of these runs had somebody join or leave the GitLab group  *)
(* between two of its pages.  This is the gate of ConfirmAbsent and        *)
(* ResetAbsent.                                                            *)
SteadyRemovalSeenTwice ==
    [][\A g \in Gid, u \in User :
          ClientRemoves(g, u) =>
             observed[<<g, u>>] >= 2 \/ Immediate \/ <<g, u>> \in disturbed]_vars

(* managed-only deletes only memberships of a user whom GroupBridge itself *)
(* once put into that very group, and "none" deletes nothing.              *)
OnlyOwnRemoved ==
    [][\A g \in Gid, u \in User :
          ClientRemoves(g, u) => \/ rule.prune = "authoritative"
                                 \/ rule.prune = "managed-only" /\ <<g, u>> \in made]_vars

(* Neither the token's own user nor a protected user is ever removed. *)
PrincipalsKept ==
    [][\A g \in Gid, u \in User : ClientRemoves(g, u) => u # rule.self /\ u \notin rule.protected]_vars

(* "Owners, the current token user, custom-role users, and configured      *)
(* protected users are never removed or downgraded" (docs/architecture.md):*)
(* no step of the client lowers the access of any of them, as GitLab has   *)
(* it at that moment.                                                      *)
ExemptKept ==
    [][\A g \in Gid, u \in User :
          ClientChanges(g, u) /\ Exempt(u, members[g][u]) =>
             members'[g][u].level >= members[g][u].level]_vars

(* Nobody who belongs to the Keycloak group is removed by a run that had a *)
(* quiet Keycloak from its first page on: neither paging, nor an account   *)
(* that does not resolve, nor old observations make such a run take a user *)
(* for absent.                                                             *)
QuietMeansGone ==
    [][\A g \in Gid, u \in User : ClientRemoves(g, u) /\ run.quiet => u \notin Wanted]_vars

(* One run deletes at most maxRemovals memberships. *)
BreakerHolds == run.removed <= rule.max

(* Memberships are changed only in a group that the source is bound to in  *)
(* every version of the ledger a restart can find: PutGroup comes before   *)
(* the first change and the retirement of a tombstone after the last, and  *)
(* a group recreated or moved in GitLab is never written to by mistake.    *)
BoundBeforeChange ==
    [][\A g \in Gid, u \in User :
          ClientChanges(g, u) =>
             \A c \in survivors : Mapped(c, Src) /\ c.groups[Src].target = g]_vars

(* No version of the ledger that a restart can find claims a membership    *)
(* that GroupBridge did not create: what was there before it is never      *)
(* adopted, not even after a crash.                                        *)
RecordsTruthful == \A c \in survivors : c.records \subseteq made

(* When the mapping of a tombstone is retired, no recorded membership that *)
(* the run saw and was allowed to remove is left in the group: access is   *)
(* not forgotten together with its mapping.                                *)
RetiredMeansRevoked ==
    [][value # Closed /\ value' # Closed /\ Mapped(value, Src) /\ ~Mapped(value', Src) =>
          \A u \in User :
             LET g == value.groups[Src].target
             IN  <<g, u>> \in value.records /\ members[g][u] # NoMember =>
                    ~Listed(u) \/ Exempt(u, run.listed[u]) \/ rule.prune = "none"]_vars

Atomic == INSTANCE AtomicLedger
             WITH Member <- Gid \X User, Source <- {Src}, Target <- Gid,
                  Native <- {"native"}, MaxObservations <- 2

(* SyncGroup and its crashes use the ledger through its interface only. *)
UsesAtomicLedger == Atomic!Spec

-------------------------------------------------------------------------------
(* Convergence *)

(* The ways in which the code refuses to go on until someone intervenes.   *)
Refusing ==
    \/ value = Closed
    \/ Mapped(value, Src) /\ value.groups[Src].target # path
    \/ ~Mapped(value, Src) /\ path = NoGroup /\ (~rule.create \/ Gid \ used = {})
    \/ rule.prune = "authoritative" /\ ~rule.adopt
       /\ path # NoGroup /\ (Mapped(value, Src) => ~value.groups[Src].owned)
    \/ /\ path # NoGroup
       /\ \E u \in Enabled \cap accounts :
             LET m == members[path][u]
             IN  /\ selected /\ m # NoMember
                 /\ \/ m.custom /\ CustomConflict(m)
                    \/ ~m.custom /\ NeedsUpdate(m)
                       /\ rule.prune = "managed-only" /\ <<path, u>> \notin value.records

(* Whom the code would still remove. *)
Removable(u) ==
    /\ u \notin Wanted /\ u # rule.self /\ u \notin rule.protected
    /\ members[path][u] # NoMember
    /\ members[path][u].level < OwnerLevel /\ ~members[path][u].custom
    /\ \/ rule.prune = "authoritative"
       \/ rule.prune = "managed-only" /\ <<path, u>> \in value.records

InSync ==
    /\ selected =>
          /\ path # NoGroup /\ Mapped(value, Src)
          /\ \A u \in Enabled \cap accounts :
                LET m == members[path][u]
                IN  m.level >= Level /\ (rule.enforce => m.level \in {Level, OwnerLevel})
          /\ \/ ~(Enabled \subseteq accounts)
             \/ {u \in User : Removable(u)} = {}
             \/ Cardinality({u \in User : Removable(u)}) > rule.max
    /\ ~selected =>
          \/ ~Mapped(value, Src)
          \/ Cardinality({u \in User : Removable(u)}) > rule.max

(* Once Keycloak, GitLab and the failures are quiet, GitLab comes to agree *)
(* with Keycloak and stays so, or the code is refusing for one of the      *)
(* reasons above; a crash or a lost answer anywhere in a run is repaired   *)
(* by the next ones.                                                       *)
Convergence == <>[](Refusing \/ InSync)

-------------------------------------------------------------------------------
(***************************************************************************)
(* What makes the safety properties inductive.                             *)
(***************************************************************************)

(* Before the binding is saved; with the plan of the removals in hand;     *)
(* with the circuit breaker passed.                                        *)
Unbound == {"down", "idle", "read", "ensure", "create", "bind"}
Planned == {"plan", "remove", "unmark", "clear", "retire"}
Removing == {"remove", "unmark", "clear"}

(* No version of the ledger claims, or counts, more than happened. *)
Truthful(c) ==
    /\ c.records \subseteq made
    /\ \A k \in (Gid \X User) \ disturbed : c.absences[k] <= observed[k]

LedgerTruthful ==
    /\ \A c \in survivors : Truthful(c)
    /\ value # Closed => Truthful(value)
    /\ value = Closed <=> run.pc = "down"

(* Once Bind has saved, a restart finds what the run works on, up to the   *)
(* save that ends the run.                                                 *)
Settled ==
    /\ run.pc \notin Unbound => /\ survivors = {value}
                                /\ Mapped(value, Src) /\ value.groups[Src].target = run.gid
    /\ run.pc \notin Unbound \/ run.pc = "bind" => run.gid \in Gid

UserInHand ==
    /\ run.pc \in {"add", "verifyAdd", "mark", "update", "verifyUpdate", "unmark", "clear"} =>
          run.cur \in User
    /\ run.pc \in {"verifyAdd", "mark"} => Key(run.cur) \in made

WithinBreaker ==
    /\ run.pc \notin Removing \cup {"retire"} => run.removed = 0
    /\ run.pc \in Removing => run.removed + Len(run.removals) <= rule.max
    /\ BreakerHolds

(* What every removal has behind it. *)
Justified(u) ==
    /\ u \notin run.desired /\ u # rule.self /\ u \notin rule.protected
    /\ \/ rule.prune = "authoritative"
       \/ rule.prune = "managed-only" /\ Key(u) \in made
    /\ observed[Key(u)] >= 2 \/ Immediate \/ Key(u) \in disturbed

RemovalsJustified ==
    /\ run.pc \notin Planned => run.removals = <<>>
    /\ \A i \in 1..Len(run.removals) : Justified(run.removals[i])

(* GitLab lists each member of a group once.                               *)
RowsDistinct ==
    \A g \in Gid : /\ \A i, j \in 1..Len(rows[g]) : rows[g][i] = rows[g][j] => i = j
                   /\ \A i \in 1..Len(rows[g]) : members[g][rows[g][i]] # NoMember

(* A listing that nothing disturbed is a beginning of GitLab's, and so has *)
(* nobody twice; no entry left in the plan is of a user counted already.   *)
EntriesDistinct ==
    /\ run.pc = "list" /\ run.steady =>
          /\ Len(run.entries) <= Len(rows[run.gid])
          /\ \A i \in 1..Len(run.entries) : run.entries[i].user = rows[run.gid][i]
    /\ run.steady =>
          /\ \A i, j \in 1..Len(run.entries) :
                run.entries[i].user = run.entries[j].user => i = j
          /\ \A i \in 1..Len(run.entries) : run.entries[i].user \notin run.counted
    /\ run.pc \in Unbound => run.entries = <<>> /\ run.steady
    /\ run.pc \notin Planned => run.counted = {}

(* While Keycloak is quiet, what was read is the beginning of its order,   *)
(* and the snapshot is what was read.                                      *)
Present == {u \in User : source[u] # "out"}

SnapshotComplete ==
    /\ run.quiet /\ run.pc = "read" =>
          /\ run.seen \subseteq Present
          /\ \A u \in run.seen, v \in Present : v < u => v \in run.seen
          /\ run.seen \cap Enabled \subseteq run.snap
    /\ run.quiet /\ ~run.tomb /\ run.pc \notin {"idle", "down", "read"} => Enabled \subseteq run.snap
    /\ run.quiet /\ run.tomb => ~selected
    /\ run.tomb => run.snap = {} /\ run.pc \notin {"read", "idle", "down"}
    /\ run.desired \subseteq run.snap
    /\ run.pc = "resolve" => run.todo \subseteq run.snap
    /\ run.pc \in Planned \cup {"identity"} => run.desired = run.snap

(* So nobody is removed twice by a run, but for a disturbed listing. *)
RemovalsDistinct ==
    /\ run.steady =>
          /\ \A i, j \in 1..Len(run.removals) : run.removals[i] = run.removals[j] => i = j
          /\ \A i \in 1..Len(run.removals) : run.removals[i] \in run.counted
          /\ run.pc \in {"unmark", "clear"} =>
                \A i \in 1..Len(run.removals) : run.removals[i] # run.cur
    /\ ~run.steady => \A i \in 1..Len(run.removals) : Key(run.removals[i]) \in disturbed

(* The last entry of a user is the one in the map. *)
EntriesListed ==
    run.pc \notin Planned =>
       \A u \in User : Listed(u) =>
          \E i \in 1..Len(run.entries) : run.entries[i] = [user |-> u, member |-> run.listed[u]]

Revocable(u) ==
    Listed(u) /\ ~Exempt(u, run.listed[u]) /\ rule.prune # "none" /\ Key(u) \in value.records

(* A tombstone is retired with nothing left to revoke. *)
RevocationsLeft ==
    /\ run.tomb /\ run.pc \in Planned =>
          \A u \in User :
             Revocable(u) =>
                \/ \E i \in 1..Len(run.entries) :
                      run.entries[i] = [user |-> u, member |-> run.listed[u]]
                \/ \E i \in 1..Len(run.removals) : run.removals[i] = u
                \/ run.pending
                \/ run.pc = "unmark" /\ u = run.cur
    /\ run.pc \in Planned \ {"plan"} => run.entries = <<>>
    /\ run.pc = "retire" => run.tomb /\ ~run.pending /\ run.removals = <<>>

GitLabInv ==
    /\ TypeOK
    /\ LedgerTruthful /\ Settled /\ UserInHand /\ WithinBreaker /\ RemovalsJustified
    /\ RowsDistinct /\ EntriesDistinct /\ RemovalsDistinct /\ EntriesListed
    /\ SnapshotComplete /\ RevocationsLeft
===============================================================================
