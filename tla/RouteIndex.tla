------------------------------ MODULE RouteIndex ------------------------------
(***************************************************************************)
(* The private routing index of the reconciler (routeIndex, src/internal/  *)
(* reconcile/events.go) and the shared secret behind it (StableLoader,     *)
(* src/internal/credential/credential.go).  A hint names a group or a user *)
(* by an HMAC under the secret; the index inverts it.  Three actors share  *)
(* the loader: Kubernetes swaps the secret file, the webhook verifies      *)
(* hints with it, the worker keys the index with it.                       *)
(*                                                                         *)
(* An HMAC is the tuple of what goes into it: keys of different secrets,   *)
(* domains or identifiers are taken to differ.  The realm is constant.     *)
(***************************************************************************)
EXTENDS Naturals, FiniteSets

CONSTANTS
    Group, User,      \* identifiers of Keycloak
    NoUser,           \* the empty user identifier
    Secret,           \* usable contents of the secret file
    Unusable,         \* the file is missing, unreadable, empty or too short
    NoSecret,         \* the index has no secret yet
    MaxAccepted       \* bound: accepted hints that wait for the worker

ASSUME NoUserAssumption == NoUser \notin User
ASSUME UnusableAssumption == Unusable \notin Secret
ASSUME NoSecretAssumption == NoSecret \notin Secret

VARIABLES
    file,          \* the secret file
    last,          \* last of the StableLoader
    secret,        \* of the index
    groupUsers,    \* group -> users
    groupIDs,      \* group key -> group
    groupKeys,     \* group -> group key
    userGroups,    \* user key -> groups
    \* history
    accepted,      \* keys of hints that the webhook accepted, not processed yet
    outdated       \* those after whose acceptance another secret was in the file

index == <<secret, groupUsers, groupIDs, groupKeys, userGroups>>
vars == <<file, last, index, accepted, outdated>>

GroupKey(s, g) == <<s, "group", g>>
UserKey(s, u) == <<s, "user", u>>

GroupKeys == {GroupKey(s, g) : s \in Secret, g \in Group}
UserKeys == {UserKey(s, u) : s \in Secret, u \in User}

(* The finite maps of Go from some of S to T. *)
Maps(S, T) == UNION {[D -> T] : D \in SUBSET S}

NoEntries == [x \in {} |-> {}]

TypeOK ==
    /\ file \in Secret \cup {Unusable}
    /\ last \in Secret
    /\ secret \in Secret \cup {NoSecret}
    /\ groupUsers \in Maps(Group, SUBSET User)
    /\ groupIDs \in Maps(GroupKeys, Group)
    /\ groupKeys \in Maps(Group, GroupKeys)
    /\ userGroups \in Maps(UserKeys, SUBSET Group)
    /\ accepted \in SUBSET (GroupKeys \cup UserKeys)
    /\ outdated \in SUBSET accepted

(* NewStable has read one usable secret, or the program does not start. *)
Init ==
    /\ file \in Secret
    /\ last = file
    /\ secret = NoSecret
    /\ groupUsers = NoEntries
    /\ groupIDs = NoEntries
    /\ groupKeys = NoEntries
    /\ userGroups = NoEntries
    /\ accepted = {}
    /\ outdated = {}

-------------------------------------------------------------------------------
(* What StableLoader.Load returns: it rides out an unusable file. *)
Loaded == IF file \in Secret THEN file ELSE last

(* Mutant: the loader falls back to the first secret, not to the last one. *)
LoadKeepingFirst == last' = last

Load == last' = Loaded

(* rebuildWithSecretLocked, from what the groups' members are. *)
IDsOf(s, users) == [k \in {GroupKey(s, g) : g \in DOMAIN users} |-> k[3]]

KeysOf(s, users) == [g \in DOMAIN users |-> GroupKey(s, g)]

GroupsOf(users, u) == {g \in DOMAIN users : u \in users[g]}

FanOutOf(s, users) ==
    [k \in {UserKey(s, u) : u \in UNION {users[g] : g \in DOMAIN users}} |-> GroupsOf(users, k[3])]

(* refreshSecretLocked: another secret re-keys the whole index before      *)
(* anything else is done with it.                                          *)
RefreshedIDs == IF Loaded = secret THEN groupIDs ELSE IDsOf(Loaded, groupUsers)
RefreshedKeys == IF Loaded = secret THEN groupKeys ELSE KeysOf(Loaded, groupUsers)
RefreshedFanOut == IF Loaded = secret THEN userGroups ELSE FanOutOf(Loaded, groupUsers)

(* Mutant: members without an identifier are indexed too. *)
AllMembers(members) == members

(* Members without an identifier are skipped. *)
Indexed(members) == members \ {NoUser}

(* Replace, with the complete snapshot of a full pass. *)
Replace(snapshot) ==
    LET users == [g \in DOMAIN snapshot |-> Indexed(snapshot[g])]
    IN  /\ Load
        /\ secret' = Loaded
        /\ groupUsers' = users
        /\ groupIDs' = IDsOf(Loaded, users)
        /\ groupKeys' = KeysOf(Loaded, users)
        /\ userGroups' = FanOutOf(Loaded, users)
        /\ UNCHANGED <<file, accepted, outdated>>

(* Mutant: empty fan-outs stay. *)
RemoveKeepingEmpty(fan, g, keys) ==
    [k \in DOMAIN fan |-> IF k \in keys THEN fan[k] \ {g} ELSE fan[k]]

(* g leaves the fan-out of the users in keys; a fan-out that becomes empty *)
(* goes.                                                                   *)
Remove(fan, g, keys) ==
    [k \in {k \in DOMAIN fan : k \in keys => fan[k] \ {g} # {}} |->
        IF k \in keys THEN fan[k] \ {g} ELSE fan[k]]

Insert(fan, g, keys) ==
    [k \in DOMAIN fan \cup keys |->
        (IF k \in DOMAIN fan THEN fan[k] ELSE {}) \cup (IF k \in keys THEN {g} ELSE {})]

With(f, x, y) == [z \in DOMAIN f \cup {x} |-> IF z = x THEN y ELSE f[z]]

(* Update, with one group that a targeted pass has read: only its own      *)
(* entries change.                                                         *)
Update(g, members) ==
    LET before == IF g \in DOMAIN groupUsers THEN groupUsers[g] ELSE {}
        now == Indexed(members)
        key(u) == UserKey(Loaded, u)
    IN  /\ Load
        /\ secret' = Loaded
        /\ groupUsers' = With(groupUsers, g, now)
        /\ groupIDs' = With(RefreshedIDs, GroupKey(Loaded, g), g)
        /\ groupKeys' = With(RefreshedKeys, g, GroupKey(Loaded, g))
        /\ userGroups' = Insert(Remove(RefreshedFanOut, g, {key(u) : u \in before}),
                                g, {key(u) : u \in now})
        /\ UNCHANGED <<file, accepted, outdated>>

(* processEventBatch refreshes the index and then resolves the hints of    *)
(* its batch in it.                                                        *)
Process(batch) ==
    /\ Load
    /\ secret' = Loaded
    /\ groupIDs' = RefreshedIDs
    /\ groupKeys' = RefreshedKeys
    /\ userGroups' = RefreshedFanOut
    /\ accepted' = accepted \ batch
    /\ outdated' = outdated \ batch
    /\ UNCHANGED <<file, groupUsers>>

-------------------------------------------------------------------------------
(* The other actors *)

(* The webhook verifies a hint that was signed, and its key derived, with  *)
(* s: the sender has one secret for both.                                  *)
Verify(s, key) ==
    /\ key[1] = s
    /\ s = Loaded => Cardinality(accepted \cup {key}) <= MaxAccepted
    /\ Load
    /\ IF s = Loaded
       THEN accepted' = accepted \cup {key} /\ outdated' = outdated \ {key}
       ELSE UNCHANGED <<accepted, outdated>>
    /\ UNCHANGED <<file, index>>

(* The projected Secret is swapped; on the way it may be unusable. *)
SwapFile(content) ==
    /\ content # file
    /\ file' = content
    /\ outdated' = IF content = Unusable THEN outdated
                   ELSE outdated \cup {k \in accepted : k[1] # content}
    /\ UNCHANGED <<last, index, accepted>>

Next ==
    \/ \E snapshot \in Maps(Group, SUBSET (User \cup {NoUser})) : Replace(snapshot)
    \/ \E g \in Group, members \in SUBSET (User \cup {NoUser}) : Update(g, members)
    \/ \E batch \in SUBSET accepted : Process(batch)
    \/ \E s \in Secret, key \in GroupKeys \cup UserKeys : Verify(s, key)
    \/ \E content \in Secret \cup {Unusable} : SwapFile(content)

Spec == Init /\ [][Next]_vars

-------------------------------------------------------------------------------
(* Properties *)

(* Whatever the updates, replacements and rotations so far, the index is   *)
(* what a rebuild from the members would make it: one secret keys all of   *)
(* it, every group has its route, and a user is found exactly if some      *)
(* group has it.  EventLoop rests on the last: no groups, no answer.       *)
IndexConsistent ==
    /\ groupIDs = IDsOf(secret, groupUsers)
    /\ groupKeys = KeysOf(secret, groupUsers)
    /\ userGroups = FanOutOf(secret, groupUsers)

(* A hint the webhook accepted resolves when the worker gets to it, if the *)
(* index knows the group or user and no other secret was published since,  *)
(* also when the file was unusable in between: verifying and routing agree *)
(* on the secret.                                                          *)
AcceptedResolves ==
    [][\A k \in accepted \ (accepted' \cup outdated) :
          /\ k \in GroupKeys /\ k[3] \in DOMAIN groupUsers =>
                k \in DOMAIN groupIDs' /\ groupIDs'[k] = k[3]
          /\ k \in UserKeys /\ GroupsOf(groupUsers, k[3]) # {} =>
                k \in DOMAIN userGroups' /\ userGroups'[k] = GroupsOf(groupUsers, k[3])]_vars

-------------------------------------------------------------------------------
(* The inductive invariant: a hint that is not outdated was accepted under *)
(* the secret that the loader still has.                                   *)
RouteInv ==
    /\ TypeOK
    /\ IndexConsistent
    /\ \A k \in accepted \ outdated : k[1] = last /\ (file \in Secret => k[1] = file)
===============================================================================
