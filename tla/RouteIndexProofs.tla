--------------------------- MODULE RouteIndexProofs ---------------------------
(***************************************************************************)
(* The routing index is consistent and agrees with the webhook on the      *)
(* secret, for every set of groups, users and secrets.                     *)
(***************************************************************************)
EXTENDS RouteIndex, TLAPS

(* What a member of Maps is. *)
LEMMA MapsDef ==
    ASSUME NEW S, NEW T, NEW f
    PROVE  f \in Maps(S, T) <=> f \in [DOMAIN f -> T] /\ DOMAIN f \subseteq S
<1>1. ASSUME f \in Maps(S, T) PROVE f \in [DOMAIN f -> T] /\ DOMAIN f \subseteq S
  BY <1>1 DEF Maps
<1>2. ASSUME f \in [DOMAIN f -> T], DOMAIN f \subseteq S PROVE f \in Maps(S, T)
  BY <1>2 DEF Maps
<1> QED
  BY <1>1, <1>2

(* The empty map is a map. *)
LEMMA NoEntriesIsMap ==
    ASSUME NEW S, NEW T
    PROVE  NoEntries \in Maps(S, T)
<1>1. NoEntries \in [DOMAIN NoEntries -> T] /\ DOMAIN NoEntries \subseteq S
  BY DEF NoEntries
<1> QED
  BY <1>1, MapsDef

(* rebuildWithSecretLocked makes well-formed maps. *)
LEMMA RebuildIsMaps ==
    ASSUME NEW s \in Secret, NEW users \in Maps(Group, SUBSET User)
    PROVE  /\ IDsOf(s, users) \in Maps(GroupKeys, Group)
           /\ KeysOf(s, users) \in Maps(Group, GroupKeys)
           /\ FanOutOf(s, users) \in Maps(UserKeys, SUBSET Group)
<1>1. users \in [DOMAIN users -> SUBSET User] /\ DOMAIN users \subseteq Group
  BY MapsDef
<1>2. IDsOf(s, users) \in Maps(GroupKeys, Group)
  <2>1. DOMAIN IDsOf(s, users) \subseteq GroupKeys
    BY <1>1 DEF IDsOf, GroupKeys
  <2>2. IDsOf(s, users) \in [DOMAIN IDsOf(s, users) -> Group]
    BY <1>1 DEF IDsOf, GroupKey
  <2> QED
    BY <2>1, <2>2, MapsDef
<1>3. KeysOf(s, users) \in Maps(Group, GroupKeys)
  <2>1. DOMAIN KeysOf(s, users) \subseteq Group
    BY <1>1 DEF KeysOf
  <2>2. KeysOf(s, users) \in [DOMAIN KeysOf(s, users) -> GroupKeys]
    BY <1>1 DEF KeysOf, GroupKeys
  <2> QED
    BY <2>1, <2>2, MapsDef
<1>4. FanOutOf(s, users) \in Maps(UserKeys, SUBSET Group)
  <2>1. DOMAIN FanOutOf(s, users) \subseteq UserKeys
    BY <1>1 DEF FanOutOf, UserKeys
  <2>2. FanOutOf(s, users) \in [DOMAIN FanOutOf(s, users) -> SUBSET Group]
    BY <1>1 DEF FanOutOf, GroupsOf
  <2> QED
    BY <2>1, <2>2, MapsDef
<1> QED
  BY <1>2, <1>3, <1>4

(* A user is found exactly if some group has it, and then with its groups. *)
LEMMA FanOutIs ==
    ASSUME NEW s, NEW users \in Maps(Group, SUBSET User)
    PROVE  /\ \A k : k \in DOMAIN FanOutOf(s, users) <=>
                        \E u \in User : k = UserKey(s, u) /\ GroupsOf(users, u) # {}
           /\ \A u \in User : GroupsOf(users, u) # {} =>
                        FanOutOf(s, users)[UserKey(s, u)] = GroupsOf(users, u)
<1>1. users \in [DOMAIN users -> SUBSET User] /\ DOMAIN users \subseteq Group
  BY MapsDef
<1>2. ASSUME NEW k
      PROVE  k \in DOMAIN FanOutOf(s, users) <=>
                \E u \in User : k = UserKey(s, u) /\ GroupsOf(users, u) # {}
  <2>1. k \in DOMAIN FanOutOf(s, users) <=>
           \E u \in UNION {users[g] : g \in DOMAIN users} : k = UserKey(s, u)
    BY DEF FanOutOf
  <2>2. \A u : u \in UNION {users[g] : g \in DOMAIN users} <=>
                  u \in User /\ GroupsOf(users, u) # {}
    BY <1>1 DEF GroupsOf
  <2> QED
    BY <2>1, <2>2
<1>3. ASSUME NEW u \in User, GroupsOf(users, u) # {}
      PROVE  FanOutOf(s, users)[UserKey(s, u)] = GroupsOf(users, u)
  <2>1. UserKey(s, u) \in DOMAIN FanOutOf(s, users)
    BY <1>2, <1>3
  <2>2. FanOutOf(s, users)[UserKey(s, u)] = GroupsOf(users, UserKey(s, u)[3])
    BY <2>1 DEF FanOutOf
  <2> QED
    BY <2>2 DEF UserKey
<1> QED
  BY <1>2, <1>3

(* Changing the members of one group changes its users' groups by it. *)
LEMMA GroupsOfWith ==
    ASSUME NEW users \in Maps(Group, SUBSET User), NEW g \in Group, NEW now \in SUBSET User,
           NEW u \in User
    PROVE  GroupsOf(With(users, g, now), u) =
              (GroupsOf(users, u) \ {g}) \cup (IF u \in now THEN {g} ELSE {})
BY DEF GroupsOf, With

(* The incremental Update of the fan-out agrees with a rebuild. *)
LEMMA UpdateIsRebuild ==
    ASSUME NEW users \in Maps(Group, SUBSET User), NEW g \in Group, NEW now \in SUBSET User,
           NEW s, NEW before,
           before = IF g \in DOMAIN users THEN users[g] ELSE {}
    PROVE  Insert(Remove(FanOutOf(s, users), g, {UserKey(s, u) : u \in before}),
                  g, {UserKey(s, u) : u \in now}) = FanOutOf(s, With(users, g, now))
<1> DEFINE fan == FanOutOf(s, users)
           beforeKeys == {UserKey(s, u) : u \in before}
           nowKeys == {UserKey(s, u) : u \in now}
           removed == Remove(fan, g, beforeKeys)
           inserted == Insert(removed, g, nowKeys)
           new == With(users, g, now)
           rebuilt == FanOutOf(s, new)
<1>1. users \in [DOMAIN users -> SUBSET User] /\ DOMAIN users \subseteq Group
  BY MapsDef
<1>2. new \in Maps(Group, SUBSET User)
  <2>1. new \in [DOMAIN new -> SUBSET User] /\ DOMAIN new \subseteq Group
    BY <1>1 DEF With
  <2> QED
    BY <2>1, MapsDef
<1>3. before \subseteq User
  BY <1>1
<1>4. \A u, v : UserKey(s, u) = UserKey(s, v) => u = v
  BY DEF UserKey
<1>5. \A u \in User : /\ UserKey(s, u) \in beforeKeys <=> g \in GroupsOf(users, u)
                      /\ UserKey(s, u) \in nowKeys <=> u \in now
  <2>1. \A u \in User : UserKey(s, u) \in beforeKeys <=> u \in before
    BY <1>3, <1>4
  <2>2. \A u \in User : u \in before <=> g \in GroupsOf(users, u)
    BY <1>1 DEF GroupsOf
  <2>3. \A u \in User : UserKey(s, u) \in nowKeys <=> u \in now
    BY <1>4
  <2> QED
    BY <2>1, <2>2, <2>3
<1>6. /\ \A k : k \in DOMAIN removed <=>
                   \E u \in User : k = UserKey(s, u) /\ GroupsOf(users, u) \ {g} # {}
      /\ \A u \in User : UserKey(s, u) \in DOMAIN removed =>
                   removed[UserKey(s, u)] = GroupsOf(users, u) \ {g}
  <2>1. \A k : k \in DOMAIN removed <=>
                  k \in DOMAIN fan /\ (k \in beforeKeys => fan[k] \ {g} # {})
    BY DEF Remove
  <2>2. \A k \in DOMAIN removed :
           removed[k] = IF k \in beforeKeys THEN fan[k] \ {g} ELSE fan[k]
    BY DEF Remove
  <2> HIDE DEF removed, fan, beforeKeys
  <2>3. /\ \A k : k \in DOMAIN fan <=>
                     \E u \in User : k = UserKey(s, u) /\ GroupsOf(users, u) # {}
        /\ \A u \in User : GroupsOf(users, u) # {} => fan[UserKey(s, u)] = GroupsOf(users, u)
    BY FanOutIs DEF fan
  <2>4. ASSUME NEW u \in User
        PROVE  UserKey(s, u) \in DOMAIN removed <=> GroupsOf(users, u) \ {g} # {}
    <3>1. UserKey(s, u) \in DOMAIN fan <=> GroupsOf(users, u) # {}
      BY <2>3, <1>4
    <3> QED
      BY <2>1, <2>3, <3>1, <1>5
  <2>5. ASSUME NEW k, k \in DOMAIN removed
        PROVE  \E u \in User : k = UserKey(s, u)
    BY <2>1, <2>3, <2>5
  <2>6. ASSUME NEW u \in User, UserKey(s, u) \in DOMAIN removed
        PROVE  removed[UserKey(s, u)] = GroupsOf(users, u) \ {g}
    <3>1. fan[UserKey(s, u)] = GroupsOf(users, u)
      BY <2>3, <2>4, <2>6
    <3> QED
      BY <2>2, <2>6, <3>1, <1>5
  <2> QED
    BY <2>4, <2>5, <2>6
<1>7. /\ DOMAIN inserted = DOMAIN removed \cup nowKeys
      /\ \A k \in DOMAIN inserted :
            inserted[k] = (IF k \in DOMAIN removed THEN removed[k] ELSE {})
                          \cup (IF k \in nowKeys THEN {g} ELSE {})
      /\ inserted = [k \in DOMAIN inserted |-> inserted[k]]
  BY DEF Insert
<1>8. rebuilt = [k \in DOMAIN rebuilt |-> rebuilt[k]]
  BY DEF FanOutOf
<1>9. /\ \A k : k \in DOMAIN rebuilt <=>
                   \E u \in User : k = UserKey(s, u) /\ GroupsOf(new, u) # {}
      /\ \A u \in User : GroupsOf(new, u) # {} => rebuilt[UserKey(s, u)] = GroupsOf(new, u)
  BY <1>2, FanOutIs
<1>10. \A u \in User : GroupsOf(new, u) =
                         (GroupsOf(users, u) \ {g}) \cup (IF u \in now THEN {g} ELSE {})
  BY GroupsOfWith
<1>11. \A k \in nowKeys : \E u \in User : k = UserKey(s, u)
  OBVIOUS
<1> HIDE DEF fan, beforeKeys, nowKeys, removed, inserted, new, rebuilt
<1>12. DOMAIN inserted = DOMAIN rebuilt
  <2>1. ASSUME NEW u \in User
        PROVE  UserKey(s, u) \in DOMAIN inserted <=> UserKey(s, u) \in DOMAIN rebuilt
    <3>1. UserKey(s, u) \in DOMAIN removed <=> GroupsOf(users, u) \ {g} # {}
      BY <1>6, <1>4
    <3>2. UserKey(s, u) \in DOMAIN rebuilt <=> GroupsOf(new, u) # {}
      BY <1>9, <1>4
    <3> QED
      BY <3>1, <3>2, <1>5, <1>7, <1>10
  <2>2. \A k \in DOMAIN inserted \cup DOMAIN rebuilt : \E u \in User : k = UserKey(s, u)
    BY <1>6, <1>7, <1>9, <1>11
  <2> QED
    BY <2>1, <2>2
<1>13. ASSUME NEW k \in DOMAIN rebuilt PROVE inserted[k] = rebuilt[k]
  <2>1. PICK u \in User : k = UserKey(s, u) /\ GroupsOf(new, u) # {}
    BY <1>9
  <2>2. k \in DOMAIN removed <=> GroupsOf(users, u) \ {g} # {}
    BY <2>1, <1>6, <1>4
  <2>3. rebuilt[k] = (GroupsOf(users, u) \ {g}) \cup (IF u \in now THEN {g} ELSE {})
    BY <2>1, <1>9, <1>10
  <2>4. inserted[k] = (IF k \in DOMAIN removed THEN removed[k] ELSE {})
                      \cup (IF k \in nowKeys THEN {g} ELSE {})
    BY <1>7, <1>12
  <2> QED
    BY <2>1, <2>2, <2>3, <2>4, <1>5, <1>6
<1> QED
  BY <1>7, <1>8, <1>12, <1>13 DEF inserted, rebuilt, removed, fan, beforeKeys, nowKeys, new

-------------------------------------------------------------------------------
(* After refreshSecretLocked the whole index is keyed with the loaded      *)
(* secret.                                                                 *)
LEMMA RefreshedIsRebuild ==
    ASSUME RouteInv
    PROVE  /\ Loaded \in Secret
           /\ RefreshedIDs = IDsOf(Loaded, groupUsers)
           /\ RefreshedKeys = KeysOf(Loaded, groupUsers)
           /\ RefreshedFanOut = FanOutOf(Loaded, groupUsers)
BY DEF RouteInv, TypeOK, IndexConsistent, Loaded, RefreshedIDs, RefreshedKeys, RefreshedFanOut

(* The program starts with an empty index. *)
LEMMA RouteInit == Init => RouteInv
<1> SUFFICES ASSUME Init PROVE RouteInv
  OBVIOUS
<1>1. TypeOK
  BY NoEntriesIsMap DEF Init, TypeOK
<1>2. IndexConsistent
  <2>1. IDsOf(NoSecret, NoEntries) = NoEntries
    BY DEF IDsOf, NoEntries
  <2>2. KeysOf(NoSecret, NoEntries) = NoEntries
    BY DEF KeysOf, NoEntries
  <2>3. FanOutOf(NoSecret, NoEntries) = NoEntries
    BY DEF FanOutOf, NoEntries
  <2> QED
    BY <2>1, <2>2, <2>3 DEF Init, IndexConsistent
<1> QED
  BY <1>1, <1>2 DEF Init, RouteInv

(* A step of the worker that leaves the index as a rebuild under the       *)
(* loaded secret, and the hints no younger than they were, keeps RouteInv. *)
LEMMA RebuildKeeps ==
    ASSUME RouteInv, Load, UNCHANGED file,
           groupUsers' \in Maps(Group, SUBSET User),
           secret' = Loaded,
           groupIDs' = IDsOf(Loaded, groupUsers'),
           groupKeys' = KeysOf(Loaded, groupUsers'),
           userGroups' = FanOutOf(Loaded, groupUsers'),
           NEW batch, accepted' = accepted \ batch, outdated' = outdated \ batch
    PROVE  RouteInv'
<1> USE DEF RouteInv
<1>1. Loaded \in Secret
  BY DEF TypeOK, Loaded
<1>2. TypeOK'
  BY <1>1, RebuildIsMaps DEF TypeOK, Load
<1>3. IndexConsistent'
  BY DEF IndexConsistent
<1>4. ASSUME NEW k \in accepted' \ outdated'
      PROVE  k[1] = last' /\ (file' \in Secret => k[1] = file')
  BY DEF Load, Loaded
<1> QED
  BY <1>2, <1>3, <1>4

(* Replace rebuilds. *)
LEMMA ReplaceKeeps ==
    ASSUME RouteInv, NEW snapshot \in Maps(Group, SUBSET (User \cup {NoUser})), Replace(snapshot)
    PROVE  RouteInv'
<1>1. /\ snapshot \in [DOMAIN snapshot -> SUBSET (User \cup {NoUser})]
      /\ DOMAIN snapshot \subseteq Group
  BY MapsDef
<1>2. groupUsers' \in [DOMAIN groupUsers' -> SUBSET User] /\ DOMAIN groupUsers' \subseteq Group
  BY <1>1 DEF Replace, Indexed
<1>3. groupUsers' \in Maps(Group, SUBSET User)
  BY <1>2, MapsDef
<1>4. accepted' = accepted \ {} /\ outdated' = outdated \ {}
  BY DEF Replace
<1> QED
  BY <1>3, <1>4, RebuildKeeps DEF Replace

(* Update gives what a rebuild would. *)
LEMMA UpdateKeeps ==
    ASSUME RouteInv, NEW g \in Group, NEW members \in SUBSET (User \cup {NoUser}),
           Update(g, members)
    PROVE  RouteInv'
<1> DEFINE before == IF g \in DOMAIN groupUsers THEN groupUsers[g] ELSE {}
           now == Indexed(members)
<1>1. now \in SUBSET User
  BY DEF Indexed
<1>2. groupUsers \in Maps(Group, SUBSET User)
  BY DEF RouteInv, TypeOK
<1>3. /\ groupUsers' = With(groupUsers, g, now)
      /\ groupIDs' = With(RefreshedIDs, GroupKey(Loaded, g), g)
      /\ groupKeys' = With(RefreshedKeys, g, GroupKey(Loaded, g))
      /\ userGroups' = Insert(Remove(RefreshedFanOut, g, {UserKey(Loaded, u) : u \in before}),
                              g, {UserKey(Loaded, u) : u \in now})
      /\ Load /\ secret' = Loaded /\ UNCHANGED <<file, accepted, outdated>>
  BY DEF Update
<1> HIDE DEF now
<1>4. groupUsers' \in Maps(Group, SUBSET User)
  <2>1. groupUsers \in [DOMAIN groupUsers -> SUBSET User] /\ DOMAIN groupUsers \subseteq Group
    BY <1>2, MapsDef
  <2>2. groupUsers' \in [DOMAIN groupUsers' -> SUBSET User] /\ DOMAIN groupUsers' \subseteq Group
    BY <1>1, <1>3, <2>1 DEF With
  <2> QED
    BY <2>2, MapsDef
<1>5. groupIDs' = IDsOf(Loaded, groupUsers')
  <2>1. groupIDs' = With(IDsOf(Loaded, groupUsers), GroupKey(Loaded, g), g)
    BY <1>3, RefreshedIsRebuild
  <2>2. {GroupKey(Loaded, h) : h \in DOMAIN groupUsers'} =
           {GroupKey(Loaded, h) : h \in DOMAIN groupUsers} \cup {GroupKey(Loaded, g)}
    BY <1>3 DEF With
  <2>3. GroupKey(Loaded, g)[3] = g
    BY DEF GroupKey
  <2> QED
    BY <2>1, <2>2, <2>3 DEF IDsOf, With
<1>6. groupKeys' = KeysOf(Loaded, groupUsers')
  <2>1. groupKeys' = With(KeysOf(Loaded, groupUsers), g, GroupKey(Loaded, g))
    BY <1>3, RefreshedIsRebuild
  <2> QED
    BY <1>3, <2>1 DEF KeysOf, With
<1>7. userGroups' = FanOutOf(Loaded, groupUsers')
  <2>1. userGroups' = Insert(Remove(FanOutOf(Loaded, groupUsers), g,
                                    {UserKey(Loaded, u) : u \in before}),
                             g, {UserKey(Loaded, u) : u \in now})
    BY <1>3, RefreshedIsRebuild
  <2> HIDE DEF before
  <2>2. before = IF g \in DOMAIN groupUsers THEN groupUsers[g] ELSE {}
    BY DEF before
  <2> QED
    BY <1>1, <1>2, <1>3, <2>1, <2>2, UpdateIsRebuild
<1>8. accepted' = accepted \ {} /\ outdated' = outdated \ {}
  BY <1>3
<1> QED
  BY <1>3, <1>4, <1>5, <1>6, <1>7, <1>8, RebuildKeeps

(* Process refreshes. *)
LEMMA ProcessKeeps ==
    ASSUME RouteInv, NEW batch \in SUBSET accepted, Process(batch)
    PROVE  RouteInv'
<1>1. groupUsers' = groupUsers /\ groupUsers' \in Maps(Group, SUBSET User)
  BY DEF Process, RouteInv, TypeOK
<1> QED
  BY <1>1, RefreshedIsRebuild, RebuildKeeps DEF Process

(* The webhook and the file leave the index alone. *)
LEMMA OthersKeep ==
    ASSUME RouteInv,
           \/ \E s \in Secret, key \in GroupKeys \cup UserKeys : Verify(s, key)
           \/ \E content \in Secret \cup {Unusable} : SwapFile(content)
           \/ UNCHANGED vars
    PROVE  RouteInv'
<1> USE DEF RouteInv, index
<1>1. UNCHANGED index
  BY DEF Verify, SwapFile, vars
<1>2. IndexConsistent'
  BY <1>1 DEF IndexConsistent
<1>3. ASSUME NEW s \in Secret, NEW key \in GroupKeys \cup UserKeys, Verify(s, key)
      PROVE  RouteInv'
  <2>1. TypeOK'
    BY <1>1, <1>3 DEF TypeOK, Verify, Load, Loaded
  <2>2. ASSUME NEW k \in accepted' \ outdated'
        PROVE  k[1] = last' /\ (file' \in Secret => k[1] = file')
    BY <1>3 DEF Verify, Load, Loaded
  <2> QED
    BY <1>2, <2>1, <2>2
<1>4. ASSUME NEW content \in Secret \cup {Unusable}, SwapFile(content)
      PROVE  RouteInv'
  <2>1. TypeOK'
    BY <1>1, <1>4 DEF TypeOK, SwapFile
  <2>2. ASSUME NEW k \in accepted' \ outdated'
        PROVE  k[1] = last' /\ (file' \in Secret => k[1] = file')
    BY <1>4, UnusableAssumption DEF SwapFile
  <2> QED
    BY <1>2, <2>1, <2>2
<1>5. CASE UNCHANGED vars
  BY <1>5 DEF vars, TypeOK, IndexConsistent
<1> QED
  BY <1>3, <1>4, <1>5

(* Every step keeps RouteInv. *)
LEMMA RouteStep == RouteInv /\ [Next]_vars => RouteInv'
BY ReplaceKeeps, UpdateKeeps, ProcessKeeps, OthersKeep DEF Next

(* RouteInv is an invariant of the routing index. *)
THEOREM RouteInvariant == Spec => []RouteInv
BY RouteInit, RouteStep, PTL DEF Spec

(* The maps of the index are functions over known keys at every step. *)
THEOREM RouteTypeOK == Spec => []TypeOK
<1>1. RouteInv => TypeOK
  BY DEF RouteInv
<1> QED
  BY RouteInvariant, <1>1, PTL

(* The incremental index is always the one a rebuild would give. *)
THEOREM RouteIndexConsistent == Spec => []IndexConsistent
<1>1. RouteInv => IndexConsistent
  BY DEF RouteInv
<1> QED
  BY RouteInvariant, <1>1, PTL

(* A hint that was accepted and is not outdated resolves. *)
THEOREM RouteAcceptedResolves == Spec => AcceptedResolves
<1> DEFINE Resolves ==
      \A k \in accepted \ (accepted' \cup outdated) :
          /\ k \in GroupKeys /\ k[3] \in DOMAIN groupUsers =>
                k \in DOMAIN groupIDs' /\ groupIDs'[k] = k[3]
          /\ k \in UserKeys /\ GroupsOf(groupUsers, k[3]) # {} =>
                k \in DOMAIN userGroups' /\ userGroups'[k] = GroupsOf(groupUsers, k[3])
<1>1. RouteInv /\ [Next]_vars => [Resolves]_vars
  <2> SUFFICES ASSUME RouteInv, Next, NEW k \in accepted, k \notin accepted', k \notin outdated
               PROVE  /\ k \in GroupKeys /\ k[3] \in DOMAIN groupUsers =>
                            k \in DOMAIN groupIDs' /\ groupIDs'[k] = k[3]
                      /\ k \in UserKeys /\ GroupsOf(groupUsers, k[3]) # {} =>
                            k \in DOMAIN userGroups' /\ userGroups'[k] = GroupsOf(groupUsers, k[3])
    OBVIOUS
  <2>1. PICK batch \in SUBSET accepted : Process(batch)
    BY DEF Next, Replace, Update, Verify, SwapFile
  <2>2. k[1] = Loaded
    BY DEF RouteInv, Loaded
  <2>3. groupIDs' = IDsOf(Loaded, groupUsers) /\ userGroups' = FanOutOf(Loaded, groupUsers)
    BY <2>1, RefreshedIsRebuild DEF Process
  <2>4. ASSUME k \in GroupKeys, k[3] \in DOMAIN groupUsers
        PROVE  k \in DOMAIN groupIDs' /\ groupIDs'[k] = k[3]
    <3>1. k = GroupKey(Loaded, k[3])
      BY <2>2, <2>4 DEF GroupKeys, GroupKey
    <3> QED
      BY <2>3, <2>4, <3>1 DEF IDsOf
  <2>5. ASSUME k \in UserKeys, GroupsOf(groupUsers, k[3]) # {}
        PROVE  k \in DOMAIN userGroups' /\ userGroups'[k] = GroupsOf(groupUsers, k[3])
    <3>1. k = UserKey(Loaded, k[3]) /\ k[3] \in User
      BY <2>2, <2>5 DEF UserKeys, UserKey
    <3>2. groupUsers \in Maps(Group, SUBSET User)
      BY DEF RouteInv, TypeOK
    <3>3. k \in DOMAIN FanOutOf(Loaded, groupUsers)
      BY <2>5, <3>1, <3>2, FanOutIs
    <3>4. FanOutOf(Loaded, groupUsers)[UserKey(Loaded, k[3])] = GroupsOf(groupUsers, k[3])
      BY <2>5, <3>1, <3>2, FanOutIs
    <3> QED
      BY <2>3, <3>1, <3>3, <3>4
  <2> QED
    BY <2>4, <2>5
<1> QED
  BY RouteInvariant, <1>1, PTL DEF Spec, AcceptedResolves
===============================================================================
