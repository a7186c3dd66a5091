--------------------------- MODULE GitLabSyncProofs ---------------------------
(***************************************************************************)
(* SyncGroup keeps GitLabInv, and with it every safety property of         *)
(* GitLabSync that the code has, for every finite set of users, every set  *)
(* of groups, every rule and every number of changes and failures; and it  *)
(* uses the ledger through its interface only.                             *)
(***************************************************************************)
EXTENDS GitLabSync, FiniteSetTheorems, SequenceTheorems, WellFoundedInduction, TLAPS

(* The fields of a rule. *)
LEMMA RuleFields ==
    ASSUME TypeOK
    PROVE  /\ rule.prune \in Prunes /\ rule.max \in Nat
           /\ rule.create \in BOOLEAN /\ rule.adopt \in BOOLEAN
           /\ rule.enforce \in BOOLEAN /\ rule.allowlist \in BOOLEAN
<1>1. rule \in [prune : Prunes, create : BOOLEAN, adopt : BOOLEAN, enforce : BOOLEAN,
                protected : SUBSET User, self : User \cup {NoUser}, max : Nat, allowlist : BOOLEAN]
  BY RulesAssumption DEF TypeOK
<1> QED
  BY <1>1

LEMMA NoMemberType == NoMember \in MemberType
BY DEF NoMember, MemberType, OwnerLevel

(* The locals of SyncGroup before it is called. *)
LEMMA IdleFields ==
    /\ Idle \in Runs /\ Idle.pc = "idle" /\ Idle.tomb = FALSE /\ Idle.seen = {} /\ Idle.snap = {}
    /\ Idle.gid = NoGroup /\ Idle.desired = {} /\ Idle.todo = {} /\ Idle.removals = <<>>
    /\ Idle.removed = 0 /\ Idle.pending = FALSE /\ Idle.quiet = TRUE
    /\ Idle.entries = <<>> /\ Idle.steady = TRUE /\ Idle.counted = {}
    /\ \A u \in User : Idle.listed[u] = NoMember
BY NoMemberType DEF Idle, Runs, Steps

LEMMA DownFields ==
    /\ Down \in Runs /\ Down.pc = "down" /\ Down.tomb = FALSE /\ Down.seen = {} /\ Down.snap = {}
    /\ Down.gid = NoGroup /\ Down.desired = {} /\ Down.todo = {} /\ Down.removals = <<>>
    /\ Down.removed = 0 /\ Down.pending = FALSE /\ Down.quiet = TRUE
    /\ Down.entries = <<>> /\ Down.steady = TRUE /\ Down.counted = {}
    /\ \A u \in User : Down.listed[u] = NoMember
<1>1. Idle \in Runs
  BY IdleFields
<1>2. "down" \in Steps
  BY DEF Steps
<1> QED
  BY <1>1, <1>2, IdleFields DEF Down, Runs

(* What an operation of the Store makes of contents is contents. *)
LEMMA OperationsType ==
    ASSUME NEW c \in Contents
    PROVE  /\ \A k \in Gid \X User : /\ MarkManaged(c, k) \in Contents
                                     /\ Unmark(c, k) \in Contents
                                     /\ ConfirmAbsent(c, k) \in Contents
                                     /\ ResetAbsent(c, k) \in Contents
           /\ \A m \in Mapping : PutGroup(c, Src, m) \in Contents
           /\ DeleteGroup(c, Src) \in Contents
<1>1. ASSUME NEW k \in Gid \X User
      PROVE  /\ MarkManaged(c, k) \in Contents
             /\ Unmark(c, k) \in Contents
             /\ ConfirmAbsent(c, k) \in Contents
             /\ ResetAbsent(c, k) \in Contents
  BY DEF Contents, MarkManaged, Unmark, ConfirmAbsent, ResetAbsent
<1>2. ASSUME NEW m \in Mapping \cup {NoMapping}
      PROVE  [c EXCEPT !.groups[Src] = m] \in Contents
  BY DEF Contents
<1> QED
  BY <1>1, <1>2 DEF PutGroup, DeleteGroup

LEMMA EmptyIsContents == EmptyContents \in Contents
BY DEF EmptyContents, Contents

-------------------------------------------------------------------------------
(* Sequences that gain or lose an element *)

LEMMA InsertAtFacts ==
    ASSUME NEW S, NEW s \in Seq(S), NEW i \in 1..Len(s) + 1, NEW e \in S
    PROVE  /\ InsertAt(s, i, e) \in Seq(S)
           /\ Len(InsertAt(s, i, e)) = Len(s) + 1
           /\ InsertAt(s, i, e)[i] = e
           /\ \A j \in 1..i - 1 : InsertAt(s, i, e)[j] = s[j]
           /\ \A j \in i..Len(s) : InsertAt(s, i, e)[j + 1] = s[j]
<1> DEFINE a == SubSeq(s, 1, i - 1)
           b == SubSeq(s, i, Len(s))
<1>1. Len(s) \in Nat /\ \A j \in 1..Len(s) : s[j] \in S
  BY LenProperties, ElementOfSeq
<1>2. a \in Seq(S) /\ Len(a) = i - 1 /\ \A j \in 1..i - 1 : a[j] = s[j]
  <2>1. \A j \in 1..i - 1 : s[j] \in S
    BY <1>1
  <2> QED
    BY <1>1, <2>1, SubSeqProperties
<1>3. b \in Seq(S) /\ Len(b) = Len(s) - i + 1 /\ \A j \in 1..Len(s) - i + 1 : b[j] = s[i + j - 1]
  <2>1. \A j \in i..Len(s) : s[j] \in S
    BY <1>1
  <2> QED
    BY <1>1, <2>1, SubSeqProperties
<1> HIDE DEF a, b
<1>4. /\ a \o <<e>> \in Seq(S) /\ Len(a \o <<e>>) = i
      /\ \A j \in 1..i : (a \o <<e>>)[j] = IF j < i THEN s[j] ELSE e
  <2>1. <<e>> \in Seq(S) /\ Len(<<e>>) = 1 /\ <<e>>[1] = e
    OBVIOUS
  <2> DEFINE o == <<e>>
  <2>2. o \in Seq(S) /\ Len(o) = 1 /\ o[1] = e
    BY <2>1
  <2> HIDE DEF o
  <2>3. /\ a \o o \in Seq(S) /\ Len(a \o o) = Len(a) + Len(o)
        /\ \A j \in 1..Len(a) + Len(o) : (a \o o)[j] = IF j <= Len(a) THEN a[j] ELSE o[j - Len(a)]
    BY <1>2, <2>2, ConcatProperties
  <2>4. \A j \in 1..i : (a \o o)[j] = IF j < i THEN s[j] ELSE e
    <3> TAKE j \in 1..i
    <3>1. j \in 1..Len(a) + Len(o)
      BY <1>2, <2>2
    <3>2. CASE j < i
      BY <1>2, <2>3, <3>1, <3>2
    <3>3. CASE j = i
      BY <1>2, <2>2, <2>3, <3>1, <3>3
    <3>4. j < i \/ j = i
      BY <1>1
    <3> QED
      BY <3>2, <3>3, <3>4
  <2>5. Len(a \o o) = i
    BY <1>2, <2>2, <2>3
  <2> QED
    BY <2>3, <2>4, <2>5 DEF o
<1> DEFINE f == a \o <<e>>
<1>5. f \in Seq(S) /\ Len(f) = i /\ \A j \in 1..i : f[j] = IF j < i THEN s[j] ELSE e
  BY <1>4
<1>6. InsertAt(s, i, e) = f \o b
  BY DEF InsertAt, a, b
<1> HIDE DEF f
<1>7. /\ f \o b \in Seq(S) /\ Len(f \o b) = Len(f) + Len(b)
      /\ \A j \in 1..Len(f) + Len(b) : (f \o b)[j] = IF j <= Len(f) THEN f[j] ELSE b[j - Len(f)]
  BY <1>3, <1>5, ConcatProperties
<1>8. (f \o b)[i] = e /\ \A j \in 1..i - 1 : (f \o b)[j] = s[j]
  BY <1>1, <1>3, <1>5, <1>7
<1>9. Len(f \o b) = Len(s) + 1
  BY <1>1, <1>3, <1>5, <1>7
<1>10. ASSUME NEW j \in i..Len(s)
       PROVE  (f \o b)[j + 1] = s[j]
  <2>1. Len(s) \in Nat /\ i \in Nat /\ j \in Nat /\ j + 1 \in 1..Len(f) + Len(b)
    BY <1>1, <1>3, <1>5
  <2>2. (f \o b)[j + 1] = b[j + 1 - i]
    BY <1>5, <1>7, <2>1
  <2>3. j + 1 - i \in 1..Len(s) - i + 1
    BY <2>1
  <2>4. b[j + 1 - i] = s[i + (j + 1 - i) - 1]
    BY <1>3, <2>3
  <2>5. i + (j + 1 - i) - 1 = j
    BY <2>1
  <2> QED
    BY <2>2, <2>4, <2>5
<1> QED
  BY <1>6, <1>7, <1>8, <1>9, <1>10

LEMMA RemoveAtFacts ==
    ASSUME NEW S, NEW s \in Seq(S), NEW i \in 1..Len(s)
    PROVE  /\ RemoveAt(s, i) \in Seq(S)
           /\ Len(RemoveAt(s, i)) = Len(s) - 1
           /\ \A j \in 1..Len(s) - 1 : RemoveAt(s, i)[j] = IF j < i THEN s[j] ELSE s[j + 1]
<1> DEFINE a == SubSeq(s, 1, i - 1)
           b == SubSeq(s, i + 1, Len(s))
<1>1. Len(s) \in Nat /\ \A j \in 1..Len(s) : s[j] \in S
  BY LenProperties, ElementOfSeq
<1>2. a \in Seq(S) /\ Len(a) = i - 1 /\ \A j \in 1..i - 1 : a[j] = s[j]
  <2>1. \A j \in 1..i - 1 : s[j] \in S
    BY <1>1
  <2> QED
    BY <1>1, <2>1, SubSeqProperties
<1>3. b \in Seq(S) /\ Len(b) = Len(s) - i /\ \A j \in 1..Len(s) - i : b[j] = s[i + j]
  <2>1. \A j \in i + 1..Len(s) : s[j] \in S
    BY <1>1
  <2> QED
    BY <1>1, <2>1, SubSeqProperties
<1>4. RemoveAt(s, i) = a \o b
  BY DEF RemoveAt
<1> HIDE DEF a, b
<1>5. /\ a \o b \in Seq(S) /\ Len(a \o b) = Len(a) + Len(b)
      /\ \A j \in 1..Len(a) + Len(b) : (a \o b)[j] = IF j <= Len(a) THEN a[j] ELSE b[j - Len(a)]
  BY <1>2, <1>3, ConcatProperties
<1>6. \A j \in 1..Len(s) - 1 : (a \o b)[j] = IF j < i THEN s[j] ELSE s[j + 1]
  <2> TAKE j \in 1..Len(s) - 1
  <2>1. j \in 1..Len(a) + Len(b) /\ Len(s) \in Nat /\ i \in Nat /\ j \in Nat
    BY <1>1, <1>2, <1>3
  <2>2. CASE j < i
    BY <1>2, <1>5, <2>1, <2>2
  <2>3. CASE j >= i
    <3>1. (a \o b)[j] = b[j - (i - 1)]
      BY <1>2, <1>5, <2>1, <2>3
    <3>2. j - (i - 1) \in 1..Len(s) - i
      BY <2>1, <2>3
    <3>3. b[j - (i - 1)] = s[i + (j - (i - 1))]
      BY <1>3, <3>2
    <3>4. i + (j - (i - 1)) = j + 1
      BY <2>1
    <3> QED
      BY <2>3, <2>1, <3>1, <3>3, <3>4
  <2> QED
    BY <2>1, <2>2, <2>3
<1>7. Len(a \o b) = Len(s) - 1
  BY <1>1, <1>2, <1>3, <1>5
<1> QED
  BY <1>4, <1>5, <1>6, <1>7
-------------------------------------------------------------------------------
(* How GitLab lists its groups, and what a run makes of it *)

LEMMA RowsKept == ASSUME RowsDistinct, UNCHANGED <<members, rows>> PROVE RowsDistinct'
BY DEF RowsDistinct

(* A member who joins is listed once, wherever it comes. *)
LEMMA JoinsKeeps ==
    ASSUME TypeOK, RowsDistinct, NEW g \in Gid, NEW u \in User, NEW m \in MemberType, m # NoMember,
           members[g][u] = NoMember, members' = [members EXCEPT ![g][u] = m], Joins(g, u)
    PROVE  /\ rows' \in [Gid -> Seq(User)]
           /\ \A h \in Gid \ {g} : rows'[h] = rows[h]
           /\ RowsDistinct'
<1>1. rows \in [Gid -> Seq(User)] /\ members \in [Gid -> [User -> MemberType]]
  BY DEF TypeOK
<1>2. PICK i \in 1..Len(rows[g]) + 1 : rows' = [rows EXCEPT ![g] = InsertAt(@, i, u)]
  BY DEF Joins
<1> DEFINE s == rows[g]
           t == InsertAt(s, i, u)
<1>3. s \in Seq(User) /\ Len(s) \in Nat /\ i \in 1..Len(s) + 1
  BY <1>1, <1>2
<1> HIDE DEF s
<1>4. /\ t \in Seq(User) /\ Len(t) = Len(s) + 1
      /\ t[i] = u
      /\ \A j \in 1..i - 1 : t[j] = s[j]
      /\ \A j \in i..Len(s) : t[j + 1] = s[j]
  <2>1. t = InsertAt(s, i, u)
    OBVIOUS
  <2> HIDE DEF t
  <2> QED
    BY <1>3, <2>1, InsertAtFacts
<1>5. rows' = [rows EXCEPT ![g] = t]
  BY <1>2 DEF s
<1>6. /\ \A j, k \in 1..Len(s) : s[j] = s[k] => j = k
      /\ \A j \in 1..Len(s) : s[j] \in User /\ members[g][s[j]] # NoMember
  BY <1>1, <1>3 DEF RowsDistinct, s
<1> HIDE DEF t
<1>7. rows' \in [Gid -> Seq(User)] /\ rows'[g] = t /\ \A h \in Gid \ {g} : rows'[h] = rows[h]
  BY <1>1, <1>4, <1>5
<1>8. \A j \in 1..Len(s) : s[j] # u
  BY <1>6
<1> DEFINE at(j) == IF j < i THEN j ELSE j - 1
<1>9. ASSUME NEW j \in 1..Len(t), j # i
      PROVE  at(j) \in 1..Len(s) /\ t[j] = s[at(j)]
  <2>1. Len(s) \in Nat /\ i \in Nat /\ j \in Nat /\ j \in 1..Len(s) + 1
    BY <1>3, <1>4
  <2>2. CASE j < i
    BY <1>3, <1>4, <2>1, <2>2
  <2>3. CASE j > i
    <3>1. j - 1 \in i..Len(s) /\ (j - 1) + 1 = j
      BY <2>1, <2>3
    <3>2. t[(j - 1) + 1] = s[j - 1]
      BY <1>4, <3>1
    <3> QED
      BY <1>3, <2>1, <2>3, <3>1, <3>2
  <2> QED
    BY <1>9, <2>1, <2>2, <2>3
<1>10. \A j, k \in 1..Len(t) : t[j] = t[k] => j = k
  <2> SUFFICES ASSUME NEW j \in 1..Len(t), NEW k \in 1..Len(t), t[j] = t[k] PROVE j = k
    OBVIOUS
  <2>1. j = i <=> k = i
    BY <1>4, <1>8, <1>9
  <2>2. j # i /\ k # i => at(j) = at(k)
    BY <1>6, <1>9
  <2>3. j \in Nat /\ k \in Nat /\ i \in Nat
    BY <1>3, <1>4
  <2> QED
    BY <2>1, <2>2, <2>3
<1>11. \A j \in 1..Len(t) : members'[g][t[j]] # NoMember
  <2> TAKE j \in 1..Len(t)
  <2>1. members'[g] = [members[g] EXCEPT ![u] = m] /\ members[g] \in [User -> MemberType]
    BY <1>1
  <2>2. CASE j = i
    BY <1>4, <2>1, <2>2
  <2>3. CASE j # i
    <3> HIDE DEF at
    <3>1. s[at(j)] \in User /\ members[g][s[at(j)]] # NoMember /\ s[at(j)] # u /\ t[j] = s[at(j)]
      BY <1>6, <1>8, <1>9, <2>3
    <3> QED
      BY <2>1, <3>1
  <2> QED
    BY <2>2, <2>3
<1>12. \A h \in Gid \ {g} : members'[h] = members[h]
  BY <1>1
<1> QED
  BY <1>7, <1>10, <1>11, <1>12 DEF RowsDistinct

(* Whoever leaves is listed no more. *)
LEMMA LeavesKeeps ==
    ASSUME TypeOK, RowsDistinct, NEW g \in Gid, NEW u \in User,
           members' = [members EXCEPT ![g][u] = NoMember], Leaves(g, u)
    PROVE  /\ rows' \in [Gid -> Seq(User)]
           /\ \A h \in Gid \ {g} : rows'[h] = rows[h]
           /\ RowsDistinct'
<1>1. rows \in [Gid -> Seq(User)] /\ members \in [Gid -> [User -> MemberType]]
  BY DEF TypeOK
<1> DEFINE s == rows[g]
           t == rows'[g]
<1>2. s \in Seq(User) /\ Len(s) \in Nat
  BY <1>1
<1>3. /\ \A j, k \in 1..Len(s) : s[j] = s[k] => j = k
      /\ \A j \in 1..Len(s) : s[j] \in User /\ members[g][s[j]] # NoMember
  BY <1>1, <1>2 DEF RowsDistinct
<1>4. /\ \A h \in Gid \ {g} : rows'[h] = rows[h] /\ members'[h] = members[h]
      /\ members'[g] = [members[g] EXCEPT ![u] = NoMember] /\ members[g] \in [User -> MemberType]
      /\ t = IF \E i \in 1..Len(s) : s[i] = u
             THEN RemoveAt(s, CHOOSE i \in 1..Len(s) : s[i] = u) ELSE s
  BY <1>1 DEF Leaves
<1>5. /\ t \in Seq(User)
      /\ \A j, k \in 1..Len(t) : t[j] = t[k] => j = k
      /\ \A j \in 1..Len(t) : t[j] \in User /\ t[j] # u /\ members[g][t[j]] # NoMember
  <2>1. CASE \E i \in 1..Len(s) : s[i] = u
    <3> DEFINE i == CHOOSE i \in 1..Len(s) : s[i] = u
    <3>1. i \in 1..Len(s) /\ s[i] = u
      BY <2>1
    <3>2. t = RemoveAt(s, i)
      BY <1>4, <2>1
    <3> HIDE DEF i, s, t
    <3>3. /\ t \in Seq(User) /\ Len(t) = Len(s) - 1
          /\ \A j \in 1..Len(s) - 1 : t[j] = IF j < i THEN s[j] ELSE s[j + 1]
      BY <1>2, <3>1, <3>2, RemoveAtFacts
    <3> DEFINE at(j) == IF j < i THEN j ELSE j + 1
    <3>4. ASSUME NEW j \in 1..Len(t)
          PROVE  at(j) \in 1..Len(s) /\ t[j] = s[at(j)] /\ at(j) # i
      BY <1>2, <3>1, <3>3
    <3>5. ASSUME NEW j \in 1..Len(t), NEW k \in 1..Len(t), at(j) = at(k)
          PROVE  j = k
      BY <1>2, <3>1, <3>3, <3>5
    <3> HIDE DEF at
    <3>6. ASSUME NEW j \in 1..Len(t), NEW k \in 1..Len(t), t[j] = t[k]
          PROVE  j = k
      <4>1. at(j) \in 1..Len(s) /\ t[j] = s[at(j)] /\ at(k) \in 1..Len(s) /\ t[k] = s[at(k)]
        BY <3>4
      <4>2. at(j) = at(k)
        BY <1>3, <3>6, <4>1
      <4> QED
        BY <3>5, <4>2
    <3>7. ASSUME NEW j \in 1..Len(t)
          PROVE  t[j] \in User /\ t[j] # u /\ members[g][t[j]] # NoMember
      <4>1. at(j) \in 1..Len(s) /\ t[j] = s[at(j)] /\ at(j) # i
        BY <3>4
      <4>2. s[at(j)] # u
        BY <1>3, <3>1, <4>1
      <4> QED
        BY <1>3, <4>1, <4>2
    <3> QED
      BY <3>3, <3>6, <3>7
  <2>2. CASE ~\E i \in 1..Len(s) : s[i] = u
    <3>1. t = s
      BY <1>4, <2>2
    <3> HIDE DEF s, t
    <3> QED
      BY <1>2, <1>3, <2>2, <3>1
  <2> QED
    BY <2>1, <2>2
<1>6. rows' \in [Gid -> Seq(User)]
  <2>1. rows' = [rows EXCEPT ![g] = t]
    BY <1>1, <1>4 DEF Leaves
  <2> HIDE DEF t
  <2> QED
    BY <1>1, <1>5, <2>1
<1>7. \A j \in 1..Len(t) : members'[g][t[j]] # NoMember
  <2> HIDE DEF t
  <2> QED
    BY <1>4, <1>5
<1> QED
  BY <1>4, <1>5, <1>6, <1>7 DEF RowsDistinct

(* What the invariant says of a listing and of the removals planned on it. *)
ListingInv == EntriesDistinct /\ RemovalsDistinct /\ EntriesListed

(* Nothing is listed yet. *)
NoListing(r) ==
    /\ r.entries = <<>> /\ r.steady /\ r.counted = {} /\ r.removals = <<>>
    /\ \A u \in User : r.listed[u] = NoMember

SameListing(r) ==
    /\ r.entries = run.entries /\ r.steady = run.steady /\ r.counted = run.counted
    /\ r.listed = run.listed /\ r.removals = run.removals

LEMMA NoListingInv ==
    TypeOK /\ Settled /\ run.pc \in Unbound \cup {"list"} /\ NoListing(run) => ListingInv
<1> SUFFICES ASSUME TypeOK, Settled, run.pc \in Unbound \cup {"list"}, NoListing(run) PROVE ListingInv
  OBVIOUS
<1>1. Len(run.entries) = 0 /\ Len(run.removals) = 0
  BY DEF NoListing
<1>2. EntriesDistinct
  <2>1. run.pc = "list" => Len(rows[run.gid]) \in Nat
    <3>1. run.pc = "list" => rows[run.gid] \in Seq(User)
      BY DEF TypeOK, Settled, Unbound
    <3> QED
      BY <3>1, LenProperties
  <2> QED
    BY <1>1, <2>1 DEF NoListing, EntriesDistinct, Unbound, Planned
<1>3. RemovalsDistinct
  BY <1>1 DEF NoListing, RemovalsDistinct
<1>4. EntriesListed
  BY DEF EntriesListed, NoListing, Listed
<1> QED
  BY <1>2, <1>3, <1>4 DEF ListingInv

LEMMA NotListedYet == ASSUME GitLabInv, run.pc \in Unbound PROVE NoListing(run)
<1>1. run.entries = <<>> /\ run.steady /\ run.counted = {} /\ run.removals = <<>> /\ run.pc \notin Planned
  BY DEF GitLabInv, EntriesDistinct, RemovalsJustified, Unbound, Planned
<1>2. Len(run.entries) = 0
  BY <1>1
<1>3. \A u \in User : run.listed[u] = NoMember
  BY <1>1, <1>2 DEF GitLabInv, EntriesListed, Listed
<1> QED
  BY <1>1, <1>3 DEF NoListing

LEMMA NoListingInvNext ==
    ASSUME TypeOK', Settled', run'.pc \in Unbound \cup {"list"}, NoListing(run')
    PROVE  ListingInv'
<1>1. (TypeOK /\ Settled /\ run.pc \in Unbound \cup {"list"} /\ NoListing(run) => ListingInv)'
  BY NoListingInv, PTL
<1> QED
  BY <1>1 DEF NoListing, Unbound

LEMMA NoListingStays ==
    ASSUME GitLabInv, TypeOK', Settled', run.pc \in Unbound, run'.pc \in Unbound \cup {"list"},
           SameListing(run')
    PROVE  ListingInv'
<1>1. NoListing(run')
  BY NotListedYet DEF NoListing, SameListing
<1> QED
  BY <1>1, NoListingInvNext

(* Between the listing and the plan, the listing stays what it is. *)
LEMMA ListingKept ==
    ASSUME GitLabInv, run.pc \notin Unbound \cup Planned, run'.pc \notin Unbound \cup Planned,
           run'.pc # "list", SameListing(run')
    PROVE  ListingInv'
<1>1. run.removals = <<>> /\ run.counted = {}
  BY DEF GitLabInv, RemovalsJustified, EntriesDistinct
<1>2. EntriesDistinct'
  BY <1>1 DEF GitLabInv, EntriesDistinct, SameListing
<1>3. RemovalsDistinct'
  <2>1. Len(run'.removals) = 0
    BY <1>1 DEF SameListing
  <2> QED
    BY <2>1 DEF RemovalsDistinct
<1>4. EntriesListed'
  BY DEF GitLabInv, EntriesListed, Listed, SameListing
<1> QED
  BY <1>2, <1>3, <1>4 DEF ListingInv

-------------------------------------------------------------------------------
(* Between runs nothing but the ledger, and GitLab, have to be right. *)
LEMMA NoRunInv == TypeOK /\ LedgerTruthful /\ RowsDistinct /\ run \in {Idle, Down} => GitLabInv
<1> SUFFICES ASSUME TypeOK, LedgerTruthful, RowsDistinct, run \in {Idle, Down}
             PROVE  GitLabInv
  OBVIOUS
<1>1. /\ run.pc \in {"idle", "down"} /\ run.tomb = FALSE /\ run.snap = {} /\ run.desired = {}
      /\ run.removals = <<>> /\ run.removed = 0 /\ run.todo = {} /\ NoListing(run)
  BY IdleFields, DownFields DEF NoListing
<1>2. Settled /\ UserInHand
  BY <1>1 DEF Settled, UserInHand, Unbound
<1>3. WithinBreaker
  BY <1>1, RuleFields DEF WithinBreaker, BreakerHolds, Removing
<1>4. RemovalsJustified
  BY <1>1 DEF RemovalsJustified
<1>5. SnapshotComplete
  BY <1>1 DEF SnapshotComplete, Planned
<1>6. RevocationsLeft
  BY <1>1 DEF RevocationsLeft, Planned
<1>7. ListingInv
  BY <1>1, <1>2, NoListingInv DEF Unbound
<1> QED
  BY <1>2, <1>3, <1>4, <1>5, <1>6, <1>7 DEF GitLabInv, ListingInv

LEMMA NoRunInvNext ==
    TypeOK' /\ LedgerTruthful' /\ RowsDistinct' /\ run' \in {Idle, Down} => GitLabInv'
<1>1. (TypeOK /\ LedgerTruthful /\ RowsDistinct /\ run \in {Idle, Down} => GitLabInv)'
  BY NoRunInv, PTL
<1> QED
  BY <1>1

(* GitLabInv holds when the process has not started. *)
LEMMA GitLabInit == Init => GitLabInv
<1> SUFFICES ASSUME Init PROVE GitLabInv
  OBVIOUS
<1>1. path \in Gid \cup {NoGroup} /\ alive \in SUBSET Gid /\ used \in SUBSET Gid
  BY UsersAssumption DEF Init
<1>2. members \in [Gid -> [User -> MemberType]] /\ rows \in [Gid -> Seq(User)] /\ RowsDistinct
  <2>1. CASE /\ members = [g \in Gid |-> [u \in User |-> NoMember]]
             /\ rows = [g \in Gid |-> <<>>]
    <3>1. members \in [Gid -> [User -> MemberType]] /\ rows \in [Gid -> Seq(User)]
      BY <2>1, NoMemberType
    <3>2. \A g \in Gid : Len(rows[g]) = 0
      BY <2>1
    <3> QED
      BY <3>1, <3>2 DEF RowsDistinct
  <2>2. ASSUME NEW m \in Grants, NEW s \in [1..Cardinality(User) -> User],
               \A i, j \in 1..Cardinality(User) : i < j => s[i] < s[j],
               members = [g \in Gid |-> [u \in User |-> IF g = path THEN m ELSE NoMember]],
               rows = [g \in Gid |-> IF g = path THEN s ELSE <<>>]
        PROVE  members \in [Gid -> [User -> MemberType]] /\ rows \in [Gid -> Seq(User)] /\ RowsDistinct
    <3>1. Cardinality(User) \in Nat
      BY UsersAssumption, FS_CardinalityType
    <3>2. s \in Seq(User) /\ Len(s) = Cardinality(User)
      BY <3>1
    <3>3. m \in MemberType /\ m # NoMember
      BY GrantsAssumption
    <3>4. members \in [Gid -> [User -> MemberType]] /\ rows \in [Gid -> Seq(User)]
      BY <2>2, <3>2, <3>3, NoMemberType
    <3>5. \A i, j \in 1..Len(s) : s[i] = s[j] => i = j
      <4> SUFFICES ASSUME NEW i \in 1..Len(s), NEW j \in 1..Len(s), s[i] = s[j] PROVE i = j
        OBVIOUS
      <4>1. s[i] \in Nat /\ s[j] \in Nat /\ i \in Nat /\ j \in Nat
        <5>1. s[i] \in User /\ s[j] \in User /\ Len(s) \in Nat
          BY <3>1, <3>2
        <5>2. User \subseteq Nat
          BY UsersAssumption
        <5>3. i \in Nat /\ j \in Nat
          BY <5>1
        <5> QED
          BY <5>1, <5>2, <5>3, Zenon
      <4>2. ~(i < j) /\ ~(j < i)
        BY <2>2, <3>2, <4>1
      <4> QED
        BY <4>1, <4>2
    <3>6. \A g \in Gid : /\ g = path => rows[g] = s /\ \A u \in User : members[g][u] = m
                         /\ g # path => rows[g] = <<>>
      BY <2>2
    <3>7. \A i \in 1..Len(s) : s[i] \in User
      BY <3>2
    <3>8. ASSUME NEW g \in Gid
          PROVE  /\ \A i, j \in 1..Len(rows[g]) : rows[g][i] = rows[g][j] => i = j
                 /\ \A i \in 1..Len(rows[g]) : members[g][rows[g][i]] # NoMember
      <4>1. CASE g = path
        <5>1. rows[g] = s /\ \A u \in User : members[g][u] = m
          BY <3>6, <4>1
        <5>2. \A i \in 1..Len(s) : members[g][s[i]] = m
          BY <3>7, <5>1
        <5> QED
          BY <3>3, <3>5, <5>1, <5>2
      <4>2. CASE g # path
        <5>1. Len(rows[g]) = 0
          BY <3>6, <4>2
        <5> QED
          BY <5>1
      <4> QED
        BY <4>1, <4>2
    <3> QED
      BY <3>4, <3>8 DEF RowsDistinct
  <2> QED
    BY <2>1, <2>2 DEF Init
<1>3. TypeOK
  <2>1. survivors \in SUBSET Contents /\ run \in Runs
    BY EmptyIsContents, DownFields DEF Init
  <2>2. source \in [User -> Memberships] /\ observed \in [Gid \X User -> 0..2]
    BY DEF Init, Memberships
  <2> QED
    BY <1>1, <1>2, <2>1, <2>2, BoundsAssumption DEF Init, TypeOK
<1>4. LedgerTruthful
  <2>1. /\ EmptyContents.records = {}
        /\ \A k \in Gid \X User : EmptyContents.absences[k] = 0
    BY DEF EmptyContents
  <2>2. Truthful(EmptyContents)
    BY <2>1 DEF Init, Truthful
  <2> QED
    BY <2>2, DownFields DEF Init, LedgerTruthful
<1> QED
  BY <1>2, <1>3, <1>4, NoRunInv DEF Init

-------------------------------------------------------------------------------
(* Steps that change nothing but the locals of the run *)

OnlyRun == UNCHANGED <<rule, selected, source, accounts, path, alive, used, members, rows, value,
                       survivors, envs, faults, made, observed, disturbed>>

LEMMA OnlyRunKeeps ==
    ASSUME GitLabInv, OnlyRun, run' \in Runs, run.pc # "down", run'.pc # "down"
    PROVE  TypeOK' /\ LedgerTruthful' /\ RowsDistinct'
<1>1. TypeOK'
  BY DEF GitLabInv, TypeOK, OnlyRun
<1>2. LedgerTruthful'
  BY DEF GitLabInv, LedgerTruthful, Truthful, OnlyRun
<1>3. RowsDistinct'
  BY RowsKept DEF GitLabInv, OnlyRun
<1> QED
  BY <1>1, <1>2, <1>3

(* A run that ends without a save leaves nothing behind. *)
LEMMA EndOfRunKeeps ==
    ASSUME GitLabInv, run.pc # "down", run' = Idle, TypeOK', RowsDistinct',
           UNCHANGED <<value, survivors, observed, disturbed>>, made \subseteq made'
    PROVE  GitLabInv'
<1>1. LedgerTruthful'
  BY IdleFields DEF GitLabInv, LedgerTruthful, Truthful
<1> QED
  BY <1>1, NoRunInvNext

(* Contents that will be true after the step. *)
WillBeTrue(c) ==
    /\ c.records \subseteq made'
    /\ \A k \in (Gid \X User) \ disturbed' : c.absences[k] <= observed'[k]

(* A save that failed leaves its process what it was, and a restart one    *)
(* more version, which is no less true.                                    *)
LEMMA FailedSaveKeeps ==
    ASSUME GitLabInv, run.pc # "down", run' = Idle, TypeOK', RowsDistinct', UNCHANGED value,
           NEW c, WillBeTrue(c), survivors' \in {survivors, survivors \cup {c}}, made \subseteq made',
           disturbed \subseteq disturbed', \A k \in Gid \X User : observed[k] <= observed'[k]
    PROVE  GitLabInv'
<1>1. ASSUME NEW d \in Contents, Truthful(d)
      PROVE  WillBeTrue(d)
  <2>1. ASSUME NEW k \in (Gid \X User) \ disturbed'
        PROVE  d.absences[k] <= observed'[k]
    <3>1. /\ d.absences \in [Gid \X User -> 0..2]
          /\ observed \in [Gid \X User -> 0..2] /\ observed' \in [Gid \X User -> 0..2]
      BY DEF Contents, GitLabInv, TypeOK
    <3>2. d.absences[k] <= observed[k] /\ observed[k] <= observed'[k]
      BY <1>1 DEF Truthful
    <3>3. d.absences[k] \in Nat /\ observed[k] \in Nat /\ observed'[k] \in Nat
      BY <3>1
    <3> QED
      BY <3>2, <3>3
  <2> QED
    BY <1>1, <2>1 DEF Truthful, WillBeTrue
<1>2. \A d \in survivors' : WillBeTrue(d)
  <2>1. \A d \in survivors : WillBeTrue(d)
    BY <1>1 DEF GitLabInv, TypeOK, LedgerTruthful
  <2> QED
    BY <2>1
<1>3. value' # Closed /\ WillBeTrue(value')
  <2>1. value \in Contents /\ Truthful(value) /\ value # Closed
    BY DEF GitLabInv, TypeOK, LedgerTruthful
  <2> QED
    BY <1>1, <2>1
<1>4. LedgerTruthful'
  BY <1>2, <1>3, IdleFields DEF LedgerTruthful, Truthful, WillBeTrue
<1> QED
  BY <1>4, NoRunInvNext

(* A save that succeeded is the one version of the ledger. *)
LEMMA SaveKeeps ==
    ASSUME NEW c \in Contents, WillBeTrue(c), value' = c, survivors' = {c}, run'.pc # "down"
    PROVE  LedgerTruthful'
<1>1. c # Closed
  BY LedgerAssumption
<1> QED
  BY <1>1 DEF LedgerTruthful, Truthful, WillBeTrue

LEMMA ObservedType ==
    ASSUME TypeOK
    PROVE  \A k \in Gid \X User : observed[k] \in 0..2 /\ observed[k] <= observed[k]
<1>1. observed \in [Gid \X User -> 0..2]
  BY DEF TypeOK
<1>2. \A k \in Gid \X User : observed[k] \in 0..2
  BY <1>1
<1> QED
  BY <1>2

LEMMA FaultsType ==
    ASSUME TypeOK, faults' = faults \/ Fault
    PROVE  faults' \in 0..MaxFaults
BY BoundsAssumption DEF TypeOK, Fault

-------------------------------------------------------------------------------
(* The process *)

LEMMA ProcessKeeps ==
    ASSUME GitLabInv, Restart \/ Kill
    PROVE  GitLabInv'
<1>1. CASE Restart
  <2>1. /\ value' \in survivors /\ run' = Idle
        /\ UNCHANGED <<rule, selected, source, accounts, path, alive, used, members, rows, survivors,
                       envs, faults, made, observed, disturbed>>
    BY <1>1 DEF Restart, world, history
  <2>2. TypeOK'
    BY <2>1, IdleFields DEF GitLabInv, TypeOK
  <2>3. value' # Closed /\ Truthful(value)'
    <3>1. value' \in Contents /\ Truthful(value')
      BY <2>1 DEF GitLabInv, TypeOK, LedgerTruthful
    <3> QED
      BY <2>1, <3>1, LedgerAssumption DEF Truthful
  <2>4. LedgerTruthful'
    BY <2>1, <2>3, IdleFields DEF GitLabInv, LedgerTruthful, Truthful
  <2>5. RowsDistinct'
    BY <2>1, RowsKept DEF GitLabInv
  <2> QED
    BY <2>1, <2>2, <2>4, <2>5, NoRunInvNext
<1>2. CASE Kill
  <2>1. /\ value' = Closed /\ run' = Down /\ faults' \in 0..MaxFaults
        /\ UNCHANGED <<rule, selected, source, accounts, path, alive, used, members, rows, survivors,
                       envs, made, observed, disturbed>>
    BY <1>2, BoundsAssumption DEF Kill, Fault, world, history, GitLabInv, TypeOK
  <2>2. TypeOK'
    BY <2>1, DownFields DEF GitLabInv, TypeOK
  <2>3. LedgerTruthful'
    BY <2>1, DownFields DEF GitLabInv, LedgerTruthful, Truthful
  <2>4. RowsDistinct'
    BY <2>1, RowsKept DEF GitLabInv
  <2> QED
    BY <2>1, <2>2, <2>3, <2>4, NoRunInvNext
<1> QED
  BY <1>1, <1>2

(* A step that ends the run and touches neither GitLab nor the ledger. *)
GivesUp ==
    /\ run.pc # "down"
    /\ run' = Idle
    /\ faults' = faults \/ Fault
    /\ UNCHANGED <<rule, selected, source, accounts, path, alive, used, members, rows, value, survivors,
                   envs, made, observed, disturbed>>

LEMMA GivesUpKeeps == ASSUME GitLabInv, GivesUp PROVE GitLabInv'
<1>1. faults' \in 0..MaxFaults
  BY BoundsAssumption DEF GivesUp, Fault, GitLabInv, TypeOK
<1>2. TypeOK'
  BY <1>1, IdleFields DEF GivesUp, GitLabInv, TypeOK
<1>3. RowsDistinct'
  BY RowsKept DEF GivesUp, GitLabInv
<1> QED
  BY <1>2, <1>3, EndOfRunKeeps DEF GivesUp

(* Every refusal of SyncGroup, and every call that fails, gives up. *)
LEMMA RefusalGivesUp ==
    ASSUME \/ CallFails \/ ReadPageGone \/ CreateGroupRefused \/ BindRefused
           \/ ListMembersRefused \/ AddMemberRefused \/ UpdateMemberRefused
    PROVE  GivesUp
BY DEF CallFails, ReadPageGone, CreateGroupRefused, BindRefused, ListMembersRefused,
       AddMemberRefused, UpdateMemberRefused, Refuse, ledger, world, history, GivesUp

(* A pass begins to read a selected source, or goes to the group of a      *)
(* tombstone with an empty snapshot.                                       *)
LEMMA StartKeeps == ASSUME GitLabInv, Start \/ StartTombstone PROVE GitLabInv'
<1>1. /\ run.pc = "idle" /\ OnlyRun
      /\ run' \in Runs /\ run'.pc \in {"read", "ensure"} /\ run'.snap = {} /\ run'.desired = {}
      /\ run'.seen = {} /\ run'.removals = <<>> /\ run'.removed = 0 /\ run'.todo = {}
      /\ run'.tomb => run'.pc = "ensure" /\ ~selected
      /\ run'.pc = "ensure" => run'.tomb
      /\ NoListing(run')
  <2>1. CASE Start
    BY <2>1, IdleFields DEF Start, OnlyRun, world, ledger, history, Runs, Steps, NoListing
  <2>2. CASE StartTombstone
    BY <2>2, IdleFields DEF StartTombstone, OnlyRun, world, ledger, history, Runs, Steps, NoListing
  <2> QED
    BY <2>1, <2>2
<1>2. TypeOK' /\ LedgerTruthful' /\ RowsDistinct'
  BY <1>1, OnlyRunKeeps
<1>3. Settled' /\ UserInHand'
  BY <1>1 DEF Settled, UserInHand, Unbound
<1>4. WithinBreaker'
  BY <1>1, RuleFields DEF GitLabInv, WithinBreaker, BreakerHolds, Removing, OnlyRun
<1>5. RemovalsJustified'
  BY <1>1 DEF RemovalsJustified
<1>6. SnapshotComplete'
  BY <1>1 DEF SnapshotComplete, Planned, OnlyRun
<1>7. RevocationsLeft'
  BY <1>1 DEF RevocationsLeft, Planned
<1>8. ListingInv'
  BY <1>1, <1>2, <1>3, NoListingInvNext DEF Unbound
<1> QED
  BY <1>2, <1>3, <1>4, <1>5, <1>6, <1>7, <1>8 DEF GitLabInv, ListingInv

-------------------------------------------------------------------------------
(* Reading Keycloak page by page *)

LEMMA LeastOf ==
    ASSUME NEW T \in SUBSET Nat, T # {}
    PROVE  \E m \in T : \A n \in T : m <= n
<1> DEFINE Less == OpToRel(<, Nat)
<1>1. IsWellFoundedOn(Less, Nat)
  BY NatLessThanWellFounded
<1>2. \A m, n \in Nat : n < m => <<n, m>> \in Less
  BY DEF OpToRel
<1> HIDE DEF Less
<1>3. PICK m \in T : \A n \in T : ~(<<n, m>> \in Less)
  BY <1>1, WFMin
<1>4. ASSUME NEW n \in T
      PROVE  m <= n
  <2>1. m \in Nat /\ n \in Nat
    OBVIOUS
  <2>2. ~(n < m)
    BY <1>2, <1>3, <2>1
  <2> QED
    BY <2>1, <2>2
<1> QED
  BY <1>4

(* Offsets work on a list L that does not change: if S is what was read,   *)
(* a beginning of L, then the page at offset |S| is empty only after all   *)
(* of L, and otherwise it continues S.                                     *)
LEMMA PageContinues ==
    ASSUME NEW L \in SUBSET Nat, IsFiniteSet(L), NEW S \in SUBSET L,
           \A u \in S, v \in L : v < u => v \in S,
           NEW P, P = {u \in L : Cardinality({v \in L : v < u}) = Cardinality(S)}
    PROVE  /\ P = {} => S = L
           /\ ~(P \subseteq S) => \A u \in S \cup P, v \in L : v < u => v \in S \cup P
<1> DEFINE Below(u) == {v \in L : v < u}
<1>1. IsFiniteSet(S) /\ \A u \in L : IsFiniteSet(Below(u)) /\ Below(u) \in SUBSET L
  BY FS_Subset
<1>2. ASSUME NEW u \in L \ S
      PROVE  S \in SUBSET Below(u)
  BY <1>2
<1>3. ASSUME P = {}, S # L
      PROVE  FALSE
  <2>1. PICK m \in L \ S : \A n \in L \ S : m <= n
    BY <1>3, LeastOf
  <2>2. ASSUME NEW v \in Below(m)
        PROVE  v \in S
    <3>1. v \in Nat /\ m \in Nat /\ v \in L /\ v < m
      OBVIOUS
    <3> QED
      BY <2>1, <3>1
  <2>3. Below(m) = S
    BY <1>2, <2>1, <2>2
  <2>4. m \in P
    BY <2>1, <2>3
  <2> QED
    BY <1>3, <2>4
<1>4. ASSUME NEW w \in P, w \notin S, NEW u \in S \cup P, NEW v \in L, v < u
      PROVE  v \in S \cup P
  <2>1. w \in L /\ Cardinality(Below(w)) = Cardinality(S) /\ S \in SUBSET Below(w)
    BY <1>2, <1>4
  <2>2. Below(w) = S
    BY <1>1, <2>1, FS_Subset
  <2>3. CASE u \in S
    BY <1>4, <2>3
  <2>4. CASE u \in P
    <3>1. u \in L /\ Cardinality(Below(u)) = Cardinality(S)
      BY <2>4
    <3>2. CASE w < u
      <4>1. S \cup {w} \subseteq Below(u)
        BY <2>1, <2>2, <3>1, <3>2
      <4>2. S \in SUBSET Below(u)
        BY <4>1
      <4>3. Below(u) = S
        BY <1>1, <3>1, <4>2, FS_Subset
      <4> QED
        BY <1>4, <4>1, <4>3
    <3>3. CASE u <= w
      <4>1. v \in Below(w)
        BY <1>4, <2>1, <3>1, <3>3
      <4> QED
        BY <2>2, <4>1
    <3> QED
      BY <2>1, <3>1, <3>2, <3>3
  <2> QED
    BY <2>3, <2>4
<1> QED
  BY <1>3, <1>4

(* A run that reads an unchanging Keycloak reads a beginning of the list,  *)
(* and goes on only with all of it.                                        *)
LEMMA ReadPageKeeps == ASSUME GitLabInv, ReadPage PROVE GitLabInv'
<1>1. run \in Runs /\ run.pc = "read" /\ OnlyRun
  BY DEF GitLabInv, TypeOK, ReadPage, OnlyRun, world, ledger, history
<1>2. /\ run.removals = <<>> /\ run.removed = 0 /\ run.tomb = FALSE /\ run.desired \subseteq run.snap
  BY <1>1 DEF GitLabInv, RemovalsJustified, WithinBreaker, SnapshotComplete, Planned, Removing, Runs
<1>3. Page = {u \in Present : Cardinality({v \in Present : v < u}) = Cardinality(run.seen)}
  BY DEF Page, Present
<1>4. Present \in SUBSET Nat /\ IsFiniteSet(Present) /\ Present \subseteq User
  BY UsersAssumption, FS_Subset DEF Present
<1>5. CASE run' = Idle
  BY <1>1, <1>5, GivesUpKeeps DEF GivesUp, OnlyRun
<1>6. CASE \/ Page = {} /\ run' = [run EXCEPT !.pc = "ensure", !.seen = {}]
           \/ /\ ~(Page \subseteq run.seen)
              /\ run' = [run EXCEPT !.seen = @ \cup Page,
                                    !.snap = @ \cup {u \in Page : source[u] = "enabled"}]
  <2>1. /\ run' \in Runs /\ run'.pc \in {"read", "ensure"} /\ run'.tomb = run.tomb
        /\ run'.desired = run.desired /\ run.snap \subseteq run'.snap
        /\ run'.removals = <<>> /\ run'.removed = 0 /\ run'.quiet = run.quiet /\ SameListing(run')
    <3>1. CASE run' = [run EXCEPT !.pc = "ensure", !.seen = {}]
      BY <1>1, <1>2, <3>1 DEF Runs, Steps, SameListing
    <3>2. CASE run' = [run EXCEPT !.seen = @ \cup Page,
                                  !.snap = @ \cup {u \in Page : source[u] = "enabled"}]
      <4>1. Page \subseteq User
        BY <1>3, <1>4
      <4> QED
        BY <1>1, <1>2, <3>2, <4>1 DEF Runs, SameListing
    <3> QED
      BY <1>6, <3>1, <3>2
  <2>2. run'.pc = "ensure" => Page = {} /\ run'.snap = run.snap
    BY <1>1, <1>6 DEF Runs
  <2>3. run'.pc = "read" => /\ ~(Page \subseteq run.seen) /\ run'.seen = run.seen \cup Page
                            /\ run'.snap = run.snap \cup {u \in Page : source[u] = "enabled"}
    BY <1>1, <1>6 DEF Runs
  <2>4. TypeOK' /\ LedgerTruthful' /\ RowsDistinct'
    BY <1>1, <2>1, OnlyRunKeeps
  <2>5. Settled' /\ UserInHand'
    BY <2>1 DEF Settled, UserInHand, Unbound
  <2>6. WithinBreaker'
    BY <1>1, <2>1, RuleFields DEF GitLabInv, WithinBreaker, BreakerHolds, Removing, OnlyRun
  <2>7. RemovalsJustified' /\ RevocationsLeft'
    BY <2>1 DEF RemovalsJustified, RevocationsLeft, Planned
  <2>8. SnapshotComplete'
    <3>1. CASE run'.quiet
      <4>1. /\ run.seen \in SUBSET Present
            /\ \A u \in run.seen, v \in Present : v < u => v \in run.seen
            /\ run.seen \cap Enabled \subseteq run.snap
        BY <1>1, <2>1, <3>1 DEF GitLabInv, SnapshotComplete
      <4>2. /\ Page = {} => run.seen = Present
            /\ ~(Page \subseteq run.seen) =>
                  \A u \in run.seen \cup Page, v \in Present : v < u => v \in run.seen \cup Page
        BY <1>3, <1>4, <4>1, PageContinues
      <4>3. Present' = Present /\ Enabled' = Enabled /\ Enabled \subseteq Present
        BY <1>1 DEF OnlyRun, Present, Enabled
      <4>4. CASE run'.pc = "ensure"
        BY <1>2, <2>1, <2>2, <4>1, <4>2, <4>3, <4>4 DEF SnapshotComplete, Planned
      <4>5. CASE run'.pc = "read"
        <5>1. (run.seen \cup Page) \cap Enabled \subseteq run'.snap
          BY <2>3, <4>1, <4>5 DEF Enabled
        <5>2. Page \subseteq Present
          BY <1>3
        <5> QED
          BY <1>2, <2>1, <2>3, <4>1, <4>2, <4>3, <4>5, <5>1, <5>2 DEF SnapshotComplete, Planned
      <4> QED
        BY <2>1, <4>4, <4>5
    <3>2. CASE ~run'.quiet
      BY <1>2, <2>1, <3>2 DEF SnapshotComplete, Planned
    <3> QED
      BY <3>1, <3>2
  <2>9. ListingInv'
    BY <1>1, <2>1, <2>4, <2>5, NoListingStays DEF Unbound
  <2> QED
    BY <2>4, <2>5, <2>6, <2>7, <2>8, <2>9 DEF GitLabInv, ListingInv
<1> QED
  BY <1>5, <1>6 DEF ReadPage
-------------------------------------------------------------------------------
(* From the snapshot to the plan of the removals *)

(* Up to the plan, nobody is to be removed. *)
LEMMA NothingPlanned ==
    ASSUME GitLabInv, UNCHANGED rule, run'.pc \notin Planned, run'.removals = <<>>, run'.removed = 0
    PROVE  WithinBreaker' /\ RemovalsJustified' /\ RevocationsLeft'
<1>1. WithinBreaker'
  BY RuleFields DEF GitLabInv, WithinBreaker, BreakerHolds, Planned, Removing
<1>2. RemovalsJustified' /\ RevocationsLeft'
  BY DEF RemovalsJustified, RevocationsLeft, Planned
<1> QED
  BY <1>1, <1>2

LEMMA NothingPlannedYet ==
    ASSUME GitLabInv, run.pc \notin Planned
    PROVE  run.removals = <<>> /\ run.removed = 0
BY DEF GitLabInv, RemovalsJustified, WithinBreaker, Planned, Removing

(* After the reading, the snapshot stays what it is. *)
LEMMA SnapshotKept ==
    ASSUME GitLabInv, UNCHANGED <<selected, source>>,
           run.pc \notin {"idle", "down", "read"}, run'.pc \notin {"idle", "down", "read"},
           run'.tomb = run.tomb, run'.snap = run.snap, run'.quiet = run.quiet,
           run'.desired \subseteq run.snap,
           run'.pc = "resolve" => run'.todo \subseteq run.snap,
           run'.pc \in Planned \cup {"identity"} => run'.desired = run.snap
    PROVE  SnapshotComplete'
BY DEF GitLabInv, SnapshotComplete, Enabled

(* ensureGroup asks for the group at the path, and once more before it     *)
(* creates one.                                                            *)
LEMMA EnsureKeeps == ASSUME GitLabInv, EnsureFound \/ EnsureMissing \/ CreateGroupFound PROVE GitLabInv'
<1>1. run \in Runs /\ run.pc \in {"ensure", "create"} /\ OnlyRun
  BY DEF GitLabInv, TypeOK, EnsureFound, EnsureMissing, CreateGroupFound, OnlyRun, world, ledger, history
<1>2. run.removals = <<>> /\ run.removed = 0 /\ run.desired \subseteq run.snap
  BY <1>1, NothingPlannedYet DEF GitLabInv, SnapshotComplete, Planned
<1>3. CASE run' = Idle
  BY <1>1, <1>3, GivesUpKeeps DEF GivesUp, OnlyRun
<1>4. CASE run' # Idle
  <2>1. /\ run' \in Runs /\ run'.pc \in {"bind", "create"} /\ run'.tomb = run.tomb
        /\ run'.snap = run.snap /\ run'.desired = run.desired /\ run'.quiet = run.quiet
        /\ run'.removals = <<>> /\ run'.removed = 0 /\ SameListing(run')
        /\ run'.pc = "bind" => run'.gid \in Gid
    <3>1. CASE EnsureFound \/ CreateGroupFound
      <4>1. run' = [run EXCEPT !.pc = "bind", !.gid = path] /\ path \in Gid
        BY <3>1 DEF EnsureFound, CreateGroupFound, GitLabInv, TypeOK
      <4> QED
        BY <1>1, <1>2, <4>1 DEF Runs, Steps, SameListing
    <3>2. CASE EnsureMissing
      <4>1. run' = Goto("create")
        BY <1>4, <3>2 DEF EnsureMissing
      <4> QED
        BY <1>1, <1>2, <4>1 DEF Goto, Runs, Steps, SameListing
    <3> QED
      BY <3>1, <3>2
  <2>2. TypeOK' /\ LedgerTruthful' /\ RowsDistinct'
    BY <1>1, <2>1, OnlyRunKeeps
  <2>3. Settled' /\ UserInHand'
    BY <2>1 DEF Settled, UserInHand, Unbound
  <2>4. WithinBreaker' /\ RemovalsJustified' /\ RevocationsLeft'
    BY <1>1, <2>1, NothingPlanned DEF OnlyRun, Planned
  <2>5. SnapshotComplete'
    BY <1>1, <1>2, <2>1, SnapshotKept DEF OnlyRun, Planned
  <2>6. ListingInv'
    BY <1>1, <2>1, <2>2, <2>3, NoListingStays DEF Unbound
  <2> QED
    BY <2>2, <2>3, <2>4, <2>5, <2>6 DEF GitLabInv, ListingInv
<1> QED
  BY <1>3, <1>4

LEMMA FreshIdType == ASSUME NewGroup PROVE FreshId \in Gid
BY DEF NewGroup, FreshId

LEMMA CreateGroupKeeps == ASSUME GitLabInv, CreateGroup PROVE GitLabInv'
<1> DEFINE next == [run EXCEPT !.pc = "bind", !.gid = FreshId, !.created = TRUE]
<1>1. /\ FreshId \in Gid /\ Answered(next)
      /\ path' = FreshId /\ alive' = alive \cup {FreshId} /\ used' = used \cup {FreshId}
  BY FreshIdType DEF CreateGroup, NewGroup
<1>2. /\ run \in Runs /\ run.pc = "create"
      /\ UNCHANGED <<rule, selected, source, accounts, members, rows, value, survivors, envs, made,
                     observed, disturbed>>
  BY DEF GitLabInv, TypeOK, CreateGroup, ledger, history
<1>3. run.removals = <<>> /\ run.removed = 0 /\ run.desired \subseteq run.snap
  BY <1>2, NothingPlannedYet DEF GitLabInv, SnapshotComplete, Planned
<1>4. faults' \in 0..MaxFaults /\ RowsDistinct'
  BY <1>1, <1>2, FaultsType, RowsKept DEF Answered, GitLabInv
<1>5. CASE run' = Idle
  <2>1. TypeOK'
    BY <1>1, <1>2, <1>4, <1>5, IdleFields DEF GitLabInv, TypeOK
  <2> QED
    BY <1>2, <1>4, <1>5, <2>1, EndOfRunKeeps
<1>6. CASE run' = next
  <2>1. /\ run' \in Runs /\ run'.pc = "bind" /\ run'.tomb = run.tomb
        /\ run'.snap = run.snap /\ run'.desired = run.desired /\ run'.quiet = run.quiet
        /\ run'.removals = <<>> /\ run'.removed = 0 /\ run'.gid \in Gid /\ SameListing(run')
    BY <1>1, <1>2, <1>3, <1>6 DEF Runs, Steps, SameListing
  <2>2. TypeOK'
    BY <1>1, <1>2, <1>4, <2>1 DEF GitLabInv, TypeOK
  <2>3. LedgerTruthful'
    BY <1>2, <2>1 DEF GitLabInv, LedgerTruthful, Truthful
  <2>4. Settled' /\ UserInHand'
    BY <2>1 DEF Settled, UserInHand, Unbound
  <2>5. WithinBreaker' /\ RemovalsJustified' /\ RevocationsLeft'
    BY <1>2, <2>1, NothingPlanned DEF Planned
  <2>6. SnapshotComplete'
    BY <1>2, <1>3, <2>1, SnapshotKept DEF Planned
  <2>7. ListingInv'
    BY <1>2, <2>1, <2>2, <2>4, NoListingStays DEF Unbound
  <2> QED
    BY <1>4, <2>2, <2>3, <2>4, <2>5, <2>6, <2>7 DEF GitLabInv, ListingInv
<1> QED
  BY <1>1, <1>5, <1>6 DEF Answered

(* What Bind saves is a mapping to the group in hand. *)
LEMMA BindingType ==
    ASSUME GitLabInv, run.pc = "bind", MayBind
    PROVE  Binding \in Mapping /\ Binding.target = run.gid
<1>1. /\ run.gid \in Gid /\ run.created \in BOOLEAN /\ value \in Contents
  BY DEF GitLabInv, TypeOK, Runs, Settled, LedgerTruthful
<1>2. CASE Mapped(value, Src)
  <2>1. value.groups[Src] \in Mapping
    BY <1>1, <1>2 DEF Mapped, Contents
  <2>2. [value.groups[Src] EXCEPT !.owned = @ \/ rule.adopt] \in Mapping
    BY <2>1 DEF Mapping
  <2> QED
    BY <1>2, <2>2 DEF Binding, MayBind
<1>3. CASE ~Mapped(value, Src)
  <2>1. [target |-> run.gid, native |-> "native", owned |-> run.created \/ rule.adopt] \in Mapping
    BY <1>1 DEF Mapping
  <2> QED
    BY <1>3, <2>1 DEF Binding, MayBind
<1> QED
  BY <1>2, <1>3

(* From Bind on, every version of the ledger has the binding. *)
LEMMA BindKeeps == ASSUME GitLabInv, Bind PROVE GitLabInv'
<1> DEFINE c == PutGroup(value, Src, Binding)
<1>1. /\ run \in Runs /\ run.pc = "bind" /\ Save(c, Goto("list"))
      /\ UNCHANGED <<rule, selected, source, accounts, path, alive, used, members, rows, envs, made,
                     observed, disturbed>>
  BY DEF GitLabInv, TypeOK, Bind, world, history
<1>2. Binding \in Mapping /\ Binding.target = run.gid
  BY BindingType DEF Bind
<1>3. value \in Contents /\ Truthful(value) /\ value # Closed
  BY <1>1 DEF GitLabInv, TypeOK, LedgerTruthful
<1>4. c \in Contents
  BY <1>2, <1>3, OperationsType
<1>5. c.records = value.records /\ c.absences = value.absences /\ c.groups[Src] = Binding
  BY <1>2, <1>3 DEF PutGroup, Contents
<1> HIDE DEF c
<1>6. WillBeTrue(c)
  BY <1>1, <1>3, <1>5 DEF Truthful, WillBeTrue
<1>7. /\ run.removals = <<>> /\ run.removed = 0 /\ run.desired \subseteq run.snap
  BY <1>1, NothingPlannedYet DEF GitLabInv, SnapshotComplete, Planned
<1>8. faults' \in 0..MaxFaults /\ RowsDistinct'
  BY <1>1, FaultsType, RowsKept DEF Save, GitLabInv
<1>9. CASE value' = value /\ survivors' \in {survivors, survivors \cup {c}} /\ run' = Idle
  <2>1. TypeOK'
    BY <1>1, <1>4, <1>8, <1>9, IdleFields DEF GitLabInv, TypeOK
  <2> QED
    BY <1>1, <1>6, <1>8, <1>9, <2>1, FailedSaveKeeps, ObservedType DEF GitLabInv
<1>10. CASE value' = c /\ survivors' = {c} /\ run' = Goto("list")
  <2>1. /\ run' \in Runs /\ run'.pc = "list" /\ run'.tomb = run.tomb
        /\ run'.snap = run.snap /\ run'.desired = run.desired /\ run'.quiet = run.quiet
        /\ run'.removals = <<>> /\ run'.removed = 0 /\ run'.gid = run.gid
        /\ SameListing(run')
    BY <1>1, <1>7, <1>10 DEF Goto, Runs, Steps, SameListing
  <2>2. TypeOK'
    BY <1>1, <1>4, <1>8, <1>10, <2>1 DEF GitLabInv, TypeOK
  <2>3. LedgerTruthful'
    BY <1>4, <1>6, <1>10, <2>1, SaveKeeps
  <2>4. Settled'
    <3>1. Mapped(c, Src) /\ c.groups[Src].target = run.gid
      BY <1>2, <1>5, LedgerAssumption DEF Mapped
    <3>2. run.gid \in Gid
      BY <1>1 DEF GitLabInv, Settled
    <3> QED
      BY <1>10, <2>1, <3>1, <3>2 DEF Settled, Mapped
  <2>5. UserInHand'
    BY <2>1 DEF UserInHand
  <2>6. WithinBreaker' /\ RemovalsJustified' /\ RevocationsLeft'
    BY <1>1, <2>1, NothingPlanned DEF Planned
  <2>7. SnapshotComplete'
    BY <1>1, <1>7, <2>1, SnapshotKept DEF Planned
  <2>8. ListingInv'
    BY <1>1, <2>1, <2>2, <2>4, NoListingStays DEF Unbound
  <2> QED
    BY <1>8, <2>2, <2>3, <2>4, <2>5, <2>6, <2>7, <2>8 DEF GitLabInv, ListingInv
<1> QED
  BY <1>1, <1>9, <1>10 DEF Save
(* A step between two places before the plan. *)
LEMMA BeforePlanKeeps ==
    ASSUME GitLabInv, UNCHANGED <<rule, selected, source>>,
           TypeOK', LedgerTruthful', RowsDistinct', Settled', UserInHand',
           run.pc \notin Planned \cup Unbound,
           run'.pc \notin Planned \cup Unbound \cup {"list"},
           run'.tomb = run.tomb, run'.snap = run.snap, run'.quiet = run.quiet,
           SameListing(run'), run'.removed = run.removed,
           run'.desired \subseteq run.snap,
           run'.pc = "resolve" => run'.todo \subseteq run.snap,
           run'.pc = "identity" => run'.desired = run.snap
    PROVE  GitLabInv'
<1>1. run'.removals = <<>> /\ run'.removed = 0
  BY NothingPlannedYet DEF SameListing
<1>2. WithinBreaker' /\ RemovalsJustified' /\ RevocationsLeft'
  BY <1>1, NothingPlanned
<1>3. SnapshotComplete'
  BY SnapshotKept DEF Unbound
<1>4. ListingInv'
  BY ListingKept
<1> QED
  BY <1>2, <1>3, <1>4 DEF GitLabInv, ListingInv

LEMMA SettledKept ==
    ASSUME GitLabInv, UNCHANGED <<value, survivors>>, run.pc \notin Unbound, run'.gid = run.gid
    PROVE  Settled'
BY DEF GitLabInv, Settled, Mapped

(* One page of the target's members.  As long as nobody joined or left     *)
(* meanwhile, it continues a beginning of GitLab's list.                   *)
LEMMA ListMembersKeeps == ASSUME GitLabInv, ListMembers PROVE GitLabInv'
<1> DEFINE place == Len(run.entries) + 1
           last == Len(rows[run.gid])
           user == rows[run.gid][place]
           member == members[run.gid][user]
           entry == [user |-> user, member |-> member]
<1>1. run \in Runs /\ run.pc = "list" /\ OnlyRun
  BY DEF GitLabInv, TypeOK, ListMembers, OnlyRun, world, ledger, history
<1>2. /\ run.gid \in Gid /\ run.desired \subseteq run.snap /\ run.removals = <<>> /\ run.removed = 0
      /\ run.counted = {}
  BY <1>1, NothingPlannedYet
     DEF GitLabInv, Settled, SnapshotComplete, Unbound, Planned, EntriesDistinct
<1>3. /\ rows[run.gid] \in Seq(User) /\ last \in Nat /\ run.entries \in Seq(Entry) /\ place \in Nat \ {0}
      /\ members[run.gid] \in [User -> MemberType] /\ run.listed \in [User -> MemberType]
  BY <1>1, <1>2 DEF GitLabInv, TypeOK, Runs
<1>4. \/ place > last /\ run' = [run EXCEPT !.pc = "resolve", !.todo = run.snap]
      \/ /\ place <= last
         /\ run' = [run EXCEPT !.entries = Append(@, entry), !.listed[user] = member,
                               !.pc = IF place < last THEN "list" ELSE "resolve",
                               !.todo = IF place < last THEN {} ELSE run.snap]
  BY <1>3 DEF ListMembers
<1>5. place <= last => user \in User /\ member \in MemberType /\ entry \in Entry
  <2>1. place <= last => user \in User
    BY <1>3
  <2>2. place <= last => member \in MemberType
    BY <1>3, <2>1
  <2> QED
    BY <2>1, <2>2 DEF Entry
<1> HIDE DEF place, last, user, member, entry
<1>6. CASE place > last /\ run' = [run EXCEPT !.pc = "resolve", !.todo = run.snap]
  <2>1. /\ run' \in Runs /\ run'.pc = "resolve" /\ run'.todo = run.snap
        /\ run'.tomb = run.tomb /\ run'.snap = run.snap /\ run'.quiet = run.quiet
        /\ run'.removed = run.removed /\ run'.gid = run.gid /\ run'.desired = run.desired
        /\ SameListing(run')
    BY <1>1, <1>6 DEF Runs, Steps, SameListing
  <2>2. TypeOK' /\ LedgerTruthful' /\ RowsDistinct'
    BY <1>1, <2>1, OnlyRunKeeps
  <2>3. Settled' /\ UserInHand'
    BY <1>1, <2>1, SettledKept DEF OnlyRun, Unbound, UserInHand
  <2> QED
    BY <1>1, <1>2, <2>1, <2>2, <2>3, BeforePlanKeeps DEF OnlyRun, Planned, Unbound
<1>7. CASE /\ place <= last
           /\ run' = [run EXCEPT !.entries = Append(@, entry), !.listed[user] = member,
                                 !.pc = IF place < last THEN "list" ELSE "resolve",
                                 !.todo = IF place < last THEN {} ELSE run.snap]
  <2>1. Append(run.entries, entry) \in Seq(Entry)
    BY <1>3, <1>5, <1>7, AppendProperties
  <2>2. [run.listed EXCEPT ![user] = member] \in [User -> MemberType]
    BY <1>3, <1>5, <1>7
  <2>3. /\ run'.tomb = run.tomb /\ run'.snap = run.snap /\ run'.quiet = run.quiet
        /\ run'.removed = run.removed /\ run'.gid = run.gid /\ run'.desired = run.desired
        /\ run'.removals = run.removals /\ run'.counted = run.counted /\ run'.steady = run.steady
        /\ run'.entries = Append(run.entries, entry)
        /\ run'.listed = [run.listed EXCEPT ![user] = member]
        /\ run'.pc = IF place < last THEN "list" ELSE "resolve"
        /\ run'.todo = IF place < last THEN {} ELSE run.snap
    BY <1>1, <1>7 DEF Runs
  <2>4. run' \in Runs
    <3>1. (IF place < last THEN "list" ELSE "resolve") \in Steps
          /\ (IF place < last THEN {} ELSE run.snap) \in SUBSET User
      BY <1>1 DEF Runs, Steps
    <3> QED
      BY <1>1, <1>7, <2>1, <2>2, <3>1 DEF Runs
  <2>5. run'.pc \in {"list", "resolve"} /\ run'.todo \subseteq run.snap
    BY <2>3
  <2>6. TypeOK' /\ LedgerTruthful' /\ RowsDistinct'
    BY <1>1, <2>4, <2>5, OnlyRunKeeps
  <2>7. Settled' /\ UserInHand'
    BY <1>1, <2>3, <2>5, SettledKept DEF OnlyRun, Unbound, UserInHand
  <2>8. WithinBreaker' /\ RemovalsJustified' /\ RevocationsLeft'
    BY <1>1, <1>2, <2>3, <2>5, NothingPlanned DEF OnlyRun, Planned
  <2>9. SnapshotComplete'
    BY <1>1, <1>2, <2>3, <2>5, SnapshotKept DEF OnlyRun, Planned
  <2> DEFINE es == run.entries
             fs == run'.entries
  <2>10. /\ Len(fs) = place /\ es \in Seq(Entry) /\ Len(es) \in Nat /\ place = Len(es) + 1
         /\ \A i \in 1..Len(es) : fs[i] = es[i]
         /\ fs[place] = entry
    BY <1>3, <1>5, <1>7, <2>3, AppendProperties DEF place
  <2>11. ASSUME run.steady
         PROVE  /\ place <= Len(rows[run.gid])
                /\ \A i \in 1..place : fs[i].user = rows[run.gid][i]
    <3>1. \A i \in 1..Len(es) : es[i].user = rows[run.gid][i]
      BY <1>1, <2>11 DEF GitLabInv, EntriesDistinct
    <3>2. fs[place].user = rows[run.gid][place]
      BY <2>10 DEF entry, user
    <3>3. \A i \in 1..place : i \in 1..Len(es) \/ i = place
      BY <2>10
    <3> QED
      BY <1>7, <2>10, <3>1, <3>2, <3>3 DEF last
  <2>12. EntriesDistinct'
    <3>1. ASSUME run.steady, NEW i \in 1..Len(fs), NEW j \in 1..Len(fs), fs[i].user = fs[j].user
          PROVE  i = j
      <4>1. i \in 1..Len(rows[run.gid]) /\ j \in 1..Len(rows[run.gid])
        BY <1>3, <2>10, <2>11, <3>1
      <4>2. rows[run.gid][i] = rows[run.gid][j]
        BY <2>10, <2>11, <3>1
      <4> QED
        BY <1>2, <4>1, <4>2 DEF GitLabInv, RowsDistinct
    <3>2. rows'[run'.gid] = rows[run.gid] /\ run'.counted = {} /\ run'.steady = run.steady
      BY <1>1, <1>2, <2>3 DEF OnlyRun
    <3>3. run'.pc \notin Unbound /\ run'.pc \notin Planned
      BY <2>5 DEF Unbound, Planned
    <3> QED
      BY <2>10, <2>11, <3>1, <3>2, <3>3 DEF EntriesDistinct
  <2>13. RemovalsDistinct'
    <3>1. Len(run'.removals) = 0
      BY <1>2, <2>3
    <3> QED
      BY <3>1 DEF RemovalsDistinct
  <2>14. EntriesListed'
    <3> SUFFICES ASSUME NEW u \in User, run'.listed[u] # NoMember
                 PROVE  \E i \in 1..Len(fs) : fs[i] = [user |-> u, member |-> run'.listed[u]]
      BY DEF EntriesListed, Listed
    <3>1. CASE u = user
      <4>1. run'.listed[u] = member
        BY <1>3, <2>3, <3>1
      <4>2. fs[place] = [user |-> u, member |-> run'.listed[u]] /\ place \in 1..Len(fs)
        BY <2>10, <3>1, <4>1 DEF entry
      <4> QED
        BY <4>2
    <3>2. CASE u # user
      <4>1. run'.listed[u] = run.listed[u]
        BY <1>3, <2>3, <3>2
      <4>2. PICK i \in 1..Len(es) : es[i] = [user |-> u, member |-> run.listed[u]]
        BY <1>1, <4>1 DEF GitLabInv, EntriesListed, Listed, Planned
      <4>3. i \in 1..Len(fs) /\ fs[i] = es[i]
        BY <2>10, <4>2
      <4> QED
        BY <4>1, <4>2, <4>3
    <3> QED
      BY <3>1, <3>2
  <2> QED
    BY <2>6, <2>7, <2>8, <2>9, <2>12, <2>13, <2>14 DEF GitLabInv
<1> QED
  BY <1>4, <1>6, <1>7

(* The accounts of the snapshot, and the end of the changes. *)
LEMMA ResolveKeeps ==
    ASSUME GitLabInv, ResolveDone \/ ApplyDone \/ (\E u \in User : ResolveUser(u))
    PROVE  GitLabInv'
<1>1. run \in Runs /\ run.pc \in {"resolve", "apply"} /\ OnlyRun
  BY DEF GitLabInv, TypeOK, ResolveDone, ApplyDone, ResolveUser, OnlyRun, world, ledger, history
<1>2. run.gid \in Gid /\ run.desired \subseteq run.snap
      /\ (run.pc = "resolve" => run.todo \subseteq run.snap)
  BY <1>1 DEF GitLabInv, Settled, SnapshotComplete, Unbound
<1>3. CASE run' = Idle
  BY <1>1, <1>3, GivesUpKeeps DEF GivesUp, OnlyRun
<1>4. CASE run' # Idle
  <2>1. /\ run' \in Runs /\ run'.pc \in {"resolve", "apply", "identity"}
        /\ run'.tomb = run.tomb /\ run'.snap = run.snap /\ run'.quiet = run.quiet
        /\ SameListing(run') /\ run'.removed = run.removed /\ run'.gid = run.gid
        /\ run'.desired \subseteq run.snap
        /\ run'.pc = "resolve" => run'.todo \subseteq run.snap
        /\ run'.pc = "identity" => run'.desired = run.snap
    <3>1. CASE ResolveDone
      BY <1>1, <1>2, <3>1 DEF ResolveDone, Runs, Steps, SameListing
    <3>2. CASE ApplyDone
      <4>1. run' = Goto("identity") /\ run.desired = run.snap
        BY <1>4, <3>2 DEF ApplyDone, Unresolved
      <4> QED
        BY <1>1, <1>2, <4>1 DEF Goto, Runs, Steps, SameListing
    <3>3. ASSUME NEW u \in User, ResolveUser(u)
          PROVE  /\ run' \in Runs /\ run'.pc = "resolve"
                 /\ run'.tomb = run.tomb /\ run'.snap = run.snap /\ run'.quiet = run.quiet
                 /\ SameListing(run') /\ run'.removed = run.removed /\ run'.gid = run.gid
                 /\ run'.desired \subseteq run.snap
                 /\ run'.todo \subseteq run.snap
      BY <1>1, <1>2, <3>3 DEF ResolveUser, Runs, SameListing
    <3> QED
      BY <3>1, <3>2, <3>3
  <2>2. TypeOK' /\ LedgerTruthful' /\ RowsDistinct'
    BY <1>1, <2>1, OnlyRunKeeps
  <2>3. Settled'
    BY <1>1, <2>1, SettledKept DEF OnlyRun, Unbound
  <2>4. UserInHand'
    BY <2>1 DEF UserInHand
  <2> QED
    BY <1>1, <2>1, <2>2, <2>3, <2>4, BeforePlanKeeps DEF OnlyRun, Planned, Unbound
<1> QED
  BY <1>3, <1>4

(* The answer of GitLab to the check of a change. *)
LEMMA VerifyKeeps == ASSUME GitLabInv, VerifyAdd \/ VerifyUpdate PROVE GitLabInv'
<1>1. run \in Runs /\ run.pc \in {"verifyAdd", "verifyUpdate"} /\ OnlyRun
  BY DEF GitLabInv, TypeOK, VerifyAdd, VerifyUpdate, OnlyRun, world, ledger, history
<1>2. run.cur \in User /\ run.desired \subseteq run.snap
  BY <1>1 DEF GitLabInv, UserInHand, SnapshotComplete
<1>3. CASE run' = Idle
  BY <1>1, <1>3, GivesUpKeeps DEF GivesUp, OnlyRun
<1>4. CASE run' # Idle
  <2>1. \/ run.pc = "verifyAdd" /\ run' = Goto("mark")
        \/ run' = [run EXCEPT !.pc = "apply", !.cur = NoUser]
    BY <1>4 DEF VerifyAdd, VerifyUpdate
  <2>2. /\ run' \in Runs /\ run'.pc \in {"mark", "apply"}
        /\ run'.tomb = run.tomb /\ run'.snap = run.snap /\ run'.quiet = run.quiet
        /\ SameListing(run') /\ run'.removed = run.removed /\ run'.gid = run.gid
        /\ run'.desired = run.desired
        /\ run'.pc = "mark" => run'.cur = run.cur /\ run.pc = "verifyAdd"
    <3>1. CASE run.pc = "verifyAdd" /\ run' = Goto("mark")
      BY <1>1, <3>1 DEF Goto, Runs, Steps, SameListing
    <3>2. CASE run' = [run EXCEPT !.pc = "apply", !.cur = NoUser]
      BY <1>1, <3>2 DEF Runs, Steps, SameListing
    <3> QED
      BY <2>1, <3>1, <3>2
  <2>3. TypeOK' /\ LedgerTruthful' /\ RowsDistinct'
    BY <1>1, <2>2, OnlyRunKeeps
  <2>4. Settled'
    BY <1>1, <2>2, SettledKept DEF OnlyRun, Unbound
  <2>5. UserInHand'
    BY <1>1, <1>2, <2>2 DEF GitLabInv, UserInHand, Key, OnlyRun
  <2> QED
    BY <1>1, <1>2, <2>2, <2>3, <2>4, <2>5, BeforePlanKeeps DEF OnlyRun, Planned, Unbound
<1> QED
  BY <1>3, <1>4

(* The change itself.  What AddMember did is in made before anything can   *)
(* be recorded.                                                            *)
LEMMA ChangeKeeps == ASSUME GitLabInv, AddMember \/ UpdateMember PROVE GitLabInv'
<1>1. /\ run \in Runs /\ run.pc \in {"add", "update"}
      /\ UNCHANGED <<rule, selected, source, accounts, path, alive, used, value, survivors, envs, observed, disturbed>>
      /\ SetCurrent([level |-> Level, custom |-> FALSE])
      /\ made' \in {made, made \cup {Key(run.cur)}}
      /\ faults' = faults \/ Fault
  BY DEF GitLabInv, TypeOK, AddMember, UpdateMember, Answered, ledger, history
<1>2. \/ run' = Idle
      \/ run.pc = "add" /\ run' = Goto("verifyAdd") /\ Key(run.cur) \in made'
      \/ run' = Goto("verifyUpdate")
  BY DEF AddMember, UpdateMember, Answered
<1>3. run.cur \in User /\ run.gid \in Gid /\ run.desired \subseteq run.snap
  BY <1>1 DEF GitLabInv, UserInHand, SnapshotComplete, Settled, Unbound
<1>4. Key(run.cur) \in Gid \X User
  BY <1>3 DEF Key
<1>5. [level |-> Level, custom |-> FALSE] \in MemberType
  BY DEF MemberType, Level, OwnerLevel
<1>6. members' \in [Gid -> [User -> MemberType]] /\ rows' \in [Gid -> Seq(User)] /\ RowsDistinct'
  <2>1. members' = [members EXCEPT ![run.gid][run.cur] = [level |-> Level, custom |-> FALSE]]
    BY <1>1 DEF SetCurrent
  <2>2. members \in [Gid -> [User -> MemberType]] /\ rows \in [Gid -> Seq(User)]
    BY DEF GitLabInv, TypeOK
  <2>3. members' \in [Gid -> [User -> MemberType]]
    BY <1>3, <1>5, <2>1, <2>2
  <2>4. [level |-> Level, custom |-> FALSE] # NoMember
    BY DEF NoMember, Level
  <2>5. CASE AddMember
    <3>1. members[run.gid][run.cur] = NoMember /\ Joins(run.gid, run.cur)
      BY <2>5 DEF AddMember, Current
    <3> QED
      BY <1>3, <1>5, <2>1, <2>3, <2>4, <3>1, JoinsKeeps DEF GitLabInv
  <2>6. CASE UpdateMember
    <3>1. rows' = rows
      BY <2>6 DEF UpdateMember
    <3>2. \A g \in Gid, u \in User : members[g][u] # NoMember => members'[g][u] # NoMember
      BY <1>3, <2>1, <2>2, <2>4
    <3>3. \A g \in Gid : \A i \in 1..Len(rows[g]) : rows[g][i] \in User
      BY <2>2
    <3> QED
      BY <2>2, <2>3, <3>1, <3>2, <3>3 DEF GitLabInv, RowsDistinct
  <2> QED
    BY <2>5, <2>6
<1>7. ASSUME run' \in Runs
      PROVE  TypeOK' /\ made \subseteq made'
  <2>1. faults' \in 0..MaxFaults
    BY <1>1, FaultsType DEF GitLabInv
  <2>2. made \in SUBSET (Gid \X User)
    BY DEF GitLabInv, TypeOK
  <2>3. made \subseteq made' /\ made' \in SUBSET (Gid \X User)
    <3> DEFINE Pairs == Gid \X User
    <3>1. made' = made \/ made' = made \cup {Key(run.cur)}
      BY <1>1
    <3>2. made \subseteq Pairs /\ Key(run.cur) \in Pairs
      BY <1>4, <2>2
    <3> HIDE DEF Pairs
    <3>3. made \subseteq made' /\ made' \subseteq Pairs
      BY <3>1, <3>2
    <3> QED
      BY <3>3 DEF Pairs
  <2> QED
    BY <1>1, <1>6, <1>7, <2>1, <2>3 DEF GitLabInv, TypeOK
<1>8. CASE run' = Idle
  <2>1. TypeOK' /\ made \subseteq made'
    BY <1>7, <1>8, IdleFields
  <2> QED
    BY <1>1, <1>6, <1>8, <2>1, EndOfRunKeeps
<1>9. CASE run' # Idle
  <2>1. /\ run' \in Runs /\ run'.pc \in {"verifyAdd", "verifyUpdate"}
        /\ run'.tomb = run.tomb /\ run'.snap = run.snap /\ run'.quiet = run.quiet
        /\ SameListing(run') /\ run'.removed = run.removed /\ run'.gid = run.gid
        /\ run'.desired = run.desired /\ run'.cur = run.cur
        /\ run'.pc = "verifyAdd" => Key(run.cur) \in made'
    <3>1. CASE run' = Goto("verifyAdd") /\ Key(run.cur) \in made'
      BY <1>1, <3>1 DEF Goto, Runs, Steps, SameListing
    <3>2. CASE run' = Goto("verifyUpdate")
      BY <1>1, <3>2 DEF Goto, Runs, Steps, SameListing
    <3> QED
      BY <1>2, <1>9, <3>1, <3>2
  <2>2. TypeOK' /\ made \subseteq made'
    BY <1>7, <2>1
  <2>3. LedgerTruthful'
    BY <2>2, <1>1, <2>1 DEF GitLabInv, LedgerTruthful, Truthful
  <2>4. Settled'
    BY <1>1, <2>1, SettledKept DEF Unbound
  <2>5. UserInHand'
    BY <1>3, <2>1 DEF UserInHand, Key
  <2> QED
    BY <1>1, <1>3, <1>6, <2>1, <2>2, <2>3, <2>4, <2>5, BeforePlanKeeps DEF Planned, Unbound
<1> QED
  BY <1>8, <1>9
(* What the reset of an absence, and its save, do to the counts. *)
LEMMA ResetCounts ==
    ASSUME TypeOK, NEW c \in Contents, Truthful(c), NEW k \in Gid \X User, UNCHANGED made,
           observed' \in {observed, [observed EXCEPT ![k] = 0]},
           disturbed' \in {disturbed, disturbed \ {k}}
    PROVE  /\ ResetAbsent(c, k).groups = c.groups
           /\ WillBeTrue(ResetAbsent(c, k))
           /\ c.absences[k] = 0 => WillBeTrue(c)
           /\ observed' \in [Gid \X User -> 0..2]
<1> DEFINE d == ResetAbsent(c, k)
           Pairs == Gid \X User
<1>1. /\ c.absences \in [Pairs -> 0..2] /\ observed \in [Pairs -> 0..2] /\ k \in Pairs
      /\ c.records \subseteq made /\ \A j \in Pairs \ disturbed : c.absences[j] <= observed[j]
  BY DEF Contents, TypeOK, Truthful
<1>2. d.records = c.records /\ d.absences = [c.absences EXCEPT ![k] = 0] /\ d.groups = c.groups
  BY DEF ResetAbsent, Contents
<1> HIDE DEF d, Pairs
<1>3. observed' \in [Pairs -> 0..2] /\ \A j \in Pairs : j # k => observed'[j] = observed[j]
  BY <1>1
<1>4. ASSUME NEW j \in Pairs \ disturbed'
      PROVE  d.absences[j] <= observed'[j] /\ (c.absences[k] = 0 => c.absences[j] <= observed'[j])
  <2>1. observed'[j] \in 0..2 /\ c.absences[j] \in 0..2
    BY <1>1, <1>3
  <2>2. CASE j = k
    BY <1>1, <1>2, <2>1, <2>2
  <2>3. CASE j # k
    <3>1. j \in Pairs \ disturbed
      BY <2>3
    <3> QED
      BY <1>1, <1>2, <1>3, <2>3, <3>1
  <2> QED
    BY <2>2, <2>3
<1> QED
  BY <1>1, <1>2, <1>3, <1>4 DEF WillBeTrue, Pairs, d

(* A desired user loses the absence observations and goes on: to be added, *)
(* to be updated, to the next user, or to the end of the run.              *)
LEMMA ResetAndGoKeeps ==
    ASSUME GitLabInv, NEW u \in User, NEW next, ResetAndGo(u, next),
           \/ next = Idle
           \/ /\ next \in Runs /\ next.pc \in {"apply", "add", "update"}
              /\ next.tomb = run.tomb /\ next.snap = run.snap /\ next.quiet = run.quiet
              /\ SameListing(next) /\ next.removed = run.removed /\ next.gid = run.gid
              /\ next.desired = run.desired
              /\ next.pc # "apply" => next.cur \in User
    PROVE  GitLabInv'
<1> DEFINE c == ResetAbsent(value, Key(u))
<1>1. /\ run.pc = "apply" /\ TypeOK
      /\ UNCHANGED <<rule, selected, source, accounts, path, alive, used, members, rows, envs, made>>
  BY DEF GitLabInv, ResetAndGo, world, history
<1>2. /\ run.gid \in Gid /\ survivors = {value} /\ value \in Contents /\ Truthful(value)
      /\ Mapped(value, Src) /\ value.groups[Src].target = run.gid
      /\ run.desired \subseteq run.snap
  BY <1>1 DEF GitLabInv, Settled, Unbound, LedgerTruthful, TypeOK, SnapshotComplete
<1>3. Key(u) \in Gid \X User /\ c \in Contents
  BY <1>2, OperationsType DEF Key
<1>4. /\ observed' \in {observed, [observed EXCEPT ![Key(u)] = 0]}
      /\ disturbed' \in {disturbed, disturbed \ {Key(u)}}
  BY DEF ResetAndGo
<1>5. /\ c.groups = value.groups /\ WillBeTrue(c)
      /\ value.absences[Key(u)] = 0 => WillBeTrue(value)
      /\ observed' \in [Gid \X User -> 0..2]
  BY <1>1, <1>2, <1>3, <1>4, ResetCounts
<1>6. value.absences[Key(u)] \in 0..2
  BY <1>2, <1>3 DEF Contents
<1>7. \/ value' = value /\ survivors' \in {survivors, survivors \cup {c}} /\ run' = Idle /\ Fault
      \/ /\ run' = next /\ faults' = faults
         /\ \/ value' = c /\ survivors' = {c}
            \/ value.absences[Key(u)] = 0 /\ value' = value /\ survivors' = survivors
  BY <1>6 DEF ResetAndGo, Save, ledger
<1> HIDE DEF c
<1>8. ASSUME run' \in Runs
      PROVE  TypeOK'
  <2>1. faults' \in 0..MaxFaults
    BY <1>1, <1>7, FaultsType
  <2>2. value' \in Contents /\ survivors' \in SUBSET Contents
    BY <1>2, <1>3, <1>7
  <2> QED
    BY <1>1, <1>4, <1>5, <1>8, <2>1, <2>2 DEF TypeOK
<1>9. RowsDistinct'
  BY <1>1, RowsKept DEF GitLabInv
<1>10. CASE run' = Idle /\ Fault /\ value' = value /\ survivors' \in {survivors, survivors \cup {c}}
  <2>1. faults' # faults
    BY <1>1, <1>10 DEF Fault, TypeOK
  <2>2. observed' = observed /\ disturbed' = disturbed
    BY <2>1 DEF ResetAndGo
  <2> QED
    BY <1>1, <1>5, <1>8, <1>10, <1>9, <2>2, IdleFields, FailedSaveKeeps, ObservedType
<1>11. CASE /\ run' = next /\ faults' = faults
            /\ \E d \in {c, value} : /\ value' = d /\ survivors' = {d} /\ WillBeTrue(d)
                                     /\ d.groups = value.groups
  <2>1. PICK d \in {c, value} : value' = d /\ survivors' = {d} /\ WillBeTrue(d) /\ d.groups = value.groups
    BY <1>11
  <2>2. d \in Contents
    BY <1>2, <1>3
  <2>3. run' \in Runs /\ run'.pc # "down"
    BY <1>11, IdleFields
  <2>4. TypeOK' /\ LedgerTruthful'
    BY <1>8, <2>1, <2>2, <2>3, SaveKeeps
  <2>5. CASE next = Idle
    BY <1>11, <1>9, <2>4, <2>5, NoRunInvNext
  <2>6. CASE next # Idle
    <3>1. Settled'
      BY <1>2, <1>11, <2>1, <2>6 DEF Settled, Mapped
    <3>2. UserInHand'
      BY <1>11, <2>6 DEF UserInHand
    <3> QED
      BY <1>1, <1>2, <1>11, <1>9, <2>4, <2>6, <3>1, <3>2, BeforePlanKeeps DEF Planned, Unbound
  <2> QED
    BY <2>5, <2>6
<1> QED
  BY <1>2, <1>5, <1>7, <1>10, <1>11

LEMMA ApplyKeeps ==
    ASSUME GitLabInv, NEW u \in User, ApplyAdd(u) \/ ApplyKeep(u) \/ ApplyUpdate(u) \/ ApplyRefused(u)
    PROVE  GitLabInv'
<1>1. run \in Runs /\ run.pc = "apply"
  BY DEF GitLabInv, TypeOK, ApplyAdd, ApplyKeep, ApplyUpdate, ApplyRefused, ResetAndGo
<1>2. ASSUME NEW step \in {"add", "update"}
      PROVE  LET next == [Without(u) EXCEPT !.pc = step, !.cur = u]
             IN  /\ next \in Runs /\ next.pc = step
                 /\ next.tomb = run.tomb /\ next.snap = run.snap /\ next.quiet = run.quiet
                 /\ SameListing(next) /\ next.removed = run.removed /\ next.gid = run.gid
                 /\ next.desired = run.desired /\ next.cur = u
  BY <1>1 DEF Without, Runs, Steps, SameListing
<1>3. /\ Without(u) \in Runs /\ Without(u).pc = "apply"
      /\ Without(u).tomb = run.tomb /\ Without(u).snap = run.snap /\ Without(u).quiet = run.quiet
      /\ SameListing(Without(u)) /\ Without(u).removed = run.removed
      /\ Without(u).gid = run.gid /\ Without(u).desired = run.desired
  BY <1>1 DEF Without, Runs, Steps, SameListing
<1>4. CASE ApplyAdd(u)
  BY <1>2, <1>4, ResetAndGoKeeps DEF ApplyAdd
<1>5. CASE ApplyKeep(u)
  BY <1>3, <1>5, ResetAndGoKeeps DEF ApplyKeep
<1>6. CASE ApplyUpdate(u)
  BY <1>2, <1>6, ResetAndGoKeeps DEF ApplyUpdate
<1>7. CASE ApplyRefused(u)
  BY <1>7, ResetAndGoKeeps DEF ApplyRefused
<1> QED
  BY <1>4, <1>5, <1>6, <1>7

(* Only what AddMember did is recorded. *)
LEMMA MarkAddedKeeps == ASSUME GitLabInv, MarkAdded PROVE GitLabInv'
<1> DEFINE c == MarkManaged(value, Key(run.cur))
           next == [run EXCEPT !.pc = "apply", !.cur = NoUser]
<1>1. /\ run \in Runs /\ run.pc = "mark" /\ Save(c, next)
      /\ UNCHANGED <<rule, selected, source, accounts, path, alive, used, members, rows, envs, made,
                     observed, disturbed>>
  BY DEF GitLabInv, TypeOK, MarkAdded, world, history
<1>2. /\ run.gid \in Gid /\ value \in Contents /\ Truthful(value)
      /\ Mapped(value, Src) /\ value.groups[Src].target = run.gid
      /\ run.desired \subseteq run.snap /\ run.cur \in User /\ Key(run.cur) \in made
  BY <1>1 DEF GitLabInv, Settled, Unbound, LedgerTruthful, TypeOK, SnapshotComplete, UserInHand
<1>3. Key(run.cur) \in Gid \X User /\ c \in Contents
  BY <1>2, OperationsType DEF Key
<1>4. c.records = value.records \cup {Key(run.cur)} /\ c.absences = value.absences /\ c.groups = value.groups
  BY <1>2 DEF MarkManaged, Contents
<1> HIDE DEF c
<1>5. WillBeTrue(c)
  BY <1>1, <1>2, <1>4 DEF Truthful, WillBeTrue
<1>6. faults' \in 0..MaxFaults /\ RowsDistinct'
  BY <1>1, FaultsType, RowsKept DEF Save, GitLabInv
<1>7. CASE value' = value /\ survivors' \in {survivors, survivors \cup {c}} /\ run' = Idle
  <2>1. TypeOK'
    BY <1>1, <1>3, <1>6, <1>7, IdleFields DEF GitLabInv, TypeOK
  <2> QED
    BY <1>1, <1>5, <1>6, <1>7, <2>1, FailedSaveKeeps, ObservedType DEF GitLabInv
<1>8. CASE value' = c /\ survivors' = {c} /\ run' = next
  <2>1. /\ run' \in Runs /\ run'.pc = "apply" /\ run'.tomb = run.tomb
        /\ run'.snap = run.snap /\ run'.desired = run.desired /\ run'.quiet = run.quiet
        /\ SameListing(run') /\ run'.removed = run.removed /\ run'.gid = run.gid
    BY <1>1, <1>8 DEF Runs, Steps, SameListing
  <2>2. TypeOK' /\ LedgerTruthful'
    BY <1>1, <1>3, <1>5, <1>6, <1>8, <2>1, SaveKeeps DEF GitLabInv, TypeOK
  <2>3. Settled' /\ UserInHand'
    BY <1>2, <1>4, <1>8, <2>1 DEF Settled, Mapped, UserInHand
  <2> QED
    BY <1>1, <1>2, <1>6, <2>1, <2>2, <2>3, BeforePlanKeeps DEF Planned, Unbound
<1> QED
  BY <1>1, <1>7, <1>8 DEF Save
-------------------------------------------------------------------------------
(* The plan of the removals and its execution *)

(* A sequence without its first element. *)
LEMMA TailFacts ==
    ASSUME NEW S, NEW s \in Seq(S), s # <<>>
    PROVE  /\ Tail(s) \in Seq(S) /\ Len(Tail(s)) = Len(s) - 1 /\ Len(Tail(s)) \in Nat
           /\ Len(s) \in Nat \ {0} /\ 1 \in 1..Len(s) /\ Head(s) = s[1] /\ s[1] \in S
           /\ \A i \in 1..Len(Tail(s)) : i + 1 \in 1..Len(s) /\ i + 1 # 1 /\ Tail(s)[i] = s[i + 1]
           /\ \A i \in 1..Len(s) : i = 1 \/ \E j \in 1..Len(Tail(s)) : Tail(s)[j] = s[i]
<1>1. /\ Tail(s) \in Seq(S) /\ Len(Tail(s)) = Len(s) - 1
      /\ \A i \in 1..Len(Tail(s)) : Tail(s)[i] = s[i + 1]
  BY HeadTailProperties
<1>2. Len(s) \in Nat \ {0}
  BY EmptySeq
<1>3. Head(s) = s[1] /\ s[1] \in S
  BY <1>2
<1>4. \A i \in 1..Len(Tail(s)) : i + 1 \in 1..Len(s) /\ i + 1 # 1
  BY <1>1, <1>2
<1>5. ASSUME NEW i \in 1..Len(s), i # 1
      PROVE  \E j \in 1..Len(Tail(s)) : Tail(s)[j] = s[i]
  <2>1. i - 1 \in 1..Len(Tail(s)) /\ (i - 1) + 1 = i
    BY <1>1, <1>2, <1>5
  <2>2. Tail(s)[i - 1] = s[(i - 1) + 1]
    BY <1>1, <2>1
  <2> QED
    BY <2>1, <2>2
<1>6. Len(Tail(s)) \in Nat /\ 1 \in 1..Len(s)
  BY <1>1, <1>2
<1> QED
  BY <1>1, <1>2, <1>3, <1>4, <1>5, <1>6

(* A step under the plan. *)
LEMMA PlanKeeps ==
    ASSUME GitLabInv, UNCHANGED <<rule, selected, source>>,
           TypeOK', LedgerTruthful', RowsDistinct', Settled', UserInHand', WithinBreaker',
           RemovalsJustified', ListingInv', RevocationsLeft',
           run.pc \in Planned, run'.pc \in Planned,
           run'.tomb = run.tomb, run'.snap = run.snap, run'.quiet = run.quiet,
           run'.desired = run.desired
    PROVE  GitLabInv'
<1>1. SnapshotComplete'
  <2>1. run.desired = run.snap
    BY DEF GitLabInv, SnapshotComplete
  <2> QED
    BY <2>1, SnapshotKept DEF Planned
<1> QED
  BY <1>1 DEF GitLabInv, ListingInv

(* What a planned removal will have behind it after the step. *)
WillBeJustified(u) ==
    /\ u \notin run'.desired /\ u # rule'.self /\ u \notin rule'.protected
    /\ \/ rule'.prune = "authoritative"
       \/ rule'.prune = "managed-only" /\ <<run'.gid, u>> \in made'
    /\ \/ observed'[<<run'.gid, u>>] >= 2 \/ (run'.tomb /\ rule'.allowlist)
       \/ <<run'.gid, u>> \in disturbed'

LEMMA JustifiedNext ==
    ASSUME run'.pc \in Planned, \A i \in 1..Len(run'.removals) : WillBeJustified(run'.removals[i])
    PROVE  RemovalsJustified'
BY DEF WillBeJustified, RemovalsJustified, Justified, Key, Immediate

(* A removal stays justified as long as its observations are not taken     *)
(* back.                                                                   *)
LEMMA StillJustified ==
    ASSUME UNCHANGED <<rule, made>>, run'.gid = run.gid, run'.tomb = run.tomb,
           run'.desired = run.desired, NEW u, Justified(u),
           observed[Key(u)] >= 2 \/ Key(u) \in disturbed =>
              observed'[Key(u)] >= 2 \/ Key(u) \in disturbed'
    PROVE  WillBeJustified(u)
BY DEF Justified, WillBeJustified, Key, Immediate

(* The same removals, and the same counts. *)
LEMMA RemovalsKept ==
    ASSUME GitLabInv, UNCHANGED <<rule, made, observed, disturbed>>, run'.pc \in Planned,
           run'.gid = run.gid, run'.tomb = run.tomb, run'.desired = run.desired,
           run'.removals = run.removals
    PROVE  RemovalsJustified'
<1>1. ASSUME NEW i \in 1..Len(run.removals)
      PROVE  WillBeJustified(run.removals[i])
  <2>1. Justified(run.removals[i])
    BY DEF GitLabInv, RemovalsJustified
  <2> QED
    BY <2>1 DEF Justified, WillBeJustified, Key, Immediate
<1> QED
  BY <1>1, JustifiedNext

(* With the plan made, no entry is left to be looked at. *)
LEMMA AfterPlanListing ==
    ASSUME run'.pc \in Planned, run'.entries = <<>>, RemovalsDistinct'
    PROVE  ListingInv'
<1>1. Len(run'.entries) = 0 /\ run'.pc \notin Unbound /\ run'.pc # "list"
  BY DEF Planned, Unbound
<1>2. EntriesDistinct'
  BY <1>1 DEF EntriesDistinct
<1>3. EntriesListed'
  BY DEF EntriesListed
<1> QED
  BY <1>2, <1>3 DEF ListingInv

(* Whom a tombstone has to remove, the removal loop condemns. *)
LEMMA RevocableCondemned ==
    ASSUME GitLabInv, run.tomb, run.pc \in Planned \cup {"identity"}, NEW u \in User, Revocable(u)
    PROVE  Condemns([user |-> u, member |-> run.listed[u]])
<1>1. run.desired = {}
  BY DEF GitLabInv, SnapshotComplete
<1>2. Prunable(u)
  BY RuleFields DEF GitLabInv, Prunes, Prunable, IsManaged, Revocable
<1> QED
  BY <1>1, <1>2 DEF Condemns, Revocable

(* The token's own user is known, and the removal loop begins. *)
LEMMA IdentityKeeps == ASSUME GitLabInv, CurrentIdentity PROVE GitLabInv'
<1>1. run \in Runs /\ run.pc = "identity" /\ OnlyRun
  BY DEF GitLabInv, TypeOK, CurrentIdentity, OnlyRun, world, ledger, history
<1>2. run.removals = <<>> /\ run.removed = 0 /\ run.desired = run.snap /\ run.counted = {}
  BY <1>1, NothingPlannedYet DEF GitLabInv, SnapshotComplete, EntriesDistinct, Planned
<1>3. /\ run' \in Runs /\ run'.pc = "plan" /\ run'.tomb = run.tomb
      /\ run'.snap = run.snap /\ run'.desired = run.desired /\ run'.quiet = run.quiet
      /\ SameListing(run') /\ run'.removed = 0 /\ run'.gid = run.gid
  BY <1>1, <1>2 DEF CurrentIdentity, Goto, Runs, Steps, SameListing
<1>4. TypeOK' /\ LedgerTruthful' /\ RowsDistinct'
  BY <1>1, <1>3, OnlyRunKeeps
<1>5. Settled' /\ UserInHand'
  BY <1>1, <1>3, SettledKept DEF OnlyRun, Unbound, UserInHand
<1>6. WithinBreaker'
  BY <1>1, <1>3, RuleFields DEF GitLabInv, WithinBreaker, BreakerHolds, Removing, OnlyRun
<1>7. SnapshotComplete'
  BY <1>1, <1>2, <1>3, SnapshotKept DEF OnlyRun
<1>8. Len(run'.removals) = 0
  BY <1>2, <1>3 DEF SameListing
<1>9. RemovalsJustified' /\ RemovalsDistinct' /\ EntriesListed'
  BY <1>3, <1>8 DEF RemovalsJustified, RemovalsDistinct, EntriesListed, Planned
<1>10. EntriesDistinct'
  BY <1>1, <1>3 DEF GitLabInv, EntriesDistinct, SameListing, Planned, Unbound
<1>11. RevocationsLeft'
  <2> SUFFICES ASSUME NEW u \in User, run'.listed[u] # NoMember
               PROVE  \E i \in 1..Len(run'.entries) :
                         run'.entries[i] = [user |-> u, member |-> run'.listed[u]]
    BY <1>3 DEF RevocationsLeft, Revocable, Listed, Planned
  <2> QED
    BY <1>1, <1>3 DEF GitLabInv, EntriesListed, Listed, SameListing, Planned
<1> QED
  BY <1>4, <1>5, <1>6, <1>7, <1>9, <1>10, <1>11 DEF GitLabInv

(* One entry is looked at; the rest of an undisturbed listing is of others. *)
LEMMA EntriesTail ==
    ASSUME GitLabInv, run.entries # <<>>
    PROVE  /\ Tail(run.entries) \in Seq(Entry) /\ Len(Tail(run.entries)) \in Nat
           /\ run.entries[1] \in Entry /\ Head(run.entries) = run.entries[1]
           /\ \A i \in 1..Len(run.entries) :
                 i = 1 \/ \E j \in 1..Len(Tail(run.entries)) : Tail(run.entries)[j] = run.entries[i]
           /\ run.steady => run.entries[1].user \notin run.counted
           /\ run.steady =>
                 \A i, j \in 1..Len(Tail(run.entries)) :
                    Tail(run.entries)[i].user = Tail(run.entries)[j].user => i = j
           /\ run.steady =>
                 \A i \in 1..Len(Tail(run.entries)) :
                    /\ Tail(run.entries)[i].user # run.entries[1].user
                    /\ Tail(run.entries)[i].user \notin run.counted
<1> DEFINE es == run.entries
           fs == Tail(es)
<1>1. es \in Seq(Entry) /\ es # <<>>
  BY DEF GitLabInv, TypeOK, Runs
<1>2. /\ fs \in Seq(Entry) /\ Len(fs) \in Nat /\ Head(es) = es[1] /\ es[1] \in Entry
      /\ 1 \in 1..Len(es)
      /\ \A i \in 1..Len(fs) : i + 1 \in 1..Len(es) /\ i + 1 # 1 /\ fs[i] = es[i + 1]
      /\ \A i \in 1..Len(es) : i = 1 \/ \E j \in 1..Len(fs) : fs[j] = es[i]
  <2> HIDE DEF es
  <2> QED
    BY <1>1, TailFacts
<1>3. run.steady => /\ \A i, j \in 1..Len(es) : es[i].user = es[j].user => i = j
                    /\ \A i \in 1..Len(es) : es[i].user \notin run.counted
  BY DEF GitLabInv, EntriesDistinct
<1> HIDE DEF es, fs
<1>4. ASSUME run.steady, NEW i \in 1..Len(fs), NEW j \in 1..Len(fs), fs[i].user = fs[j].user
      PROVE  i = j
  <2>1. PICK k \in 1..Len(es), l \in 1..Len(es) :
           k = i + 1 /\ l = j + 1 /\ fs[i] = es[k] /\ fs[j] = es[l]
    BY <1>2
  <2>2. k = l
    BY <1>3, <1>4, <2>1
  <2>3. i \in Nat /\ j \in Nat
    BY <1>2
  <2> QED
    BY <2>1, <2>2, <2>3
<1>5. ASSUME run.steady, NEW i \in 1..Len(fs)
      PROVE  fs[i].user # es[1].user /\ fs[i].user \notin run.counted
  BY <1>2, <1>3, <1>5
<1> QED
  BY <1>2, <1>3, <1>4, <1>5 DEF es, fs

(* The loop leaves an entry out: its user is desired or exempt, or may not *)
(* be removed under the prune mode.                                        *)
LEMMA PlanSkipKeeps == ASSUME GitLabInv, PlanSkip PROVE GitLabInv'
<1> DEFINE es == run.entries
           fs == Tail(es)
<1>1. /\ run \in Runs /\ run.pc = "plan" /\ OnlyRun /\ TypeOK
      /\ es \in Seq(Entry) /\ es # <<>> /\ ~Condemns(Head(es))
      /\ run' = [run EXCEPT !.entries = fs]
  BY DEF GitLabInv, TypeOK, PlanSkip, OnlyRun, world, ledger, history, Runs
<1>2. /\ fs \in Seq(Entry) /\ Head(es) = es[1]
      /\ \A i \in 1..Len(es) : i = 1 \/ \E j \in 1..Len(fs) : fs[j] = es[i]
      /\ run.steady =>
            /\ \A i, j \in 1..Len(fs) : fs[i].user = fs[j].user => i = j
            /\ \A i \in 1..Len(fs) : fs[i].user \notin run.counted
  BY <1>1, EntriesTail
<1> HIDE DEF es, fs
<1>3. /\ run' \in Runs /\ run'.pc = "plan" /\ run'.tomb = run.tomb
      /\ run'.snap = run.snap /\ run'.desired = run.desired /\ run'.quiet = run.quiet
      /\ run'.removals = run.removals /\ run'.removed = run.removed /\ run'.gid = run.gid
      /\ run'.listed = run.listed /\ run'.pending = run.pending /\ run'.entries = fs
      /\ run'.steady = run.steady /\ run'.counted = run.counted
  BY <1>1, <1>2 DEF Runs
<1>4. TypeOK' /\ LedgerTruthful' /\ RowsDistinct'
  BY <1>1, <1>3, OnlyRunKeeps
<1>5. Settled' /\ UserInHand'
  BY <1>1, <1>3, SettledKept DEF OnlyRun, Unbound, UserInHand
<1>6. WithinBreaker'
  BY <1>1, <1>3 DEF GitLabInv, WithinBreaker, BreakerHolds, Removing, OnlyRun
<1>7. RemovalsJustified'
  BY <1>1, <1>3, RemovalsKept DEF OnlyRun, Planned
<1>8. ListingInv'
  <2>1. EntriesDistinct'
    BY <1>2, <1>3 DEF EntriesDistinct, Planned, Unbound
  <2>2. RemovalsDistinct' /\ EntriesListed'
    BY <1>1, <1>3 DEF GitLabInv, RemovalsDistinct, EntriesListed, Key, Planned, OnlyRun
  <2> QED
    BY <2>1, <2>2 DEF ListingInv
<1>9. RevocationsLeft'
  <2> SUFFICES ASSUME run.tomb, NEW u \in User, Revocable(u)
               PROVE  \/ \E i \in 1..Len(fs) : fs[i] = [user |-> u, member |-> run.listed[u]]
                      \/ \E i \in 1..Len(run.removals) : run.removals[i] = u
                      \/ run.pending
    BY <1>1, <1>3 DEF RevocationsLeft, Revocable, Listed, Exempt, Key, OnlyRun, Planned
  <2>1. \/ \E i \in 1..Len(es) : es[i] = [user |-> u, member |-> run.listed[u]]
        \/ \E i \in 1..Len(run.removals) : run.removals[i] = u
        \/ run.pending
    BY <1>1 DEF GitLabInv, RevocationsLeft, Planned, es
  <2>2. es[1] # [user |-> u, member |-> run.listed[u]]
    BY <1>1, <1>2, RevocableCondemned DEF Planned
  <2> QED
    BY <1>2, <2>1, <2>2
<1> QED
  BY <1>1, <1>3, <1>4, <1>5, <1>6, <1>7, <1>8, <1>9, PlanKeeps DEF Planned, OnlyRun

(* What the count of an absence, and its save, do to the counts. *)
LEMMA ConfirmCounts ==
    ASSUME TypeOK, NEW c \in Contents, Truthful(c), NEW k \in Gid \X User, UNCHANGED made,
           observed' \in [Gid \X User -> 0..2], disturbed \subseteq disturbed',
           \A j \in Gid \X User : j # k => observed'[j] = observed[j],
           observed'[k] >= observed[k],
           k \in disturbed' \/ observed'[k] = IF observed[k] < 2 THEN observed[k] + 1 ELSE observed[k]
    PROVE  /\ ConfirmAbsent(c, k).groups = c.groups /\ ConfirmAbsent(c, k).records = c.records
           /\ WillBeTrue(ConfirmAbsent(c, k))
           /\ WillBeTrue(c)
           /\ \A j \in Gid \X User : observed[j] <= observed'[j]
           /\ ConfirmedAbsent(ConfirmAbsent(c, k), k) => observed'[k] >= 2 \/ k \in disturbed'
<1> DEFINE d == ConfirmAbsent(c, k)
           Pairs == Gid \X User
<1>1. /\ c.absences \in [Pairs -> 0..2] /\ observed \in [Pairs -> 0..2] /\ k \in Pairs
      /\ observed' \in [Pairs -> 0..2] /\ \A j \in Pairs : j # k => observed'[j] = observed[j]
      /\ c.records \subseteq made /\ \A j \in Pairs \ disturbed : c.absences[j] <= observed[j]
  BY DEF Contents, TypeOK, Truthful
<1>2. /\ d.records = c.records /\ d.groups = c.groups
      /\ d.absences = [c.absences EXCEPT ![k] = IF @ < 2 THEN @ + 1 ELSE @]
  BY DEF ConfirmAbsent, Contents
<1> HIDE DEF d, Pairs
<1>3. ASSUME NEW j \in Pairs
      PROVE  observed[j] <= observed'[j] /\ observed'[j] \in 0..2
  <2>1. observed[j] \in 0..2 /\ observed'[j] \in 0..2
    BY <1>1
  <2>2. CASE j = k
    BY <2>1, <2>2
  <2>3. CASE j # k
    BY <1>1, <2>1, <2>3
  <2> QED
    BY <2>1, <2>2, <2>3
<1>4. ASSUME NEW j \in Pairs \ disturbed'
      PROVE  /\ d.absences[j] <= observed'[j] /\ c.absences[j] <= observed'[j]
             /\ d.absences[j] \in 0..2
  <2>1. /\ observed[j] \in 0..2 /\ c.absences[j] \in 0..2 /\ c.absences[j] <= observed[j]
        /\ observed'[j] \in 0..2
    BY <1>1
  <2>2. CASE j = k
    <3>1. /\ d.absences[j] = IF c.absences[j] < 2 THEN c.absences[j] + 1 ELSE c.absences[j]
          /\ observed'[j] = IF observed[j] < 2 THEN observed[j] + 1 ELSE observed[j]
      BY <1>1, <1>2, <2>2
    <3> QED
      BY <2>1, <3>1
  <2>3. CASE j # k
    <3>1. d.absences[j] = c.absences[j] /\ observed'[j] = observed[j]
      BY <1>1, <1>2, <2>3
    <3> QED
      BY <2>1, <3>1
  <2> QED
    BY <2>2, <2>3
<1>5. d.absences[k] >= 2 => observed'[k] >= 2 \/ k \in disturbed'
  BY <1>1, <1>3, <1>4
<1> QED
  BY <1>1, <1>2, <1>3, <1>4, <1>5 DEF WillBeTrue, Pairs, d, ConfirmedAbsent


(* A removal is planned only at its second observation, or at once; a      *)
(* second entry of the same user comes only from a disturbed listing.      *)
LEMMA PlanRemovalKeeps == ASSUME GitLabInv, PlanRemoval PROVE GitLabInv'
<1> DEFINE es == run.entries
           fs == Tail(es)
           u == Head(es).user
           k == Key(u)
           c == ConfirmAbsent(value, k)
           rest == [run EXCEPT !.entries = fs, !.counted = @ \cup {u}]
           planned == [rest EXCEPT !.removals = Append(@, u)]
           waiting == [rest EXCEPT !.pending = TRUE]
<1>1. /\ run \in Runs /\ run.pc = "plan" /\ TypeOK /\ es # <<>> /\ Condemns(Head(es))
      /\ observed' = IF u \in run.counted \/ observed[k] = 2 THEN observed
                     ELSE [observed EXCEPT ![k] = @ + 1]
      /\ disturbed' = IF run.steady THEN disturbed ELSE disturbed \cup {k}
      /\ UNCHANGED <<rule, selected, source, accounts, path, alive, used, members, rows, envs, made>>
  BY DEF GitLabInv, TypeOK, PlanRemoval, world
<1>2. /\ run.gid \in Gid /\ survivors = {value} /\ value \in Contents /\ Truthful(value)
      /\ Mapped(value, Src) /\ value.groups[Src].target = run.gid /\ run.removed = 0
  BY <1>1 DEF GitLabInv, Settled, Unbound, LedgerTruthful, TypeOK, WithinBreaker, Removing
<1>3. /\ fs \in Seq(Entry) /\ u \in User /\ u = es[1].user
      /\ \A i \in 1..Len(es) : i = 1 \/ \E j \in 1..Len(fs) : fs[j] = es[i]
      /\ run.steady => u \notin run.counted
      /\ run.steady =>
            /\ \A i, j \in 1..Len(fs) : fs[i].user = fs[j].user => i = j
            /\ \A i \in 1..Len(fs) : fs[i].user # u /\ fs[i].user \notin run.counted
  BY <1>1, EntriesTail DEF Entry
<1>4. k \in Gid \X User /\ k = <<run.gid, u>> /\ c \in Contents
  BY <1>2, <1>3, OperationsType DEF Key
<1>5. \/ value' = value /\ survivors' \in {survivors, survivors \cup {c}} /\ run' = Idle /\ Fault
      \/ /\ faults' = faults
         /\ \E d \in {c, value} : value' = d /\ survivors' = {d}
         /\ \/ run' = planned /\ (Immediate \/ ConfirmedAbsent(c, k))
            \/ run' = waiting
  BY <1>2 DEF PlanRemoval, Save, ledger
<1>6. u \notin run.desired /\ u # rule.self /\ u \notin rule.protected /\ Prunable(u)
  BY <1>1 DEF Condemns, Exempt
<1>7. \/ rule.prune = "authoritative"
      \/ rule.prune = "managed-only" /\ k \in made
  BY <1>2, <1>6 DEF Prunable, IsManaged, Truthful
<1>8. /\ observed' \in [Gid \X User -> 0..2] /\ disturbed' \in SUBSET (Gid \X User)
      /\ disturbed \subseteq disturbed'
      /\ \A j \in Gid \X User : j # k => observed'[j] = observed[j]
      /\ observed'[k] >= observed[k]
      /\ k \in disturbed' \/ observed'[k] = IF observed[k] < 2 THEN observed[k] + 1 ELSE observed[k]
  <2> DEFINE Pairs == Gid \X User
  <2>1. observed \in [Pairs -> 0..2] /\ k \in Pairs /\ disturbed \in SUBSET Pairs /\ observed[k] \in 0..2
    BY <1>1, <1>4 DEF TypeOK
  <2> HIDE DEF k, u, Pairs
  <2>2. disturbed' \in SUBSET Pairs /\ disturbed \subseteq disturbed' /\ (run.steady \/ k \in disturbed')
    <3>1. CASE run.steady
      BY <1>1, <2>1, <3>1
    <3>2. CASE ~run.steady
      <4>1. disturbed' = disturbed \cup {k}
        BY <1>1, <3>2
      <4> QED
        BY <2>1, <4>1
    <3> QED
      BY <3>1, <3>2
  <2>3. CASE u \in run.counted \/ observed[k] = 2
    <3>1. observed' = observed
      BY <1>1, <2>3
    <3>2. k \in disturbed' \/ observed[k] = 2
      BY <1>3, <2>2, <2>3
    <3> QED
      BY <2>1, <2>2, <3>1, <3>2 DEF Pairs
  <2>4. CASE ~(u \in run.counted \/ observed[k] = 2)
    <3>1. observed' = [observed EXCEPT ![k] = @ + 1]
      BY <1>1, <2>4
    <3>2. observed[k] + 1 \in 0..2 /\ observed[k] < 2 /\ observed[k] + 1 >= observed[k]
      BY <2>1, <2>4
    <3>3. observed' \in [Pairs -> 0..2] /\ observed'[k] = observed[k] + 1
      BY <2>1, <3>1, <3>2
    <3>4. \A j \in Pairs : j # k => observed'[j] = observed[j]
      BY <2>1, <3>1
    <3> QED
      BY <2>2, <3>2, <3>3, <3>4 DEF Pairs
  <2> QED
    BY <2>3, <2>4
<1> HIDE DEF k
<1>9. /\ c.groups = value.groups /\ c.records = value.records
      /\ WillBeTrue(c) /\ WillBeTrue(value)
      /\ \A j \in Gid \X User : observed[j] <= observed'[j]
      /\ ConfirmedAbsent(c, k) => observed'[k] >= 2 \/ k \in disturbed'
  <2>1. TypeOK /\ made' = made
    BY <1>1
  <2>2. value \in Contents /\ Truthful(value) /\ k \in Gid \X User /\ c = ConfirmAbsent(value, k)
    BY <1>2, <1>4
  <2> HIDE DEF c
  <2> QED
    BY <1>8, <2>1, <2>2, ConfirmCounts
<1> HIDE DEF c
<1>10. ASSUME run' \in Runs
       PROVE  TypeOK'
  <2>1. faults' \in 0..MaxFaults
    BY <1>1, <1>5, FaultsType
  <2>2. value' \in Contents /\ survivors' \in SUBSET Contents
    BY <1>2, <1>4, <1>5
  <2> QED
    BY <1>1, <1>8, <1>10, <2>1, <2>2 DEF TypeOK
<1>11. RowsDistinct'
  BY <1>1, RowsKept DEF GitLabInv
<1>12. CASE run' = Idle /\ value' = value /\ survivors' \in {survivors, survivors \cup {c}}
  BY <1>1, <1>8, <1>9, <1>10, <1>11, <1>12, IdleFields, FailedSaveKeeps
<1> DEFINE rs == run.removals
<1>13. /\ rs \in Seq(User) /\ Len(rs) \in Nat /\ Append(rs, u) \in Seq(User)
       /\ Len(Append(rs, u)) = Len(rs) + 1 /\ Append(rs, u)[Len(rs) + 1] = u
       /\ \A i \in 1..Len(rs) : Append(rs, u)[i] = rs[i]
  <2>1. rs \in Seq(User)
    BY <1>1 DEF Runs
  <2> HIDE DEF rs, u
  <2> QED
    BY <1>3, <2>1, AppendProperties, LenProperties
<1>14. CASE /\ \E d \in {c, value} : value' = d /\ survivors' = {d}
            /\ \/ run' = planned /\ (Immediate \/ ConfirmedAbsent(c, k))
               \/ run' = waiting
  <2>1. PICK d \in {c, value} : value' = d /\ survivors' = {d}
    BY <1>14
  <2>2. d \in Contents /\ WillBeTrue(d) /\ d.groups = value.groups /\ d.records = value.records
    BY <1>2, <1>4, <1>9
  <2>3. /\ run' \in Runs /\ run'.pc = "plan" /\ run'.tomb = run.tomb
        /\ run'.snap = run.snap /\ run'.desired = run.desired /\ run'.quiet = run.quiet
        /\ run'.removed = 0 /\ run'.gid = run.gid /\ run'.listed = run.listed
        /\ run'.entries = fs /\ run'.steady = run.steady /\ run'.counted = run.counted \cup {u}
        /\ \/ run'.removals = Append(rs, u) /\ run'.pending = run.pending
           \/ run'.removals = rs /\ run'.pending
    <3> HIDE DEF u, fs
    <3>1. rest \in Runs
      <4>1. run.counted \cup {u} \in SUBSET User
        BY <1>1, <1>3 DEF Runs
      <4> QED
        BY <1>1, <1>3, <4>1 DEF Runs
    <3>2. /\ rest.pc = "plan" /\ rest.tomb = run.tomb /\ rest.snap = run.snap
          /\ rest.desired = run.desired /\ rest.quiet = run.quiet /\ rest.removed = 0
          /\ rest.gid = run.gid /\ rest.listed = run.listed /\ rest.entries = fs
          /\ rest.steady = run.steady /\ rest.counted = run.counted \cup {u}
          /\ rest.removals = rs /\ rest.pending = run.pending
      BY <1>1, <1>2 DEF Runs
    <3>3. Append(rs, u) \in Seq(User)
      BY <1>13
    <3> DEFINE ts == Append(rs, u)
    <3>4. CASE run' = planned
      <4>1. run' = [rest EXCEPT !.removals = ts] /\ ts \in Seq(User)
        BY <3>2, <3>3, <3>4
      <4> HIDE DEF rest, ts, rs
      <4>2. run'.removals = ts
        BY <3>1, <4>1 DEF Runs
      <4> QED
        BY <3>1, <3>2, <4>1, <4>2 DEF Runs, ts
    <3>5. CASE run' = waiting
      <4> HIDE DEF rest, rs
      <4> QED
        BY <3>1, <3>2, <3>5 DEF Runs
    <3> QED
      BY <1>14, <3>4, <3>5
  <2>4. run'.removals = rs \/ Immediate \/ ConfirmedAbsent(c, k)
    <3> HIDE DEF u, fs
    <3>1. CASE run' = waiting
      BY <1>1, <3>1 DEF Runs
    <3> QED
      BY <1>14, <3>1
  <2> HIDE DEF u, es, fs, rs
  <2>5. TypeOK' /\ LedgerTruthful'
    BY <1>10, <2>1, <2>2, <2>3, SaveKeeps
  <2>6. Settled' /\ UserInHand'
    BY <1>2, <2>1, <2>2, <2>3 DEF Settled, Mapped, UserInHand
  <2>7. WithinBreaker'
    BY <1>1, <2>3, RuleFields DEF WithinBreaker, BreakerHolds, Removing
  <2>8. ASSUME NEW i \in 1..Len(rs)
        PROVE  WillBeJustified(rs[i])
    <3>1. Justified(rs[i]) /\ rs[i] \in User
      BY <1>13 DEF GitLabInv, RemovalsJustified, rs
    <3>2. PICK x \in User : x = rs[i]
      BY <3>1
    <3>3. Key(x) \in Gid \X User
      BY <1>2 DEF Key
    <3>4. observed[Key(x)] \in 0..2 /\ observed'[Key(x)] \in 0..2 /\ observed[Key(x)] <= observed'[Key(x)]
      BY <1>1, <1>8, <1>9, <3>3, ObservedType
    <3>5. observed[Key(x)] >= 2 \/ Key(x) \in disturbed => observed'[Key(x)] >= 2 \/ Key(x) \in disturbed'
      BY <1>8, <3>4
    <3> QED
      BY <1>1, <2>3, <3>1, <3>2, <3>5, StillJustified
  <2>9. run'.removals # rs => WillBeJustified(u)
    BY <1>1, <1>4, <1>6, <1>7, <1>9, <2>3, <2>4 DEF WillBeJustified, Immediate
  <2>10. RemovalsJustified'
    <3>1. ASSUME NEW i \in 1..Len(run'.removals)
          PROVE  WillBeJustified(run'.removals[i])
      <4>1. CASE run'.removals = rs
        BY <2>8, <4>1
      <4>2. CASE run'.removals = Append(rs, u) /\ run'.removals # rs
        <5>1. i = Len(rs) + 1 \/ i \in 1..Len(rs)
          BY <1>13, <4>2
        <5> QED
          BY <1>13, <2>8, <2>9, <4>2, <5>1
      <4> QED
        BY <2>3, <4>1, <4>2
    <3> QED
      BY <2>3, <3>1, JustifiedNext DEF Planned
  <2>11. EntriesDistinct'
    BY <1>3, <2>3 DEF EntriesDistinct, Planned, Unbound
  <2>12. RemovalsDistinct'
    <3>1. ASSUME run.steady
          PROVE  /\ \A i, j \in 1..Len(rs) : rs[i] = rs[j] => i = j
                 /\ \A i \in 1..Len(rs) : rs[i] \in run.counted /\ rs[i] # u
      BY <1>3, <3>1 DEF GitLabInv, RemovalsDistinct, rs
    <3>2. ASSUME ~run.steady
          PROVE  /\ \A i \in 1..Len(rs) : <<run.gid, rs[i]>> \in disturbed'
                 /\ <<run.gid, u>> \in disturbed'
      <4>1. \A i \in 1..Len(rs) : <<run.gid, rs[i]>> \in disturbed
        BY <3>2 DEF GitLabInv, RemovalsDistinct, rs, Key
      <4> QED
        BY <1>1, <1>4, <3>2, <4>1
    <3>3. CASE run'.removals = rs
      BY <2>3, <3>1, <3>2, <3>3 DEF RemovalsDistinct, Key
    <3>4. CASE run'.removals = Append(rs, u)
      <4> DEFINE ts == Append(rs, u)
      <4>1. \A i \in 1..Len(ts) : (i \in 1..Len(rs) /\ ts[i] = rs[i]) \/ (i = Len(rs) + 1 /\ ts[i] = u)
        BY <1>13
      <4> HIDE DEF ts
      <4>2. ASSUME run.steady, NEW i \in 1..Len(ts), NEW j \in 1..Len(ts), ts[i] = ts[j]
            PROVE  i = j
        BY <3>1, <4>1, <4>2
      <4>3. ASSUME run.steady, NEW i \in 1..Len(ts)
            PROVE  ts[i] \in run.counted \cup {u}
        BY <3>1, <4>1, <4>3
      <4>4. ASSUME ~run.steady, NEW i \in 1..Len(ts)
            PROVE  <<run.gid, ts[i]>> \in disturbed'
        BY <3>2, <4>1, <4>4
      <4>5. run'.removals = ts
        BY <3>4 DEF ts
      <4> QED
        BY <2>3, <4>2, <4>3, <4>4, <4>5 DEF RemovalsDistinct, Key
    <3> QED
      BY <2>3, <3>3, <3>4
  <2>13. ListingInv'
    BY <2>3, <2>11, <2>12 DEF ListingInv, EntriesListed, Planned
  <2>14. RevocationsLeft'
    <3> SUFFICES ASSUME run.tomb, NEW v \in User, Revocable(v)
                 PROVE  \/ \E i \in 1..Len(fs) : fs[i] = [user |-> v, member |-> run.listed[v]]
                        \/ \E i \in 1..Len(run'.removals) : run'.removals[i] = v
                        \/ run'.pending
      BY <1>1, <2>1, <2>2, <2>3 DEF RevocationsLeft, Revocable, Listed, Exempt, Key, Planned
    <3>1. \/ \E i \in 1..Len(es) : es[i] = [user |-> v, member |-> run.listed[v]]
          \/ \E i \in 1..Len(rs) : rs[i] = v
          \/ run.pending
      BY <1>1 DEF GitLabInv, RevocationsLeft, Planned, es, rs
    <3>2. CASE \E i \in 1..Len(fs) : fs[i] = [user |-> v, member |-> run.listed[v]]
      BY <3>2
    <3>3. CASE run.pending
      BY <2>3, <3>3
    <3>4. CASE \E i \in 1..Len(rs) : rs[i] = v
      <4>1. PICK i \in 1..Len(rs) : rs[i] = v
        BY <3>4
      <4>2. i \in 1..Len(Append(rs, u)) /\ Append(rs, u)[i] = v
        BY <1>13, <4>1
      <4> QED
        BY <2>3, <4>1, <4>2
    <3>5. CASE es[1] = [user |-> v, member |-> run.listed[v]]
      <4>1. u = v
        BY <1>3, <3>5
      <4>2. Len(rs) + 1 \in 1..Len(Append(rs, u)) /\ Append(rs, u)[Len(rs) + 1] = v
        BY <1>13, <4>1
      <4> QED
        BY <2>3, <4>2
    <3> QED
      BY <1>3, <3>1, <3>2, <3>3, <3>4, <3>5
  <2> QED
    BY <1>1, <1>11, <2>3, <2>5, <2>6, <2>7, <2>10, <2>13, <2>14, PlanKeeps DEF Planned
<1> QED
  BY <1>5, <1>12, <1>14

(* The circuit breaker lets a plan pass only within its limit. *)
LEMMA PlanDoneKeeps == ASSUME GitLabInv, PlanDone PROVE GitLabInv'
<1>1. run \in Runs /\ run.pc = "plan" /\ run.entries = <<>> /\ OnlyRun /\ TypeOK
  BY DEF GitLabInv, TypeOK, PlanDone, OnlyRun, world, ledger, history
<1>2. CASE run' = Idle
  BY <1>1, <1>2, GivesUpKeeps DEF GivesUp, OnlyRun
<1>3. CASE run' = Goto("remove") /\ ~(Len(run.removals) > rule.max)
  <2>1. /\ run' \in Runs /\ run'.pc = "remove" /\ run'.tomb = run.tomb
        /\ run'.snap = run.snap /\ run'.desired = run.desired /\ run'.quiet = run.quiet
        /\ run'.removed = run.removed /\ run'.gid = run.gid /\ run'.pending = run.pending
        /\ SameListing(run')
    BY <1>1, <1>3 DEF Goto, Runs, Steps, SameListing
  <2>2. TypeOK' /\ LedgerTruthful' /\ RowsDistinct'
    BY <1>1, <2>1, OnlyRunKeeps
  <2>3. Settled' /\ UserInHand'
    BY <1>1, <2>1, SettledKept DEF OnlyRun, Unbound, UserInHand
  <2>4. WithinBreaker'
    <3>1. Len(run.removals) \in Nat
      BY <1>1, LenProperties DEF Runs
    <3>2. rule.max \in Nat /\ run.removed = 0
      BY <1>1, RuleFields DEF GitLabInv, WithinBreaker, Removing
    <3>3. run'.removed + Len(run'.removals) <= rule'.max /\ run'.removed <= rule'.max
      BY <1>1, <1>3, <2>1, <3>1, <3>2 DEF OnlyRun, SameListing
    <3> QED
      BY <2>1, <3>3 DEF WithinBreaker, BreakerHolds, Removing
  <2>5. RemovalsJustified'
    BY <1>1, <2>1, RemovalsKept DEF OnlyRun, SameListing, Planned
  <2>6. ListingInv'
    <3>1. RemovalsDistinct'
      BY <1>1, <2>1 DEF GitLabInv, RemovalsDistinct, SameListing, OnlyRun, Key
    <3> QED
      BY <1>1, <2>1, <3>1, AfterPlanListing DEF SameListing, Planned
  <2>7. RevocationsLeft'
    <3>1. Len(run.entries) = 0
      BY <1>1
    <3> SUFFICES ASSUME run.tomb, NEW v \in User, Revocable(v)
                 PROVE  (\E i \in 1..Len(run.removals) : run.removals[i] = v) \/ run.pending
      BY <1>1, <2>1 DEF RevocationsLeft, Revocable, Listed, Exempt, Key, Planned, OnlyRun, SameListing
    <3> QED
      BY <1>1, <3>1 DEF GitLabInv, RevocationsLeft, Planned
  <2> QED
    BY <1>1, <2>1, <2>2, <2>3, <2>4, <2>5, <2>6, <2>7, PlanKeeps DEF Planned, OnlyRun
<1> QED
  BY <1>2, <1>3 DEF PlanDone

(* The removals that are left, after the first of them. *)
LEMMA RemovalsTail ==
    ASSUME GitLabInv, run.removals # <<>>
    PROVE  /\ Tail(run.removals) \in Seq(User) /\ Len(Tail(run.removals)) \in Nat
           /\ Len(Tail(run.removals)) = Len(run.removals) - 1 /\ Len(run.removals) \in Nat
           /\ Head(run.removals) = run.removals[1] /\ Head(run.removals) \in User
           /\ \A i \in 1..Len(run.removals) :
                 run.removals[i] = Head(run.removals)
                 \/ \E j \in 1..Len(Tail(run.removals)) : Tail(run.removals)[j] = run.removals[i]
           /\ \A i \in 1..Len(Tail(run.removals)) :
                 \E j \in 1..Len(run.removals) : Tail(run.removals)[i] = run.removals[j]
           /\ run.steady =>
                 /\ \A i, j \in 1..Len(Tail(run.removals)) :
                       Tail(run.removals)[i] = Tail(run.removals)[j] => i = j
                 /\ \A i \in 1..Len(Tail(run.removals)) :
                       Tail(run.removals)[i] # Head(run.removals)
<1> DEFINE rs == run.removals
           ts == Tail(rs)
<1>1. rs \in Seq(User) /\ rs # <<>>
  BY DEF GitLabInv, TypeOK, Runs
<1>2. run.steady => \A i, j \in 1..Len(rs) : rs[i] = rs[j] => i = j
  BY DEF GitLabInv, RemovalsDistinct
<1> HIDE DEF rs
<1>3. /\ ts \in Seq(User) /\ Len(ts) = Len(rs) - 1 /\ Len(ts) \in Nat
      /\ Len(rs) \in Nat \ {0} /\ 1 \in 1..Len(rs) /\ Head(rs) = rs[1] /\ rs[1] \in User
      /\ \A i \in 1..Len(ts) : i + 1 \in 1..Len(rs) /\ i + 1 # 1 /\ ts[i] = rs[i + 1]
      /\ \A i \in 1..Len(rs) : i = 1 \/ \E j \in 1..Len(ts) : ts[j] = rs[i]
  BY <1>1, TailFacts
<1> HIDE DEF ts
<1>4. ASSUME run.steady, NEW i \in 1..Len(ts), NEW j \in 1..Len(ts), ts[i] = ts[j]
      PROVE  i = j
  <2>1. PICK k \in 1..Len(rs), l \in 1..Len(rs) :
           k = i + 1 /\ l = j + 1 /\ ts[i] = rs[k] /\ ts[j] = rs[l]
    BY <1>3
  <2>2. k = l
    BY <1>2, <1>4, <2>1
  <2>3. i \in Nat /\ j \in Nat
    BY <1>3
  <2> QED
    BY <2>1, <2>2, <2>3
<1>5. ASSUME run.steady, NEW i \in 1..Len(ts)
      PROVE  ts[i] # Head(rs)
  BY <1>2, <1>3, <1>5
<1>6. \A i \in 1..Len(rs) : rs[i] = Head(rs) \/ \E j \in 1..Len(ts) : ts[j] = rs[i]
  BY <1>3
<1>7. \A i \in 1..Len(ts) : \E j \in 1..Len(rs) : ts[i] = rs[j]
  BY <1>3
<1> QED
  BY <1>3, <1>4, <1>5, <1>6, <1>7 DEF rs, ts

(* One membership is removed; the limit is left for the rest. *)
LEMMA RemoveMemberKeeps == ASSUME GitLabInv, RemoveMember PROVE GitLabInv'
<1> DEFINE rs == run.removals
           ts == Tail(rs)
           u == Head(rs)
           next == [run EXCEPT !.pc = "unmark", !.cur = u, !.removals = ts, !.removed = @ + 1]
<1>1. /\ run \in Runs /\ run.pc = "remove" /\ rs # <<>> /\ TypeOK /\ Answered(next)
      /\ members' = [members EXCEPT ![run.gid][u] = NoMember] /\ Leaves(run.gid, u)
      /\ UNCHANGED <<rule, selected, source, accounts, path, alive, used, value, survivors, envs, made,
                     observed, disturbed>>
  BY DEF GitLabInv, TypeOK, RemoveMember, ledger, history
<1>2. run.gid \in Gid /\ run.entries = <<>>
  BY <1>1 DEF GitLabInv, Settled, Unbound, RevocationsLeft, Planned
<1>3. /\ ts \in Seq(User) /\ Len(ts) \in Nat /\ Len(ts) = Len(rs) - 1 /\ Len(rs) \in Nat
      /\ u \in User
      /\ \A i \in 1..Len(rs) : rs[i] = u \/ \E j \in 1..Len(ts) : ts[j] = rs[i]
      /\ \A i \in 1..Len(ts) : \E j \in 1..Len(rs) : ts[i] = rs[j]
      /\ run.steady =>
            /\ \A i, j \in 1..Len(ts) : ts[i] = ts[j] => i = j
            /\ \A i \in 1..Len(ts) : ts[i] # u
  BY <1>1, RemovalsTail
<1> HIDE DEF rs, ts, u
<1>4. members' \in [Gid -> [User -> MemberType]]
  BY <1>1, <1>2, <1>3, NoMemberType DEF TypeOK
<1>5. rows' \in [Gid -> Seq(User)] /\ RowsDistinct'
  <2>1. PICK v \in User : v = u
    BY <1>3
  <2> QED
    BY <1>1, <1>2, <2>1, LeavesKeeps DEF GitLabInv
<1>6. faults' \in 0..MaxFaults
  BY <1>1, FaultsType DEF Answered
<1>7. ASSUME run' \in Runs
      PROVE  TypeOK'
  BY <1>1, <1>4, <1>5, <1>6, <1>7 DEF TypeOK
<1>8. CASE run' = Idle
  BY <1>1, <1>5, <1>7, <1>8, IdleFields, EndOfRunKeeps
<1>9. CASE run' = next
  <2>1. /\ run' \in Runs /\ run'.pc = "unmark" /\ run'.tomb = run.tomb
        /\ run'.snap = run.snap /\ run'.desired = run.desired /\ run'.quiet = run.quiet
        /\ run'.removals = ts /\ run'.removed = run.removed + 1 /\ run'.gid = run.gid
        /\ run'.listed = run.listed /\ run'.pending = run.pending /\ run'.entries = <<>>
        /\ run'.steady = run.steady /\ run'.counted = run.counted /\ run'.cur = u
    <3>1. run.removed + 1 \in Nat
      BY <1>1 DEF Runs
    <3> QED
      BY <1>1, <1>2, <1>3, <1>9, <3>1 DEF Runs, Steps
  <2>2. TypeOK'
    BY <1>7, <2>1
  <2>3. LedgerTruthful'
    BY <1>1, <2>1 DEF GitLabInv, LedgerTruthful, Truthful
  <2>4. Settled' /\ UserInHand'
    BY <1>1, <1>3, <2>1, SettledKept DEF Unbound, UserInHand
  <2>5. WithinBreaker'
    <3>1. rule.max \in Nat /\ run.removed \in Nat /\ run.removed + Len(rs) <= rule.max
      BY <1>1, RuleFields DEF GitLabInv, WithinBreaker, Removing, Runs, rs
    <3>2. run'.removed + Len(run'.removals) <= rule'.max /\ run'.removed <= rule'.max
      BY <1>1, <1>3, <2>1, <3>1
    <3> QED
      BY <2>1, <3>2 DEF WithinBreaker, BreakerHolds, Removing
  <2>6. RemovalsJustified'
    <3>1. ASSUME NEW i \in 1..Len(ts)
          PROVE  WillBeJustified(ts[i])
      <4>1. PICK j \in 1..Len(rs) : ts[i] = rs[j]
        BY <1>3
      <4>2. Justified(ts[i])
        BY <4>1 DEF GitLabInv, RemovalsJustified, rs
      <4> QED
        BY <1>1, <2>1, <4>2 DEF Justified, WillBeJustified, Key, Immediate
    <3> QED
      BY <2>1, <3>1, JustifiedNext DEF Planned
  <2>7. ListingInv'
    <3>1. ASSUME NEW i \in 1..Len(ts)
          PROVE  IF run.steady THEN ts[i] \in run.counted ELSE <<run.gid, ts[i]>> \in disturbed
      <4>1. PICK j \in 1..Len(rs) : ts[i] = rs[j]
        BY <1>3
      <4> QED
        BY <4>1 DEF GitLabInv, RemovalsDistinct, Key, rs
    <3>2. ASSUME run.steady
          PROVE  /\ \A i, j \in 1..Len(ts) : ts[i] = ts[j] => i = j
                 /\ \A i \in 1..Len(ts) : ts[i] \in run.counted
                 /\ \A i \in 1..Len(ts) : ts[i] # u
      BY <1>3, <3>1, <3>2
    <3>3. ASSUME ~run.steady
          PROVE  \A i \in 1..Len(ts) : <<run.gid, ts[i]>> \in disturbed
      BY <3>1, <3>3
    <3>4. disturbed' = disturbed
      BY <1>1
    <3>5. RemovalsDistinct'
      BY <2>1, <3>2, <3>3, <3>4 DEF RemovalsDistinct, Key
    <3> QED
      BY <2>1, <3>5, AfterPlanListing DEF Planned
  <2>8. RevocationsLeft'
    <3> SUFFICES ASSUME run.tomb, NEW v \in User, Revocable(v)
                 PROVE  (\E i \in 1..Len(ts) : ts[i] = v) \/ run.pending \/ v = u
      BY <1>1, <2>1 DEF RevocationsLeft, Revocable, Listed, Exempt, Key, Planned
    <3>1. (\E i \in 1..Len(rs) : rs[i] = v) \/ run.pending
      <4>1. Len(run.entries) = 0
        BY <1>2
      <4> QED
        BY <1>1, <4>1 DEF GitLabInv, RevocationsLeft, Planned, rs
    <3>2. ASSUME NEW i \in 1..Len(rs), rs[i] = v
          PROVE  (\E j \in 1..Len(ts) : ts[j] = v) \/ v = u
      <4>1. rs[i] = u \/ \E j \in 1..Len(ts) : ts[j] = rs[i]
        BY <1>3
      <4> QED
        BY <3>2, <4>1
    <3> QED
      BY <3>1, <3>2
  <2> QED
    BY <1>1, <1>5, <2>1, <2>2, <2>3, <2>4, <2>5, <2>6, <2>7, <2>8, PlanKeeps DEF Planned
<1> QED
  BY <1>1, <1>8, <1>9 DEF Answered

(* What is true of the ledger and of the plan after one of the two saves   *)
(* that follow a removal, or without it.                                   *)
LEMMA AfterRemovalKeeps ==
    ASSUME GitLabInv, NEW c \in Contents, value' = c, survivors' = {c}, WillBeTrue(c),
           c.groups = value.groups, c.records \subseteq value.records,
           run.pc = "unmark" => c.records \subseteq value.records \ {Key(run.cur)},
           UNCHANGED <<rule, selected, source, accounts, path, alive, used, members, rows, envs, faults,
                       made, disturbed>>,
           observed' \in {observed, [observed EXCEPT ![Key(run.cur)] = 0]},
           \/ run.pc = "unmark" /\ run' = Goto("clear")
           \/ run.pc = "clear" /\ run' = [run EXCEPT !.pc = "remove", !.cur = NoUser]
    PROVE  GitLabInv'
<1>1. run \in Runs /\ TypeOK
  BY DEF GitLabInv, TypeOK
<1>2. /\ run' \in Runs /\ run'.pc \in {"clear", "remove"} /\ run'.tomb = run.tomb
      /\ run'.snap = run.snap /\ run'.desired = run.desired /\ run'.quiet = run.quiet
      /\ run'.removed = run.removed /\ run'.gid = run.gid
      /\ SameListing(run') /\ run'.pending = run.pending
      /\ run'.pc = "clear" => run'.cur = run.cur
  <2>1. CASE run' = Goto("clear")
    BY <1>1, <2>1 DEF Goto, Runs, Steps, SameListing
  <2>2. CASE run' = [run EXCEPT !.pc = "remove", !.cur = NoUser]
    BY <1>1, <2>2 DEF Runs, Steps, SameListing
  <2> QED
    BY <2>1, <2>2
<1>3. run.pc \in {"unmark", "clear"} /\ run.pc \in Planned
  BY DEF Planned
<1>4. run.entries = <<>> /\ Len(run.entries) = 0 /\ run.gid \in Gid /\ run.cur \in User
  BY <1>3 DEF GitLabInv, RevocationsLeft, Planned, Settled, Unbound, UserInHand
<1>5. TypeOK' /\ LedgerTruthful' /\ RowsDistinct'
  <2>1. observed' \in [Gid \X User -> 0..2]
    <3>1. observed \in [Gid \X User -> 0..2]
      BY <1>1 DEF TypeOK
    <3> QED
      BY <3>1
  <2>2. TypeOK'
    BY <1>1, <1>2, <2>1 DEF TypeOK
  <2> QED
    BY <1>2, <2>2, SaveKeeps, RowsKept DEF GitLabInv
<1>6. Settled'
  BY <1>2, <1>3 DEF GitLabInv, Settled, Mapped, Unbound
<1>7. UserInHand'
  BY <1>2, <1>3 DEF GitLabInv, UserInHand, Key
<1>8. WithinBreaker'
  BY <1>2, <1>3 DEF GitLabInv, WithinBreaker, BreakerHolds, Removing, SameListing
<1>9. RemovalsJustified'
  <2>1. ASSUME NEW i \in 1..Len(run.removals)
        PROVE  WillBeJustified(run.removals[i])
    <3>1. run.removals[i] \in User
      BY <1>1 DEF Runs
    <3>2. PICK x \in User : x = run.removals[i]
      BY <3>1
    <3>3. Justified(x)
      BY <3>2 DEF GitLabInv, RemovalsJustified
    <3>4. run.steady => x # run.cur
      BY <1>3, <3>2 DEF GitLabInv, RemovalsDistinct
    <3>5. ~run.steady => Key(x) \in disturbed
      BY <3>2 DEF GitLabInv, RemovalsDistinct
    <3>6. x # run.cur => observed'[Key(x)] = observed[Key(x)]
      <4>1. observed \in [Gid \X User -> 0..2] /\ Key(x) \in Gid \X User
        BY <1>1, <1>4 DEF TypeOK, Key
      <4>2. x # run.cur => Key(x) # Key(run.cur)
        BY DEF Key
      <4> QED
        BY <4>1, <4>2
    <3>7. observed[Key(x)] >= 2 \/ Key(x) \in disturbed => observed'[Key(x)] >= 2 \/ Key(x) \in disturbed'
      BY <3>4, <3>5, <3>6
    <3>8. WillBeJustified(x)
      BY <1>2, <3>3, <3>7, StillJustified
    <3> QED
      BY <3>2, <3>8
  <2> QED
    BY <1>2, <2>1, JustifiedNext DEF Planned, SameListing
<1>10. ListingInv'
  <2>1. RemovalsDistinct'
    BY <1>2, <1>3 DEF GitLabInv, RemovalsDistinct, SameListing, Key
  <2> QED
    BY <1>2, <1>4, <2>1, AfterPlanListing DEF SameListing, Planned
<1>11. RevocationsLeft'
  <2> SUFFICES ASSUME run.tomb, NEW v \in User, Revocable(v), Key(v) \in c.records
               PROVE  (\E i \in 1..Len(run.removals) : run.removals[i] = v) \/ run.pending
    BY <1>2, <1>4 DEF RevocationsLeft, Revocable, Listed, Exempt, Key, Planned, SameListing
  <2>1. run.pc = "unmark" => v # run.cur
    BY DEF Key
  <2> QED
    BY <1>3, <1>4, <2>1 DEF GitLabInv, RevocationsLeft
<1> QED
  BY <1>2, <1>3, <1>5, <1>6, <1>7, <1>8, <1>9, <1>10, <1>11, PlanKeeps DEF Planned

(* The record of a membership that was removed goes, then its absences. *)
LEMMA UnmarkKeeps == ASSUME GitLabInv, UnmarkRemoved \/ ClearAbsence PROVE GitLabInv'
<1>1. /\ run \in Runs /\ run.pc \in {"unmark", "clear"} /\ TypeOK /\ disturbed' = disturbed
      /\ UNCHANGED <<rule, selected, source, accounts, path, alive, used, members, rows, envs, made>>
  BY DEF GitLabInv, TypeOK, UnmarkRemoved, ClearAbsence, world, history
<1>2. /\ run.gid \in Gid /\ survivors = {value} /\ value \in Contents /\ Truthful(value)
      /\ run.cur \in User
  BY <1>1 DEF GitLabInv, Settled, Unbound, LedgerTruthful, TypeOK, UserInHand
<1>3. Key(run.cur) \in Gid \X User
  BY <1>2 DEF Key
<1>4. /\ Unmark(value, Key(run.cur)) \in Contents /\ ResetAbsent(value, Key(run.cur)) \in Contents
  BY <1>2, <1>3, OperationsType
<1>5. RowsDistinct'
  BY <1>1, RowsKept DEF GitLabInv
<1>6. observed' \in {observed, [observed EXCEPT ![Key(run.cur)] = 0]}
  BY DEF UnmarkRemoved, ClearAbsence, history
<1>7. ASSUME NEW c \in Contents, WillBeTrue(c), run' = Idle, Fault, value' = value,
             survivors' \in {survivors, survivors \cup {c}}, observed' = observed
      PROVE  GitLabInv'
  <2>1. faults' \in 0..MaxFaults
    BY <1>1, <1>7, FaultsType
  <2>2. TypeOK'
    BY <1>1, <1>7, <2>1, IdleFields DEF TypeOK
  <2> QED
    BY <1>1, <1>5, <1>7, <2>2, FailedSaveKeeps, ObservedType
<1>8. CASE UnmarkRemoved
  <2> DEFINE c == Unmark(value, Key(run.cur))
  <2>1. run.pc = "unmark" /\ Save(c, Goto("clear")) /\ observed' = observed
    BY <1>8 DEF UnmarkRemoved, history
  <2>2. WillBeTrue(c) /\ c.groups = value.groups /\ c.records = value.records \ {Key(run.cur)}
    BY <1>1, <1>2, <2>1 DEF Unmark, Contents, Truthful, WillBeTrue
  <2>3. c \in Contents
    BY <1>4
  <2> HIDE DEF c
  <2>4. CASE value' = c /\ survivors' = {c} /\ run' = Goto("clear") /\ faults' = faults
    BY <1>1, <2>1, <2>2, <2>3, <2>4, AfterRemovalKeeps
  <2> QED
    BY <1>7, <2>1, <2>2, <2>3, <2>4 DEF Save
<1>9. CASE ClearAbsence
  <2> DEFINE next == [run EXCEPT !.pc = "remove", !.cur = NoUser]
             c == ResetAbsent(value, Key(run.cur))
  <2>1. /\ run.pc = "clear"
        /\ \/ Save(c, next)
           \/ /\ ~(value.absences[Key(run.cur)] > 0)
              /\ run' = next /\ value' = value /\ survivors' = survivors /\ faults' = faults
    BY <1>9 DEF ClearAbsence, ledger
  <2>2. value.absences[Key(run.cur)] \in 0..2 /\ c.records = value.records /\ c \in Contents
    BY <1>2, <1>3, <1>4 DEF ResetAbsent, Contents
  <2>3. /\ WillBeTrue(c) /\ c.groups = value.groups
        /\ value.absences[Key(run.cur)] = 0 => WillBeTrue(value)
    BY <1>1, <1>2, <1>3, <1>6, ResetCounts
  <2> HIDE DEF c
  <2>4. CASE value' = c /\ survivors' = {c} /\ run' = next /\ faults' = faults
    BY <1>1, <1>6, <2>1, <2>2, <2>3, <2>4, AfterRemovalKeeps
  <2>5. CASE value' = value /\ survivors' \in {survivors, survivors \cup {c}} /\ run' = Idle /\ Fault
    <3>1. faults' # faults
      BY <1>1, <2>5 DEF Fault, TypeOK
    <3>2. observed' = observed
      BY <1>9, <3>1 DEF ClearAbsence
    <3> QED
      BY <1>7, <2>2, <2>3, <2>5, <3>2
  <2>6. CASE /\ ~(value.absences[Key(run.cur)] > 0)
             /\ run' = next /\ value' = value /\ survivors' = survivors /\ faults' = faults
    <3>1. WillBeTrue(value)
      BY <2>2, <2>3, <2>6
    <3> QED
      BY <1>1, <1>2, <1>6, <2>1, <2>6, <3>1, AfterRemovalKeeps
  <2> QED
    BY <2>1, <2>4, <2>5, <2>6 DEF Save
<1> QED
  BY <1>8, <1>9

(* A run without a tombstone, or with a removal pending, is over. *)
LEMMA RemoveDoneKeeps == ASSUME GitLabInv, RemoveDone PROVE GitLabInv'
<1>1. run \in Runs /\ run.pc = "remove" /\ run.removals = <<>> /\ OnlyRun
  BY DEF GitLabInv, TypeOK, RemoveDone, OnlyRun, world, ledger, history
<1>2. CASE run' = Idle
  BY <1>1, <1>2, GivesUpKeeps DEF GivesUp, OnlyRun
<1>3. CASE run' = Goto("retire") /\ run.tomb /\ ~run.pending
  <2>1. /\ run' \in Runs /\ run'.pc = "retire" /\ run'.tomb = run.tomb
        /\ run'.snap = run.snap /\ run'.desired = run.desired /\ run'.quiet = run.quiet
        /\ run'.removed = run.removed /\ run'.gid = run.gid
        /\ SameListing(run') /\ run'.pending = run.pending
    BY <1>1, <1>3 DEF Goto, Runs, Steps, SameListing
  <2>2. TypeOK' /\ LedgerTruthful' /\ RowsDistinct'
    BY <1>1, <2>1, OnlyRunKeeps
  <2>3. Settled' /\ UserInHand'
    BY <1>1, <2>1, SettledKept DEF OnlyRun, Unbound, UserInHand
  <2>4. WithinBreaker'
    BY <1>1, <2>1 DEF GitLabInv, WithinBreaker, BreakerHolds, Removing, OnlyRun
  <2>5. /\ run.entries = <<>> /\ Len(run.entries) = 0 /\ Len(run.removals) = 0
        /\ Len(run'.removals) = 0 /\ run'.entries = <<>> /\ run'.removals = <<>>
    BY <1>1, <2>1 DEF GitLabInv, RevocationsLeft, Planned, SameListing
  <2>6. RemovalsJustified' /\ ListingInv'
    <3>1. RemovalsJustified' /\ RemovalsDistinct'
      BY <2>1, <2>5 DEF RemovalsJustified, RemovalsDistinct, Planned
    <3> QED
      BY <2>1, <2>5, <3>1, AfterPlanListing DEF Planned
  <2>7. \A v \in User : ~Revocable(v)
    BY <1>1, <1>3, <2>5 DEF GitLabInv, RevocationsLeft, Planned
  <2>8. RevocationsLeft'
    BY <1>1, <1>3, <2>1, <2>5, <2>7
       DEF RevocationsLeft, Revocable, Listed, Exempt, Key, OnlyRun, SameListing
  <2> QED
    BY <1>1, <2>1, <2>2, <2>3, <2>4, <2>6, <2>8, PlanKeeps DEF Planned, OnlyRun
<1> QED
  BY <1>2, <1>3 DEF RemoveDone

LEMMA RetireKeeps == ASSUME GitLabInv, Retire PROVE GitLabInv'
<1> DEFINE c == DeleteGroup(value, Src)
<1>1. /\ run.pc = "retire" /\ Save(c, Idle) /\ TypeOK
      /\ UNCHANGED <<rule, selected, source, accounts, path, alive, used, members, rows, envs, made,
                     observed, disturbed>>
  BY DEF GitLabInv, Retire, world, history
<1>2. value \in Contents /\ Truthful(value)
  BY <1>1 DEF GitLabInv, LedgerTruthful, TypeOK
<1>3. c \in Contents /\ c.records = value.records /\ c.absences = value.absences
  BY <1>2, OperationsType DEF DeleteGroup, Contents
<1> HIDE DEF c
<1>4. WillBeTrue(c) /\ run' = Idle /\ RowsDistinct'
  BY <1>1, <1>2, <1>3, RowsKept DEF Truthful, WillBeTrue, Save, GitLabInv
<1>5. faults' \in 0..MaxFaults
  BY <1>1, FaultsType DEF Save
<1>6. TypeOK'
  BY <1>1, <1>2, <1>3, <1>4, <1>5, IdleFields DEF TypeOK, Save
<1>7. CASE value' = c /\ survivors' = {c}
  BY <1>3, <1>4, <1>6, <1>7, SaveKeeps, IdleFields, NoRunInvNext
<1>8. CASE value' = value /\ survivors' \in {survivors, survivors \cup {c}}
  BY <1>1, <1>4, <1>6, <1>8, FailedSaveKeeps, ObservedType
<1> QED
  BY <1>1, <1>7, <1>8 DEF Save

-------------------------------------------------------------------------------
(* Keycloak and GitLab change under the run *)

LEMMA EnvsType == ASSUME TypeOK, Env PROVE envs' \in 0..MaxEnv
BY BoundsAssumption DEF TypeOK, Env

(* The run but for what it remembers of its surroundings. *)
SameRun(r) ==
    /\ r.pc = run.pc /\ r.tomb = run.tomb /\ r.seen = run.seen /\ r.snap = run.snap
    /\ r.gid = run.gid /\ r.entries = run.entries /\ r.listed = run.listed
    /\ r.desired = run.desired /\ r.todo = run.todo /\ r.cur = run.cur
    /\ r.removals = run.removals /\ r.removed = run.removed /\ r.pending = run.pending
    /\ r.counted = run.counted

(* What the invariant says of GitLab is that it lists each member once,    *)
(* and of a steady listing that it is a beginning of GitLab's.             *)
LEMMA WorldChangeKeeps ==
    ASSUME GitLabInv, TypeOK', RowsDistinct', SnapshotComplete',
           UNCHANGED <<rule, value, survivors, faults, made, observed, disturbed>>, SameRun(run'),
           run'.steady = run.steady \/ (run'.steady = FALSE /\ run.pc = "list"),
           run.pc = "list" /\ run'.steady => run.entries = <<>> \/ rows'[run.gid] = rows[run.gid]
    PROVE  GitLabInv'
<1>1. LedgerTruthful' /\ Settled' /\ UserInHand'
  BY DEF GitLabInv, LedgerTruthful, Truthful, Settled, UserInHand, Key, Mapped, SameRun
<1>2. WithinBreaker'
  BY DEF GitLabInv, WithinBreaker, BreakerHolds, SameRun
<1>3. RemovalsJustified'
  <2>1. CASE run.pc \in Planned
    BY <2>1, RemovalsKept DEF SameRun
  <2>2. CASE run.pc \notin Planned
    <3>1. run'.removals = <<>> /\ Len(run'.removals) = 0
      BY <2>2, NothingPlannedYet DEF SameRun
    <3> QED
      BY <3>1 DEF RemovalsJustified
  <2> QED
    BY <2>1, <2>2
<1>4. RevocationsLeft'
  BY DEF GitLabInv, RevocationsLeft, Revocable, Exempt, Listed, Key, SameRun
<1>5. EntriesListed'
  BY DEF GitLabInv, EntriesListed, Listed, SameRun
<1>6. RemovalsDistinct'
  <2>1. CASE run'.steady = run.steady
    BY <2>1 DEF GitLabInv, RemovalsDistinct, Key, SameRun
  <2>2. CASE run'.steady = FALSE /\ run.pc = "list"
    <3>1. Len(run'.removals) = 0
      BY <2>2, NothingPlannedYet DEF SameRun, Planned
    <3> QED
      BY <2>2, <3>1 DEF RemovalsDistinct
  <2> QED
    BY <2>1, <2>2
<1>7. EntriesDistinct'
  <2>1. CASE run'.steady = FALSE /\ run.pc = "list"
    BY <2>1 DEF GitLabInv, EntriesDistinct, SameRun, Unbound, Planned
  <2>2. CASE run'.steady = run.steady
    <3>1. run'.pc = "list" /\ run'.steady =>
             /\ Len(run'.entries) <= Len(rows'[run'.gid])
             /\ \A i \in 1..Len(run'.entries) : run'.entries[i].user = rows'[run'.gid][i]
      <4> SUFFICES ASSUME run.pc = "list", run'.steady
                   PROVE  /\ Len(run.entries) <= Len(rows'[run.gid])
                          /\ \A i \in 1..Len(run.entries) : run.entries[i].user = rows'[run.gid][i]
        BY DEF SameRun
      <4>1. CASE run.entries = <<>>
        <5>1. Len(run.entries) = 0
          BY <4>1
        <5>2. rows'[run.gid] \in Seq(User)
          BY DEF GitLabInv, Settled, Unbound, TypeOK
        <5>3. Len(rows'[run.gid]) \in Nat
          BY <5>2, LenProperties
        <5> QED
          BY <5>1, <5>3
      <4>2. CASE rows'[run.gid] = rows[run.gid]
        BY <2>2, <4>2 DEF GitLabInv, EntriesDistinct
      <4> QED
        BY <4>1, <4>2
    <3> QED
      BY <2>2, <3>1 DEF GitLabInv, EntriesDistinct, SameRun
  <2> QED
    BY <2>1, <2>2
<1> QED
  BY <1>1, <1>2, <1>3, <1>4, <1>5, <1>6, <1>7 DEF GitLabInv

(* Nothing of the listing moved. *)
LEMMA UnaffectedKeeps ==
    ASSUME GitLabInv, Env, Unaffected, UNCHANGED <<selected, source, rows>>, RowsDistinct',
           accounts' \in SUBSET User, path' \in Gid \cup {NoGroup}, alive' \in SUBSET Gid,
           used' \in SUBSET Gid, members' \in [Gid -> [User -> MemberType]]
    PROVE  GitLabInv'
<1>1. UNCHANGED <<rule, value, survivors, run, faults, made, observed, disturbed>>
  BY DEF Unaffected, ledger, history
<1>2. TypeOK'
  BY <1>1, EnvsType DEF GitLabInv, TypeOK
<1>3. SnapshotComplete'
  BY <1>1 DEF GitLabInv, SnapshotComplete, Present, Enabled
<1>4. SameRun(run') /\ run'.steady = run.steady
  BY <1>1 DEF SameRun
<1> QED
  BY <1>1, <1>2, <1>3, <1>4, WorldChangeKeeps

(* Somebody joined or left g. *)
LEMMA ListChangesKeep ==
    ASSUME GitLabInv, Env, NEW g \in Gid, ListChanges(g), UNCHANGED <<selected, source>>,
           accounts' \in SUBSET User, path' \in Gid \cup {NoGroup}, alive' \in SUBSET Gid,
           used' \in SUBSET Gid, members' \in [Gid -> [User -> MemberType]],
           rows' \in [Gid -> Seq(User)], \A h \in Gid \ {g} : rows'[h] = rows[h], RowsDistinct'
    PROVE  GitLabInv'
<1> DEFINE hit == run.pc = "list" /\ g = run.gid /\ run.entries # <<>>
           b == run.steady /\ ~hit
<1>1. /\ run \in Runs /\ run' = [run EXCEPT !.steady = b]
      /\ UNCHANGED <<rule, value, survivors, faults, made, observed, disturbed>>
  BY DEF GitLabInv, TypeOK, ListChanges, ledger, history
<1>2. b \in BOOLEAN
  OBVIOUS
<1>3. run' \in Runs /\ SameRun(run') /\ run'.quiet = run.quiet /\ run'.steady = b
  <2> HIDE DEF b
  <2> QED
    BY <1>1, <1>2 DEF Runs, SameRun
<1>4. hit => run'.steady = FALSE
  BY <1>3
<1>5. ~hit => run'.steady = run.steady
  <2>1. run.steady \in BOOLEAN
    BY <1>1 DEF Runs
  <2> QED
    BY <1>3, <2>1
<1>6. TypeOK'
  BY <1>1, <1>3, EnvsType DEF GitLabInv, TypeOK
<1>7. SnapshotComplete'
  BY <1>1, <1>3 DEF GitLabInv, SnapshotComplete, Present, Enabled, SameRun
<1>8. run.pc = "list" => run.gid \in Gid
  BY DEF GitLabInv, Settled, Unbound
<1>9. CASE hit
  BY <1>1, <1>3, <1>4, <1>6, <1>7, <1>9, WorldChangeKeeps
<1>10. CASE ~hit
  <2>1. run.pc = "list" => run.entries = <<>> \/ rows'[run.gid] = rows[run.gid]
    BY <1>8, <1>10
  <2> QED
    BY <1>1, <1>3, <1>5, <1>6, <1>7, <1>10, <2>1, WorldChangeKeeps
<1> QED
  BY <1>9, <1>10

LEMMA AdminGrantsKeep ==
    ASSUME GitLabInv, NEW g \in Gid, NEW u \in User, NEW m \in Grants, AdminGrants(g, u, m)
    PROVE  GitLabInv'
<1>1. /\ TypeOK /\ Env /\ members' = [members EXCEPT ![g][u] = m]
      /\ UNCHANGED <<selected, source, accounts, path, alive, used>>
  BY DEF GitLabInv, AdminGrants
<1>2. m \in MemberType /\ m # NoMember
  BY GrantsAssumption
<1>3. /\ members \in [Gid -> [User -> MemberType]] /\ rows \in [Gid -> Seq(User)]
      /\ members' \in [Gid -> [User -> MemberType]]
  BY <1>1, <1>2 DEF TypeOK
<1>4. CASE members[g][u] = NoMember /\ Joins(g, u) /\ ListChanges(g)
  <2>1. rows' \in [Gid -> Seq(User)] /\ RowsDistinct' /\ \A h \in Gid \ {g} : rows'[h] = rows[h]
    BY <1>1, <1>2, <1>4, JoinsKeeps DEF GitLabInv
  <2> QED
    BY <1>1, <1>3, <1>4, <2>1, ListChangesKeep DEF TypeOK
<1>5. CASE UNCHANGED rows /\ Unaffected
  <2>1. \A h \in Gid, v \in User : members[h][v] # NoMember => members'[h][v] # NoMember
    BY <1>1, <1>2, <1>3
  <2>2. \A h \in Gid : \A i \in 1..Len(rows[h]) : rows[h][i] \in User
    BY <1>3
  <2>3. RowsDistinct'
    BY <1>5, <2>1, <2>2 DEF GitLabInv, RowsDistinct
  <2> QED
    BY <1>1, <1>3, <1>5, <2>3, UnaffectedKeeps DEF TypeOK
<1> QED
  BY <1>4, <1>5 DEF AdminGrants

LEMMA AdminRevokesKeep ==
    ASSUME GitLabInv, NEW g \in Gid, NEW u \in User, AdminRevokes(g, u)
    PROVE  GitLabInv'
<1>1. /\ TypeOK /\ Env /\ members' = [members EXCEPT ![g][u] = NoMember]
      /\ Leaves(g, u) /\ ListChanges(g)
      /\ UNCHANGED <<selected, source, accounts, path, alive, used>>
  BY DEF GitLabInv, AdminRevokes
<1>2. members' \in [Gid -> [User -> MemberType]]
  BY <1>1, NoMemberType DEF TypeOK
<1>3. rows' \in [Gid -> Seq(User)] /\ RowsDistinct' /\ \A h \in Gid \ {g} : rows'[h] = rows[h]
  BY <1>1, LeavesKeeps DEF GitLabInv
<1> QED
  BY <1>1, <1>2, <1>3, ListChangesKeep DEF TypeOK

LEMMA GroupDeletedKeeps == ASSUME GitLabInv, GroupDeleted PROVE GitLabInv'
<1>1. /\ TypeOK /\ Env /\ path \in Gid /\ path' = NoGroup /\ alive' = alive \ {path}
      /\ members' = [members EXCEPT ![path] = [u \in User |-> NoMember]]
      /\ rows' = [rows EXCEPT ![path] = <<>>]
      /\ ListChanges(path) /\ UNCHANGED <<selected, source, accounts, used>>
  BY DEF GitLabInv, GroupDeleted, TypeOK
<1>2. PICK g \in Gid : g = path
  BY <1>1
<1>3. members \in [Gid -> [User -> MemberType]] /\ rows \in [Gid -> Seq(User)]
  BY <1>1 DEF TypeOK
<1>4. members' \in [Gid -> [User -> MemberType]]
  BY <1>1, <1>3, NoMemberType
<1>5. rows' \in [Gid -> Seq(User)] /\ rows'[g] = <<>> /\ \A h \in Gid \ {g} : rows'[h] = rows[h]
  <2>1. <<>> \in Seq(User)
    OBVIOUS
  <2> QED
    BY <1>1, <1>2, <1>3, <2>1
<1>6. RowsDistinct'
  <2>1. Len(rows'[g]) = 0
    BY <1>5
  <2>2. \A h \in Gid \ {g} : members'[h] = members[h]
    BY <1>1, <1>2, <1>3
  <2>3. ASSUME NEW h \in Gid
        PROVE  /\ \A i, j \in 1..Len(rows'[h]) : rows'[h][i] = rows'[h][j] => i = j
               /\ \A i \in 1..Len(rows'[h]) : members'[h][rows'[h][i]] # NoMember
    <3>1. CASE h = g
      BY <2>1, <3>1
    <3>2. CASE h # g
      <4>1. rows'[h] = rows[h] /\ members'[h] = members[h]
        BY <1>5, <2>2, <3>2
      <4> QED
        BY <4>1 DEF GitLabInv, RowsDistinct
    <3> QED
      BY <3>1, <3>2
  <2> QED
    BY <2>3 DEF RowsDistinct
<1>7. alive' \in SUBSET Gid
  BY <1>1 DEF TypeOK
<1> QED
  BY <1>1, <1>2, <1>4, <1>5, <1>6, <1>7, ListChangesKeep DEF TypeOK

LEMMA GitLabChangesKeep ==
    ASSUME GitLabInv,
           \/ GroupDeleted \/ GroupMoved \/ GroupCreatedByHand
           \/ \E u \in User : AccountState(u)
           \/ \E g \in Gid, u \in User : AdminRevokes(g, u) \/ \E m \in Grants : AdminGrants(g, u, m)
    PROVE  GitLabInv'
<1>1. TypeOK /\ RowsDistinct
  BY DEF GitLabInv
<1>2. CASE GroupMoved
  BY <1>1, <1>2, UnaffectedKeeps, RowsKept DEF GroupMoved, TypeOK
<1>3. CASE GroupCreatedByHand
  <2>1. /\ path' = FreshId /\ alive' = alive \cup {FreshId} /\ used' = used \cup {FreshId}
        /\ FreshId \in Gid
    BY <1>3, FreshIdType DEF GroupCreatedByHand, NewGroup
  <2> QED
    BY <1>1, <1>3, <2>1, UnaffectedKeeps, RowsKept DEF GroupCreatedByHand, TypeOK
<1>4. ASSUME NEW u \in User, AccountState(u)
      PROVE  GitLabInv'
  <2>1. accounts' \in SUBSET User
    BY <1>1, <1>4 DEF AccountState, TypeOK
  <2> QED
    BY <1>1, <1>4, <2>1, UnaffectedKeeps, RowsKept DEF AccountState, TypeOK
<1> QED
  BY <1>2, <1>3, <1>4, GroupDeletedKeeps, AdminGrantsKeep, AdminRevokesKeep

(* What the invariant says of Keycloak, it says of a quiet one. *)
LEMMA KeycloakChangesKeep ==
    ASSUME GitLabInv, SourceSelection \/ \E u \in User : KeycloakMembership(u)
    PROVE  GitLabInv'
<1> DEFINE q == run.pc \in {"idle", "down"}
<1>1. /\ run \in Runs /\ TypeOK /\ Env /\ run' = [run EXCEPT !.quiet = q]
      /\ UNCHANGED <<rule, accounts, path, alive, used, members, rows, value, survivors, faults, made,
                     observed, disturbed>>
  BY DEF GitLabInv, TypeOK, SourceSelection, KeycloakMembership, KeycloakChanges, ledger, history
<1>2. q \in BOOLEAN
  OBVIOUS
<1>3. run' \in Runs /\ SameRun(run') /\ run'.steady = run.steady /\ run'.quiet = q
  <2> HIDE DEF q
  <2> QED
    BY <1>1, <1>2 DEF Runs, SameRun
<1>4. selected' \in BOOLEAN /\ source' \in [User -> Memberships]
  <2>1. CASE SourceSelection
    BY <1>1, <2>1 DEF SourceSelection, TypeOK
  <2>2. ASSUME NEW u \in User, KeycloakMembership(u)
        PROVE  selected' \in BOOLEAN /\ source' \in [User -> Memberships]
    BY <1>1, <2>2 DEF KeycloakMembership, TypeOK
  <2> QED
    BY <2>1, <2>2
<1>5. TypeOK' /\ RowsDistinct'
  BY <1>1, <1>3, <1>4, EnvsType, RowsKept DEF GitLabInv, TypeOK
<1>6. SnapshotComplete'
  <2>1. CASE run.pc \in {"idle", "down"}
    BY <1>3, <2>1 DEF GitLabInv, SnapshotComplete, Planned, SameRun
  <2>2. CASE run.pc \notin {"idle", "down"}
    <3>1. q = FALSE
      BY <2>2
    <3> HIDE DEF q
    <3>2. run'.quiet = FALSE
      BY <1>3, <3>1
    <3> QED
      BY <1>3, <3>2 DEF GitLabInv, SnapshotComplete, SameRun
  <2> QED
    BY <2>1, <2>2
<1> QED
  BY <1>1, <1>3, <1>5, <1>6, WorldChangeKeeps

-------------------------------------------------------------------------------
(* The invariant *)

LEMMA StutterKeeps == ASSUME GitLabInv, UNCHANGED vars PROVE GitLabInv'
<1>1. UNCHANGED <<rule, selected, source, accounts, path, alive, used, members, rows, value, survivors,
                  run, envs, faults, made, observed, disturbed>>
  BY DEF vars, world, ledger, history
<1>2. TypeOK' /\ RowsDistinct'
  BY <1>1, RowsKept DEF GitLabInv, TypeOK
<1>3. SnapshotComplete'
  BY <1>1 DEF GitLabInv, SnapshotComplete, Present, Enabled
<1>4. SameRun(run') /\ run'.steady = run.steady
  BY <1>1 DEF SameRun
<1> QED
  BY <1>1, <1>2, <1>3, <1>4, WorldChangeKeeps

LEMMA GitLabStep == GitLabInv /\ [Next]_vars => GitLabInv'
<1> SUFFICES ASSUME GitLabInv, [Next]_vars PROVE GitLabInv'
  OBVIOUS
<1>1. CASE Restart \/ Kill
  BY <1>1, ProcessKeeps
<1>2. CASE Start \/ StartTombstone
  BY <1>2, StartKeeps
<1>3. CASE StartEmpty \/ UNCHANGED vars
  BY <1>3, StutterKeeps DEF StartEmpty
<1>4. CASE \/ CallFails \/ ReadPageGone \/ CreateGroupRefused \/ BindRefused
           \/ ListMembersRefused \/ AddMemberRefused \/ UpdateMemberRefused
  BY <1>4, RefusalGivesUp, GivesUpKeeps
<1>5. CASE ReadPage
  BY <1>5, ReadPageKeeps
<1>6. CASE EnsureFound \/ EnsureMissing \/ CreateGroupFound
  BY <1>6, EnsureKeeps
<1>7. CASE CreateGroup
  BY <1>7, CreateGroupKeeps
<1>8. CASE Bind
  BY <1>8, BindKeeps
<1>9. CASE ListMembers
  BY <1>9, ListMembersKeeps
<1>10. CASE ResolveDone \/ ApplyDone \/ (\E u \in User : ResolveUser(u))
  BY <1>10, ResolveKeeps
<1>11. CASE \E u \in User : ApplyAdd(u) \/ ApplyKeep(u) \/ ApplyUpdate(u) \/ ApplyRefused(u)
  BY <1>11, ApplyKeeps
<1>12. CASE AddMember \/ UpdateMember
  BY <1>12, ChangeKeeps
<1>13. CASE VerifyAdd \/ VerifyUpdate
  BY <1>13, VerifyKeeps
<1>14. CASE MarkAdded
  BY <1>14, MarkAddedKeeps
<1>15. CASE CurrentIdentity
  BY <1>15, IdentityKeeps
<1>16. CASE PlanSkip
  BY <1>16, PlanSkipKeeps
<1>17. CASE PlanRemoval
  BY <1>17, PlanRemovalKeeps
<1>18. CASE PlanDone
  BY <1>18, PlanDoneKeeps
<1>19. CASE RemoveMember
  BY <1>19, RemoveMemberKeeps
<1>20. CASE UnmarkRemoved \/ ClearAbsence
  BY <1>20, UnmarkKeeps
<1>21. CASE RemoveDone
  BY <1>21, RemoveDoneKeeps
<1>22. CASE Retire
  BY <1>22, RetireKeeps
<1>23. CASE Others
  BY <1>23, GitLabChangesKeep, KeycloakChangesKeep DEF Others
<1> QED
  BY <1>1, <1>2, <1>3, <1>4, <1>5, <1>6, <1>7, <1>8, <1>9, <1>10, <1>11, <1>12, <1>13, <1>14,
     <1>15, <1>16, <1>17, <1>18, <1>19, <1>20, <1>21, <1>22, <1>23
  DEF Next, Client

(* The inductive invariant holds in every state that SyncGroup, Keycloak,  *)
(* GitLab, failed calls and saves, kills and restarts can reach.           *)
THEOREM GitLabInvariant == Spec => []GitLabInv
BY GitLabInit, GitLabStep, PTL DEF Spec

(* Every variable keeps its type: the locals of the run, the ledger and    *)
(* every version of it that a restart can find.                            *)
THEOREM GitLabTypeOK == Spec => []TypeOK
<1>1. GitLabInv => TypeOK
  BY DEF GitLabInv
<1> QED
  BY GitLabInvariant, <1>1, PTL

(* The circuit breaker: one run never deletes more than maxRemovals        *)
(* memberships, whatever the rule and however many users it could remove.  *)
THEOREM GitLabBreakerHolds == Spec => []BreakerHolds
<1>1. GitLabInv => BreakerHolds
  BY DEF GitLabInv, WithinBreaker
<1> QED
  BY GitLabInvariant, <1>1, PTL

(* MarkManaged follows a successful AddMember only: no version of the      *)
(* ledger claims a membership that GroupBridge did not create.             *)
THEOREM GitLabRecordsTruthful == Spec => []RecordsTruthful
<1>1. GitLabInv => RecordsTruthful
  BY DEF GitLabInv, LedgerTruthful, Truthful, RecordsTruthful
<1> QED
  BY GitLabInvariant, <1>1, PTL

-------------------------------------------------------------------------------
(* What a change of a membership, and a removal, come from *)

(* Everybody else is counted by envs. *)
LEMMA ClientWrites ==
    ASSUME GitLabInv, Next, NEW g \in Gid, NEW u \in User, ClientChanges(g, u)
    PROVE  /\ g = run.gid
           /\ \/ (AddMember \/ UpdateMember) /\ u = run.cur
              \/ RemoveMember /\ u = Head(run.removals)
<1>1. envs' = envs /\ members' # members
  BY DEF ClientChanges
<1>2. ~Others
  <2>1. Others => Env
    BY DEF Others, KeycloakMembership, SourceSelection, AccountState, AdminGrants,
           AdminRevokes, GroupDeleted, GroupMoved, GroupCreatedByHand
  <2>2. ~Env
    BY <1>1 DEF Env, GitLabInv, TypeOK
  <2> QED
    BY <2>1, <2>2
<1>3. AddMember \/ UpdateMember \/ RemoveMember
  BY <1>1, <1>2
     DEF Next, Client, CallFails, Kill, Restart, Start, StartTombstone, StartEmpty, ReadPage,
         ReadPageGone, EnsureFound, EnsureMissing, CreateGroup, CreateGroupFound, CreateGroupRefused,
         Bind, BindRefused, ListMembers, ListMembersRefused, ResolveDone, ResolveUser, ApplyAdd,
         ApplyKeep, ApplyUpdate, ApplyRefused, ResetAndGo, AddMemberRefused, VerifyAdd, MarkAdded,
         UpdateMemberRefused, VerifyUpdate, ApplyDone, CurrentIdentity, PlanSkip, PlanRemoval,
         PlanDone, UnmarkRemoved, ClearAbsence, RemoveDone, Retire, world, vars
<1>4. members \in [Gid -> [User -> MemberType]] /\ run.pc \in {"add", "update", "remove"}
  <2>1. ASSUME AddMember PROVE run.pc = "add"
    BY <2>1 DEF AddMember
  <2>2. ASSUME UpdateMember PROVE run.pc = "update"
    BY <2>2 DEF UpdateMember
  <2>3. ASSUME RemoveMember PROVE run.pc = "remove"
    BY <2>3 DEF RemoveMember
  <2> QED
    BY <1>3, <2>1, <2>2, <2>3 DEF GitLabInv, TypeOK
<1>5. run.gid \in Gid
  BY <1>4 DEF GitLabInv, Settled, Unbound
<1>6. ASSUME NEW v \in User, NEW m, members' = [members EXCEPT ![run.gid][v] = m]
      PROVE  g = run.gid /\ u = v
  <2>1. ASSUME g # run.gid \/ u # v
        PROVE  members'[g][u] = members[g][u]
    <3>1. CASE g # run.gid
      BY <1>4, <1>5, <1>6, <3>1
    <3>2. CASE g = run.gid /\ u # v
      <4>1. members'[g] = [members[g] EXCEPT ![v] = m] /\ members[g] \in [User -> MemberType]
        BY <1>4, <1>6, <3>2
      <4> QED
        BY <3>2, <4>1
    <3> QED
      BY <2>1, <3>1, <3>2
  <2> QED
    BY <2>1 DEF ClientChanges
<1>7. CASE AddMember \/ UpdateMember
  <2>1. run.cur \in User
    BY <1>7 DEF GitLabInv, UserInHand, AddMember, UpdateMember
  <2> QED
    BY <1>6, <1>7, <2>1 DEF AddMember, UpdateMember, SetCurrent
<1>8. CASE RemoveMember
  <2>1. Head(run.removals) \in User
    BY <1>8, RemovalsTail DEF RemoveMember
  <2> QED
    BY <1>6, <1>8, <2>1 DEF RemoveMember
<1> QED
  BY <1>3, <1>7, <1>8

(* AddMember and UpdateMember leave a member; only the plan removes. *)
LEMMA ClientRemovesPlanned ==
    ASSUME GitLabInv, Next, NEW g \in Gid, NEW u \in User, ClientRemoves(g, u)
    PROVE  g = run.gid /\ run.pc = "remove" /\ Justified(u)
<1>1. ClientChanges(g, u) /\ members'[g][u] = NoMember
  BY DEF ClientRemoves
<1>2. CASE (AddMember \/ UpdateMember) /\ u = run.cur /\ g = run.gid
  <2>1. members' = [members EXCEPT ![g][u] = [level |-> Level, custom |-> FALSE]]
    BY <1>2 DEF AddMember, UpdateMember, SetCurrent
  <2>2. members'[g][u] = [level |-> Level, custom |-> FALSE]
    BY <2>1 DEF GitLabInv, TypeOK
  <2> QED
    BY <1>1, <2>2 DEF NoMember, Level
<1>3. CASE RemoveMember /\ u = Head(run.removals) /\ g = run.gid
  <2>1. run.pc = "remove" /\ run.removals # <<>>
    BY <1>3 DEF RemoveMember
  <2>2. run.removals[1] = u /\ 1 \in 1..Len(run.removals)
    <3>1. run.removals \in Seq(User)
      BY DEF GitLabInv, TypeOK, Runs
    <3> QED
      BY <1>3, <2>1, <3>1, TailFacts
  <2> QED
    BY <1>3, <2>1, <2>2 DEF GitLabInv, RemovalsJustified
<1> QED
  BY <1>1, <1>2, <1>3, ClientWrites

-------------------------------------------------------------------------------
(* What every removal, and every change, by SyncGroup has behind it *)

(* The gate of ConfirmAbsent and ResetAbsent: every removal comes after    *)
(* two runs that found the membership missing since the last sync, whatever *)
(* crashed, failed or was lost in between - or its path has left Git, or   *)
(* somebody joined or left GitLab's group between two pages of such a run. *)
THEOREM GitLabSteadyRemovalSeenTwice == Spec => SteadyRemovalSeenTwice
<1> DEFINE A == \A g \in Gid, u \in User :
                   ClientRemoves(g, u) =>
                      observed[<<g, u>>] >= 2 \/ (run.tomb /\ rule.allowlist) \/ <<g, u>> \in disturbed
<1>1. GitLabInv /\ [Next]_vars => [A]_vars
  <2> SUFFICES ASSUME GitLabInv, Next, NEW g \in Gid, NEW u \in User, ClientRemoves(g, u)
               PROVE  observed[<<g, u>>] >= 2 \/ (run.tomb /\ rule.allowlist) \/ <<g, u>> \in disturbed
    OBVIOUS
  <2> QED
    BY ClientRemovesPlanned DEF Justified, Key, Immediate
<1> QED
  BY GitLabInvariant, <1>1, PTL DEF Spec, SteadyRemovalSeenTwice, Immediate

(* managed-only removes only what GroupBridge created, "none" nothing. *)
THEOREM GitLabOnlyOwnRemoved == Spec => OnlyOwnRemoved
<1> DEFINE A == \A g \in Gid, u \in User :
                   ClientRemoves(g, u) => \/ rule.prune = "authoritative"
                                          \/ rule.prune = "managed-only" /\ <<g, u>> \in made
<1>1. GitLabInv /\ [Next]_vars => [A]_vars
  <2> SUFFICES ASSUME GitLabInv, Next, NEW g \in Gid, NEW u \in User, ClientRemoves(g, u)
               PROVE  \/ rule.prune = "authoritative"
                      \/ rule.prune = "managed-only" /\ <<g, u>> \in made
    OBVIOUS
  <2> QED
    BY ClientRemovesPlanned DEF Justified, Key
<1> QED
  BY GitLabInvariant, <1>1, PTL DEF Spec, OnlyOwnRemoved

(* Neither the token's own user nor a protected user is ever removed. *)
THEOREM GitLabPrincipalsKept == Spec => PrincipalsKept
<1> DEFINE A == \A g \in Gid, u \in User :
                   ClientRemoves(g, u) => u # rule.self /\ u \notin rule.protected
<1>1. GitLabInv /\ [Next]_vars => [A]_vars
  <2> SUFFICES ASSUME GitLabInv, Next, NEW g \in Gid, NEW u \in User, ClientRemoves(g, u)
               PROVE  u # rule.self /\ u \notin rule.protected
    OBVIOUS
  <2> QED
    BY ClientRemovesPlanned DEF Justified
<1> QED
  BY GitLabInvariant, <1>1, PTL DEF Spec, PrincipalsKept

(* A run over a Keycloak that did not change meanwhile removes nobody who  *)
(* belongs to the group: pages that end early, accounts that do not        *)
(* resolve and stale observations never make a member look absent.         *)
THEOREM GitLabQuietMeansGone == Spec => QuietMeansGone
<1> DEFINE A == \A g \in Gid, u \in User : ClientRemoves(g, u) /\ run.quiet => u \notin Wanted
<1>1. GitLabInv /\ [Next]_vars => [A]_vars
  <2> SUFFICES ASSUME GitLabInv, Next, NEW g \in Gid, NEW u \in User, ClientRemoves(g, u), run.quiet
               PROVE  u \notin Wanted
    OBVIOUS
  <2>1. run.pc = "remove" /\ u \notin run.desired
    BY ClientRemovesPlanned DEF Justified
  <2>2. u \notin run.snap
    BY <2>1 DEF GitLabInv, SnapshotComplete, Planned
  <2>3. CASE run.tomb
    BY <2>3 DEF GitLabInv, SnapshotComplete, Wanted
  <2>4. CASE ~run.tomb
    BY <2>1, <2>2, <2>4 DEF GitLabInv, SnapshotComplete, Wanted
  <2> QED
    BY <2>3, <2>4
<1> QED
  BY GitLabInvariant, <1>1, PTL DEF Spec, QuietMeansGone

(* No membership changes before the binding of the source to that very     *)
(* group is what every restart will find, or after it is retired.          *)
THEOREM GitLabBoundBeforeChange == Spec => BoundBeforeChange
<1> DEFINE A == \A g \in Gid, u \in User :
                   ClientChanges(g, u) =>
                      \A c \in survivors : Mapped(c, Src) /\ c.groups[Src].target = g
<1>1. GitLabInv /\ [Next]_vars => [A]_vars
  <2> SUFFICES ASSUME GitLabInv, Next, NEW g \in Gid, NEW u \in User, ClientChanges(g, u)
               PROVE  \A c \in survivors : Mapped(c, Src) /\ c.groups[Src].target = g
    OBVIOUS
  <2>1. g = run.gid /\ (AddMember \/ UpdateMember \/ RemoveMember)
    BY ClientWrites
  <2>2. run.pc \in {"add", "update", "remove"}
    <3>1. ASSUME AddMember PROVE run.pc = "add"
      BY <3>1 DEF AddMember
    <3>2. ASSUME UpdateMember PROVE run.pc = "update"
      BY <3>2 DEF UpdateMember
    <3>3. ASSUME RemoveMember PROVE run.pc = "remove"
      BY <3>3 DEF RemoveMember
    <3> QED
      BY <2>1, <3>1, <3>2, <3>3
  <2>3. survivors = {value} /\ Mapped(value, Src) /\ value.groups[Src].target = run.gid
    BY <2>2 DEF GitLabInv, Settled, Unbound
  <2> QED
    BY <2>1, <2>3
<1> QED
  BY GitLabInvariant, <1>1, PTL DEF Spec, BoundBeforeChange

-------------------------------------------------------------------------------
(* Every step of the model, as the ledger sees it *)

LedgerRest == UNCHANGED <<value, survivors>>

(* One operation of the Store, which makes c of the contents, returns. *)
LedgerOperation(c) ==
    /\ value # Closed
    /\ c \in Results(value)
    /\ \/ value' = c /\ survivors' = {c}
       \/ value' = value /\ survivors' \in {survivors, survivors \cup {c}}

(* The steps without a save. *)
LEMMA LedgerRests ==
    \/ Start \/ StartTombstone \/ StartEmpty \/ ReadPage \/ ReadPageGone
    \/ EnsureFound \/ EnsureMissing \/ CreateGroup \/ CreateGroupFound \/ CreateGroupRefused
    \/ BindRefused
    \/ ListMembers \/ ListMembersRefused \/ ResolveDone \/ AddMember \/ AddMemberRefused
    \/ VerifyAdd \/ UpdateMember \/ UpdateMemberRefused \/ VerifyUpdate
    \/ ApplyDone \/ CurrentIdentity \/ PlanSkip \/ PlanDone \/ RemoveMember \/ RemoveDone
    \/ CallFails \/ Others \/ (\E u \in User : ResolveUser(u)) \/ UNCHANGED vars
    => LedgerRest
<1>1. ASSUME UNCHANGED ledger PROVE LedgerRest
  BY <1>1 DEF ledger, LedgerRest
<1>2. Start \/ StartTombstone \/ StartEmpty \/ ReadPage \/ EnsureFound \/ EnsureMissing
      \/ CreateGroupFound => UNCHANGED ledger
  BY DEF Start, StartTombstone, StartEmpty, ReadPage, EnsureFound, EnsureMissing, CreateGroupFound, vars
<1>3. ListMembers \/ ResolveDone \/ VerifyAdd \/ VerifyUpdate \/ ApplyDone => UNCHANGED ledger
  BY DEF ListMembers, ResolveDone, VerifyAdd, VerifyUpdate, ApplyDone
<1>4. CurrentIdentity \/ PlanSkip \/ PlanDone \/ RemoveDone \/ CallFails \/ UNCHANGED vars
      => UNCHANGED ledger
  BY DEF CurrentIdentity, PlanSkip, PlanDone, RemoveDone, CallFails, vars
<1>5. ReadPageGone \/ CreateGroupRefused \/ BindRefused \/ ListMembersRefused \/ AddMemberRefused
      \/ UpdateMemberRefused => UNCHANGED ledger
  BY DEF ReadPageGone, CreateGroupRefused, BindRefused, ListMembersRefused, AddMemberRefused,
         UpdateMemberRefused, Refuse
<1>6. CreateGroup \/ AddMember \/ UpdateMember => UNCHANGED ledger
  <2>1. CreateGroup => UNCHANGED ledger
    BY DEF CreateGroup
  <2>2. AddMember \/ UpdateMember => UNCHANGED ledger
    BY DEF AddMember, UpdateMember
  <2> QED
    BY <2>1, <2>2
<1>7. RemoveMember \/ (\E u \in User : ResolveUser(u)) => UNCHANGED ledger
  <2>1. (\E u \in User : ResolveUser(u)) => UNCHANGED ledger
    BY DEF ResolveUser
  <2>2. RemoveMember => UNCHANGED ledger
    BY DEF RemoveMember
  <2> QED
    BY <2>1, <2>2
<1>8. Others => UNCHANGED ledger
  <2>1. Others => Unaffected \/ KeycloakChanges \/ \E g : ListChanges(g)
    BY DEF Others, KeycloakMembership, SourceSelection, AccountState, AdminGrants,
           AdminRevokes, GroupDeleted, GroupMoved, GroupCreatedByHand
  <2> QED
    BY <2>1 DEF Unaffected, KeycloakChanges, ListChanges
<1> QED
  BY <1>1, <1>2, <1>3, <1>4, <1>5, <1>6, <1>7, <1>8

(* A step leaves the ledger alone, opens or loses it, or is one operation  *)
(* of the Store, of which only the retirement unmaps the source.           *)
LEMMA LedgerUse ==
    ASSUME GitLabInv, [Next]_vars
    PROVE  \/ LedgerRest \/ Restart \/ Kill
           \/ \E c \in Contents : LedgerOperation(c) /\ (Mapped(value, Src) => Mapped(c, Src))
           \/ run.pc = "retire" /\ LedgerOperation(DeleteGroup(value, Src))
<1> DEFINE Op == \E c \in Contents : LedgerOperation(c) /\ (Mapped(value, Src) => Mapped(c, Src))
<1>1. ASSUME run.pc # "down"
      PROVE  value \in Contents /\ value # Closed
  BY <1>1 DEF GitLabInv, TypeOK, LedgerTruthful
<1>2. ASSUME NEW c \in Contents, NEW next, Save(c, next), c \in Results(value), run.pc # "down",
             c.groups = value.groups
      PROVE  Op
  BY <1>1, <1>2 DEF Save, LedgerOperation, Mapped
<1>3. ASSUME NEW u \in User, run.pc \notin Unbound
      PROVE  Key(u) \in Gid \X User
  BY <1>3 DEF GitLabInv, Settled, Key
<1>4. CASE Bind
  <2> DEFINE c == PutGroup(value, Src, Binding)
  <2>1. Binding \in Mapping /\ value \in Contents /\ value # Closed /\ Save(c, Goto("list"))
    BY <1>1, <1>4, BindingType DEF Bind
  <2>2. c \in Contents /\ c.groups[Src] = Binding
    BY <2>1, OperationsType DEF PutGroup, Contents
  <2>3. c \in Results(value) /\ Mapped(c, Src)
    BY <2>1, <2>2, LedgerAssumption DEF Results, Mapped
  <2> HIDE DEF c
  <2> QED
    BY <2>1, <2>2, <2>3 DEF Save, LedgerOperation
<1>5. ASSUME NEW u \in User, ApplyAdd(u) \/ ApplyKeep(u) \/ ApplyUpdate(u) \/ ApplyRefused(u)
      PROVE  Op \/ LedgerRest
  <2>1. PICK next : ResetAndGo(u, next)
    BY <1>5 DEF ApplyAdd, ApplyKeep, ApplyUpdate, ApplyRefused
  <2>2. run.pc = "apply" /\ value \in Contents /\ Key(u) \in Gid \X User
    BY <1>1, <1>3, <2>1 DEF ResetAndGo, Unbound
  <2>3. CASE value.absences[Key(u)] > 0 /\ Save(ResetAbsent(value, Key(u)), next)
    <3>1. ResetAbsent(value, Key(u)) \in Contents /\ ResetAbsent(value, Key(u)).groups = value.groups
      BY <2>2, OperationsType DEF ResetAbsent, Contents
    <3>2. ResetAbsent(value, Key(u)) \in Results(value)
      BY <2>2, <2>3 DEF Results
    <3> QED
      BY <1>2, <2>2, <2>3, <3>1, <3>2
  <2> QED
    BY <2>1, <2>3 DEF ResetAndGo, LedgerRest, ledger
<1>6. CASE MarkAdded
  <2>1. /\ run.pc = "mark" /\ value \in Contents /\ Key(run.cur) \in Gid \X User
        /\ Save(MarkManaged(value, Key(run.cur)), [run EXCEPT !.pc = "apply", !.cur = NoUser])
    BY <1>1, <1>3, <1>6 DEF MarkAdded, Unbound, GitLabInv, UserInHand
  <2>2. /\ MarkManaged(value, Key(run.cur)) \in Contents
        /\ MarkManaged(value, Key(run.cur)).groups = value.groups
    BY <2>1, OperationsType DEF MarkManaged, Contents
  <2>3. MarkManaged(value, Key(run.cur)) \in Results(value)
    BY <2>1 DEF Results
  <2> QED
    BY <1>2, <2>1, <2>2, <2>3
<1>7. ASSUME PlanRemoval
      PROVE  Op \/ LedgerRest
  <2> DEFINE u == Head(run.entries).user
             c == ConfirmAbsent(value, Key(u))
  <2>1. run.pc = "plan" /\ value \in Contents /\ run.entries # <<>>
    BY <1>1, <1>7 DEF PlanRemoval
  <2>2. LedgerRest \/ \E next : Save(c, next)
    BY <1>7 DEF PlanRemoval, LedgerRest, ledger
  <2>3. u \in User
    BY <2>1, EntriesTail DEF Entry
  <2> HIDE DEF u
  <2>4. Key(u) \in Gid \X User
    BY <1>3, <2>1, <2>3 DEF Unbound
  <2>5. c \in Contents /\ c.groups = value.groups
    BY <2>1, <2>4, OperationsType DEF ConfirmAbsent, Contents
  <2>6. c \in Results(value)
    BY <2>1, <2>4 DEF Results
  <2> HIDE DEF c
  <2> QED
    BY <1>2, <2>1, <2>2, <2>5, <2>6
<1>8. CASE UnmarkRemoved
  <2>1. /\ run.pc = "unmark" /\ value \in Contents /\ Key(run.cur) \in Gid \X User
        /\ Save(Unmark(value, Key(run.cur)), Goto("clear"))
    BY <1>1, <1>3, <1>8 DEF UnmarkRemoved, Unbound, GitLabInv, UserInHand
  <2>2. Unmark(value, Key(run.cur)) \in Contents /\ Unmark(value, Key(run.cur)).groups = value.groups
    BY <2>1, OperationsType DEF Unmark, Contents
  <2>3. Unmark(value, Key(run.cur)) \in Results(value)
    BY <2>1 DEF Results
  <2> QED
    BY <1>2, <2>1, <2>2, <2>3
<1>9. CASE ClearAbsence
  <2>1. run.pc = "clear" /\ value \in Contents /\ Key(run.cur) \in Gid \X User
    BY <1>1, <1>3, <1>9 DEF ClearAbsence, Unbound, GitLabInv, UserInHand
  <2>2. CASE value.absences[Key(run.cur)] > 0
    <3>1. /\ ResetAbsent(value, Key(run.cur)) \in Contents
          /\ ResetAbsent(value, Key(run.cur)).groups = value.groups
      BY <2>1, OperationsType DEF ResetAbsent, Contents
    <3>2. ResetAbsent(value, Key(run.cur)) \in Results(value)
      BY <2>1, <2>2 DEF Results
    <3>3. \E next : Save(ResetAbsent(value, Key(run.cur)), next)
      BY <1>9, <2>2 DEF ClearAbsence
    <3> QED
      BY <1>2, <2>1, <3>1, <3>2, <3>3
  <2> QED
    BY <1>9, <2>2 DEF ClearAbsence, LedgerRest, ledger
<1>10. CASE Retire
  <2>1. run.pc = "retire" /\ value # Closed /\ Mapped(value, Src) /\ Save(DeleteGroup(value, Src), Idle)
    BY <1>1, <1>10 DEF Retire, GitLabInv, Settled, Unbound
  <2>2. DeleteGroup(value, Src) \in Results(value)
    BY <2>1 DEF Results
  <2> QED
    BY <2>1, <2>2 DEF Save, LedgerOperation
<1> QED
  BY <1>4, <1>5, <1>6, <1>7, <1>8, <1>9, <1>10, LedgerRests DEF Next, Client

(* A mapping goes only with the access it stood for: when a tombstone is   *)
(* retired, no recorded membership is left that the run saw and was        *)
(* allowed to remove.                                                      *)
THEOREM GitLabRetiredMeansRevoked == Spec => RetiredMeansRevoked
<1> DEFINE A == value # Closed /\ value' # Closed /\ Mapped(value, Src) /\ ~Mapped(value', Src) =>
                   \A u \in User :
                      LET g == value.groups[Src].target
                      IN  <<g, u>> \in value.records /\ members[g][u] # NoMember =>
                             ~Listed(u) \/ Exempt(u, run.listed[u]) \/ rule.prune = "none"
<1>1. GitLabInv /\ [Next]_vars => [A]_vars
  <2> SUFFICES ASSUME GitLabInv, [Next]_vars, value # Closed, value' # Closed,
                      Mapped(value, Src), ~Mapped(value', Src),
                      NEW u \in User, <<value.groups[Src].target, u>> \in value.records
               PROVE  ~Listed(u) \/ Exempt(u, run.listed[u]) \/ rule.prune = "none"
    BY DEF A
  <2>1. value' # value
    BY DEF Mapped
  <2>2. ~Restart /\ ~Kill
    BY DEF Restart, Kill, GitLabInv, LedgerTruthful
  <2>3. run.pc = "retire"
    BY <2>1, <2>2, LedgerUse DEF LedgerRest, LedgerOperation
  <2>4. /\ value.groups[Src].target = run.gid /\ run.tomb /\ ~run.pending
        /\ run.entries = <<>> /\ run.removals = <<>>
    BY <2>3 DEF GitLabInv, Settled, Unbound, RevocationsLeft, Planned
  <2>5. Len(run.entries) = 0 /\ Len(run.removals) = 0
    BY <2>4
  <2>6. ~Revocable(u)
    BY <2>3, <2>4, <2>5 DEF GitLabInv, RevocationsLeft, Planned
  <2> QED
    BY <2>4, <2>6 DEF Revocable, Key
<1> QED
  BY GitLabInvariant, <1>1, PTL DEF Spec, RetiredMeansRevoked

LEMMA SameResults == ASSUME NEW c PROVE Atomic!Results(c) = Results(c)
BY DEF Results, Atomic!Results, MarkManaged, Atomic!MarkManaged, Unmark, Atomic!Unmark,
       PutGroup, Atomic!PutGroup, DeleteGroup, Atomic!DeleteGroup, Mapped, Atomic!Mapped,
       MoveGroup, Atomic!MoveGroup, CanMoveGroup, Atomic!CanMoveGroup,
       ConfirmAbsent, Atomic!ConfirmAbsent, ResetAbsent, Atomic!ResetAbsent,
       Mapping, Atomic!Mapping

LEMMA LedgerStepImplements == GitLabInv /\ [Next]_vars => [Atomic!Next]_(Atomic!vars)
<1> SUFFICES ASSUME GitLabInv, [Next]_vars PROVE [Atomic!Next]_(Atomic!vars)
  OBVIOUS
<1>1. ASSUME NEW c, LedgerOperation(c)
      PROVE  [Atomic!Next]_(Atomic!vars)
  <2>1. value # Closed /\ c \in Atomic!Results(value)
    BY <1>1, SameResults DEF LedgerOperation
  <2>2. CASE value' = c /\ survivors' = {c}
    BY <2>1, <2>2 DEF Atomic!Next, Atomic!Commit
  <2>3. CASE value' = value /\ survivors' = survivors \cup {c}
    BY <2>1, <2>3 DEF Atomic!Next, Atomic!Attempt
  <2>4. CASE value' = value /\ survivors' = survivors
    BY <2>4 DEF Atomic!vars
  <2> QED
    BY <1>1, <2>2, <2>3, <2>4 DEF LedgerOperation
<1>2. CASE LedgerRest
  BY <1>2 DEF LedgerRest, Atomic!vars
<1>3. CASE Restart
  BY <1>3 DEF Restart, GitLabInv, LedgerTruthful, Atomic!Next, Atomic!Open
<1>4. CASE Kill
  BY <1>4 DEF Kill, GitLabInv, LedgerTruthful, Atomic!Next, Atomic!Stop
<1> QED
  BY <1>1, <1>2, <1>3, <1>4, LedgerUse

(* Between them, the steps, failures and crashes of SyncGroup use the      *)
(* ledger as AtomicLedger allows and in no other way: with                 *)
(* LedgerImplementsAtomicLedger, what is proved here on the interface      *)
(* holds over the state file.                                              *)
THEOREM GitLabUsesAtomicLedger == Spec => UsesAtomicLedger
<1>1. Init => Atomic!Init
  BY DEF Init, Atomic!Init, EmptyContents, Atomic!EmptyContents
<1> QED
  BY <1>1, LedgerStepImplements, GitLabInvariant, PTL DEF Spec, UsesAtomicLedger, Atomic!Spec
===============================================================================
