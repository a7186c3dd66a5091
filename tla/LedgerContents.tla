---------------------------- MODULE LedgerContents ----------------------------
(***************************************************************************)
(* What the ownership ledger holds and what each operation of state.Store  *)
(* makes of it (src/internal/state/store.go).  The three maps of the Store *)
(* are the three fields of a record; an operation is a function from the   *)
(* old contents to the new ones, and its guard is an operator of its own.  *)
(*                                                                         *)
(* A Member stands for the key (provider, group id, user id), a Source for *)
(* the key (provider, rule, source group id), a Target for the target id   *)
(* and path, a Native for the source-side metadata (native id, path).      *)
(***************************************************************************)
EXTENDS Naturals

CONSTANTS
    Member,           \* keys of managed memberships and of absence records
    Source,           \* keys of source-to-target mappings
    Target,           \* target groups
    Native,           \* source metadata kept with a mapping
    NoMapping,        \* the value of an unmapped source
    MaxObservations   \* bound: counts from here on are one value

ASSUME NoMappingAssumption ==
    NoMapping \notin [target : Target, native : Native, owned : BOOLEAN]

(* The code only ever asks whether a count is at least 2. *)
ASSUME MaxObservationsAssumption == MaxObservations \in Nat /\ MaxObservations >= 2

Mapping == [target : Target, native : Native, owned : BOOLEAN]

Contents == [records  : SUBSET Member,
             groups   : [Source -> Mapping \cup {NoMapping}],
             absences : [Member -> 0..MaxObservations]]

EmptyContents == [records  |-> {},
                  groups   |-> [s \in Source |-> NoMapping],
                  absences |-> [m \in Member |-> 0]]

-------------------------------------------------------------------------------
(* Queries *)

IsManaged(c, m) == m \in c.records

Mapped(c, s) == c.groups[s] # NoMapping

(* The answer of ConfirmAbsent, on the contents it leaves. *)
ConfirmedAbsent(c, m) == c.absences[m] >= 2

-------------------------------------------------------------------------------
(* Operations *)

MarkManaged(c, m) == [c EXCEPT !.records = @ \cup {m}]

Unmark(c, m) == [c EXCEPT !.records = @ \ {m}]

PutGroup(c, s, mapping) == [c EXCEPT !.groups[s] = mapping]

DeleteGroup(c, s) == [c EXCEPT !.groups[s] = NoMapping]

(* MoveGroup rekeys a legacy mapping to its canonical key.  It refuses a   *)
(* missing mapping and a canonical key bound to another target; a canonical*)
(* key bound to the same target absorbs the legacy one.                    *)
CanMoveGroup(c, old, new) ==
    /\ Mapped(c, old)
    /\ Mapped(c, new) => c.groups[new].target = c.groups[old].target

MoveGroup(c, old, new, native) ==
    LET kept == IF Mapped(c, new) THEN c.groups[new] ELSE c.groups[old]
    IN  [c EXCEPT !.groups = [@ EXCEPT ![new] = [kept EXCEPT !.native = native],
                                       ![old] = NoMapping]]

(* Mutant: an observation counts twice. *)
ConfirmAbsentTwice(c, m) == [c EXCEPT !.absences[m] = @ + 2]

(* Adds one observation and returns whether there are two. *)
ConfirmAbsent(c, m) ==
    [c EXCEPT !.absences[m] = IF @ < MaxObservations THEN @ + 1 ELSE @]

ResetAbsent(c, m) == [c EXCEPT !.absences[m] = 0]

(* Everything one operation that reaches saveLocked can make of contents c.*)
(* DeleteGroup and ResetAbsent return without a save when there is nothing *)
(* to delete; the one caller of MoveGroup passes two different keys.       *)
Results(c) ==
         {MarkManaged(c, m) : m \in Member}
    \cup {Unmark(c, m) : m \in Member}
    \cup {PutGroup(c, s, g) : s \in Source, g \in Mapping}
    \cup {DeleteGroup(c, s) : s \in {s \in Source : Mapped(c, s)}}
    \cup {MoveGroup(c, p[1], p[2], p[3]) :
             p \in {p \in Source \X Source \X Native :
                       p[1] # p[2] /\ CanMoveGroup(c, p[1], p[2])}}
    \cup {ConfirmAbsent(c, m) : m \in Member}
    \cup {ResetAbsent(c, m) : m \in {m \in Member : c.absences[m] > 0}}
===============================================================================
