----------------------------- MODULE MCGitLabSync -----------------------------
(* GitLabSync for TLC. *)
EXTENDS GitLabSync, TLC

(* The recommended rule of the README. *)
ManagedOnly ==
    [prune |-> "managed-only", create |-> TRUE, adopt |-> FALSE, enforce |-> FALSE,
     protected |-> {}, self |-> NoUser, max |-> 1, allowlist |-> TRUE]

(* A rule that owns the membership of the group and enforces the level. *)
Authoritative ==
    [prune |-> "authoritative", create |-> TRUE, adopt |-> FALSE, enforce |-> TRUE,
     protected |-> {}, self |-> NoUser, max |-> 1, allowlist |-> FALSE]

OneUser == CHOOSE u \in User : \A v \in User : v <= u

(* Two rules, one that protects a user and one whose token belongs to it.  *)
AllRules == {[ManagedOnly EXCEPT !.protected = {OneUser}],
             [Authoritative EXCEPT !.self = OneUser, !.adopt = TRUE]}

(* A guest and a custom role; with them a maintainer and an Owner. *)
FewGrants == {[level |-> 10, custom |-> FALSE], [level |-> 40, custom |-> TRUE]}

AllGrants == FewGrants \cup {[level |-> 40, custom |-> FALSE], [level |-> 50, custom |-> FALSE]}
===============================================================================
