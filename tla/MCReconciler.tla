----------------------------- MODULE MCReconciler -----------------------------
(* Reconciler for TLC: two groups; two paths with a target each, and one     *)
(* that has no safe name in GitLab.                                          *)
EXTENDS Reconciler, TLC

CONSTANTS GitLab, OtherGitLab, Vault, T1, T2

(* One GitLab rule and one Vault rule that selects the first path. *)
OwnTargets ==
    GitLab :> (1 :> T1 @@ 2 :> T2 @@ 3 :> Unsafe)
    @@ Vault :> (1 :> T1 @@ 2 :> Unmatched @@ 3 :> Unmatched)

(* The whole prefix, or the first path only. *)
WholePrefix == [declared |-> FALSE, paths |-> {}]

TwoModes ==
    {GitLab :> a @@ Vault :> WholePrefix :
        a \in {WholePrefix, [declared |-> TRUE, paths |-> {1}]}}

(* Two GitLab rules with a prefix each and one target parent. *)
SharedTarget ==
    GitLab :> (1 :> T1 @@ 2 :> Unmatched) @@ OtherGitLab :> (1 :> Unmatched @@ 2 :> T1)

Prefixes == {[r \in Rule |-> WholePrefix]}
===============================================================================
