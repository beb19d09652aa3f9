----------------------------- MODULE GitHistory -----------------------------
(***************************************************************************)
(* The values repository as the operator sees it.  A commit hash names the *)
(* whole history that ends in it, so a revision is modelled by the         *)
(* sequence of commits from the root to that commit; the empty sequence is *)
(* the empty string the code uses for "no revision known yet".             *)
(*                                                                         *)
(* Of a commit only what the operator tells apart is kept: who wrote it,   *)
(* whether every file it touches lies under env/teams/ or teams/, and      *)
(* whether its message carries the "[ci skip]" marker.  id numbers the     *)
(* commits of users, so that two of them never coincide.                   *)
(***************************************************************************)
EXTENDS Naturals, Sequences, FiniteSets, SequencesExt

Scopes == {"teams", "platform"}

\* Every commit of the operator carries the marker.
Commits ==
    [author : {"install", "user"}, id : Nat, scope : Scopes, skip : BOOLEAN]
    \cup [author : {"operator"}, id : Nat, scope : Scopes, skip : {TRUE}]

Histories == Seq(Commits)

\* The commit the installation pushed: message "otomi commit", no marker.
InstallCommit ==
    [author |-> "install", id |-> 0, scope |-> "platform", skip |-> FALSE]

\* What commitAndPush writes outside an installation: 'updated values [ci skip]'.
OperatorCommit(scope) ==
    [author |-> "operator", id |-> 0, scope |-> scope, skip |-> TRUE]

UserCommit(id, scope, skip) ==
    [author |-> "user", id |-> id, scope |-> scope, skip |-> skip]

\* The commits a person made (the installation's counts as one): the work that
\* must reach the cluster.
Work(h) == {c \in ToSet(h) : c.author # "operator"}

PlatformWork(h) == {c \in Work(h) : c.scope = "platform"}

\* The number of commits two histories share.
SharedLength(a, b) ==
    Cardinality({n \in 1..Len(a) : n <= Len(b) /\ SubSeq(a, 1, n) = SubSeq(b, 1, n)})

\* The commits of a that are not ancestors of b.
Ahead(a, b) == SubSeq(a, SharedLength(a, b) + 1, Len(a))

\* git log a...b (simple-git asks for the symmetric difference).
LogBetween(a, b) == ToSet(Ahead(a, b)) \cup ToSet(Ahead(b, a))

\* git diff --name-only a..b, by scope: a commit found on both sides under
\* another hash (a rebased one) leaves no difference behind.
ChangedScopes(a, b) ==
    LET onlyA == ToSet(Ahead(a, b))
        onlyB == ToSet(Ahead(b, a))
    IN {c.scope : c \in (onlyA \ onlyB) \cup (onlyB \ onlyA)}

\* git rebase of local onto upstream, when no commit conflicts.
RebaseOnto(local, upstream) == upstream \o Ahead(local, upstream)

Diverged(local, upstream) ==
    /\ Ahead(local, upstream) # <<>>
    /\ Ahead(upstream, local) # <<>>

=============================================================================
