-------------------------- MODULE MCRepoLifecycle --------------------------
(***************************************************************************)
(* Small instances of RepoLifecycle: one or two clients of each kind.       *)
(***************************************************************************)
EXTENDS RepoLifecycle, TLC

CONSTANTS c1, c2, p1, p2, t1, d1, d2, s1, s2

=============================================================================
