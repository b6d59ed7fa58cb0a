--------------------------- MODULE MCRunLifecycle ---------------------------
(* Instances of RunLifecycle for TLC. *)
EXTENDS RunLifecycle, TLC

\* Runs, attempts, guidance and worktrees are interchangeable identities.
Symmetry ==
    Permutations(Run) \cup Permutations(Attempt)
        \cup Permutations(Guidance) \cup Permutations(Worktree)
=============================================================================
