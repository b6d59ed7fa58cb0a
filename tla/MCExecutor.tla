----------------------------- MODULE MCExecutor -----------------------------
(* Instances of Executor for TLC. *)
EXTENDS Executor, FiniteSets, TLC

\* Identities are interchangeable; used where only safety is checked.
Symmetry ==
    Permutations(Run) \cup Permutations(Attempt)
        \cup Permutations(Worktree) \cup Permutations(Executor)

\* Used attempt IDs, executors started by hand and lost prompts are met by one Run without
\* guidance, the last two in a clean worktree, at which the gate may refuse all the same;
\* crashes and late questions are met by several Runs with guidance.
Scene ==
    /\ \/ FreshIds
       \/ /\ Cardinality({r \in Run : run[r].status # "absent"}) <= 1
          /\ \A g \in Guidance : guidance[g].run = None
    /\ Supervised \/ \A w \in Worktree : dirty[w] = {}

SceneSpec == ExecutorInit /\ [][ExecutorNext /\ UNCHANGED trouble /\ Scene']_<<allVars, trouble>>
=============================================================================
