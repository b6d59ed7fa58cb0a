---------------------------- MODULE MCGitActions ----------------------------
(* Instances of GitActions for TLC. *)
EXTENDS GitActions, MCPlanGraph

GitSymmetry == Permutations(Attempt) \cup Permutations(Worktree) \cup Permutations(Call)

\* A component and the integration node above it.
LineageGraph ==
    { IntegrationOnly({r1, r2}, (r1 :> {}) @@ (r2 :> {r1}), (r1 :> {Room}) @@ (r2 :> {Src}), r2) }

\* The integration node alone: all three operations on one node.
IntegrationNode == { IntegrationOnly({r1}, r1 :> {}, r1 :> {Room}, r1) }

\* A node whose worktree the Git Controller creates.
SingleNode == { PerTask({r1}, r1 :> {}, r1 :> {Room}, 1) }

\* The way of a plan from its first worktree to its integration, without what only
\* multiplies the states of that way: once the plan is approved its planner rests,
\* attempts end without a question and are approved without findings, and one worktree
\* has changes at a time.
Undisturbed ==
    /\ HasCurrent => room' = room
    /\ \A a \in Attempt :
          /\ attempt'[a].status \in {"absent", "running", "succeeded"}
          /\ review'[a] \in {"none", "clean"} /\ decision'[a] \in {"none", "approved"}
    /\ Cardinality({w \in Worktree : dirty'[w] # {}}) <= 1

\* The whole way, one call at a time and one worktree approved for a node, where the user
\* lets a preview go stale rather than reject it ...
Lineage ==
    /\ revision' # << >> => revision'[1].graph \in LineageGraph
    /\ \A i \in DOMAIN action' : action'[i].status # "rejected"
    /\ Cardinality({c \in Call : call'[c] # Idle}) <= 1
    /\ \A n \in Run :
          Cardinality({i \in DOMAIN action' : /\ action'[i].status # "previewed"
                                              /\ action'[i].preview.node = n
                                              /\ action'[i].preview.operation = "create_worktree"}) <= 1

\* ... or one node alone, a component or the last one, with fewer actions and several
\* calls, which may bind a second worktree to it.
OneNode ==
    /\ \A i \in DOMAIN action' : action'[i].preview.node = r1
    /\ \A a \in Attempt : attempt'[a].run # r2
    /\ Len(action') < MaxAction

LineageSpec == GitInit /\ [][GitNext /\ Undisturbed /\ (Lineage \/ OneNode)]_allVars

OneChange == {{}, InRoom}
BothPlans == LineageGraph \cup IntegrationNode
=============================================================================
