----------------------------- MODULE MCTaskGraph -----------------------------
(***************************************************************************)
(* All task graphs of a few nodes, and all pairs of small sets of write     *)
(* scopes, each a state of its own that never changes.                     *)
(***************************************************************************)
EXTENDS TaskGraph

CONSTANTS Node, Name, MaxDepth

VARIABLES graph, scopes

Path(depth) == UNION {[1 .. k -> Name] : k \in 0 .. depth}

Scope == {s \in [path : Path(MaxDepth), kind : {"file", "tree"}] : ValidScope(s)}

ScopeSet == {{s, t} : s \in Scope, t \in Scope}

Graphs == [node : {Node}, dep : [Node -> SUBSET Node], scope : [Node -> {{}}], limit : {1},
           policy : {"per_task", "integration_only"}, integration : {{}} \cup {{n} : n \in Node}]

\* Either a graph, or two sets of scopes on a graph without edges.
GraphInit ==
    \/ graph \in Graphs /\ scopes = {}
    \/ /\ \E s \in ScopeSet :
             graph = [node |-> Node, dep |-> [n \in Node |-> {}], scope |-> [n \in Node |-> s],
                      limit |-> 1, policy |-> "per_task", integration |-> {}]
       /\ scopes \in ScopeSet

GraphNext == UNCHANGED <<graph, scopes>>

GraphSpec == GraphInit /\ [][GraphNext]_<<graph, scopes>>

\* scopesOverlap, which compares the scopes' own paths, is true exactly when one
\* more level of directories than any scope names holds a path of either side.
OverlapIsSharedPath ==
    \A n \in Node :
        ScopesOverlap(graph.scope[n], scopes)
            <=> ShareAPath(graph.scope[n], scopes, Path(MaxDepth + 1))

\* A revision that validateTaskGraphRevision admits can be worked off: some order
\* of its nodes has every dependency before its dependant.
ValidGraphHasOrder ==
    ValidGraph(graph) =>
        \E position \in [Node -> 1 .. Cardinality(Node)] :
            \A n \in Node : \A d \in graph.dep[n] : position[d] < position[n]

\* In a valid integration_only revision each node but the first component has one
\* maximal predecessor, that is one branch to continue: the check of
\* validateGitPreviewForDispatch that there is exactly one never refuses, and the
\* branches form the single fast-forward lineage.
OneBranchToContinue ==
    ValidGraph(graph) /\ graph.policy = "integration_only" =>
        \A n \in Node : Ancestors(graph, n) # {} =>
            Cardinality(MaximalPredecessors(graph, n)) = 1
=============================================================================
