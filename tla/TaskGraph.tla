------------------------------ MODULE TaskGraph ------------------------------
(***************************************************************************)
(* The pure part of src/scheduler/plan-scheduler.ts: task graphs, what     *)
(* makes one valid, and which predecessor a worktree is created from.      *)
(*                                                                         *)
(* A graph is a record: node (a set), dep and scope (functions of the      *)
(* nodes), limit, policy, and integration (the nodes of that kind).        *)
(* Identifiers of nodes, Tasks and Runs are unique by construction, and    *)
(* priorities only order what one transaction materializes.                *)
(***************************************************************************)
EXTENDS WriteScope, FiniteSets

\* The content of a node, as amendments compare it.
NodeOf(g, n) == [dep |-> g.dep[n], scope |-> g.scope[n], integration |-> n \in g.integration]

\* dependencyAncestors: the least set that contains the dependencies of n and
\* those of its members.
Ancestors(g, n) ==
    {m \in g.node : \A closed \in SUBSET g.node :
        (g.dep[n] \subseteq closed /\ \A c \in closed : g.dep[c] \subseteq closed) => m \in closed}

Ordered(g, m, n) == m \in Ancestors(g, n) \/ n \in Ancestors(g, m)

Components(g) == g.node \ g.integration

WellFormed(g) ==
    /\ \A n \in g.node : \A s \in g.scope[n] : ValidScope(s)
    /\ \A n \in g.node : g.dep[n] \subseteq g.node \ {n}

Acyclic(g) == \A n \in g.node : n \notin Ancestors(g, n)

\* Faulty: every component reaches the integration node, in any order.
SingleTarget(g) ==
    /\ Cardinality(g.integration) = 1
    /\ \A i \in g.integration :
          /\ \A n \in g.node : i \notin g.dep[n]
          /\ Components(g) \subseteq Ancestors(g, i)

\* integration_only: one terminal integration node above a single line of
\* components.
SingleLine(g) ==
    /\ Cardinality(g.integration) = 1
    /\ \A i \in g.integration :
          /\ \A n \in g.node : i \notin g.dep[n]
          /\ Components(g) \subseteq Ancestors(g, i)
    /\ \A m, n \in Components(g) : m # n => Ordered(g, m, n)

\* Faulty: only looks for a node that depends on itself.
ValidButCyclic(g) ==
    /\ WellFormed(g)
    /\ IF g.policy = "integration_only" THEN SingleLine(g) ELSE g.integration = {}

\* validateTaskGraphRevision
ValidGraph(g) ==
    /\ WellFormed(g)
    /\ Acyclic(g)
    /\ IF g.policy = "integration_only" THEN SingleLine(g) ELSE g.integration = {}

\* assertNoUnorderedScopeOverlap
NoUnorderedScopeOverlap(g) ==
    \A m, n \in g.node :
        m # n /\ ~Ordered(g, m, n) => ~ScopesOverlap(g.scope[m], g.scope[n])

\* The predecessors a managed worktree may be based on: component ancestors of n
\* that no other component ancestor has as its own ancestor.
MaximalPredecessors(g, n) ==
    LET before == Ancestors(g, n) \ g.integration IN
    {m \in before : \A other \in before \ {m} : m \notin Ancestors(g, other)}
=============================================================================
