----------------------------- MODULE PlanProofs -----------------------------
(***************************************************************************)
(* Proofs about the plan: the overlap test of write scopes is exact, a     *)
(* valid task graph can be worked off, and what the runs of PlanGraph      *)
(* check on a few graphs holds for every set of task graphs, Runs,         *)
(* attempts and worktrees.                                                 *)
(***************************************************************************)
EXTENDS PlanGraph, MCTaskGraph, HistoryProofs, FiniteSetTheorems

-----------------------------------------------------------------------------
(* Write scopes.  The overlap test looks at the scopes' own paths only.    *)

ScopesOver(Names) == [path : Seq(Names), kind : {"file", "tree"}]

\* A scope contains its own path.
LEMMA ContainsOwnPath ==
    ASSUME NEW Names, NEW s \in ScopesOver(Names)
    PROVE  Contains(s, s.path)
BY DEF ScopesOver, Contains, IsBelow

\* Two roots above one path lie one below the other.
LEMMA RootsOfOnePath ==
    ASSUME NEW Names, NEW p \in Seq(Names), NEW r \in Seq(Names), NEW q \in Seq(Names),
           IsBelow(p, r), IsBelow(p, q)
    PROVE  IsBelow(q, r) \/ IsBelow(r, q)
<1>1. Len(r) \in Nat /\ Len(q) \in Nat
  OBVIOUS
<1>2. CASE Len(r) <= Len(q)
  BY <1>1, <1>2 DEF IsBelow
<1>3. CASE Len(q) <= Len(r)
  BY <1>1, <1>3 DEF IsBelow
<1> QED
  BY <1>1, <1>2, <1>3

\* Two scopes that contain one path overlap by the test of scopesOverlap.
LEMMA SharedPathOverlaps ==
    ASSUME NEW Names, NEW a \in ScopesOver(Names), NEW b \in ScopesOver(Names),
           NEW p \in Seq(Names), Contains(a, p), Contains(b, p)
    PROVE  Contains(a, b.path) \/ Contains(b, a.path)
<1>1. a.path \in Seq(Names) /\ b.path \in Seq(Names)
  BY DEF ScopesOver
<1>2. CASE a.path = << >> \/ b.path = << >>
  BY <1>2 DEF Contains
<1>3. CASE a.kind = "file" /\ a.path # << >>
  BY <1>3 DEF Contains
<1>4. CASE b.kind = "file" /\ b.path # << >>
  BY <1>4 DEF Contains
<1>5. CASE a.kind = "tree" /\ b.kind = "tree" /\ a.path # << >> /\ b.path # << >>
  <2>1. IsBelow(p, a.path) /\ IsBelow(p, b.path)
    BY <1>5 DEF Contains
  <2>2. IsBelow(b.path, a.path) \/ IsBelow(a.path, b.path)
    BY <2>1, <1>1, RootsOfOnePath
  <2> QED
    BY <2>2, <1>5 DEF Contains
<1> QED
  BY <1>2, <1>3, <1>4, <1>5 DEF ScopesOver

\* scopesOverlap (plan-scheduler.ts) answers whether some path of the repository,
\* however deep, lies in a scope of either side, so that two nodes it admits side
\* by side can never be allowed to change the same file.
THEOREM OverlapExact ==
    ASSUME NEW Names, NEW left \in SUBSET ScopesOver(Names), NEW right \in SUBSET ScopesOver(Names)
    PROVE  ScopesOverlap(left, right) <=> ShareAPath(left, right, Seq(Names))
<1>1. ASSUME ScopesOverlap(left, right)
      PROVE  ShareAPath(left, right, Seq(Names))
  <2>1. PICK a \in left, b \in right : Contains(a, b.path) \/ Contains(b, a.path)
    BY <1>1 DEF ScopesOverlap
  <2>2. a.path \in Seq(Names) /\ b.path \in Seq(Names)
    BY DEF ScopesOver
  <2>3. Contains(a, a.path) /\ Contains(b, b.path)
    BY ContainsOwnPath
  <2> QED
    BY <2>1, <2>2, <2>3 DEF ShareAPath
<1>2. ASSUME ShareAPath(left, right, Seq(Names))
      PROVE  ScopesOverlap(left, right)
  <2>1. PICK p \in Seq(Names), a \in left, b \in right : Contains(a, p) /\ Contains(b, p)
    BY <1>2 DEF ShareAPath
  <2>2. Contains(a, b.path) \/ Contains(b, a.path)
    BY <2>1, SharedPathOverlaps
  <2> QED
    BY <2>2 DEF ScopesOverlap
<1> QED
  BY <1>1, <1>2

-----------------------------------------------------------------------------
(* Ancestors of a node.                                                    *)

\* The dependencies of a node are among its ancestors.
LEMMA DependencyIsAncestor ==
    ASSUME NEW g, NEW n, g.dep[n] \subseteq g.node
    PROVE  g.dep[n] \subseteq Ancestors(g, n)
  BY DEF Ancestors

\* The ancestors of an ancestor's dependencies are ancestors.
LEMMA AncestorsAreClosed ==
    ASSUME NEW g, WellFormed(g), NEW n, NEW m \in Ancestors(g, n)
    PROVE  g.dep[m] \subseteq Ancestors(g, n)
  <1>1. m \in g.node
    BY DEF Ancestors
  <1> SUFFICES ASSUME NEW d \in g.dep[m], NEW closed \in SUBSET g.node,
                      g.dep[n] \subseteq closed, \A c \in closed : g.dep[c] \subseteq closed
               PROVE  d \in closed
    BY <1>1 DEF Ancestors, WellFormed
  <1>2. m \in closed
    BY DEF Ancestors
  <1> QED
    BY <1>2

\* Every closed set of nodes with the dependencies of n contains its ancestors.
LEMMA AncestorsAreLeast ==
    ASSUME NEW g, NEW n, NEW closed \in SUBSET g.node,
           g.dep[n] \subseteq closed, \A c \in closed : g.dep[c] \subseteq closed
    PROVE  Ancestors(g, n) \subseteq closed
  BY DEF Ancestors

\* An ancestor of an ancestor is an ancestor.
LEMMA AncestorsTransitive ==
    ASSUME NEW g, WellFormed(g), NEW n, NEW m \in Ancestors(g, n)
    PROVE  Ancestors(g, m) \subseteq Ancestors(g, n)
  <1>1. Ancestors(g, n) \in SUBSET g.node
    BY DEF Ancestors
  <1> QED
    BY <1>1, AncestorsAreClosed, AncestorsAreLeast

\* An ancestor is a dependency, or an ancestor of one.
LEMMA AncestorByDependency ==
    ASSUME NEW g, WellFormed(g), NEW n \in g.node, NEW m \in Ancestors(g, n), m \notin g.dep[n]
    PROVE  \E d \in g.dep[n] : m \in Ancestors(g, d)
  <1> DEFINE closed == {c \in g.node : c \in g.dep[n] \/ \E d \in g.dep[n] : c \in Ancestors(g, d)}
  <1>1. g.dep[n] \subseteq closed
    BY DEF WellFormed
  <1>2. ASSUME NEW c \in closed PROVE g.dep[c] \subseteq closed
    <2>1. c \in g.node /\ g.dep[c] \subseteq g.node
      BY DEF WellFormed
    <2>2. CASE c \in g.dep[n]
      BY <2>1, <2>2, DependencyIsAncestor
    <2>3. ASSUME NEW d \in g.dep[n], c \in Ancestors(g, d) PROVE g.dep[c] \subseteq closed
      BY <2>1, <2>3, AncestorsAreClosed
    <2> QED
      BY <2>2, <2>3
  <1>3. m \in closed
    BY <1>1, <1>2, AncestorsAreLeast
  <1> QED
    BY <1>3

-----------------------------------------------------------------------------
(* What validation of a revision is for.                                   *)

\* A revision that validateTaskGraphRevision admits can be worked off: some order of
\* its nodes, of any number, has every dependency before its dependant.
THEOREM ValidGraphsHaveOrder ==
    ASSUME NEW g, IsFiniteSet(g.node), ValidGraph(g)
    PROVE  \E position \in [g.node -> 1 .. Cardinality(g.node)] :
              \A n \in g.node : \A d \in g.dep[n] : position[d] < position[n]
<1> DEFINE position == [n \in g.node |-> Cardinality(Ancestors(g, n)) + 1]
<1>0. WellFormed(g) /\ Acyclic(g)
  BY DEF ValidGraph
<1>1. ASSUME NEW n \in g.node PROVE position[n] \in 1 .. Cardinality(g.node)
  <2>1. /\ Ancestors(g, n) \in SUBSET (g.node \ {n})
        /\ n \in g.node
    BY <1>0 DEF Ancestors, Acyclic
  <2>2. /\ IsFiniteSet(g.node \ {n})
        /\ Cardinality(g.node \ {n}) = Cardinality(g.node) - 1
    BY <2>1, FS_RemoveElement
  <2>3. /\ IsFiniteSet(Ancestors(g, n))
        /\ Cardinality(Ancestors(g, n)) <= Cardinality(g.node) - 1
    BY <2>1, <2>2, FS_Subset
  <2>4. Cardinality(Ancestors(g, n)) \in Nat /\ Cardinality(g.node) \in Nat
    BY <2>3, FS_CardinalityType
  <2> QED
    BY <2>3, <2>4
<1>2. ASSUME NEW n \in g.node, NEW d \in g.dep[n] PROVE position[d] < position[n]
  <2>1. d \in g.node /\ d \in Ancestors(g, n)
    BY <1>0, DependencyIsAncestor DEF WellFormed
  <2>2. Ancestors(g, d) \in SUBSET (Ancestors(g, n) \ {d})
    BY <1>0, <2>1, AncestorsTransitive DEF Acyclic
  <2>3. IsFiniteSet(Ancestors(g, n))
    BY FS_Subset DEF Ancestors
  <2>4. /\ IsFiniteSet(Ancestors(g, n) \ {d})
        /\ Cardinality(Ancestors(g, n) \ {d}) = Cardinality(Ancestors(g, n)) - 1
    BY <2>1, <2>3, FS_RemoveElement
  <2>5. /\ IsFiniteSet(Ancestors(g, d))
        /\ Cardinality(Ancestors(g, d)) <= Cardinality(Ancestors(g, n)) - 1
    BY <2>2, <2>4, FS_Subset
  <2>6. Cardinality(Ancestors(g, n)) \in Nat /\ Cardinality(Ancestors(g, d)) \in Nat
    BY <2>3, <2>5, FS_CardinalityType
  <2> QED
    BY <2>1, <2>5, <2>6
<1> HIDE DEF position
<1>3. position \in [g.node -> 1 .. Cardinality(g.node)]
  <2>1. position = [n \in g.node |-> position[n]]
    BY DEF position
  <2> QED
    BY <1>1, <2>1
<1> QED
  BY <1>2, <1>3

\* No ancestor of any node is the terminal node.
LEMMA TerminalIsNoAncestor ==
    ASSUME NEW g, WellFormed(g), NEW i, \A n \in g.node : i \notin g.dep[n], NEW n \in g.node
    PROVE  i \notin Ancestors(g, n)
  <1> DEFINE others == g.node \ {i}
  <1>1. /\ others \in SUBSET g.node
        /\ g.dep[n] \subseteq others
        /\ \A c \in others : g.dep[c] \subseteq others
    BY DEF WellFormed
  <1>2. i \notin others
    OBVIOUS
  <1> HIDE DEF others
  <1>3. Ancestors(g, n) \subseteq others
    BY <1>1, AncestorsAreLeast, Zenon
  <1> QED
    BY <1>2, <1>3

\* In a valid integration_only revision every node but the first has exactly one
\* maximal predecessor, that is one branch to continue: validateGitPreviewForDispatch
\* never refuses for want of one, however long the line of components is.
THEOREM OneBranchToContinueAlways ==
    ASSUME NEW g, IsFiniteSet(g.node), g.integration \subseteq g.node,
           ValidGraph(g), g.policy = "integration_only",
           NEW n \in g.node, Ancestors(g, n) # {}
    PROVE  \E m \in g.node : MaximalPredecessors(g, n) = {m}
<1>0. WellFormed(g) /\ Acyclic(g) /\ SingleLine(g)
  BY DEF ValidGraph
<1>1. PICK i : g.integration = {i}
  BY <1>0, FS_Subset, FS_Singleton DEF SingleLine
<1> DEFINE before == Ancestors(g, n) \ g.integration
<1>2. before = Ancestors(g, n)
  BY <1>0, <1>1, TerminalIsNoAncestor DEF SingleLine
<1>3. before # {} /\ before \subseteq Components(g) /\ before \subseteq g.node
  BY <1>2 DEF Ancestors, Components
<1>4. IsFiniteSet(before)
  BY <1>3, FS_Subset
<1> HIDE DEF before
<1>5. PICK m \in before : \A other \in before \ {m} : m \notin Ancestors(g, other)
  <2> DEFINE rest(k) == before \ Ancestors(g, k)
             rests == {rest(k) : k \in before}
  <2>1. rests \subseteq SUBSET before /\ rests # {}
    BY <1>3
  <2>2. IsWellFoundedOn(StrictSubsetOrdering(before), SUBSET before)
    BY <1>4, FS_StrictSubsetOrderingWellFounded, FS_FiniteSubsetsOfFinite
  <2> HIDE DEF rests
  <2>3. PICK least \in rests : \A r \in rests : <<r, least>> \notin StrictSubsetOrdering(before)
    BY <2>1, <2>2, WFMin
  <2>4. PICK m \in before : least = rest(m)
    BY <2>3 DEF rests
  <2>5. ASSUME NEW other \in before \ {m}, m \in Ancestors(g, other) PROVE FALSE
    <3>1. Ancestors(g, m) \subseteq Ancestors(g, other) /\ m \notin Ancestors(g, m)
      BY <1>0, <1>3, <2>5, AncestorsTransitive DEF Acyclic
    <3>2. rest(other) \subseteq rest(m) /\ rest(other) # rest(m)
      BY <2>5, <3>1
    <3>3. <<rest(other), rest(m)>> \in StrictSubsetOrdering(before)
      BY <3>2 DEF StrictSubsetOrdering
    <3> QED
      BY <2>3, <2>4, <3>3 DEF rests
  <2> QED
    BY <2>5
<1>6. ASSUME NEW k \in before, k # m PROVE \E other \in before \ {k} : k \in Ancestors(g, other)
  <2>1. Ordered(g, k, m)
    BY <1>0, <1>3, <1>6 DEF SingleLine
  <2> QED
    BY <1>5, <1>6, <2>1 DEF Ordered
<1>7. MaximalPredecessors(g, n) = {k \in before : \A other \in before \ {k} : k \notin Ancestors(g, other)}
  BY DEF MaximalPredecessors, before
<1> QED
  BY <1>3, <1>5, <1>6, <1>7

-----------------------------------------------------------------------------
(* The properties that TLC checks on all graphs of a few nodes, for any     *)
(* number of nodes, names and components of a path.                         *)

\* What the graphs and scopes that MCTaskGraph enumerates are.
GraphShape ==
    /\ graph.node = Node /\ graph.integration \subseteq Node
    /\ \A n \in Node : graph.scope[n] \subseteq Scope
    /\ scopes \subseteq Scope

\* Graph and scopes are what they were at the start.
LEMMA GraphsStay == GraphSpec => []GraphShape
<1>1. GraphInit => GraphShape
  BY DEF GraphInit, GraphShape, Graphs, ScopeSet
<1>2. GraphShape /\ [GraphNext]_<<graph, scopes>> => GraphShape'
  BY DEF GraphShape, GraphNext
<1> QED
  BY <1>1, <1>2, PTL DEF GraphSpec

\* scopesOverlap is exact on the paths of any bounded depth: the paths the scopes name
\* are enough to tell.
THEOREM OverlapsAreSharedPaths ==
    ASSUME MaxDepth \in Nat
    PROVE  GraphSpec => []OverlapIsSharedPath
<1>1. ASSUME NEW k \in Nat PROVE Path(k) \subseteq Seq(Name)
  BY DEF Path
<1>2. Path(MaxDepth) \subseteq Path(MaxDepth + 1)
  BY DEF Path
<1>3. ASSUME NEW s \in Scope
      PROVE  s \in ScopesOver(Name) /\ s.path \in Path(MaxDepth + 1)
  BY <1>1, <1>2 DEF Scope, ScopesOver
<1>4. GraphShape => OverlapIsSharedPath
  <2> SUFFICES ASSUME GraphShape, NEW n \in Node
               PROVE  ScopesOverlap(graph.scope[n], scopes)
                        <=> ShareAPath(graph.scope[n], scopes, Path(MaxDepth + 1))
    BY DEF OverlapIsSharedPath
  <2>1. graph.scope[n] \subseteq Scope /\ scopes \subseteq Scope
    BY DEF GraphShape
  <2>2. ASSUME NEW a \in graph.scope[n], NEW b \in scopes,
               Contains(a, b.path) \/ Contains(b, a.path)
        PROVE  \E p \in Path(MaxDepth + 1) : Contains(a, p) /\ Contains(b, p)
    <3>1. /\ a.path \in Path(MaxDepth + 1) /\ b.path \in Path(MaxDepth + 1)
          /\ a \in ScopesOver(Name) /\ b \in ScopesOver(Name)
      BY <1>3, <2>1
    <3>2. Contains(a, a.path) /\ Contains(b, b.path)
      BY <3>1, ContainsOwnPath
    <3> QED
      BY <2>2, <3>1, <3>2
  <2>3. ASSUME NEW a \in graph.scope[n], NEW b \in scopes, NEW p \in Path(MaxDepth + 1),
               Contains(a, p), Contains(b, p)
        PROVE  Contains(a, b.path) \/ Contains(b, a.path)
    <3>1. a \in ScopesOver(Name) /\ b \in ScopesOver(Name) /\ p \in Seq(Name)
      BY <1>1, <1>3, <2>1
    <3> QED
      BY <2>3, <3>1, SharedPathOverlaps
  <2> QED
    BY <2>2, <2>3 DEF ScopesOverlap, ShareAPath
<1> QED
  BY <1>4, GraphsStay, PTL

\* validateTaskGraphRevision admits only graphs that can be worked off.
THEOREM GraphsHaveOrder ==
    ASSUME IsFiniteSet(Node)
    PROVE  GraphSpec => []ValidGraphHasOrder
<1>1. GraphShape => ValidGraphHasOrder
  BY ValidGraphsHaveOrder DEF GraphShape, ValidGraphHasOrder
<1> QED
  BY <1>1, GraphsStay, PTL

\* Every node of a valid integration_only graph but the first has one branch to continue.
THEOREM GraphsHaveOneBranch ==
    ASSUME IsFiniteSet(Node)
    PROVE  GraphSpec => []OneBranchToContinue
<1>1. GraphShape => OneBranchToContinue
  <2> SUFFICES ASSUME GraphShape, ValidGraph(graph), graph.policy = "integration_only",
                      NEW n \in Node, Ancestors(graph, n) # {}
               PROVE  Cardinality(MaximalPredecessors(graph, n)) = 1
    BY DEF OneBranchToContinue
  <2>1. \E m \in graph.node : MaximalPredecessors(graph, n) = {m}
    BY OneBranchToContinueAlways DEF GraphShape
  <2> QED
    BY <2>1, FS_Singleton
<1> QED
  BY <1>1, GraphsStay, PTL

-----------------------------------------------------------------------------
(* Columns keep their domains.                                             *)

DispatchRecord ==
    [status : DispatchStatus \cup {"none"}, worktree : Worktree \cup {None},
     violated : BOOLEAN, rev : 0 .. MaxRevision]

RevisionRecord == [graph : Graph, decision : {"draft", "approved", "rejected"}]

planAll == <<vars, planVars>>

\* The latest revision, and any other, is one of a graph.
LEMMA RevisionsAreTyped ==
    ASSUME PlanTypeOK
    PROVE  /\ Len(revision) \in Nat /\ Len(revision) <= MaxRevision
           /\ \A k \in 1 .. Len(revision) : revision[k] \in RevisionRecord
           /\ HasCurrent => /\ Len(revision) \in 1 .. Len(revision)
                            /\ CurrentGraph \in Graph
                            /\ CurrentGraph.node \subseteq Run
                            /\ revision[Len(revision)].decision = "approved"
  <1>1. revision \in Seq(RevisionRecord) /\ Len(revision) <= MaxRevision
    BY DEF PlanTypeOK, RevisionRecord
  <1>2. /\ Len(revision) \in Nat
        /\ \A k \in 1 .. Len(revision) : revision[k] \in RevisionRecord
        /\ revision # << >> => Len(revision) \in 1 .. Len(revision)
    BY <1>1
  <1> QED
    BY <1>1, <1>2, PlanAssumption DEF HasCurrent, CurrentGraph, RevisionRecord

\* Reconciliation leaves a node alone, accepts it by policy, or dispatches it.
LEMMA ReconcileEffect ==
    ASSUME PlanTypeOK, NEW mapping \in Mappings, ReconcilePlan(mapping), NEW n \in Run
    PROVE  \/ run'[n] = run[n] /\ dispatch'[n] = dispatch[n]
           \/ /\ PolicyAccepts(n)
              /\ n \in CurrentGraph.node
              /\ run'[n] = [run[n] EXCEPT !.status = "accepted"]
              /\ dispatch'[n] = [dispatch[n] EXCEPT !.status = "awaiting_git"]
           \/ /\ Eligible(n)
              /\ n \in CurrentGraph.node
              /\ mapping[n] \in Worktree \cup {None}
              /\ run'[n] = [status |-> "ready", worktree |-> mapping[n], task |-> 0]
              /\ dispatch'[n] =
                    [status   |-> IF mapping[n] = None THEN "awaiting_git" ELSE "dispatched",
                     worktree |-> mapping[n], violated |-> FALSE, rev |-> Len(revision)]
  <1> DEFINE accepted == {m \in CurrentGraph.node : PolicyAccepts(m)}
             fresh    == {m \in DOMAIN mapping : Eligible(m)}
  <1>1. /\ DOMAIN mapping \subseteq CurrentGraph.node
        /\ run' = [m \in Run |->
                    IF m \in accepted THEN [run[m] EXCEPT !.status = "accepted"]
                    ELSE IF m \in fresh
                      THEN [status |-> "ready", worktree |-> mapping[m], task |-> 0]
                      ELSE run[m]]
        /\ dispatch' = [m \in Run |->
                    IF m \in accepted THEN [dispatch[m] EXCEPT !.status = "awaiting_git"]
                    ELSE IF m \in fresh
                      THEN [status   |-> IF mapping[m] = None THEN "awaiting_git" ELSE "dispatched",
                            worktree |-> mapping[m], violated |-> FALSE, rev |-> Len(revision)]
                      ELSE dispatch[m]]
    BY Zenon DEF ReconcilePlan
  <1>2. CASE n \in accepted
    <2> HIDE DEF fresh
    <2> QED
      BY <1>1, <1>2
  <1>3. CASE n \notin accepted /\ n \in fresh
    <2>1. n \in DOMAIN mapping /\ Eligible(n)
      BY <1>3
    <2>2. mapping[n] \in Worktree \cup {None}
      BY <2>1 DEF Mappings
    <2> HIDE DEF accepted, fresh
    <2>3. /\ run'[n] = [status |-> "ready", worktree |-> mapping[n], task |-> 0]
          /\ dispatch'[n] =
                [status   |-> IF mapping[n] = None THEN "awaiting_git" ELSE "dispatched",
                 worktree |-> mapping[n], violated |-> FALSE, rev |-> Len(revision)]
      BY <1>1, <1>3
    <2> QED
      BY <1>1, <2>1, <2>2, <2>3
  <1>4. CASE n \notin accepted /\ n \notin fresh
    <2> HIDE DEF accepted, fresh
    <2> QED
      BY <1>1, <1>4
  <1> QED
    BY <1>2, <1>3, <1>4

\* What reconciliation does to the row of a dispatch, and to the status of its Run.
LEMMA ReconcileFields ==
    ASSUME PlanTypeOK, NEW mapping \in Mappings, ReconcilePlan(mapping), NEW n \in Run
    PROVE  \/ run'[n] = run[n] /\ dispatch'[n] = dispatch[n]
           \/ /\ Dispatched(n)
              /\ run'[n].status = "accepted"
              /\ dispatch'[n].status = "awaiting_git"
              /\ dispatch'[n].worktree = dispatch[n].worktree
              /\ dispatch'[n].rev = dispatch[n].rev
           \/ /\ ~Dispatched(n) /\ Eligible(n) /\ n \in CurrentGraph.node
              /\ run'[n].status = "ready"
              /\ dispatch'[n].status \in {"awaiting_git", "dispatched"}
              /\ dispatch'[n].worktree = mapping[n]
              /\ dispatch'[n].rev = Len(revision)
  <1>t. run[n] \in RunRecord /\ dispatch[n] \in DispatchRecord
    BY DEF PlanTypeOK, TypeOK, DispatchRecord
  <1>1. CASE run'[n] = run[n] /\ dispatch'[n] = dispatch[n]
    BY <1>1
  <1>2. CASE /\ PolicyAccepts(n)
             /\ run'[n] = [run[n] EXCEPT !.status = "accepted"]
             /\ dispatch'[n] = [dispatch[n] EXCEPT !.status = "awaiting_git"]
    <2>1. Dispatched(n)
      BY <1>2 DEF PolicyAccepts
    <2>2. run'[n].status = "accepted"
      BY <1>t, <1>2 DEF RunRecord
    <2>3. /\ dispatch'[n].status = "awaiting_git"
          /\ dispatch'[n].worktree = dispatch[n].worktree
          /\ dispatch'[n].rev = dispatch[n].rev
      BY <1>t, <1>2 DEF DispatchRecord
    <2> QED
      BY <2>1, <2>2, <2>3
  <1>3. CASE /\ Eligible(n) /\ n \in CurrentGraph.node
             /\ run'[n] = [status |-> "ready", worktree |-> mapping[n], task |-> 0]
             /\ dispatch'[n] =
                   [status   |-> IF mapping[n] = None THEN "awaiting_git" ELSE "dispatched",
                    worktree |-> mapping[n], violated |-> FALSE, rev |-> Len(revision)]
    BY <1>3 DEF Eligible
  <1> QED
    BY <1>1, <1>2, <1>3, ReconcileEffect

\* What one row of node_dispatches becomes by an update of its status.
LEMMA DispatchStatusEffect ==
    ASSUME NEW f \in [Run -> DispatchRecord], NEW r \in Run, NEW s, NEW g,
           g = [f EXCEPT ![r].status = s]
    PROVE  /\ g[r].status = s
           /\ g[r].worktree = f[r].worktree
           /\ g[r].violated = f[r].violated
           /\ g[r].rev = f[r].rev
           /\ s \in DispatchStatus => g \in [Run -> DispatchRecord]
           /\ \A q \in Run \ {r} : g[q] = f[q]
  BY DEF DispatchRecord

\* What one row of node_dispatches becomes by a projection of changed paths.
LEMMA ProjectionEffect ==
    ASSUME NEW f \in [Run -> DispatchRecord], NEW r \in Run, NEW s \in DispatchStatus,
           NEW v \in BOOLEAN, NEW g, g = [f EXCEPT ![r].status = s, ![r].violated = v]
    PROVE  /\ g[r].status = s
           /\ g[r].worktree = f[r].worktree
           /\ g[r].violated = v
           /\ g[r].rev = f[r].rev
           /\ g \in [Run -> DispatchRecord]
           /\ \A q \in Run \ {r} : g[q] = f[q]
  <1> DEFINE row == [f[r] EXCEPT !.status = s, !.violated = v]
  <1>1. g = [f EXCEPT ![r] = row]
    OBVIOUS
  <1>2. /\ row.status = s /\ row.worktree = f[r].worktree
        /\ row.violated = v /\ row.rev = f[r].rev
    BY DEF DispatchRecord
  <1>3. row \in DispatchRecord
    BY DEF DispatchRecord
  <1> HIDE DEF row
  <1> QED
    BY <1>1, <1>2, <1>3

\* What the plan adds to the operations on a Run leaves them operations on a Run.
LEMMA RunOperationIsService ==
    ASSUME TypeOK, GraphRunOperation \/ Ungraphed
    PROVE  Next /\ UNCHANGED revision
  <1>1. ASSUME NEW a \in Attempt, NEW r \in Run, NEW w \in Worktree, GraphClaimRunAttempt(a, r, w)
        PROVE  Next /\ UNCHANGED revision
    BY <1>1 DEF GraphClaimRunAttempt, Next, Execution
  <1>2. ASSUME NEW a \in Attempt, NEW status \in TerminalStatus, NEW paths \in Change,
               GraphSettleRunAttempt(a, status, ResultOf(a, status), FailureOf(status), None, paths)
        PROVE  Next /\ UNCHANGED revision
    <2>1. ResultOf(a, status) \in Result \cup {None}
      BY DEF ResultOf, Result, TypeOK, AttemptRecord
    <2>2. FailureOf(status) \in Failure \cup {None}
      BY DEF FailureOf, Failure
    <2>3. /\ SettleRunAttempt(a, status, ResultOf(a, status), FailureOf(status), None)
          /\ UNCHANGED revision
      BY <1>2 DEF GraphSettleRunAttempt
    <2>4. None \in Session \cup {None}
      OBVIOUS
    <2> HIDE DEF ResultOf, FailureOf
    <2>5. Execution
      BY <2>1, <2>2, <2>3, <2>4, Zenon DEF Execution
    <2> QED
      BY <2>3, <2>5 DEF Next
  <1>3. ASSUME NEW a \in Attempt, NEW severity \in Severity, NEW d \in {"approved", "changes_requested"},
               GraphSubmitReview(a, severity, d)
        PROVE  Next /\ UNCHANGED revision
    BY <1>3 DEF GraphSubmitReview, Next, Steering
  <1>4. ASSUME NEW a \in Attempt, GraphAcceptReview(a)
        PROVE  Next /\ UNCHANGED revision
    BY <1>4 DEF GraphAcceptReview, Next, Steering
  <1>5. CASE Ungraphed
    <2>1. Planning \/ Steering \/ Execution
      BY <1>5, Zenon DEF Ungraphed, Planning, Steering, Execution
    <2> QED
      BY <1>5, <2>1 DEF Ungraphed, Next, planVars
  <1> QED
    BY <1>1, <1>2, <1>3, <1>4, <1>5 DEF GraphRunOperation

\* Every step of the plan keeps each column in its domain.
LEMMA PlanTypeStep == PlanTypeOK /\ [PlanNext]_planAll => PlanTypeOK'
  <1> SUFFICES ASSUME PlanTypeOK, [PlanNext]_planAll PROVE PlanTypeOK'
    OBVIOUS
  <1>t. /\ TypeOK
        /\ revision \in Seq(RevisionRecord) /\ Len(revision) \in Nat /\ Len(revision) <= MaxRevision
        /\ dispatch \in [Run -> DispatchRecord]
        /\ evidence \in [Attempt -> Change \cup {{}}]
        /\ decision \in [Attempt -> {"none", "approved", "changes_requested"}]
    BY DEF PlanTypeOK, RevisionRecord, DispatchRecord
  <1>q. ASSUME TypeOK',
               revision' \in Seq(RevisionRecord), Len(revision') <= MaxRevision,
               dispatch' \in [Run -> DispatchRecord],
               evidence' \in [Attempt -> Change \cup {{}}],
               decision' \in [Attempt -> {"none", "approved", "changes_requested"}]
        PROVE  PlanTypeOK'
    BY <1>q, Zenon DEF PlanTypeOK, RevisionRecord, DispatchRecord
  <1>1. ASSUME NEW g \in Graph, CreatePlanRevision(g) PROVE PlanTypeOK'
    <2>1. /\ Len(revision) < MaxRevision
          /\ revision' = Append(revision, [graph |-> g, decision |-> "draft"])
          /\ UNCHANGED <<vars, dispatch, evidence, decision>>
      BY <1>1 DEF CreatePlanRevision
    <2>2. [graph |-> g, decision |-> "draft"] \in RevisionRecord
      BY DEF RevisionRecord
    <2>3. revision' \in Seq(RevisionRecord) /\ Len(revision') = Len(revision) + 1
      BY <1>t, <2>1, <2>2
    <2>4. TypeOK'
      BY <1>t, <2>1, TypeStep DEF vars
    <2> QED
      BY <1>t, <1>q, <2>1, <2>3, <2>4, PlanAssumption
  <1>2. ASSUME NEW verdict \in {"approved", "rejected"}, DecidePlanRevision(verdict) PROVE PlanTypeOK'
    <2> DEFINE k == Len(revision)
    <2>1. /\ revision' = [revision EXCEPT ![k].decision = verdict]
          /\ k > 0
          /\ room' = "DISCUSSION"
          /\ UNCHANGED <<run, attempt, question, review, guidance, dispatch, evidence, decision>>
      BY <1>2 DEF DecidePlanRevision
    <2>2. k \in 1 .. Len(revision)
      BY <1>t, <2>1
    <2>3. [revision[k] EXCEPT !.decision = verdict] \in RevisionRecord
      BY <2>2, RevisionsAreTyped DEF RevisionRecord
    <2>4. revision' = [revision EXCEPT ![k] = [revision[k] EXCEPT !.decision = verdict]]
      BY <2>1
    <2>5. revision' \in Seq(RevisionRecord) /\ Len(revision') = Len(revision)
      BY <1>t, <2>2, <2>3, <2>4
    <2>6. TypeOK'
      BY <1>t, <2>1 DEF TypeOK, RoomState
    <2> QED
      BY <1>t, <1>q, <2>1, <2>5, <2>6
  <1>3. ASSUME NEW mapping \in Mappings, ReconcilePlan(mapping) PROVE PlanTypeOK'
    <2>1. UNCHANGED <<room, attempt, question, review, guidance, revision, evidence, decision>>
      BY <1>3, Zenon DEF ReconcilePlan
    <2>2. ASSUME NEW n \in Run PROVE run'[n] \in RunRecord /\ dispatch'[n] \in DispatchRecord
      <3>1. run[n] \in RunRecord /\ dispatch[n] \in DispatchRecord
        BY <1>t DEF TypeOK
      <3>2. [run[n] EXCEPT !.status = "accepted"] \in RunRecord
        BY <3>1 DEF RunRecord, RunStatus
      <3>3. [dispatch[n] EXCEPT !.status = "awaiting_git"] \in DispatchRecord
        BY <3>1 DEF DispatchRecord, DispatchStatus
      <3>4. ASSUME mapping[n] \in Worktree \cup {None}
            PROVE  /\ [status |-> "ready", worktree |-> mapping[n], task |-> 0] \in RunRecord
                   /\ [status   |-> IF mapping[n] = None THEN "awaiting_git" ELSE "dispatched",
                       worktree |-> mapping[n], violated |-> FALSE, rev |-> Len(revision)]
                         \in DispatchRecord
        <4>1. Len(revision) \in 0 .. MaxRevision
          BY <1>t, PlanAssumption
        <4>2. (IF mapping[n] = None THEN "awaiting_git" ELSE "dispatched") \in DispatchStatus
          BY DEF DispatchStatus
        <4>3. 0 \in Task
          BY BoundAssumption DEF Task
        <4> QED
          BY <3>4, <4>1, <4>2, <4>3 DEF RunRecord, RunStatus, DispatchRecord
      <3> QED
        BY <1>3, <3>1, <3>2, <3>3, <3>4, ReconcileEffect
    <2>3. run' = [n \in Run |-> run'[n]] /\ dispatch' = [n \in Run |-> dispatch'[n]]
      BY <1>3, Zenon DEF ReconcilePlan
    <2>4. run' \in [Run -> RunRecord] /\ dispatch' \in [Run -> DispatchRecord]
      BY <2>2, <2>3
    <2>5. TypeOK'
      BY <1>t, <2>1, <2>4 DEF TypeOK
    <2> QED
      BY <1>t, <1>q, <2>1, <2>4, <2>5
  <1>4. ASSUME NEW a \in Attempt, NEW r \in Run, NEW w \in Worktree, GraphClaimRunAttempt(a, r, w)
        PROVE  PlanTypeOK'
    <2>1. TypeOK'
      BY <1>4, <1>t, RunOperationIsService, TypeStep DEF GraphRunOperation
    <2>2. /\ dispatch' = [dispatch EXCEPT ![r].status = IF @ = "ready" THEN "dispatched" ELSE @]
          /\ UNCHANGED <<revision, evidence, decision>>
      BY <1>4 DEF GraphClaimRunAttempt
    <2>3. dispatch' \in [Run -> DispatchRecord]
      BY <1>t, <2>2 DEF DispatchRecord, DispatchStatus
    <2> QED
      BY <1>t, <1>q, <2>1, <2>2, <2>3
  <1>5. ASSUME NEW a \in Attempt, NEW status \in TerminalStatus, NEW paths \in Change,
               GraphSettleRunAttempt(a, status, ResultOf(a, status), FailureOf(status), None, paths)
        PROVE  PlanTypeOK'
    <2>1. TypeOK'
      BY <1>5, <1>t, RunOperationIsService, TypeStep DEF GraphRunOperation
    <2>2. /\ UNCHANGED <<revision, decision>>
          /\ \/ /\ evidence' = [evidence EXCEPT ![a] = paths]
                /\ dispatch' = ScopeProjection(attempt[a].run, paths)
             \/ UNCHANGED <<evidence, dispatch>>
      BY <1>5 DEF GraphSettleRunAttempt
    <2>3. evidence' \in [Attempt -> Change \cup {{}}]
      BY <1>t, <2>2
    <2>4. ScopeProjection(attempt[a].run, paths) \in [Run -> DispatchRecord]
      <3>1. ASSUME NEW s \in DispatchStatus, NEW v \in BOOLEAN
            PROVE  [dispatch EXCEPT ![attempt[a].run].status = s, ![attempt[a].run].violated = v]
                      \in [Run -> DispatchRecord]
        <4>1. CASE attempt[a].run \in Run
          <5>0. dispatch \in [Run -> DispatchRecord]
            BY <1>t
          <5> DEFINE g == [dispatch EXCEPT ![attempt[a].run].status = s,
                                           ![attempt[a].run].violated = v]
          <5>1. g = [dispatch EXCEPT ![attempt[a].run].status = s, ![attempt[a].run].violated = v]
            OBVIOUS
          <5> HIDE DEF g
          <5>2. g \in [Run -> DispatchRecord]
            BY <4>1, <5>0, <5>1, ProjectionEffect
          <5> QED
            BY <5>1, <5>2, Zenon
        <4>2. CASE attempt[a].run \notin Run
          BY <1>t, <4>2
        <4> QED
          BY <4>1, <4>2
      <3> QED
        BY <1>t, <3>1 DEF ScopeProjection, DispatchStatus
    <2> QED
      BY <1>t, <1>q, <2>1, <2>2, <2>3, <2>4
  <1>6. ASSUME NEW a \in Attempt, NEW severity \in Severity, NEW d \in {"approved", "changes_requested"},
               GraphSubmitReview(a, severity, d)
        PROVE  PlanTypeOK'
    <2>1. TypeOK'
      BY <1>6, <1>t, RunOperationIsService, TypeStep DEF GraphRunOperation
    <2>2. /\ decision' = [decision EXCEPT ![a] = d]
          /\ UNCHANGED <<revision, dispatch, evidence>>
      BY <1>6 DEF GraphSubmitReview
    <2> QED
      BY <1>t, <1>q, <2>1, <2>2
  <1>7. ASSUME NEW a \in Attempt, GraphAcceptReview(a) PROVE PlanTypeOK'
    <2>1. TypeOK'
      BY <1>7, <1>t, RunOperationIsService, TypeStep DEF GraphRunOperation
    <2>2. /\ UNCHANGED <<revision, evidence, decision>>
          /\ \E s \in DispatchStatus : dispatch' = [dispatch EXCEPT ![attempt[a].run].status = s]
      BY <1>7 DEF GraphAcceptReview, DispatchStatus
    <2>3. dispatch' \in [Run -> DispatchRecord]
      <3>1. CASE attempt[a].run \in Run
        BY <1>t, <2>2, <3>1, DispatchStatusEffect
      <3>2. CASE attempt[a].run \notin Run
        BY <1>t, <2>2, <3>2
      <3> QED
        BY <3>1, <3>2
    <2> QED
      BY <1>t, <1>q, <2>1, <2>2, <2>3
  <1>8. CASE Ungraphed
    <2>1. TypeOK'
      BY <1>8, <1>t, RunOperationIsService, TypeStep
    <2> QED
      BY <1>8, <1>t, <1>q, <2>1 DEF Ungraphed, planVars
  <1>9. CASE UNCHANGED planAll
    <2>1. TypeOK'
      BY <1>9, <1>t, TypeStep DEF planAll
    <2> QED
      BY <1>9, <1>t, <1>q, <2>1 DEF planAll, planVars
  <1> QED
    BY <1>1, <1>2, <1>3, <1>4, <1>5, <1>6, <1>7, <1>8, <1>9
    DEF PlanNext, PlanOperation, GraphRunOperation

-----------------------------------------------------------------------------
(* What the operations on a Run do to its dispatch.                        *)

\* A claim needs a dispatch with a worktree, and marks a ready one dispatched.
LEMMA GraphClaimEffect ==
    ASSUME PlanTypeOK, NEW a \in Attempt, NEW r \in Run, NEW w \in Worktree,
           GraphClaimRunAttempt(a, r, w)
    PROVE  /\ ClaimRunAttempt(a, r, w)
           /\ GraphClaimable(r, w)
           /\ Dispatched(r)
           /\ dispatch[r].worktree = w
           /\ dispatch[r].status \in {"ready", "dispatched", "blocked"}
           /\ dispatch'[r].worktree = w
           /\ dispatch'[r].violated = dispatch[r].violated
           /\ dispatch'[r].rev = dispatch[r].rev
           /\ dispatch'[r].status =
                 IF dispatch[r].status = "ready" THEN "dispatched" ELSE dispatch[r].status
           /\ \A q \in Run \ {r} : dispatch'[q] = dispatch[q]
           /\ UNCHANGED <<revision, evidence, decision>>
  <1>1. /\ ClaimRunAttempt(a, r, w)
        /\ GraphClaimable(r, w)
        /\ dispatch' = [dispatch EXCEPT ![r].status = IF @ = "ready" THEN "dispatched" ELSE @]
        /\ UNCHANGED <<revision, evidence, decision>>
    BY DEF GraphClaimRunAttempt
  <1>2. /\ dispatch[r].worktree = w
        /\ dispatch[r].status \in {"ready", "dispatched", "blocked"}
    BY <1>1 DEF GraphClaimable
  <1>3. dispatch \in [Run -> DispatchRecord]
    BY DEF PlanTypeOK, DispatchRecord
  <1> DEFINE s == IF dispatch[r].status = "ready" THEN "dispatched" ELSE dispatch[r].status
  <1>4. dispatch' = [dispatch EXCEPT ![r].status = s]
    BY <1>1
  <1>5. s = IF dispatch[r].status = "ready" THEN "dispatched" ELSE dispatch[r].status
    OBVIOUS
  <1> HIDE DEF s
  <1>6. /\ dispatch'[r].status = s
        /\ dispatch'[r].worktree = dispatch[r].worktree
        /\ dispatch'[r].violated = dispatch[r].violated
        /\ dispatch'[r].rev = dispatch[r].rev
        /\ \A q \in Run \ {r} : dispatch'[q] = dispatch[q]
    BY <1>3, <1>4, DispatchStatusEffect
  <1> QED
    BY <1>1, <1>2, <1>5, <1>6 DEF Dispatched

\* A Fix of a blocked node is at work.
FixesBlocked(n) == run[n].task > 0 /\ (dispatch[n].violated \/ dispatch[n].status = "blocked")

\* A success with the given paths blocks the dispatch of n, lifts the block, or leaves it.
Projected(n, paths) ==
    LET out == OutOfScope(n, paths) # {} IN
    /\ out => dispatch'[n].status = "blocked" /\ dispatch'[n].violated = TRUE
    /\ ~out /\ FixesBlocked(n) => dispatch'[n].status = "dispatched" /\ dispatch'[n].violated = FALSE
    /\ ~out /\ ~FixesBlocked(n) => dispatch'[n] = dispatch[n]

\* A settlement as succeeded projects the changed paths; any other leaves the plan alone.
LEMMA GraphSettleEffect ==
    ASSUME PlanTypeOK, NEW a \in Attempt, NEW status \in TerminalStatus, NEW paths \in Change,
           attempt[a].run \in Run,
           GraphSettleRunAttempt(a, status, ResultOf(a, status), FailureOf(status), None, paths)
    PROVE  LET r == attempt[a].run IN
           /\ SettleRunAttempt(a, status, ResultOf(a, status), FailureOf(status), None)
           /\ attempt'[a].status # "succeeded" => UNCHANGED <<evidence, dispatch>>
           /\ attempt'[a].status = "succeeded" =>
                 Projected(r, paths) /\ evidence' = [evidence EXCEPT ![a] = paths]
           /\ dispatch'[r].worktree = dispatch[r].worktree
           /\ dispatch'[r].rev = dispatch[r].rev
           /\ \A q \in Run \ {r} : dispatch'[q] = dispatch[q]
           /\ UNCHANGED <<revision, decision>>
  <1> DEFINE r   == attempt[a].run
             out == OutOfScope(r, paths) # {}
             fix == FixesBlocked(r)
             target == SettleTarget(a, status)
  <1>1. /\ SettleRunAttempt(a, status, ResultOf(a, status), FailureOf(status), None)
        /\ target = "succeeded" => /\ evidence' = [evidence EXCEPT ![a] = paths]
                                   /\ dispatch' = ScopeProjection(r, paths)
        /\ target # "succeeded" => UNCHANGED <<evidence, dispatch>>
        /\ UNCHANGED <<revision, decision>>
    BY DEF GraphSettleRunAttempt
  <1>2. dispatch \in [Run -> DispatchRecord]
    BY DEF PlanTypeOK, DispatchRecord
  <1>3. attempt'[a].status = target
    <2> DEFINE result == IF target = "canceled" THEN None ELSE ResultOf(a, status)
               failure == IF target = "canceled" THEN None ELSE FailureOf(status)
    <2>1. attempt' = [attempt EXCEPT ![a].status = target, ![a].result = result,
                                     ![a].failure = failure, ![a].session = None]
      BY <1>1, Zenon DEF SettleRunAttempt
    <2>2. attempt \in [Attempt -> AttemptRecord]
      BY DEF PlanTypeOK, TypeOK
    <2> HIDE DEF target, result, failure
    <2>3. attempt' = [attempt EXCEPT ![a] =
             [attempt[a] EXCEPT !.status = target, !.result = result,
                                !.failure = failure, !.session = None]]
      BY <2>1
    <2>4. attempt'[a] = [attempt[a] EXCEPT !.status = target, !.result = result,
                                           !.failure = failure, !.session = None]
      BY <2>2, <2>3
    <2> QED
      BY <2>2, <2>4 DEF AttemptRecord
  <1>4. ScopeProjection(r, paths) =
          IF out THEN [dispatch EXCEPT ![r].status = "blocked", ![r].violated = TRUE]
          ELSE IF fix THEN [dispatch EXCEPT ![r].status = "dispatched", ![r].violated = FALSE]
          ELSE dispatch
    BY DEF ScopeProjection, FixesBlocked
  <1>r. r \in Run
    OBVIOUS
  <1> HIDE DEF out, fix, r, target
  <1>5. CASE target = "succeeded" /\ out
    <2>1. dispatch' = [dispatch EXCEPT ![r].status = "blocked", ![r].violated = TRUE]
      BY <1>1, <1>4, <1>5
    <2>2. /\ dispatch'[r].status = "blocked" /\ dispatch'[r].violated = TRUE
          /\ dispatch'[r].worktree = dispatch[r].worktree
          /\ dispatch'[r].rev = dispatch[r].rev
          /\ \A q \in Run \ {r} : dispatch'[q] = dispatch[q]
      BY <1>2, <1>r, <2>1, ProjectionEffect DEF DispatchStatus
    <2>3. Projected(r, paths)
      BY <1>5, <2>2 DEF Projected, out
    <2> QED
      BY <1>1, <1>3, <1>5, <2>2, <2>3 DEF r
  <1>6. CASE target = "succeeded" /\ ~out /\ fix
    <2>1. dispatch' = [dispatch EXCEPT ![r].status = "dispatched", ![r].violated = FALSE]
      BY <1>1, <1>4, <1>6
    <2>2. /\ dispatch'[r].status = "dispatched" /\ dispatch'[r].violated = FALSE
          /\ dispatch'[r].worktree = dispatch[r].worktree
          /\ dispatch'[r].rev = dispatch[r].rev
          /\ \A q \in Run \ {r} : dispatch'[q] = dispatch[q]
      BY <1>2, <1>r, <2>1, ProjectionEffect DEF DispatchStatus
    <2>3. Projected(r, paths)
      BY <1>6, <2>2 DEF Projected, out, fix
    <2> QED
      BY <1>1, <1>3, <1>6, <2>2, <2>3 DEF r
  <1>7. CASE target = "succeeded" /\ ~out /\ ~fix
    <2>1. dispatch' = dispatch
      BY <1>1, <1>4, <1>7
    <2>2. Projected(r, paths)
      BY <1>7, <2>1 DEF Projected, out, fix
    <2> QED
      BY <1>1, <1>3, <1>7, <2>1, <2>2 DEF r
  <1>8. CASE target # "succeeded"
    BY <1>1, <1>3, <1>8 DEF r
  <1> QED
    BY <1>5, <1>6, <1>7, <1>8

\* The user's acceptance completes the dispatch, or sends it to its commit.
LEMMA GraphAcceptEffect ==
    ASSUME PlanTypeOK, NEW a \in Attempt, attempt[a].run \in Run, GraphAcceptReview(a)
    PROVE  LET r == attempt[a].run IN
           /\ AcceptReview(a)
           /\ run[r].status = "review_discussion"
           /\ run' = [run EXCEPT ![r].status = "accepted"]
           /\ ~dispatch[r].violated
           /\ dispatch'[r].status \in {"awaiting_git", "completed"}
           /\ dispatch'[r].worktree = dispatch[r].worktree
           /\ dispatch'[r].violated = dispatch[r].violated
           /\ dispatch'[r].rev = dispatch[r].rev
           /\ \A q \in Run \ {r} : dispatch'[q] = dispatch[q]
           /\ UNCHANGED <<attempt, revision, evidence, decision>>
  <1> DEFINE r == attempt[a].run
  <1>1. /\ AcceptReview(a)
        /\ ~dispatch[r].violated
        /\ \E s \in {"awaiting_git", "completed"} : dispatch' = [dispatch EXCEPT ![r].status = s]
        /\ UNCHANGED <<revision, evidence, decision>>
    BY DEF GraphAcceptReview
  <1>2. dispatch \in [Run -> DispatchRecord]
    BY DEF PlanTypeOK, DispatchRecord
  <1>3. /\ run[r].status = "review_discussion"
        /\ run' = [run EXCEPT ![r].status = "accepted"]
        /\ UNCHANGED attempt
    BY <1>1 DEF AcceptReview
  <1>4. PICK s \in {"awaiting_git", "completed"} : dispatch' = [dispatch EXCEPT ![r].status = s]
    BY <1>1
  <1>5. /\ dispatch'[r].status = s
        /\ dispatch'[r].worktree = dispatch[r].worktree
        /\ dispatch'[r].violated = dispatch[r].violated
        /\ dispatch'[r].rev = dispatch[r].rev
        /\ \A q \in Run \ {r} : dispatch'[q] = dispatch[q]
    BY <1>2, <1>4, DispatchStatusEffect
  <1> QED
    BY <1>1, <1>3, <1>4, <1>5

-----------------------------------------------------------------------------
(* Runs, attempts and dispatches: the first layer.                         *)

\* A Run exists from its dispatch on.
RunsAreDispatched == \A n \in Run : Dispatched(n) <=> run[n].status # "absent"

\* A dispatch names a revision that was approved.
RevisionsAreApproved ==
    \A n \in Run : Dispatched(n) =>
        /\ dispatch[n].rev \in 1 .. Len(revision)
        /\ revision[dispatch[n].rev].decision = "approved"

\* Nothing comes from nowhere: attempts have Runs, Runs dispatches, dispatches approved
\* revisions.
Founded ==
    /\ \A a \in Attempt : attempt[a].status # "absent" =>
          attempt[a].run \in Run /\ run[attempt[a].run].status # "absent"
    /\ RunsAreDispatched
    /\ RevisionsAreApproved

PlanRows == Rows /\ Coherent /\ WorktreeLeaseUnique /\ RunsAreDispatched /\ RevisionsAreApproved

LEMMA RowsAreFounded == PlanRows => Founded
  BY DEF PlanRows, Founded, Rows, LineageShared

\* A Run whose attempt was claimed exists, and was dispatched.
LEMMA AttemptIsDispatched ==
    ASSUME Founded, NEW a \in Attempt, attempt[a].status # "absent"
    PROVE  attempt[a].run \in Run /\ a \in AttemptsOf(attempt[a].run) /\ Dispatched(attempt[a].run)
  BY DEF Founded, RunsAreDispatched, AttemptsOf

\* An operation on a Run moves it along the transition table; its Task changes with a
\* Fix, and only with a Fix.
LEMMA RunStep ==
    ASSUME PlanTypeOK, GraphRunOperation \/ Ungraphed, NEW r \in Run, run'[r] # run[r]
    PROVE  /\ <<run[r].status, run'[r].status>> \in RunTransition
           /\ run[r].status = "review_discussion" /\ run'[r].status = "ready"
                 => run'[r].task = run[r].task + 1
           /\ run[r].status # "review_discussion" => run'[r].task = run[r].task
  <1>t. TypeOK /\ run \in [Run -> RunRecord] /\ attempt \in [Attempt -> AttemptRecord]
    BY DEF PlanTypeOK, TypeOK
  <1> DEFINE Moved == /\ <<run[r].status, run'[r].status>> \in RunTransition
                      /\ run[r].status = "review_discussion" /\ run'[r].status = "ready"
                            => run'[r].task = run[r].task + 1
                      /\ run[r].status # "review_discussion" => run'[r].task = run[r].task
  <1>s. ASSUME NEW q, NEW s, run' = [run EXCEPT ![q].status = s],
               <<run[q].status, s>> \in RunTransition, s # "ready" \/ run[q].status # "review_discussion"
        PROVE  Moved
    <2>1. q = r
      BY <1>t, <1>s
    <2>2. run'[r].status = s /\ run'[r].task = run[r].task
      BY <1>t, <1>s, <2>1, RunStatusEffect
    <2> QED
      BY <1>s, <2>1, <2>2
  <1> HIDE DEF Moved
  <1>1. ASSUME NEW a \in Attempt, NEW q \in Run, NEW w \in Worktree, GraphClaimRunAttempt(a, q, w)
        PROVE  Moved
    <2>1. ClaimRunAttempt(a, q, w)
      BY <1>1 DEF GraphClaimRunAttempt
    <2>2. /\ run'[q].status = "running" /\ run'[q].task = run[q].task
          /\ \A p \in Run \ {q} : run'[p] = run[p]
      BY <1>t, <2>1, ClaimEffect
    <2>3. run[q].status = "ready"
      BY <2>1 DEF ClaimRunAttempt, Claimable
    <2> QED
      BY <2>2, <2>3 DEF Moved, RunTransition
  <1>2. ASSUME NEW a \in Attempt, NEW status \in TerminalStatus, NEW paths \in Change,
               GraphSettleRunAttempt(a, status, ResultOf(a, status), FailureOf(status), None, paths)
        PROVE  Moved
    <2>1. SettleRunAttempt(a, status, ResultOf(a, status), FailureOf(status), None)
      BY <1>2 DEF GraphSettleRunAttempt
    <2> DEFINE s == RunStatusForTerminal(SettleTarget(a, status))
    <2>2. /\ <<run[attempt[a].run].status, s>> \in RunTransition
          /\ run' = [run EXCEPT ![attempt[a].run].status = s]
      BY <2>1, Zenon DEF SettleRunAttempt, SettleAdmitted
    <2>3. s # "ready"
      BY DEF RunStatusForTerminal
    <2> HIDE DEF s
    <2> QED
      BY <1>s, <2>2, <2>3
  <1>3. ASSUME NEW a \in Attempt, NEW severity \in Severity, NEW d \in {"approved", "changes_requested"},
               GraphSubmitReview(a, severity, d)
        PROVE  Moved
    <2>1. /\ run[attempt[a].run].status = "review_required"
          /\ run' = [run EXCEPT ![attempt[a].run].status = "review_discussion"]
      BY <1>3 DEF GraphSubmitReview, SubmitReview
    <2>2. <<run[attempt[a].run].status, "review_discussion">> \in RunTransition
      BY <2>1 DEF RunTransition
    <2> QED
      BY <1>s, <2>1, <2>2
  <1>4. ASSUME NEW a \in Attempt, GraphAcceptReview(a) PROVE Moved
    <2>1. /\ run[attempt[a].run].status = "review_discussion"
          /\ run' = [run EXCEPT ![attempt[a].run].status = "accepted"]
      BY <1>4 DEF GraphAcceptReview, AcceptReview
    <2>2. <<run[attempt[a].run].status, "accepted">> \in RunTransition
      BY <2>1 DEF RunTransition
    <2> QED
      BY <1>s, <2>1, <2>2
  <1>5. CASE Ungraphed
    <2>1. ASSUME NEW q \in Run, NEW a \in Attempt, SubmitFix(q, a) PROVE Moved
      <3>1. /\ run[q].status = "review_discussion"
            /\ run' = [run EXCEPT ![q].status = "ready", ![q].task = @ + 1]
        BY <2>1 DEF SubmitFix
      <3>2. q = r
        BY <1>t, <3>1
      <3>3. run'[r].status = "ready" /\ run'[r].task = run[r].task + 1
        BY <1>t, <3>1, <3>2 DEF RunRecord
      <3> QED
        BY <3>1, <3>2, <3>3 DEF Moved, RunTransition
    <2>2. ASSUME NEW q \in Run, NEW a \in Attempt, CancelRun(q, a) PROVE Moved
      BY <1>s, <2>2 DEF CancelRun
    <2>3. ASSUME NEW a \in Attempt, NEW changesContract \in BOOLEAN,
                 AnswerQuestion(a, changesContract)
          PROVE  Moved
      <3>1. /\ run[attempt[a].run].status = "needs_decision"
            /\ \/ run' = run
               \/ run' = [run EXCEPT ![attempt[a].run].status = "ready"]
        BY <2>3 DEF AnswerQuestion
      <3> QED
        BY <1>s, <3>1 DEF RunTransition
    <2>4. ASSUME NEW q \in Run, RetryRun(q) PROVE Moved
      BY <1>s, <2>4 DEF RetryRun
    <2>5. run' # run
      OBVIOUS
    <2>6. /\ ~TransitionToArchitectureReview /\ ~TransitionToWaitingForUserConfirmation
          /\ \A a \in Attempt : ~AskQuestion(a)
          /\ \A g \in Guidance, q \in Run : ~AddRunGuidance(g, q)
      BY <2>5 DEF TransitionToArchitectureReview, TransitionToWaitingForUserConfirmation,
                  AskQuestion, AddRunGuidance
    <2>7. \/ \E q \in Run, a \in Attempt : SubmitFix(q, a) \/ CancelRun(q, a)
          \/ \E a \in Attempt, changesContract \in BOOLEAN : AnswerQuestion(a, changesContract)
          \/ \E q \in Run : RetryRun(q)
      BY <1>5, <2>6 DEF Ungraphed
    <2> QED
      BY <2>1, <2>2, <2>3, <2>4, <2>7 DEF Moved
  <1> QED
    BY <1>1, <1>2, <1>3, <1>4, <1>5 DEF GraphRunOperation, Moved

\* An operation on a Run creates none.
LEMMA RunExistence ==
    ASSUME PlanTypeOK, GraphRunOperation \/ Ungraphed, NEW r \in Run
    PROVE  /\ run'[r].status = "absent" <=> run[r].status = "absent"
           /\ run[r].status = "accepted" => run'[r] = run[r]
  BY RunStep DEF RunTransition

\* What reconciliation does to a node and to its Run.
LEMMA ReconcileRun ==
    ASSUME PlanTypeOK, PlanRows, NEW mapping \in Mappings, ReconcilePlan(mapping), NEW n \in Run
    PROVE  \/ run'[n] = run[n] /\ dispatch'[n] = dispatch[n]
           \/ /\ Dispatched(n) /\ ~dispatch[n].violated /\ n \in CurrentGraph.node
              /\ run[n].status = "review_discussion" /\ AttemptsOf(n) # {}
              /\ run'[n].status = "accepted"
              /\ run'[n].task = run[n].task /\ run'[n].worktree = run[n].worktree
              /\ dispatch'[n].status = "awaiting_git"
              /\ dispatch'[n].worktree = dispatch[n].worktree
              /\ dispatch'[n].violated = dispatch[n].violated
              /\ dispatch'[n].rev = dispatch[n].rev
           \/ /\ ~Dispatched(n) /\ Eligible(n) /\ n \in CurrentGraph.node
              /\ run[n].status = "absent" /\ AttemptsOf(n) = {}
              /\ run'[n].status = "ready" /\ run'[n].task = 0
              /\ dispatch'[n].worktree = run'[n].worktree
              /\ dispatch'[n].status =
                    IF run'[n].worktree = None THEN "awaiting_git" ELSE "dispatched"
              /\ dispatch'[n].violated = FALSE
              /\ dispatch'[n].rev = Len(revision)
  <1>t. run[n] \in RunRecord /\ dispatch[n] \in DispatchRecord
    BY DEF PlanTypeOK, TypeOK, DispatchRecord
  <1>1. CASE run'[n] = run[n] /\ dispatch'[n] = dispatch[n]
    BY <1>1
  <1>2. CASE /\ PolicyAccepts(n)
             /\ n \in CurrentGraph.node
             /\ run'[n] = [run[n] EXCEPT !.status = "accepted"]
             /\ dispatch'[n] = [dispatch[n] EXCEPT !.status = "awaiting_git"]
    <2>1. /\ Dispatched(n) /\ ~dispatch[n].violated
          /\ run[n].status = "review_discussion" /\ AttemptsOf(n) # {}
      BY <1>2 DEF PolicyAccepts, IsCurrentReview
    <2>2. /\ run'[n].status = "accepted"
          /\ run'[n].task = run[n].task /\ run'[n].worktree = run[n].worktree
      BY <1>t, <1>2 DEF RunRecord
    <2>3. /\ dispatch'[n].status = "awaiting_git"
          /\ dispatch'[n].worktree = dispatch[n].worktree
          /\ dispatch'[n].violated = dispatch[n].violated
          /\ dispatch'[n].rev = dispatch[n].rev
      BY <1>t, <1>2 DEF DispatchRecord
    <2> QED
      BY <1>2, <2>1, <2>2, <2>3
  <1>3. CASE /\ Eligible(n)
             /\ n \in CurrentGraph.node
             /\ mapping[n] \in Worktree \cup {None}
             /\ run'[n] = [status |-> "ready", worktree |-> mapping[n], task |-> 0]
             /\ dispatch'[n] =
                   [status   |-> IF mapping[n] = None THEN "awaiting_git" ELSE "dispatched",
                    worktree |-> mapping[n], violated |-> FALSE, rev |-> Len(revision)]
    <2>1. ~Dispatched(n) /\ run[n].status = "absent"
      BY <1>3 DEF Eligible, PlanRows, RunsAreDispatched
    <2>2. TypeOK /\ Rows
      BY DEF PlanTypeOK, PlanRows
    <2>3. AttemptsOf(n) = {}
      BY <2>1, <2>2, RowOfRun
    <2> QED
      BY <1>3, <2>1, <2>3
  <1> QED
    BY <1>1, <1>2, <1>3, ReconcileEffect

\* Reconciliation leaves attempts alone, and the revisions.
LEMMA ReconcileFrame ==
    ASSUME NEW mapping \in Mappings, ReconcilePlan(mapping)
    PROVE  /\ UNCHANGED <<room, attempt, question, review, guidance, revision, evidence, decision>>
           /\ HasCurrent /\ ValidGraph(CurrentGraph)
           /\ LeasesUnique(run')
  BY Zenon DEF ReconcilePlan

\* Attempts, Runs and the lease stay in order under reconciliation.
LEMMA ReconcileRows ==
    ASSUME PlanTypeOK, PlanRows, NEW mapping \in Mappings, ReconcilePlan(mapping)
    PROVE  Rows' /\ Coherent' /\ WorktreeLeaseUnique'
  <1>a. attempt' = attempt
    BY ReconcileFrame
  <1>b. Rows /\ Coherent
    BY DEF PlanRows
  <1>1. \A n \in Run : AttemptsOf(n)' = AttemptsOf(n)
    BY <1>a DEF AttemptsOf
  <1>2. \A n \in Run, a \in Attempt : IsLatestAttempt(n, a)' = IsLatestAttempt(n, a)
    BY <1>a, <1>1 DEF IsLatestAttempt
  <1>3. ASSUME NEW n \in Run, AttemptsOf(n) # {}
        PROVE  /\ run'[n].worktree = run[n].worktree
               /\ run'[n].status # "absent"
    <2>1. run[n].status # "absent"
      <3>1. PICK a : a \in AttemptsOf(n)
        BY <1>3
      <3> QED
        BY <1>b, <3>1, RowOfRun DEF PlanTypeOK
    <2> QED
      BY <1>3, <2>1, ReconcileRun
  <1>4. NumbersDistinct' /\ AbsentRowIsFree'
    BY <1>a, <1>b, <1>1 DEF Rows, NumbersDistinct, AbsentRowIsFree
  <1>5. LineageShared'
    BY <1>a, <1>b, <1>3 DEF Rows, LineageShared, AttemptsOf
  <1>6. AbsentRunHoldsNothing'
    <2> SUFFICES ASSUME NEW n \in Run, run'[n].status = "absent" PROVE run'[n].worktree = None
      BY DEF AbsentRunHoldsNothing
    <2>1. run'[n] = run[n]
      BY ReconcileRun
    <2> QED
      BY <1>b, <2>1 DEF Rows, AbsentRunHoldsNothing
  <1>7. OneActiveAttempt'
    BY <1>a, <1>b, <1>1 DEF Coherent, OneActiveAttempt, IsActive
  <1>8. RunFollowsLatestAttempt'
    <2> SUFFICES ASSUME NEW n \in Run, NEW a \in Attempt
                 PROVE  /\ IsLatestAttempt(n, a) =>
                              /\ attempt[a].status \in LatestStatus(run'[n].status)
                              /\ run'[n].status # "ready" => attempt[a].task = run'[n].task
                        /\ run'[n].status \notin {"absent", "ready"} => AttemptsOf(n) # {}
      BY <1>a, <1>1, <1>2 DEF RunFollowsLatestAttempt
    <2>1. /\ IsLatestAttempt(n, a) =>
                /\ attempt[a].status \in LatestStatus(run[n].status)
                /\ run[n].status # "ready" => attempt[a].task = run[n].task
          /\ run[n].status \notin {"absent", "ready"} => AttemptsOf(n) # {}
      BY <1>b DEF Coherent, RunFollowsLatestAttempt
    <2>2. CASE run'[n] = run[n]
      BY <2>1, <2>2
    <2>3. CASE /\ run[n].status = "review_discussion" /\ run'[n].status = "accepted"
               /\ run'[n].task = run[n].task
      <3>1. LatestStatus("accepted") = LatestStatus("review_discussion")
        BY DEF LatestStatus
      <3> QED
        BY <2>1, <2>3, <3>1
    <2>4. CASE run'[n].status = "ready" /\ AttemptsOf(n) = {}
      BY <2>4 DEF IsLatestAttempt
    <2> QED
      BY <2>2, <2>3, <2>4, ReconcileRun
  <1>9. WorktreeLeaseUnique'
    BY ReconcileFrame DEF LeasesUnique, WorktreeLeaseUnique
  <1> QED
    BY <1>4, <1>5, <1>6, <1>7, <1>8, <1>9 DEF Rows, Coherent

-----------------------------------------------------------------------------
(* Revisions and dispatches only grow.                                     *)

\* A step submits one revision, which validation admits as an amendment, decides the
\* latest draft, or leaves the revisions alone.
LEMMA RevisionKinds ==
    ASSUME PlanTypeOK, [PlanNext]_planAll
    PROVE  \/ revision' = revision
           \/ \E g \in Graph : CreatePlanRevision(g)
           \/ \E verdict \in {"approved", "rejected"} : DecidePlanRevision(verdict)
  <1>1. CASE GraphRunOperation \/ Ungraphed
    BY <1>1, RunOperationIsService DEF PlanTypeOK
  <1>2. ASSUME NEW mapping \in Mappings, ReconcilePlan(mapping) PROVE revision' = revision
    BY <1>2, ReconcileFrame
  <1> QED
    BY <1>1, <1>2 DEF PlanNext, PlanOperation, planAll, planVars

\* A revision keeps its graph, an approval stands, and a new revision is one that
\* validation admits as an amendment of what was dispatched.
LEMMA RevisionStep ==
    ASSUME PlanTypeOK, [PlanNext]_planAll
    PROVE  /\ Len(revision') \in Nat /\ Len(revision) <= Len(revision')
           /\ \A k \in 1 .. Len(revision) :
                 /\ revision'[k].graph = revision[k].graph
                 /\ revision[k].decision = "approved" => revision'[k].decision = "approved"
           /\ \A k \in 1 .. Len(revision') :
                 k \notin 1 .. Len(revision) =>
                    /\ k = Len(revision) + 1
                    /\ ValidGraph(revision'[k].graph)
                    /\ Amendable(revision'[k].graph, k)
                    /\ UNCHANGED <<vars, dispatch, evidence, decision>>
  <1>t. revision \in Seq(RevisionRecord) /\ Len(revision) \in Nat
    BY DEF PlanTypeOK, RevisionRecord
  <1>1. CASE revision' = revision
    BY <1>t, <1>1
  <1>2. CASE \E g \in Graph : CreatePlanRevision(g)
    <2>1. PICK g \in Graph : CreatePlanRevision(g)
      BY <1>2
    <2> DEFINE row == [graph |-> g, decision |-> "draft"]
    <2>2. /\ revision' = Append(revision, row)
          /\ ValidGraph(g) /\ Amendable(g, Len(revision) + 1)
          /\ UNCHANGED <<vars, dispatch, evidence, decision>>
      BY <2>1 DEF CreatePlanRevision
    <2>3. row \in RevisionRecord /\ row.graph = g
      BY DEF RevisionRecord
    <2> HIDE DEF row
    <2>4. /\ Len(revision') = Len(revision) + 1
          /\ revision'[Len(revision) + 1] = row
          /\ \A k \in 1 .. Len(revision) : revision'[k] = revision[k]
      BY <1>t, <2>2, <2>3
    <2> QED
      BY <1>t, <2>2, <2>3, <2>4
  <1>3. CASE \E verdict \in {"approved", "rejected"} : DecidePlanRevision(verdict)
    <2>1. PICK verdict \in {"approved", "rejected"} : DecidePlanRevision(verdict)
      BY <1>3
    <2>2. /\ revision' = [revision EXCEPT ![Len(revision)].decision = verdict]
          /\ Len(revision) > 0 /\ revision[Len(revision)].decision = "draft"
      BY <2>1 DEF DecidePlanRevision
    <2>3. /\ Len(revision') = Len(revision)
          /\ \A k \in 1 .. Len(revision) \ {Len(revision)} : revision'[k] = revision[k]
          /\ revision'[Len(revision)].graph = revision[Len(revision)].graph
      BY <1>t, <2>2 DEF RevisionRecord
    <2> QED
      BY <1>t, <2>2, <2>3
  <1> QED
    BY <1>1, <1>2, <1>3, RevisionKinds

\* A dispatch is never withdrawn and keeps its revision and, once it has one, its
\* worktree; a new one is of an eligible node of the revision in force.
LEMMA DispatchStep ==
    ASSUME PlanTypeOK, Founded, [PlanNext]_planAll, NEW n \in Run
    PROVE  /\ Dispatched(n) => /\ Dispatched(n)'
                               /\ dispatch'[n].rev = dispatch[n].rev
                               /\ dispatch'[n].worktree = dispatch[n].worktree
           /\ ~Dispatched(n) /\ dispatch'[n] # dispatch[n] =>
                 /\ \E mapping \in Mappings : ReconcilePlan(mapping)
                 /\ Eligible(n)
                 /\ n \in CurrentGraph.node
                 /\ dispatch'[n].rev = Len(revision)
  <1>1. CASE dispatch'[n] = dispatch[n]
    BY <1>1 DEF Dispatched
  <1>2. ASSUME NEW mapping \in Mappings, ReconcilePlan(mapping)
        PROVE  /\ Dispatched(n) => /\ Dispatched(n)'
                                   /\ dispatch'[n].rev = dispatch[n].rev
                                   /\ dispatch'[n].worktree = dispatch[n].worktree
               /\ ~Dispatched(n) /\ dispatch'[n] # dispatch[n] =>
                     /\ Eligible(n)
                     /\ n \in CurrentGraph.node
                     /\ dispatch'[n].rev = Len(revision)
    BY <1>2, ReconcileFields DEF Dispatched
  <1>3. ASSUME NEW a \in Attempt, NEW r \in Run, NEW w \in Worktree, GraphClaimRunAttempt(a, r, w),
               dispatch'[n] # dispatch[n]
        PROVE  /\ Dispatched(n) /\ Dispatched(n)'
               /\ dispatch'[n].rev = dispatch[n].rev
               /\ dispatch'[n].worktree = dispatch[n].worktree
    BY <1>3, GraphClaimEffect DEF Dispatched
  <1>4. ASSUME NEW a \in Attempt, NEW status \in TerminalStatus, NEW paths \in Change,
               GraphSettleRunAttempt(a, status, ResultOf(a, status), FailureOf(status), None, paths),
               dispatch'[n] # dispatch[n]
        PROVE  /\ Dispatched(n) /\ Dispatched(n)'
               /\ dispatch'[n].rev = dispatch[n].rev
               /\ dispatch'[n].worktree = dispatch[n].worktree
    <2>1. attempt[a].status # "absent"
      BY <1>4 DEF GraphSettleRunAttempt, SettleRunAttempt, IsActive, ActiveStatus
    <2>2. attempt[a].run \in Run /\ Dispatched(attempt[a].run)
      BY <2>1, AttemptIsDispatched
    <2>3. n = attempt[a].run
      <3>1. \A q \in Run \ {attempt[a].run} : dispatch'[q] = dispatch[q]
        BY <1>4, <2>2, GraphSettleEffect
      <3> QED
        BY <1>4, <3>1
    <2>4. /\ dispatch'[n].rev = dispatch[n].rev
          /\ dispatch'[n].worktree = dispatch[n].worktree
      BY <1>4, <2>2, <2>3, GraphSettleEffect
    <2>5. dispatch'[n].status \in {"blocked", "dispatched"} \/ dispatch'[n].status = dispatch[n].status
      BY <1>4, <2>2, <2>3, GraphSettleEffect DEF Projected
    <2> QED
      BY <2>2, <2>3, <2>4, <2>5 DEF Dispatched
  <1>5. ASSUME NEW a \in Attempt, GraphAcceptReview(a), dispatch'[n] # dispatch[n]
        PROVE  /\ Dispatched(n) /\ Dispatched(n)'
               /\ dispatch'[n].rev = dispatch[n].rev
               /\ dispatch'[n].worktree = dispatch[n].worktree
    <2>1. attempt[a].run \in Run
      <3>1. \E s \in {"awaiting_git", "completed"} : dispatch' = [dispatch EXCEPT ![attempt[a].run].status = s]
        BY <1>5 DEF GraphAcceptReview
      <3>2. dispatch \in [Run -> DispatchRecord]
        BY DEF PlanTypeOK, DispatchRecord
      <3> QED
        BY <1>5, <3>1, <3>2
    <2>2. run[attempt[a].run].status # "absent"
      BY <1>5 DEF GraphAcceptReview, AcceptReview
    <2>3. Dispatched(attempt[a].run)
      BY <2>1, <2>2 DEF Founded, RunsAreDispatched
    <2>4. \A q \in Run \ {attempt[a].run} : dispatch'[q] = dispatch[q]
      BY <1>5, <2>1, GraphAcceptEffect
    <2>5. n = attempt[a].run
      BY <1>5, <2>4
    <2> QED
      BY <1>5, <2>1, <2>3, <2>5, GraphAcceptEffect DEF Dispatched
  <1>6. ASSUME \/ \E g \in Graph : CreatePlanRevision(g)
               \/ \E verdict \in {"approved", "rejected"} : DecidePlanRevision(verdict)
               \/ \E a \in Attempt, severity \in Severity, d \in {"approved", "changes_requested"} :
                     GraphSubmitReview(a, severity, d)
               \/ Ungraphed
               \/ UNCHANGED planAll
        PROVE  dispatch' = dispatch
    BY <1>6 DEF CreatePlanRevision, DecidePlanRevision, GraphSubmitReview, Ungraphed, planAll, planVars
  <1> QED
    BY <1>1, <1>2, <1>3, <1>4, <1>5, <1>6 DEF PlanNext, PlanOperation, GraphRunOperation

\* Everything stays founded.
LEMMA FoundedStep == PlanTypeOK /\ Founded /\ [PlanNext]_planAll => Founded'
  <1> SUFFICES ASSUME PlanTypeOK, Founded, [PlanNext]_planAll PROVE Founded'
    OBVIOUS
  <1>t. TypeOK /\ RunsAreDispatched /\ RevisionsAreApproved
    BY DEF PlanTypeOK, Founded
  <1>2. RunsAreDispatched'
    <2> SUFFICES ASSUME NEW n \in Run PROVE Dispatched(n)' <=> run'[n].status # "absent"
      BY DEF RunsAreDispatched
    <2>0. Dispatched(n) <=> run[n].status # "absent"
      BY <1>t DEF RunsAreDispatched
    <2>1. CASE GraphRunOperation \/ Ungraphed
      <3>1. run'[n].status = "absent" <=> run[n].status = "absent"
        BY <2>1, RunExistence
      <3>2. ~\E mapping \in Mappings : ReconcilePlan(mapping) /\ dispatch'[n] # dispatch[n] /\ ~Dispatched(n)
        BY <2>0, <3>1, ReconcileFields
      <3>3. Dispatched(n) => Dispatched(n)'
        BY DispatchStep
      <3>4. ~Dispatched(n) => dispatch'[n] = dispatch[n]
        BY <3>2, DispatchStep
      <3> QED
        BY <2>0, <3>1, <3>3, <3>4 DEF Dispatched
    <2>2. CASE \E mapping \in Mappings : ReconcilePlan(mapping)
      BY <2>0, <2>2, ReconcileFields DEF Dispatched
    <2>3. CASE \E g \in Graph : CreatePlanRevision(g)
      BY <2>0, <2>3 DEF CreatePlanRevision, vars, Dispatched
    <2>4. CASE \E verdict \in {"approved", "rejected"} : DecidePlanRevision(verdict)
      BY <2>0, <2>4 DEF DecidePlanRevision, Dispatched
    <2>5. CASE UNCHANGED planAll
      BY <2>0, <2>5 DEF planAll, planVars, vars, Dispatched
    <2> QED
      BY <2>1, <2>2, <2>3, <2>4, <2>5 DEF PlanNext, PlanOperation
  <1>3. RevisionsAreApproved'
    <2> SUFFICES ASSUME NEW n \in Run, Dispatched(n)'
                 PROVE  /\ dispatch'[n].rev \in 1 .. Len(revision')
                        /\ revision'[dispatch'[n].rev].decision = "approved"
      BY DEF RevisionsAreApproved
    <2>0. /\ Len(revision) \in Nat /\ Len(revision') \in Nat /\ Len(revision) <= Len(revision')
          /\ \A k \in 1 .. Len(revision) :
                revision[k].decision = "approved" => revision'[k].decision = "approved"
      BY RevisionStep, RevisionsAreTyped
    <2>1. CASE Dispatched(n)
      <3>1. dispatch'[n].rev = dispatch[n].rev
        BY <2>1, DispatchStep
      <3>2. dispatch[n].rev \in 1 .. Len(revision) /\ revision[dispatch[n].rev].decision = "approved"
        BY <1>t, <2>1 DEF RevisionsAreApproved
      <3> QED
        BY <2>0, <3>1, <3>2
    <2>2. CASE ~Dispatched(n)
      <3>1. /\ \E mapping \in Mappings : ReconcilePlan(mapping)
            /\ dispatch'[n].rev = Len(revision)
        BY <2>2, DispatchStep DEF Dispatched
      <3>2. HasCurrent /\ revision' = revision
        BY <3>1, ReconcileFrame
      <3> QED
        BY <3>1, <3>2, RevisionsAreTyped
    <2> QED
      BY <2>1, <2>2
  <1>1. ASSUME NEW b \in Attempt, attempt'[b].status # "absent"
        PROVE  attempt'[b].run \in Run /\ run'[attempt'[b].run].status # "absent"
    <2>e. ASSUME NEW n \in Run, run[n].status # "absent" PROVE run'[n].status # "absent"
      <3>1. CASE GraphRunOperation \/ Ungraphed
        BY <2>e, <3>1, RunExistence
      <3>2. ASSUME NEW mapping \in Mappings, ReconcilePlan(mapping) PROVE run'[n].status # "absent"
        BY <2>e, <3>2, ReconcileFields
      <3>3. CASE run' = run
        BY <2>e, <3>3
      <3> QED
        BY <3>1, <3>2, <3>3
        DEF PlanNext, PlanOperation, CreatePlanRevision, DecidePlanRevision, planAll, vars
    <2>a. attempt \in [Attempt -> AttemptRecord]
      BY <1>t DEF TypeOK
    <2>f. ASSUME attempt[b].status # "absent", attempt'[b].run = attempt[b].run
          PROVE  attempt'[b].run \in Run /\ run'[attempt'[b].run].status # "absent"
      BY <2>e, <2>f DEF Founded
    <2>1. ASSUME NEW a \in Attempt, NEW r \in Run, NEW w \in Worktree, GraphClaimRunAttempt(a, r, w)
          PROVE  attempt'[b].run \in Run /\ run'[attempt'[b].run].status # "absent"
      <3>1. ClaimRunAttempt(a, r, w)
        BY <2>1 DEF GraphClaimRunAttempt
      <3>2. /\ attempt'[a].run = r /\ run'[r].status = "running"
            /\ \A c \in Attempt \ {a} : attempt'[c] = attempt[c]
        BY <1>t, <3>1, ClaimEffect
      <3>3. b # a => attempt[b].status # "absent" /\ attempt'[b].run = attempt[b].run
        BY <1>1, <3>2
      <3> QED
        BY <2>f, <3>2, <3>3
    <2>2. ASSUME NEW a \in Attempt, NEW status \in TerminalStatus, NEW paths \in Change,
                 GraphSettleRunAttempt(a, status, ResultOf(a, status), FailureOf(status), None, paths)
          PROVE  attempt[b].status # "absent" /\ attempt'[b].run = attempt[b].run
      <3>1. SettleRunAttempt(a, status, ResultOf(a, status), FailureOf(status), None)
        BY <2>2 DEF GraphSettleRunAttempt
      <3>2. attempt[a].status # "absent" /\ attempt[a].run \in Run
        BY <3>1 DEF SettleRunAttempt, IsActive, ActiveStatus, Founded
      <3>3. /\ attempt'[a].run = attempt[a].run
            /\ \A c \in Attempt \ {a} : attempt'[c] = attempt[c]
        BY <1>t, <3>1, <3>2, SettleEffect
      <3> QED
        BY <1>1, <3>2, <3>3
    <2>3. ASSUME NEW a \in Attempt, AskQuestion(a) \/ \E r \in Run : CancelRun(r, a)
          PROVE  attempt[b].status # "absent" /\ attempt'[b].run = attempt[b].run
      <3>1. /\ attempt[a].status # "absent"
            /\ \E s : attempt' = [attempt EXCEPT ![a].status = s]
        BY <2>3 DEF AskQuestion, CancelRun, IsActive, ActiveStatus
      <3> QED
        BY <1>1, <2>a, <3>1 DEF AttemptRecord
    <2>4. CASE attempt' = attempt
      BY <1>1, <2>f, <2>4
    <2>5. ASSUME \/ PlanOperation
                 \/ \E a \in Attempt, severity \in Severity, d \in {"approved", "changes_requested"} :
                       GraphSubmitReview(a, severity, d)
                 \/ \E a \in Attempt : GraphAcceptReview(a)
                 \/ UNCHANGED planAll
          PROVE  attempt' = attempt
      BY <2>5, ReconcileFrame
      DEF PlanOperation, CreatePlanRevision, DecidePlanRevision, GraphSubmitReview, SubmitReview,
          GraphAcceptReview, AcceptReview, planAll, vars
    <2>6. CASE Ungraphed
      <3>1. \/ attempt' = attempt
            \/ \E a \in Attempt : AskQuestion(a) \/ \E r \in Run : CancelRun(r, a)
        BY <2>6 DEF Ungraphed, TransitionToArchitectureReview, SubmitFix, AnswerQuestion, RetryRun,
                    TransitionToWaitingForUserConfirmation, AddRunGuidance
      <3> QED
        BY <2>3, <2>4, <2>f, <3>1
    <2> QED
      BY <2>1, <2>2, <2>f, <2>4, <2>5, <2>6 DEF PlanNext, GraphRunOperation
  <1> QED
    BY <1>1, <1>2, <1>3 DEF Founded

\* The first layer is inductive.
LEMMA PlanRowsStep == PlanTypeOK /\ PlanRows /\ [PlanNext]_planAll => PlanRows'
  <1> SUFFICES ASSUME PlanTypeOK, PlanRows, [PlanNext]_planAll PROVE PlanRows'
    OBVIOUS
  <1>t. TypeOK /\ Rows /\ Coherent /\ WorktreeLeaseUnique /\ RunsAreDispatched /\ RevisionsAreApproved
    BY DEF PlanTypeOK, PlanRows
  <1>1. Rows' /\ Coherent' /\ WorktreeLeaseUnique'
    <2>1. CASE [Next]_vars
      BY <1>t, <2>1, RowsStep, CoherentStep, LeaseStep
    <2>2. CASE run' = run /\ attempt' = attempt
      <3>1. Rows'
        BY <1>t, <2>2 DEF Rows, NumbersDistinct, LineageShared, AbsentRowIsFree,
                          AbsentRunHoldsNothing, AttemptsOf
      <3>2. Coherent'
        BY <1>t, <2>2 DEF Coherent, RunFollowsLatestAttempt, OneActiveAttempt, AttemptsOf,
                          IsLatestAttempt, IsActive
      <3>3. WorktreeLeaseUnique'
        BY <1>t, <2>2 DEF WorktreeLeaseUnique
      <3> QED
        BY <3>1, <3>2, <3>3
    <2>3. CASE \E mapping \in Mappings : ReconcilePlan(mapping)
      BY <2>3, ReconcileRows
    <2>4. CASE GraphRunOperation \/ Ungraphed
      BY <1>t, <2>1, <2>4, RunOperationIsService
    <2>5. CASE \E g \in Graph : CreatePlanRevision(g)
      BY <2>2, <2>5 DEF CreatePlanRevision, vars
    <2>6. CASE \E verdict \in {"approved", "rejected"} : DecidePlanRevision(verdict)
      BY <2>2, <2>6 DEF DecidePlanRevision
    <2>7. CASE UNCHANGED planAll
      BY <2>2, <2>7 DEF planAll, vars
    <2> QED
      BY <2>3, <2>4, <2>5, <2>6, <2>7 DEF PlanNext, PlanOperation
  <1>2. RunsAreDispatched' /\ RevisionsAreApproved'
    BY RowsAreFounded, FoundedStep DEF Founded
  <1> QED
    BY <1>1, <1>2 DEF PlanRows

\* Columns start in their domains.
LEMMA PlanInitTyped == PlanInit => PlanTypeOK
  <1> SUFFICES ASSUME PlanInit PROVE PlanTypeOK
    OBVIOUS
  <1>1. TypeOK
    BY NoneAssumption, BoundAssumption
    DEF PlanInit, Init, TypeOK, NoRun, NoAttempt, RunRecord, AttemptRecord, RoomState, Task
  <1>2. revision = << >> /\ Len(revision) = 0 /\ 0 <= MaxRevision /\ 0 \in 0 .. MaxRevision
    BY PlanAssumption DEF PlanInit
  <1>3. NoDispatch \in DispatchRecord
    BY <1>2 DEF NoDispatch, DispatchRecord
  <1>4. dispatch \in [Run -> DispatchRecord]
    BY <1>3 DEF PlanInit
  <1>5. /\ evidence \in [Attempt -> Change \cup {{}}]
        /\ decision \in [Attempt -> {"none", "approved", "changes_requested"}]
    BY DEF PlanInit
  <1> QED
    BY <1>1, <1>2, <1>4, <1>5 DEF PlanTypeOK, DispatchRecord

\* Every column keeps its domain, whatever graphs the planner submits.
THEOREM PlanIsTyped == PlanSpec => []PlanTypeOK
  BY PlanInitTyped, PlanTypeStep, PTL DEF PlanSpec, planAll

\* Runs enter a plan by reconciliation, several at a time, and still every attempt has
\* a number of its own, a Run tells the story of its latest attempt, no two Runs that
\* are not accepted hold one worktree, and each stems from an approved revision.
THEOREM PlansKeepTheService == PlanSpec => []PlanRows
<1>1. PlanInit => PlanRows
  <2> SUFFICES ASSUME PlanInit PROVE PlanRows
    OBVIOUS
  <2>1. \A r \in Run : run[r] = NoRun /\ dispatch[r] = NoDispatch
    BY DEF PlanInit, Init
  <2>2. \A a \in Attempt : attempt[a] = NoAttempt
    BY DEF PlanInit, Init
  <2>3. Rows
    BY <2>1, <2>2, NoneAssumption
    DEF Rows, NumbersDistinct, LineageShared, AbsentRowIsFree, AbsentRunHoldsNothing, AttemptsOf,
        NoAttempt, NoRun
  <2>4. Coherent
    BY <2>1, <2>2, NoneAssumption
    DEF Coherent, RunFollowsLatestAttempt, OneActiveAttempt, AttemptsOf, IsLatestAttempt,
        NoAttempt, NoRun
  <2>5. WorktreeLeaseUnique
    BY <2>1 DEF WorktreeLeaseUnique, NoRun
  <2>6. RunsAreDispatched /\ RevisionsAreApproved
    BY <2>1 DEF RunsAreDispatched, RevisionsAreApproved, Dispatched, NoDispatch, NoRun
  <2> QED
    BY <2>3, <2>4, <2>5, <2>6 DEF PlanRows
<1>2. QED
  BY <1>1, PlanRowsStep, PlanIsTyped, PTL DEF PlanSpec, planAll

-----------------------------------------------------------------------------
(* Consent: amendments, and the order of the plan.                         *)

\* What is dispatched stays in the graph it was dispatched from.
LEMMA SourceStays ==
    ASSUME PlanTypeOK, Founded, [PlanNext]_planAll, NEW n \in Run, Dispatched(n)
    PROVE  /\ dispatch[n].rev \in 1 .. Len(revision)
           /\ dispatch'[n].rev = dispatch[n].rev
           /\ SourceGraph(n)' = SourceGraph(n)
           /\ SourceGraph(n) = revision[dispatch[n].rev].graph
  BY DispatchStep, RevisionStep DEF Founded, RevisionsAreApproved, SourceGraph

\* A node new among the dispatched is one of the revision in force, with all that it
\* depends on accepted, completed and within scope.
LEMMA NewlyDispatched ==
    ASSUME PlanTypeOK, Founded, [PlanNext]_planAll, NEW n \in Run, ~Dispatched(n), Dispatched(n)'
    PROVE  /\ Len(revision) \in 1 .. Len(revision)
           /\ Len(revision') = Len(revision) /\ revision' = revision
           /\ dispatch'[n].rev = Len(revision)
           /\ SourceGraph(n)' = CurrentGraph
           /\ CurrentGraph = revision[Len(revision)].graph
           /\ CurrentGraph.node \subseteq Run
           /\ ValidGraph(CurrentGraph)
           /\ n \in CurrentGraph.node
           /\ Eligible(n)
  <1>1. PICK mapping \in Mappings : ReconcilePlan(mapping)
    BY DispatchStep DEF Dispatched
  <1>2. /\ Eligible(n) /\ n \in CurrentGraph.node
        /\ dispatch'[n].rev = Len(revision)
    BY DispatchStep DEF Dispatched
  <1>3. revision' = revision /\ HasCurrent /\ ValidGraph(CurrentGraph)
    BY <1>1, ReconcileFrame
  <1> QED
    BY <1>2, <1>3, RevisionsAreTyped DEF SourceGraph, CurrentGraph

\* Amendments of a plan that is being worked on keep what was dispatched.
LEMMA AmendmentStep ==
    PlanTypeOK /\ Founded /\ AmendmentKeepsDispatched /\ [PlanNext]_planAll
        => AmendmentKeepsDispatched'
  <1> SUFFICES ASSUME PlanTypeOK, Founded, AmendmentKeepsDispatched, [PlanNext]_planAll,
                      NEW n \in Run, Dispatched(n)',
                      NEW k \in dispatch'[n].rev .. Len(revision')
               PROVE  /\ n \in revision'[k].graph.node
                      /\ NodeOf(revision'[k].graph, n) = NodeOf(SourceGraph(n)', n)
                      /\ Ancestors(revision'[k].graph, n) = Ancestors(SourceGraph(n)', n)
    BY DEF AmendmentKeepsDispatched
  <1>1. CASE Dispatched(n)
    <2>1. /\ dispatch[n].rev \in 1 .. Len(revision)
          /\ dispatch'[n].rev = dispatch[n].rev
          /\ SourceGraph(n)' = SourceGraph(n)
      BY <1>1, SourceStays
    <2>2. k \in 1 .. Len(revision')
      BY <2>1
    <2>3. CASE k \in 1 .. Len(revision)
      <3>1. revision'[k].graph = revision[k].graph
        BY <2>3, RevisionStep
      <3>2. k \in dispatch[n].rev .. Len(revision)
        BY <2>1, <2>3
      <3> QED
        BY <1>1, <2>1, <3>1, <3>2 DEF AmendmentKeepsDispatched
    <2>4. CASE k \notin 1 .. Len(revision)
      <3>1. Amendable(revision'[k].graph, k) /\ k = Len(revision) + 1
        BY <2>2, <2>4, RevisionStep
      <3>2. dispatch[n].rev < k
        BY <2>1, <3>1, RevisionsAreTyped
      <3> QED
        BY <1>1, <2>1, <3>1, <3>2 DEF Amendable
    <2> QED
      BY <2>3, <2>4
  <1>2. CASE ~Dispatched(n)
    BY <1>2, NewlyDispatched
  <1> QED
    BY <1>1, <1>2

\* A node once dispatched is part of every later revision, unchanged and with the same
\* ancestors, for every set of graphs, any number of amendments and any decisions.
THEOREM AmendmentsKeepDispatched == PlanSpec => []AmendmentKeepsDispatched
<1>1. PlanInit => AmendmentKeepsDispatched
  BY DEF PlanInit, AmendmentKeepsDispatched, Dispatched, NoDispatch
<1>2. QED
  BY <1>1, AmendmentStep, RowsAreFounded, PlanIsTyped, PlansKeepTheService, PTL DEF PlanSpec, planAll

\* Nobody works without consent: every Run stems from a revision the user approved.
THEOREM OnlyApprovedRuns == PlanSpec => []OnlyApprovedIsRun
<1>1. PlanTypeOK /\ PlanRows /\ AmendmentKeepsDispatched => OnlyApprovedIsRun
  <2> SUFFICES ASSUME PlanTypeOK, PlanRows, AmendmentKeepsDispatched,
                      NEW n \in Run, run[n].status # "absent"
               PROVE  /\ dispatch[n].rev \in 1 .. Len(revision)
                      /\ revision[dispatch[n].rev].decision = "approved"
                      /\ n \in SourceGraph(n).node
    BY DEF OnlyApprovedIsRun
  <2>1. Dispatched(n)
    BY DEF PlanRows, RunsAreDispatched
  <2>2. /\ dispatch[n].rev \in 1 .. Len(revision)
        /\ revision[dispatch[n].rev].decision = "approved"
    BY <2>1 DEF PlanRows, RevisionsAreApproved
  <2>3. dispatch[n].rev \in dispatch[n].rev .. Len(revision)
    BY <2>2
  <2>4. n \in revision[dispatch[n].rev].graph.node
    BY <2>1, <2>3 DEF AmendmentKeepsDispatched
  <2> QED
    BY <2>2, <2>4 DEF SourceGraph
<1>2. QED
  BY <1>1, AmendmentsKeepDispatched, PlanIsTyped, PlansKeepTheService, PTL

\* What unlocks a dependant never comes undone.
LEMMA SatisfiedStays ==
    ASSUME PlanTypeOK, PlanRows, [PlanNext]_planAll, NEW m \in Run, Satisfied(m)
    PROVE  Satisfied(m)'
  <1>1. run[m].status = "accepted" /\ dispatch[m].status = "completed" /\ ~dispatch[m].violated
    BY DEF Satisfied
  <1>s. ASSUME run'[m] = run[m], dispatch'[m] = dispatch[m] PROVE Satisfied(m)'
    BY <1>1, <1>s DEF Satisfied
  <1>2. ASSUME NEW mapping \in Mappings, ReconcilePlan(mapping) PROVE Satisfied(m)'
    BY <1>1, <1>2, <1>s, ReconcileRun
  <1>3. CASE GraphRunOperation \/ Ungraphed
    <2>1. run'[m] = run[m]
      BY <1>1, <1>3, RunExistence
    <2>2. ASSUME NEW a \in Attempt, NEW r \in Run, NEW w \in Worktree, GraphClaimRunAttempt(a, r, w)
          PROVE  dispatch'[m] = dispatch[m]
      <3>1. m # r
        BY <1>1, <2>2, GraphClaimEffect
      <3> QED
        BY <2>2, <3>1, GraphClaimEffect
    <2>3. ASSUME NEW a \in Attempt, NEW status \in TerminalStatus, NEW paths \in Change,
                 GraphSettleRunAttempt(a, status, ResultOf(a, status), FailureOf(status), None, paths)
          PROVE  dispatch'[m] = dispatch[m]
      <3>1. attempt[a].status # "absent" /\ IsActive(a)
        BY <2>3 DEF GraphSettleRunAttempt, SettleRunAttempt, IsActive, ActiveStatus
      <3>2. attempt[a].run \in Run /\ a \in AttemptsOf(attempt[a].run)
        BY <3>1, AttemptIsDispatched, RowsAreFounded
      <3>3. run[attempt[a].run].status \in {"running", "cancel_requested"}
        BY <3>1, <3>2, ActiveRunStatus DEF PlanRows, PlanTypeOK
      <3>4. m # attempt[a].run
        BY <1>1, <3>3
      <3>5. \A q \in Run \ {attempt[a].run} : dispatch'[q] = dispatch[q]
        BY <2>3, <3>2, GraphSettleEffect
      <3> QED
        BY <3>4, <3>5
    <2>4. ASSUME NEW a \in Attempt, GraphAcceptReview(a) PROVE dispatch'[m] = dispatch[m]
      <3>1. run[attempt[a].run].status = "review_discussion"
        BY <2>4 DEF GraphAcceptReview, AcceptReview
      <3>2. \E s \in {"awaiting_git", "completed"} :
               dispatch' = [dispatch EXCEPT ![attempt[a].run].status = s]
        BY <2>4 DEF GraphAcceptReview
      <3>3. m # attempt[a].run
        BY <1>1, <3>1
      <3> QED
        BY <3>2, <3>3 DEF PlanTypeOK
    <2>5. ASSUME \/ \E a \in Attempt, severity \in Severity, d \in {"approved", "changes_requested"} :
                       GraphSubmitReview(a, severity, d)
                 \/ Ungraphed
          PROVE  dispatch'[m] = dispatch[m]
      BY <2>5 DEF GraphSubmitReview, Ungraphed, planVars
    <2> QED
      BY <1>s, <1>3, <2>1, <2>2, <2>3, <2>4, <2>5 DEF GraphRunOperation
  <1>4. CASE \/ \E g \in Graph : CreatePlanRevision(g)
             \/ \E verdict \in {"approved", "rejected"} : DecidePlanRevision(verdict)
             \/ UNCHANGED planAll
    BY <1>4, <1>s DEF CreatePlanRevision, DecidePlanRevision, planAll, planVars, vars
  <1> QED
    BY <1>2, <1>3, <1>4 DEF PlanNext, PlanOperation

\* What a dispatched node depends on stays done, in its own revision and in later ones.
LEMMA DependenciesStep ==
    PlanTypeOK /\ PlanRows /\ DependenciesComplete /\ [PlanNext]_planAll => DependenciesComplete'
  <1> SUFFICES ASSUME PlanTypeOK, PlanRows, DependenciesComplete, [PlanNext]_planAll,
                      NEW n \in Run, Dispatched(n)',
                      NEW k \in dispatch'[n].rev .. Len(revision'),
                      NEW m \in Ancestors(revision'[k].graph, n)
               PROVE  Satisfied(m)'
    BY DEF DependenciesComplete, Satisfied
  <1>1. ASSUME NEW q \in Run, Dispatched(q), NEW j \in dispatch[q].rev .. Len(revision),
               NEW d \in Ancestors(revision[j].graph, q)
        PROVE  d \in Run /\ Satisfied(d)
    <2>1. Satisfied(d)
      BY <1>1 DEF DependenciesComplete, Satisfied
    <2>2. j \in 1 .. Len(revision)
      BY <1>1 DEF PlanRows, RevisionsAreApproved
    <2>3. revision[j].graph \in Graph
      BY <2>2, RevisionsAreTyped DEF RevisionRecord
    <2> QED
      BY <2>1, <2>3, PlanAssumption DEF Ancestors
  <1>2. CASE Dispatched(n)
    <2>1. /\ dispatch[n].rev \in 1 .. Len(revision)
          /\ dispatch'[n].rev = dispatch[n].rev
          /\ SourceGraph(n) = revision[dispatch[n].rev].graph
      BY <1>2, SourceStays, RowsAreFounded
    <2>2. \E j \in dispatch[n].rev .. Len(revision) : m \in Ancestors(revision[j].graph, n)
      <3>1. CASE k \in 1 .. Len(revision)
        <4>1. revision'[k].graph = revision[k].graph /\ k \in dispatch[n].rev .. Len(revision)
          BY <2>1, <3>1, RevisionStep
        <4> QED
          BY <4>1
      <3>2. CASE k \notin 1 .. Len(revision)
        <4>1. Amendable(revision'[k].graph, k) /\ k = Len(revision) + 1
          BY <2>1, <3>2, RevisionStep
        <4>2. dispatch[n].rev < k /\ dispatch[n].rev \in dispatch[n].rev .. Len(revision)
          BY <2>1, <4>1, RevisionsAreTyped
        <4>3. Ancestors(revision'[k].graph, n) = Ancestors(SourceGraph(n), n)
          BY <1>2, <4>1, <4>2 DEF Amendable
        <4> QED
          BY <2>1, <4>2, <4>3
      <3> QED
        BY <3>1, <3>2
    <2>3. m \in Run /\ Satisfied(m)
      BY <1>1, <1>2, <2>2
    <2> QED
      BY <2>3, SatisfiedStays
  <1>3. CASE ~Dispatched(n)
    <2> DEFINE g == CurrentGraph
    <2>1. /\ k = Len(revision) /\ Len(revision) \in 1 .. Len(revision)
          /\ revision'[k].graph = g /\ revision[k].graph = g
          /\ g.node \subseteq Run /\ n \in g.node
          /\ WellFormed(g)
          /\ \A d \in g.dep[n] : Satisfied(d)
      BY <1>3, NewlyDispatched, RowsAreFounded DEF ValidGraph, Eligible
    <2>2. m \in Run
      BY <2>1 DEF Ancestors
    <2>3. CASE m \in g.dep[n]
      BY <2>1, <2>2, <2>3, SatisfiedStays
    <2>4. CASE m \notin g.dep[n]
      <3>1. PICK d \in g.dep[n] : m \in Ancestors(g, d)
        BY <2>1, <2>4, AncestorByDependency
      <3>2. d \in Run /\ Dispatched(d)
        BY <2>1, <3>1 DEF WellFormed, Satisfied, Dispatched
      <3>3. k \in dispatch[d].rev .. Len(revision)
        BY <2>1, <3>2, SourceStays, RowsAreFounded
      <3>4. Satisfied(m)
        BY <1>1, <2>1, <3>1, <3>2, <3>3
      <3> QED
        BY <2>2, <3>4, SatisfiedStays
    <2> QED
      BY <2>3, <2>4
  <1> QED
    BY <1>2, <1>3

\* The order of the plan holds at all times: whatever a dispatched node depends on,
\* directly or not, is accepted, completed and within its scopes, for every graph.
THEOREM DependenciesAreComplete == PlanSpec => []DependenciesComplete
<1>1. PlanInit => DependenciesComplete
  BY DEF PlanInit, DependenciesComplete, Dispatched, NoDispatch
<1>2. QED
  BY <1>1, DependenciesStep, PlanIsTyped, PlansKeepTheService, PTL DEF PlanSpec, planAll

-----------------------------------------------------------------------------
(* A dispatch and its Run tell one story.                                  *)

SuccessesOf(n) == {a \in AttemptsOf(n) : attempt[a].status = "succeeded"}

\* The last success of n left paths out of scope.
LastSuccessOut(n) ==
    \E a \in SuccessesOf(n) :
        /\ \A b \in SuccessesOf(n) : attempt[b].no <= attempt[a].no
        /\ OutOfScope(n, evidence[a]) # {}

\* A Run without a Fix has no success behind it until it waits for its Review.
FirstSuccessIsReviewed(n) ==
    SuccessesOf(n) # {} =>
        run[n].task > 0 \/ run[n].status \in {"review_required", "review_discussion", "accepted"}

Story(n) ==
    /\ dispatch[n].violated <=> dispatch[n].status = "blocked"
    /\ dispatch[n].worktree = run[n].worktree
    /\ run[n].status = "accepted" <=>
          \/ dispatch[n].status = "completed"
          \/ dispatch[n].status = "awaiting_git" /\ dispatch[n].worktree # None
    /\ HasActiveAttempt(n) => dispatch[n].status \in {"dispatched", "blocked"}
    /\ dispatch[n].violated <=> LastSuccessOut(n)
    /\ FirstSuccessIsReviewed(n)

Stories == \A n \in Run : Story(n)

\* A success keeps its row and its evidence.
LEMMA SuccessStays ==
    ASSUME PlanTypeOK, PlanRows, [PlanNext]_planAll,
           NEW a \in Attempt, attempt[a].status = "succeeded"
    PROVE  attempt'[a] = attempt[a] /\ evidence'[a] = evidence[a]
  <1>t. TypeOK /\ Rows
    BY DEF PlanTypeOK, PlanRows
  <1>1. CASE GraphRunOperation \/ Ungraphed
    <2>1. attempt'[a] = attempt[a]
      BY <1>1, <1>t, RunOperationIsService, TerminalStays DEF TerminalStatus
    <2>2. ASSUME NEW b \in Attempt, NEW status \in TerminalStatus, NEW paths \in Change,
                 GraphSettleRunAttempt(b, status, ResultOf(b, status), FailureOf(status), None, paths)
          PROVE  evidence'[a] = evidence[a]
      <3>1. IsActive(b) /\ (evidence' = [evidence EXCEPT ![b] = paths] \/ evidence' = evidence)
        BY <2>2 DEF GraphSettleRunAttempt, SettleRunAttempt
      <3>2. a # b
        BY <3>1 DEF IsActive, ActiveStatus
      <3> QED
        BY <3>1, <3>2 DEF PlanTypeOK
    <2>3. ASSUME \/ \E b \in Attempt, r \in Run, w \in Worktree : GraphClaimRunAttempt(b, r, w)
                 \/ \E b \in Attempt, severity \in Severity, d \in {"approved", "changes_requested"} :
                       GraphSubmitReview(b, severity, d)
                 \/ \E b \in Attempt : GraphAcceptReview(b)
                 \/ Ungraphed
          PROVE  evidence'[a] = evidence[a]
      BY <2>3 DEF GraphClaimRunAttempt, GraphSubmitReview, GraphAcceptReview, Ungraphed, planVars
    <2> QED
      BY <1>1, <2>1, <2>2, <2>3 DEF GraphRunOperation
  <1>2. ASSUME NEW mapping \in Mappings, ReconcilePlan(mapping)
        PROVE  attempt'[a] = attempt[a] /\ evidence'[a] = evidence[a]
    BY <1>2, ReconcileFrame
  <1>3. CASE \/ \E g \in Graph : CreatePlanRevision(g)
             \/ \E verdict \in {"approved", "rejected"} : DecidePlanRevision(verdict)
             \/ UNCHANGED planAll
    BY <1>3 DEF CreatePlanRevision, DecidePlanRevision, planAll, planVars, vars
  <1> QED
    BY <1>1, <1>2, <1>3 DEF PlanNext, PlanOperation

\* A success is new by a settlement only.
LEMMA NewSuccess ==
    ASSUME PlanTypeOK, PlanRows, [PlanNext]_planAll,
           NEW a \in Attempt, attempt[a].status # "succeeded", attempt'[a].status = "succeeded"
    PROVE  \E status \in TerminalStatus, paths \in Change :
              GraphSettleRunAttempt(a, status, ResultOf(a, status), FailureOf(status), None, paths)
  <1>t. TypeOK /\ Rows /\ attempt \in [Attempt -> AttemptRecord]
    BY DEF PlanTypeOK, PlanRows, TypeOK
  <1>1. attempt' # attempt
    OBVIOUS
  <1>2. ASSUME NEW b \in Attempt, NEW s, attempt' = [attempt EXCEPT ![b].status = s]
        PROVE  s = "succeeded"
    <2>1. b = a
      BY <1>t, <1>2
    <2> QED
      BY <1>t, <1>2, <2>1, AttemptStatusEffect
  <1>3. ASSUME NEW b \in Attempt, NEW r \in Run, NEW w \in Worktree, GraphClaimRunAttempt(b, r, w)
        PROVE  FALSE
    <2>1. ClaimRunAttempt(b, r, w)
      BY <1>3 DEF GraphClaimRunAttempt
    <2>2. attempt'[b].status = "running" /\ \A c \in Attempt \ {b} : attempt'[c] = attempt[c]
      BY <1>t, <2>1, ClaimEffect
    <2> QED
      BY <2>2
  <1>4. ASSUME NEW b \in Attempt, NEW status \in TerminalStatus, NEW paths \in Change,
               GraphSettleRunAttempt(b, status, ResultOf(b, status), FailureOf(status), None, paths)
        PROVE  b = a
    <2>1. SettleRunAttempt(b, status, ResultOf(b, status), FailureOf(status), None)
      BY <1>4 DEF GraphSettleRunAttempt
    <2>2. attempt[b].run \in Run
      BY <2>1, AttemptIsDispatched, RowsAreFounded DEF SettleRunAttempt, IsActive, ActiveStatus
    <2>3. \A c \in Attempt \ {b} : attempt'[c] = attempt[c]
      BY <1>t, <2>1, <2>2, SettleEffect
    <2> QED
      BY <2>3
  <1>5. ASSUME \/ \E b \in Attempt, severity \in Severity, d \in {"approved", "changes_requested"} :
                     GraphSubmitReview(b, severity, d)
               \/ \E b \in Attempt : GraphAcceptReview(b)
        PROVE  FALSE
    BY <1>1, <1>5 DEF GraphSubmitReview, SubmitReview, GraphAcceptReview, AcceptReview
  <1>6. CASE Ungraphed
    <2>1. ASSUME NEW b \in Attempt, AskQuestion(b) PROVE FALSE
      BY <1>2, <2>1 DEF AskQuestion
    <2>2. ASSUME NEW r \in Run, NEW b \in Attempt, CancelRun(r, b) PROVE FALSE
      BY <1>2, <2>2 DEF CancelRun
    <2>3. ASSUME NEW r \in Run, NEW b \in Attempt, SubmitFix(r, b) PROVE FALSE
      BY <1>1, <2>3 DEF SubmitFix
    <2>4. ASSUME NEW b \in Attempt, NEW changesContract \in BOOLEAN,
                 AnswerQuestion(b, changesContract)
          PROVE  FALSE
      BY <1>1, <2>4 DEF AnswerQuestion
    <2>5. ASSUME \/ TransitionToArchitectureReview
                 \/ TransitionToWaitingForUserConfirmation
                 \/ \E r \in Run : RetryRun(r)
                 \/ \E g \in Guidance, r \in Run : AddRunGuidance(g, r)
          PROVE  FALSE
      BY <1>1, <2>5 DEF TransitionToArchitectureReview, TransitionToWaitingForUserConfirmation,
                        RetryRun, AddRunGuidance
    <2> QED
      BY <1>6, <2>1, <2>2, <2>3, <2>4, <2>5 DEF Ungraphed
  <1>7. ~\E mapping \in Mappings : ReconcilePlan(mapping)
    BY <1>1, ReconcileFrame
  <1>8. /\ ~\E g \in Graph : CreatePlanRevision(g)
        /\ ~\E verdict \in {"approved", "rejected"} : DecidePlanRevision(verdict)
        /\ ~UNCHANGED planAll
    BY <1>1 DEF CreatePlanRevision, DecidePlanRevision, planAll, vars
  <1>9. GraphRunOperation \/ Ungraphed
    BY <1>7, <1>8 DEF PlanNext, PlanOperation
  <1> QED
    BY <1>3, <1>4, <1>5, <1>6, <1>9 DEF GraphRunOperation

\* A step settles an attempt of n as succeeded, or leaves the successes of n, and what
\* they left, as they were.
LEMMA SuccessesStep ==
    ASSUME PlanTypeOK, PlanRows, [PlanNext]_planAll, NEW n \in Run
    PROVE  \/ \E a \in AttemptsOf(n), status \in TerminalStatus, paths \in Change :
                 /\ attempt'[a].status = "succeeded"
                 /\ GraphSettleRunAttempt(a, status, ResultOf(a, status), FailureOf(status), None, paths)
           \/ /\ SuccessesOf(n)' = SuccessesOf(n)
              /\ LastSuccessOut(n)' <=> LastSuccessOut(n)
  <1> DEFINE Settled ==
        \E a \in AttemptsOf(n), status \in TerminalStatus, paths \in Change :
           /\ attempt'[a].status = "succeeded"
           /\ GraphSettleRunAttempt(a, status, ResultOf(a, status), FailureOf(status), None, paths)
  <1> HIDE DEF Settled
  <1> SUFFICES ASSUME ~Settled
               PROVE  /\ SuccessesOf(n)' = SuccessesOf(n)
                      /\ LastSuccessOut(n)' <=> LastSuccessOut(n)
    BY DEF Settled
  <1>1. ASSUME NEW a \in Attempt, attempt[a].status = "succeeded"
        PROVE  attempt'[a] = attempt[a] /\ evidence'[a] = evidence[a]
    BY <1>1, SuccessStays
  <1>2. ASSUME NEW a \in Attempt, attempt[a].status # "succeeded",
               attempt'[a].status = "succeeded", attempt'[a].run = n
        PROVE  FALSE
    <2>1. PICK status \in TerminalStatus, paths \in Change :
             GraphSettleRunAttempt(a, status, ResultOf(a, status), FailureOf(status), None, paths)
      BY <1>2, NewSuccess
    <2>2. SettleRunAttempt(a, status, ResultOf(a, status), FailureOf(status), None)
      BY <2>1 DEF GraphSettleRunAttempt
    <2>3. attempt[a].run \in Run
      BY <2>2, AttemptIsDispatched, RowsAreFounded DEF SettleRunAttempt, IsActive, ActiveStatus
    <2>4. attempt'[a].run = attempt[a].run
      BY <2>2, <2>3, SettleEffect DEF PlanTypeOK
    <2>5. a \in AttemptsOf(n)
      BY <1>2, <2>4 DEF AttemptsOf
    <2> QED
      BY <1>2, <2>1, <2>5, Zenon DEF Settled
  <1>3. SuccessesOf(n)' = SuccessesOf(n)
    BY <1>1, <1>2 DEF SuccessesOf, AttemptsOf
  <1>4. ASSUME NEW a \in SuccessesOf(n)
        PROVE  /\ attempt'[a] = attempt[a] /\ evidence'[a] = evidence[a]
               /\ SourceGraph(n)' = SourceGraph(n)
    <2>1. a \in Attempt /\ attempt[a].status = "succeeded" /\ attempt[a].run = n
      BY <1>4 DEF SuccessesOf, AttemptsOf
    <2>2. Dispatched(n)
      BY <2>1, AttemptIsDispatched, RowsAreFounded
    <2> QED
      BY <1>1, <2>1, <2>2, SourceStays, RowsAreFounded
  <1>5. \A a \in SuccessesOf(n) :
           OutOfScope(n, evidence[a])' = OutOfScope(n, evidence[a])
    BY <1>4 DEF OutOfScope
  <1>6. LastSuccessOut(n)' <=>
           \E a \in SuccessesOf(n)' :
              /\ \A b \in SuccessesOf(n)' : attempt'[b].no <= attempt'[a].no
              /\ OutOfScope(n, evidence[a])' # {}
    BY DEF LastSuccessOut
  <1> QED
    BY <1>3, <1>4, <1>5, <1>6 DEF LastSuccessOut

\* The first success of a Run ends in its Review; the next one is of a Fix.
LEMMA FirstSuccessStep ==
    ASSUME PlanTypeOK, PlanRows, PlanRows', [PlanNext]_planAll,
           NEW n \in Run, FirstSuccessIsReviewed(n)
    PROVE  FirstSuccessIsReviewed(n)'
  <1>t. TypeOK /\ Rows /\ Coherent /\ run[n] \in RunRecord /\ run[n].task \in Nat
    BY BoundAssumption DEF PlanTypeOK, PlanRows, TypeOK, RunRecord, Task
  <1> DEFINE Reviewing(x) ==
        x.task > 0 \/ x.status \in {"review_required", "review_discussion", "accepted"}
  <1>q. ASSUME SuccessesOf(n)' # {} => Reviewing(run'[n]) PROVE FirstSuccessIsReviewed(n)'
    BY <1>q DEF FirstSuccessIsReviewed
  <1>0. SuccessesOf(n) # {} => Reviewing(run[n])
    BY DEF FirstSuccessIsReviewed
  <1>1. CASE SuccessesOf(n)' = SuccessesOf(n)
    <2> SUFFICES ASSUME SuccessesOf(n) # {} PROVE Reviewing(run'[n])
      BY <1>q, <1>1
    <2>1. CASE run'[n] = run[n]
      BY <1>0, <2>1
    <2>2. CASE run'[n] # run[n] /\ (GraphRunOperation \/ Ungraphed)
      <3>1. /\ <<run[n].status, run'[n].status>> \in RunTransition
            /\ run[n].status = "review_discussion" /\ run'[n].status = "ready"
                  => run'[n].task = run[n].task + 1
            /\ run[n].status # "review_discussion" => run'[n].task = run[n].task
        BY <2>2, RunStep
      <3>2. CASE run[n].status = "review_discussion"
        <4>1. run'[n].status \in {"ready", "accepted"}
          BY <3>1, <3>2 DEF RunTransition
        <4> QED
          BY <1>t, <3>1, <3>2, <4>1
      <3>3. CASE run[n].status = "review_required"
        <4>1. run'[n].status = "review_discussion"
          BY <3>1, <3>3 DEF RunTransition
        <4> QED
          BY <4>1
      <3>4. CASE run[n].status \notin {"review_discussion", "review_required"}
        <4>1. run[n].status # "accepted"
          BY <3>1 DEF RunTransition
        <4>2. run[n].task > 0
          BY <1>0, <3>4, <4>1
        <4> QED
          BY <3>1, <3>4, <4>2
      <3> QED
        BY <3>2, <3>3, <3>4
    <2>3. ASSUME NEW mapping \in Mappings, ReconcilePlan(mapping) PROVE Reviewing(run'[n])
      <3>1. AttemptsOf(n) # {}
        BY DEF SuccessesOf
      <3>2. run'[n] = run[n] \/ run'[n].status = "accepted"
        BY <2>3, <3>1, ReconcileRun
      <3> QED
        BY <1>0, <3>2
    <2>4. CASE \/ \E g \in Graph : CreatePlanRevision(g)
               \/ \E verdict \in {"approved", "rejected"} : DecidePlanRevision(verdict)
               \/ UNCHANGED planAll
      BY <2>1, <2>4 DEF CreatePlanRevision, DecidePlanRevision, planAll, vars
    <2> HIDE DEF Reviewing
    <2> QED
      BY <2>1, <2>2, <2>3, <2>4 DEF PlanNext, PlanOperation
  <1>2. ASSUME NEW a \in AttemptsOf(n), NEW status \in TerminalStatus, NEW paths \in Change,
               attempt'[a].status = "succeeded",
               GraphSettleRunAttempt(a, status, ResultOf(a, status), FailureOf(status), None, paths)
        PROVE  Reviewing(run'[n])
    <2>1. SettleRunAttempt(a, status, ResultOf(a, status), FailureOf(status), None)
      BY <1>2 DEF GraphSettleRunAttempt
    <2>2. attempt[a].run = n /\ a \in Attempt
      BY DEF AttemptsOf
    <2>3. run'[n].status = RunStatusForTerminal(attempt'[a].status)
      BY <1>t, <2>1, <2>2, SettleEffect
    <2> QED
      BY <1>2, <2>3 DEF RunStatusForTerminal
  <1> HIDE DEF Reviewing
  <1> QED
    BY <1>q, <1>1, <1>2, SuccessesStep

\* What touches neither the dispatch nor the end of a Run leaves the story as it was.
LEMMA StoryGoesOn ==
    ASSUME PlanTypeOK, PlanRows, PlanRows', [PlanNext]_planAll, NEW n \in Run, Story(n),
           dispatch'[n] = dispatch[n],
           run'[n].worktree = run[n].worktree,
           run'[n].status = "accepted" <=> run[n].status = "accepted",
           HasActiveAttempt(n)' => HasActiveAttempt(n),
           LastSuccessOut(n)' <=> LastSuccessOut(n)
    PROVE  Story(n)'
  <1>1. FirstSuccessIsReviewed(n)'
    BY FirstSuccessStep DEF Story
  <1> QED
    BY <1>1 DEF Story

\* A Run whose row is not touched has the story it had.
LEMMA StoryOfOthers ==
    ASSUME PlanTypeOK, PlanRows, PlanRows', [PlanNext]_planAll, NEW n \in Run, Story(n),
           dispatch'[n] = dispatch[n], run'[n] = run[n],
           \A a \in Attempt : attempt'[a] = attempt[a] \/ attempt'[a].run # n
    PROVE  Story(n)'
  <1>1. HasActiveAttempt(n)' => HasActiveAttempt(n)
    BY DEF HasActiveAttempt, IsActive, AttemptsOf
  <1>2. ASSUME NEW a \in AttemptsOf(n), NEW status \in TerminalStatus, NEW paths \in Change,
               GraphSettleRunAttempt(a, status, ResultOf(a, status), FailureOf(status), None, paths)
        PROVE  FALSE
    <2>1. SettleRunAttempt(a, status, ResultOf(a, status), FailureOf(status), None)
      BY <1>2 DEF GraphSettleRunAttempt
    <2>2. attempt[a].run = n /\ a \in Attempt
      BY DEF AttemptsOf
    <2>3. /\ attempt'[a].run = n
          /\ <<attempt[a].status, attempt'[a].status>> \in AttemptTransition
      BY <2>1, <2>2, SettleEffect DEF PlanTypeOK
    <2>4. attempt'[a] # attempt[a]
      BY <2>3 DEF AttemptTransition
    <2> QED
      BY <2>2, <2>3, <2>4
  <1>3. LastSuccessOut(n)' <=> LastSuccessOut(n)
    BY <1>2, SuccessesStep
  <1> QED
    BY <1>1, <1>3, StoryGoesOn

\* Whoever claims works where the Run was dispatched to.
LEMMA ClaimStory ==
    ASSUME PlanTypeOK, PlanRows, PlanRows', [PlanNext]_planAll, NEW n \in Run, Story(n),
           NEW a \in Attempt, NEW r \in Run, NEW w \in Worktree, GraphClaimRunAttempt(a, r, w)
    PROVE  Story(n)'
  <1>1. /\ attempt'[a].run = r /\ attempt'[a].status = "running"
        /\ \A b \in Attempt \ {a} : attempt'[b] = attempt[b]
        /\ run'[r].status = "running" /\ run'[r].worktree = w
        /\ \A q \in Run \ {r} : run'[q] = run[q]
    BY GraphClaimEffect, ClaimEffect DEF PlanTypeOK
  <1>2. CASE n # r
    <2>1. dispatch'[n] = dispatch[n]
      BY <1>2, GraphClaimEffect
    <2> QED
      BY <1>1, <1>2, <2>1, StoryOfOthers
  <1>3. CASE n = r
    <2>1. /\ dispatch[n].status \in {"ready", "dispatched", "blocked"}
          /\ dispatch'[n].worktree = w
          /\ dispatch'[n].violated = dispatch[n].violated
          /\ dispatch'[n].status =
                IF dispatch[n].status = "ready" THEN "dispatched" ELSE dispatch[n].status
      BY <1>3, GraphClaimEffect
    <2>2. ASSUME NEW b \in AttemptsOf(n), NEW status \in TerminalStatus, NEW paths \in Change,
                 attempt'[b].status = "succeeded",
                 GraphSettleRunAttempt(b, status, ResultOf(b, status), FailureOf(status), None, paths)
          PROVE  FALSE
      <3>1. b \in Attempt /\ attempt[b].status # "succeeded"
        BY <2>2 DEF AttemptsOf, GraphSettleRunAttempt, SettleRunAttempt, IsActive, ActiveStatus
      <3> QED
        BY <1>1, <2>2, <3>1
    <2>3. LastSuccessOut(n)' <=> LastSuccessOut(n)
      BY <2>2, SuccessesStep
    <2>4. FirstSuccessIsReviewed(n)'
      BY FirstSuccessStep DEF Story
    <2> QED
      BY <1>1, <1>3, <2>1, <2>3, <2>4 DEF Story
  <1> QED
    BY <1>2, <1>3

\* A settlement blocks the dispatch, lifts the block, or has nothing to tell it.
LEMMA SettleStory ==
    ASSUME PlanTypeOK, PlanRows, PlanRows', [PlanNext]_planAll, NEW n \in Run, Story(n),
           NEW a \in Attempt, NEW status \in TerminalStatus, NEW paths \in Change,
           GraphSettleRunAttempt(a, status, ResultOf(a, status), FailureOf(status), None, paths)
    PROVE  Story(n)'
  <1>t. TypeOK /\ Rows /\ Coherent /\ NumbersDistinct'
    BY DEF PlanTypeOK, PlanRows, Rows
  <1>1. SettleRunAttempt(a, status, ResultOf(a, status), FailureOf(status), None) /\ IsActive(a)
    BY DEF GraphSettleRunAttempt, SettleRunAttempt
  <1>r. PICK r \in Run : r = attempt[a].run
    BY <1>1, AttemptIsDispatched, RowsAreFounded DEF IsActive, ActiveStatus
  <1>2. r \in Run /\ a \in AttemptsOf(r) /\ Dispatched(r)
    BY <1>1, <1>r, AttemptIsDispatched, RowsAreFounded DEF IsActive, ActiveStatus
  <1>3. /\ attempt'[a].run = r /\ attempt'[a].no = attempt[a].no
        /\ \A b \in Attempt \ {a} : attempt'[b] = attempt[b]
        /\ run'[r].status = RunStatusForTerminal(attempt'[a].status)
        /\ run'[r].worktree = run[r].worktree
        /\ run'[r].task = run[r].task
        /\ \A q \in Run \ {r} : run'[q] = run[q]
        /\ attempt'[a].status \in TerminalStatus
    BY <1>t, <1>r, <1>1, <1>2, SettleEffect
  <1>4. /\ dispatch'[r].worktree = dispatch[r].worktree
        /\ \A q \in Run \ {r} : dispatch'[q] = dispatch[q]
        /\ attempt'[a].status # "succeeded" => UNCHANGED <<evidence, dispatch>>
    BY <1>r, <1>2, GraphSettleEffect
  <1>5. CASE n # r
    BY <1>3, <1>4, <1>5, StoryOfOthers
  <1>6. CASE n = r
    <2>1. /\ IsLatestAttempt(r, a)
          /\ \A b \in AttemptsOf(r) : IsActive(b) => b = a
      BY <1>t, <1>1, <1>2, ActiveIsLatest DEF Coherent
    <2>2. ~HasActiveAttempt(r)'
      <3>1. \A b \in Attempt : b \in AttemptsOf(r)' => b \in AttemptsOf(r)
        BY <1>2, <1>3 DEF AttemptsOf
      <3>2. ~IsActive(a)'
        BY <1>3 DEF IsActive, ActiveStatus, TerminalStatus
      <3>3. \A b \in AttemptsOf(r) \ {a} : ~IsActive(b)'
        BY <1>3, <2>1 DEF IsActive, AttemptsOf
      <3> QED
        BY <3>1, <3>2, <3>3 DEF HasActiveAttempt, AttemptsOf
    <2>3. run[r].status \in {"running", "cancel_requested"} /\ run[r].status # "accepted"
      BY <1>t, <1>1, <1>2, ActiveRunStatus
    <2>4. run'[r].status # "accepted"
      BY <1>3 DEF RunStatusForTerminal
    <2>5. FirstSuccessIsReviewed(r)'
      BY <1>6, FirstSuccessStep DEF Story
    <2>6. CASE attempt'[a].status # "succeeded"
      <3>1. ASSUME NEW b \in AttemptsOf(n), NEW s \in TerminalStatus, NEW p \in Change,
                   attempt'[b].status = "succeeded",
                   GraphSettleRunAttempt(b, s, ResultOf(b, s), FailureOf(s), None, p)
            PROVE  FALSE
        <4>1. b \in Attempt /\ attempt[b].status # "succeeded" /\ b # a
          BY <2>6, <3>1 DEF AttemptsOf, GraphSettleRunAttempt, SettleRunAttempt, IsActive, ActiveStatus
        <4> QED
          BY <1>3, <3>1, <4>1
      <3>2. LastSuccessOut(n)' <=> LastSuccessOut(n)
        BY <3>1, SuccessesStep
      <3> QED
        BY <1>3, <1>4, <1>6, <2>2, <2>3, <2>4, <2>6, <3>2, StoryGoesOn
    <2>7. CASE attempt'[a].status = "succeeded"
      <3> DEFINE out == OutOfScope(r, paths) # {}
                 fix == FixesBlocked(r)
      <3>1. /\ evidence' = [evidence EXCEPT ![a] = paths]
            /\ out => dispatch'[r].status = "blocked" /\ dispatch'[r].violated = TRUE
            /\ ~out /\ fix => dispatch'[r].status = "dispatched" /\ dispatch'[r].violated = FALSE
            /\ ~out /\ ~fix => dispatch'[r] = dispatch[r]
        <4>1. attempt[a].run \in Run
          BY <1>r
        <4>2. Projected(attempt[a].run, paths) /\ evidence' = [evidence EXCEPT ![a] = paths]
          BY <2>7, <4>1, GraphSettleEffect
        <4>3. Projected(r, paths)
          BY <1>r, <4>2
        <4> QED
          BY <4>2, <4>3, Zenon DEF Projected
      <3>2. /\ a \in SuccessesOf(r)'
            /\ \A b \in SuccessesOf(r)' : attempt'[b].no <= attempt'[a].no
            /\ \A b \in SuccessesOf(r)' :
                  (\A c \in SuccessesOf(r)' : attempt'[c].no <= attempt'[b].no) => b = a
        <4>1. a \in SuccessesOf(r)'
          BY <1>3, <2>7 DEF SuccessesOf, AttemptsOf
        <4>2. \A b \in AttemptsOf(r)' : b \in AttemptsOf(r) /\ attempt'[b].no = attempt[b].no
          BY <1>2, <1>3 DEF AttemptsOf
        <4>3. \A b \in AttemptsOf(r)' : attempt'[b].no <= attempt'[a].no
          BY <1>3, <2>1, <4>2 DEF IsLatestAttempt
        <4>4. \A b \in AttemptsOf(r)' : b # a => attempt'[b].no # attempt'[a].no
          BY <1>t, <1>2, <4>1 DEF NumbersDistinct, SuccessesOf
        <4>5. \A b \in AttemptsOf(r)' : attempt'[b].no \in Int
          BY <1>t, <4>2, BoundAssumption DEF TypeOK, AttemptRecord, AttemptsOf
        <4>6. \A b \in SuccessesOf(r)' : b \in AttemptsOf(r)'
          BY DEF SuccessesOf
        <4> QED
          BY <4>1, <4>3, <4>4, <4>5, <4>6
      <3>3. OutOfScope(r, evidence[a])' = OutOfScope(r, paths)
        <4>1. evidence'[a] = paths
          BY <3>1 DEF PlanTypeOK
        <4>2. SourceGraph(r)' = SourceGraph(r)
          BY <1>2, SourceStays, RowsAreFounded
        <4> QED
          BY <4>1, <4>2 DEF OutOfScope
      <3>4. LastSuccessOut(r)' <=> out
        <4>1. LastSuccessOut(r)' <=>
                 \E b \in SuccessesOf(r)' :
                    /\ \A c \in SuccessesOf(r)' : attempt'[c].no <= attempt'[b].no
                    /\ OutOfScope(r, evidence[b])' # {}
          BY DEF LastSuccessOut
        <4> QED
          BY <3>2, <3>3, <4>1
      <3> HIDE DEF out
      <3>5. CASE out
        BY <1>3, <1>4, <1>6, <2>2, <2>4, <2>5, <3>1, <3>4, <3>5 DEF Story
      <3>6. CASE ~out /\ fix
        BY <1>3, <1>4, <1>6, <2>2, <2>4, <2>5, <3>1, <3>4, <3>6 DEF Story
      <3>7. CASE ~out /\ ~fix
        <4>1. ~dispatch[r].violated /\ dispatch[r].status # "blocked"
          <5>1. CASE run[r].task > 0
            BY <3>7, <5>1 DEF FixesBlocked
          <5>2. CASE ~(run[r].task > 0)
            <6>1. SuccessesOf(r) = {}
              BY <1>6, <2>3, <5>2 DEF Story, FirstSuccessIsReviewed
            <6> QED
              BY <1>6, <6>1 DEF Story, LastSuccessOut
          <5> QED
            BY <5>1, <5>2
        <4>2. dispatch'[r].status = dispatch[r].status /\ ~dispatch'[r].violated
          BY <3>1, <3>7, <4>1
        <4> HIDE DEF fix
        <4> QED
          BY <1>3, <1>4, <1>6, <2>2, <2>3, <2>4, <2>5, <3>4, <3>7, <4>1, <4>2 DEF Story
      <3> QED
        BY <3>5, <3>6, <3>7
    <2> QED
      BY <2>6, <2>7
  <1> QED
    BY <1>5, <1>6

\* An acceptance completes a dispatch that is not blocked, or sends it to its commit.
LEMMA AcceptStory ==
    ASSUME PlanTypeOK, PlanRows, PlanRows', [PlanNext]_planAll, NEW n \in Run, Story(n),
           NEW a \in Attempt, GraphAcceptReview(a)
    PROVE  Story(n)'
  <1>t. TypeOK /\ Rows /\ Coherent
    BY DEF PlanTypeOK, PlanRows
  <1>0. /\ a \in AttemptsOf(attempt[a].run)
        /\ run' = [run EXCEPT ![attempt[a].run].status = "accepted"]
        /\ \E s : dispatch' = [dispatch EXCEPT ![attempt[a].run].status = s]
        /\ attempt' = attempt
    BY DEF GraphAcceptReview, AcceptReview, IsCurrentReview
  <1>n. CASE attempt[a].run \notin Run
    <2>1. run' = run /\ dispatch' = dispatch
      BY <1>0, <1>n DEF PlanTypeOK, TypeOK
    <2> QED
      BY <1>0, <2>1, StoryOfOthers
  <1>i. CASE attempt[a].run \in Run
    <2>r. PICK r \in Run : r = attempt[a].run
      BY <1>i
    <2>1. /\ run[r].status = "review_discussion"
          /\ run' = [run EXCEPT ![r].status = "accepted"]
          /\ ~dispatch[r].violated
          /\ dispatch'[r].status \in {"awaiting_git", "completed"}
          /\ dispatch'[r].worktree = dispatch[r].worktree
          /\ dispatch'[r].violated = dispatch[r].violated
          /\ \A q \in Run \ {r} : dispatch'[q] = dispatch[q]
          /\ UNCHANGED attempt
      BY <2>r, GraphAcceptEffect
    <2>2. /\ run'[r].status = "accepted" /\ run'[r].worktree = run[r].worktree
          /\ \A q \in Run \ {r} : run'[q] = run[q]
      BY <1>t, <2>1, RunStatusEffect DEF TypeOK
    <2>3. CASE n # r
      BY <2>1, <2>2, <2>3, StoryOfOthers
    <2>4. CASE n = r
      <3>1. ASSUME NEW b \in AttemptsOf(n), NEW status \in TerminalStatus, NEW paths \in Change,
                   attempt'[b].status = "succeeded",
                   GraphSettleRunAttempt(b, status, ResultOf(b, status), FailureOf(status), None, paths)
            PROVE  FALSE
        BY <2>1, <3>1
        DEF GraphSettleRunAttempt, SettleRunAttempt, IsActive, ActiveStatus
      <3>2. LastSuccessOut(n)' <=> LastSuccessOut(n)
        BY <3>1, SuccessesStep
      <3>3. FirstSuccessIsReviewed(n)'
        BY FirstSuccessStep DEF Story
      <3>4. run[n].worktree # None
        BY <1>t, <1>0, <2>r, <2>4, RowOfRun, NoneAssumption DEF Rows, LineageShared
      <3>5. ~HasActiveAttempt(n)'
        <4>1. ASSUME NEW b \in AttemptsOf(n), IsActive(b) PROVE FALSE
          BY <1>t, <2>1, <2>4, <4>1, ActiveRunStatus
        <4> QED
          BY <2>1, <4>1 DEF HasActiveAttempt, AttemptsOf, IsActive
      <3> QED
        BY <2>1, <2>2, <2>4, <3>2, <3>3, <3>4, <3>5 DEF Story
    <2> QED
      BY <2>3, <2>4
  <1> QED
    BY <1>n, <1>i

\* Reconciliation dispatches what has no attempt yet, and accepts what is in scope.
LEMMA ReconcileStory ==
    ASSUME PlanTypeOK, PlanRows, PlanRows', [PlanNext]_planAll, NEW n \in Run, Story(n),
           NEW mapping \in Mappings, ReconcilePlan(mapping)
    PROVE  Story(n)'
  <1>t. TypeOK /\ Rows /\ Coherent
    BY DEF PlanTypeOK, PlanRows
  <1>a. attempt' = attempt
    BY ReconcileFrame
  <1>1. HasActiveAttempt(n)' <=> HasActiveAttempt(n)
    BY <1>a DEF HasActiveAttempt, AttemptsOf, IsActive
  <1>2. LastSuccessOut(n)' <=> LastSuccessOut(n)
    <2>1. ASSUME NEW b \in AttemptsOf(n), NEW status \in TerminalStatus, NEW paths \in Change,
                 attempt'[b].status = "succeeded",
                 GraphSettleRunAttempt(b, status, ResultOf(b, status), FailureOf(status), None, paths)
          PROVE  FALSE
      BY <1>a, <2>1 DEF GraphSettleRunAttempt, SettleRunAttempt, IsActive, ActiveStatus
    <2> QED
      BY <2>1, SuccessesStep
  <1>3. FirstSuccessIsReviewed(n)'
    BY FirstSuccessStep DEF Story
  <1>4. CASE run'[n] = run[n] /\ dispatch'[n] = dispatch[n]
    BY <1>1, <1>2, <1>4, StoryGoesOn
  <1>5. CASE /\ ~dispatch[n].violated /\ AttemptsOf(n) # {}
             /\ run[n].status = "review_discussion"
             /\ run'[n].status = "accepted"
             /\ run'[n].worktree = run[n].worktree
             /\ dispatch'[n].status = "awaiting_git"
             /\ dispatch'[n].worktree = dispatch[n].worktree
             /\ dispatch'[n].violated = dispatch[n].violated
    <2>1. PICK a : a \in AttemptsOf(n)
      BY <1>5
    <2>2. run[n].worktree # None
      BY <1>t, <2>1, RowOfRun, NoneAssumption DEF Rows, LineageShared
    <2>3. ~HasActiveAttempt(n)
      <3>1. ASSUME NEW b \in AttemptsOf(n), IsActive(b) PROVE FALSE
        BY <1>t, <1>5, <3>1, ActiveRunStatus
      <3> QED
        BY <3>1 DEF HasActiveAttempt
    <2> QED
      BY <1>1, <1>2, <1>3, <1>5, <2>2, <2>3 DEF Story
  <1>6. CASE /\ AttemptsOf(n) = {}
             /\ run'[n].status = "ready"
             /\ dispatch'[n].worktree = run'[n].worktree
             /\ dispatch'[n].status =
                   IF run'[n].worktree = None THEN "awaiting_git" ELSE "dispatched"
             /\ dispatch'[n].violated = FALSE
    <2>1. ~HasActiveAttempt(n) /\ ~LastSuccessOut(n)
      BY <1>6 DEF HasActiveAttempt, LastSuccessOut, SuccessesOf
    <2> QED
      BY <1>1, <1>2, <1>3, <1>6, <2>1 DEF Story
  <1> QED
    BY <1>4, <1>5, <1>6, ReconcileRun

\* No step of the plan or of a Run breaks the story of any node.
LEMMA StoryStep == PlanTypeOK /\ PlanRows /\ PlanRows' /\ Stories /\ [PlanNext]_planAll => Stories'
  <1> SUFFICES ASSUME PlanTypeOK, PlanRows, PlanRows', [PlanNext]_planAll, NEW n \in Run, Story(n)
               PROVE  Story(n)'
    BY DEF Stories
  <1>t. TypeOK /\ Rows /\ Coherent
    BY DEF PlanTypeOK, PlanRows
  <1>1. CASE PlanOperation \/ UNCHANGED planAll
    <2>1. CASE \/ \E g \in Graph : CreatePlanRevision(g)
               \/ \E verdict \in {"approved", "rejected"} : DecidePlanRevision(verdict)
               \/ UNCHANGED planAll
      <3>1. UNCHANGED <<run, attempt, dispatch>>
        BY <2>1 DEF CreatePlanRevision, DecidePlanRevision, planAll, planVars, vars
      <3> QED
        BY <3>1, StoryOfOthers
    <2> QED
      BY <1>1, <2>1, ReconcileStory DEF PlanOperation
  <1>2. ASSUME \/ \E a \in Attempt, severity \in Severity, d \in {"approved", "changes_requested"} :
                     GraphSubmitReview(a, severity, d)
               \/ Ungraphed
        PROVE  Story(n)'
    <2>1. dispatch' = dispatch
      BY <1>2 DEF GraphSubmitReview, Ungraphed, planVars
    <2>2. Quiet
      <3>1. CASE \E a \in Attempt, severity \in Severity, d \in {"approved", "changes_requested"} :
                    GraphSubmitReview(a, severity, d)
        BY <1>t, <3>1, QuietStep DEF GraphSubmitReview
      <3>2. CASE Ungraphed
        BY <1>t, <3>2, QuietStep DEF Ungraphed, Planning
      <3> QED
        BY <1>2, <3>1, <3>2
    <2>3. HasActiveAttempt(n)' => HasActiveAttempt(n)
      BY <2>2 DEF Quiet, HasActiveAttempt, AttemptsOf
    <2>4. ASSUME NEW a \in AttemptsOf(n), NEW status \in TerminalStatus, NEW paths \in Change,
                 attempt'[a].status = "succeeded",
                 GraphSettleRunAttempt(a, status, ResultOf(a, status), FailureOf(status), None, paths)
          PROVE  FALSE
      BY <2>2, <2>4
      DEF Quiet, GraphSettleRunAttempt, SettleRunAttempt, IsActive, ActiveStatus, TerminalStatus, AttemptsOf
    <2>5. LastSuccessOut(n)' <=> LastSuccessOut(n)
      BY <2>4, SuccessesStep
    <2> QED
      BY <2>1, <2>2, <2>3, <2>5, StoryGoesOn DEF Quiet
  <1> QED
    BY <1>1, <1>2, ClaimStory, SettleStory, AcceptStory DEF PlanNext, GraphRunOperation

\* The story of every node, at all times.
THEOREM StoriesHold == PlanSpec => []Stories
<1>1. PlanInit => Stories
  <2> SUFFICES ASSUME PlanInit, NEW n \in Run PROVE Story(n)
    BY DEF Stories
  <2>1. run[n] = NoRun /\ dispatch[n] = NoDispatch
    BY DEF PlanInit, Init
  <2>2. AttemptsOf(n) = {}
    BY NoneAssumption DEF PlanInit, Init, NoAttempt, AttemptsOf
  <2> QED
    BY <2>1, <2>2
    DEF Story, NoRun, NoDispatch, HasActiveAttempt, LastSuccessOut, SuccessesOf, FirstSuccessIsReviewed
<1>2. QED
  BY <1>1, StoryStep, PlanIsTyped, PlansKeepTheService, PTL DEF PlanSpec, planAll

\* The dispatch of a node and its Run, which different handlers write, agree at all
\* times: on existence, worktree, acceptance, and on whether the last success was in scope.
THEOREM DispatchesFollowRuns == PlanSpec => []DispatchFollowsRun
<1>1. PlanRows /\ Stories => DispatchFollowsRun
  <2> SUFFICES ASSUME PlanRows, Stories, NEW n \in Run
               PROVE  /\ Dispatched(n) <=> run[n].status # "absent"
                      /\ Story(n)
                      /\ LastSuccessOut(n) <=>
                           \E a \in AttemptsOf(n) :
                              /\ attempt[a].status = "succeeded"
                              /\ \A b \in AttemptsOf(n) :
                                   attempt[b].status = "succeeded" => attempt[b].no <= attempt[a].no
                              /\ OutOfScope(n, evidence[a]) # {}
    BY DEF DispatchFollowsRun, Story
  <2> QED
    BY DEF PlanRows, RunsAreDispatched, Stories, LastSuccessOut, SuccessesOf
<1>2. QED
  BY <1>1, StoriesHold, PlansKeepTheService, PTL

\* Accepted work is in scope, by whomever it was accepted and after any number of Fixes.
THEOREM AcceptedInScope == PlanSpec => []AcceptedWorkInScope
<1>1. PlanRows /\ Stories => AcceptedWorkInScope
  <2> SUFFICES ASSUME PlanRows, Stories, NEW n \in Run, run[n].status = "accepted",
                      NEW a \in AttemptsOf(n), IsLatestAttempt(n, a),
                      OutOfScope(n, evidence[a]) # {}
               PROVE  FALSE
    BY DEF AcceptedWorkInScope
  <2>1. a \in Attempt /\ attempt[a].status \in LatestStatus("accepted")
    BY DEF PlanRows, Coherent, RunFollowsLatestAttempt, AttemptsOf
  <2>2. a \in SuccessesOf(n) /\ \A b \in SuccessesOf(n) : attempt[b].no <= attempt[a].no
    BY <2>1 DEF LatestStatus, SuccessesOf, IsLatestAttempt
  <2>3. LastSuccessOut(n)
    BY <2>2 DEF LastSuccessOut
  <2> QED
    BY <2>3 DEF Stories, Story
<1>2. QED
  BY <1>1, StoriesHold, PlansKeepTheService, PTL

-----------------------------------------------------------------------------
(* Nodes that are worked on side by side.                                  *)

\* Only a claim puts an attempt to work, and one at a time; an attempt at work stays
\* that of its Run.
LEMMA WorkersStep ==
    ASSUME PlanTypeOK, PlanRows, [PlanNext]_planAll
    PROVE  \/ /\ ActiveAttempts' \subseteq ActiveAttempts
              /\ \A b \in ActiveAttempts' : attempt'[b].run = attempt[b].run
           \/ \E a \in Attempt, r \in Run, w \in Worktree :
                 /\ GraphClaimRunAttempt(a, r, w)
                 /\ a \notin ActiveAttempts /\ ActiveAttempts' = ActiveAttempts \cup {a}
                 /\ attempt'[a].run = r
                 /\ \A b \in ActiveAttempts : attempt'[b].run = attempt[b].run
  <1>t. TypeOK /\ Rows /\ attempt \in [Attempt -> AttemptRecord]
    BY DEF PlanTypeOK, PlanRows, TypeOK
  <1>k. ASSUME \A b \in Attempt : attempt[b].status = "absent" => attempt'[b] = attempt[b],
               [Next]_vars
        PROVE  /\ ActiveAttempts' \subseteq ActiveAttempts
               /\ \A b \in ActiveAttempts' : attempt'[b].run = attempt[b].run
    <2> SUFFICES ASSUME NEW b \in Attempt, attempt'[b].status \in ActiveStatus
                 PROVE  attempt[b].status \in ActiveStatus /\ attempt'[b].run = attempt[b].run
      BY DEF ActiveAttempts, IsActive
    <2>1. CASE attempt'[b] = attempt[b]
      BY <2>1
    <2>2. CASE attempt'[b] # attempt[b]
      <3>1. /\ <<attempt[b].status, attempt'[b].status>> \in AttemptTransition
            /\ attempt'[b].run = attempt[b].run
        BY <1>t, <1>k, <2>2, AttemptStep
      <3> QED
        BY <3>1 DEF AttemptTransition, ActiveStatus
    <2> QED
      BY <2>1, <2>2
  <1>1. ASSUME NEW a \in Attempt, NEW r \in Run, NEW w \in Worktree, GraphClaimRunAttempt(a, r, w)
        PROVE  /\ a \notin ActiveAttempts /\ ActiveAttempts' = ActiveAttempts \cup {a}
               /\ attempt'[a].run = r
               /\ \A b \in ActiveAttempts : attempt'[b].run = attempt[b].run
    <2>1. ClaimRunAttempt(a, r, w)
      BY <1>1 DEF GraphClaimRunAttempt
    <2>2. /\ attempt'[a].status = "running" /\ attempt'[a].run = r
          /\ \A b \in Attempt \ {a} : attempt'[b] = attempt[b]
      BY <1>t, <2>1, ClaimEffect
    <2>3. attempt[a].status = "absent"
      BY <2>1 DEF ClaimRunAttempt
    <2> QED
      BY <2>2, <2>3 DEF ActiveAttempts, IsActive, ActiveStatus
  <1>2. ASSUME NEW a \in Attempt, NEW status \in TerminalStatus, NEW paths \in Change,
               GraphSettleRunAttempt(a, status, ResultOf(a, status), FailureOf(status), None, paths)
        PROVE  /\ ActiveAttempts' \subseteq ActiveAttempts
               /\ \A b \in ActiveAttempts' : attempt'[b].run = attempt[b].run
    <2>1. SettleRunAttempt(a, status, ResultOf(a, status), FailureOf(status), None)
      BY <1>2 DEF GraphSettleRunAttempt
    <2>2. attempt[a].status # "absent"
      BY <2>1 DEF SettleRunAttempt, IsActive, ActiveStatus
    <2>3. \A b \in Attempt \ {a} : attempt'[b] = attempt[b]
      BY <1>t, <2>1, <2>2, AttemptIsDispatched, RowsAreFounded, SettleEffect
    <2>4. [Next]_vars
      BY <1>t, <1>2, RunOperationIsService DEF GraphRunOperation
    <2> QED
      BY <1>k, <2>2, <2>3, <2>4
  <1>3. CASE Ungraphed
    <2>1. [Next]_vars
      BY <1>t, <1>3, RunOperationIsService
    <2>2. ASSUME NEW a \in Attempt, AskQuestion(a) \/ \E r \in Run : CancelRun(r, a)
          PROVE  \A b \in Attempt : attempt[b].status = "absent" => attempt'[b] = attempt[b]
      <3>1. /\ attempt[a].status # "absent"
            /\ \E s : attempt' = [attempt EXCEPT ![a].status = s]
        BY <2>2 DEF AskQuestion, CancelRun, IsActive, ActiveStatus
      <3> QED
        BY <1>t, <3>1
    <2>3. CASE attempt' = attempt
      BY <1>k, <2>1, <2>3
    <2>4. \/ attempt' = attempt
          \/ \E a \in Attempt : AskQuestion(a) \/ \E r \in Run : CancelRun(r, a)
      BY <1>3 DEF Ungraphed, TransitionToArchitectureReview, SubmitFix, AnswerQuestion, RetryRun,
                  TransitionToWaitingForUserConfirmation, AddRunGuidance
    <2> QED
      BY <1>k, <2>1, <2>2, <2>3, <2>4
  <1>4. CASE attempt' = attempt
    BY <1>4 DEF ActiveAttempts, IsActive
  <1>5. ASSUME \/ PlanOperation
               \/ \E a \in Attempt, severity \in Severity, d \in {"approved", "changes_requested"} :
                     GraphSubmitReview(a, severity, d)
               \/ \E a \in Attempt : GraphAcceptReview(a)
               \/ UNCHANGED planAll
        PROVE  attempt' = attempt
    BY <1>5, ReconcileFrame
    DEF PlanOperation, CreatePlanRevision, DecidePlanRevision, GraphSubmitReview, SubmitReview,
        GraphAcceptReview, AcceptReview, planAll, vars
  <1> QED
    BY <1>1, <1>2, <1>3, <1>4, <1>5 DEF PlanNext, GraphRunOperation

\* No path a change may have lies within the scopes of both m and n.
Apart(m, n) ==
    \A p \in UNION Change :
        ~ \E s \in SourceGraph(m).scope[m], t \in SourceGraph(n).scope[n] :
            Contains(s, p) /\ Contains(t, p)

\* A node that is claimed shares no path with a node that is worked on, in the
\* revisions both were dispatched from.
LEMMA ClaimIsApart ==
    ASSUME PlanTypeOK, PlanRows, AmendmentKeepsDispatched,
           NEW a \in Attempt, NEW r \in Run, NEW w \in Worktree, GraphClaimRunAttempt(a, r, w),
           NEW b \in ActiveAttempts, NEW q \in Run, q = attempt[b].run
    PROVE  Apart(r, q) /\ Apart(q, r)
  <1>1. Dispatched(q)
    BY AttemptIsDispatched, RowsAreFounded DEF ActiveAttempts, IsActive, ActiveStatus
  <1>2. GraphClaimable(r, w) /\ Dispatched(r)
    BY GraphClaimEffect
  <1>3. /\ HasCurrent /\ r \in CurrentGraph.node
        /\ NodeOf(CurrentGraph, r) = NodeOf(SourceGraph(r), r)
        /\ q \in CurrentGraph.node => ~ScopesOverlap(CurrentGraph.scope[r], CurrentGraph.scope[q])
    BY <1>2 DEF GraphClaimable
  <1>4. dispatch[q].rev \in 1 .. Len(revision) /\ Len(revision) \in Nat
    BY <1>1, RevisionsAreTyped DEF PlanRows, RevisionsAreApproved
  <1>5. Len(revision) \in dispatch[q].rev .. Len(revision)
    BY <1>4
  <1>6. /\ q \in CurrentGraph.node
        /\ NodeOf(CurrentGraph, q) = NodeOf(SourceGraph(q), q)
    BY <1>1, <1>5 DEF AmendmentKeepsDispatched, CurrentGraph
  <1>7. /\ CurrentGraph.scope[r] = SourceGraph(r).scope[r]
        /\ CurrentGraph.scope[q] = SourceGraph(q).scope[q]
    BY <1>3, <1>6 DEF NodeOf
  <1>8. CurrentGraph \in Graph
    BY <1>3, RevisionsAreTyped
  <1> SUFFICES ASSUME NEW p \in UNION Change,
                      NEW s \in CurrentGraph.scope[r], NEW t \in CurrentGraph.scope[q],
                      Contains(s, p), Contains(t, p)
               PROVE  FALSE
    BY <1>7 DEF Apart
  <1>9. s \in ScopesOver(STRING) /\ t \in ScopesOver(STRING) /\ p \in Seq(STRING)
    BY <1>3, <1>6, <1>8, PlanAssumption DEF ScopesOver
  <1>10. Contains(s, t.path) \/ Contains(t, s.path)
    BY <1>9, SharedPathOverlaps
  <1> QED
    BY <1>3, <1>6, <1>10 DEF ScopesOverlap

\* No step brings two nodes to work on one path.
LEMMA ScopesApartStep ==
    PlanTypeOK /\ PlanRows /\ PlanRows' /\ AmendmentKeepsDispatched /\ ActiveScopesDisjoint
        /\ [PlanNext]_planAll => ActiveScopesDisjoint'
  <1> SUFFICES ASSUME PlanTypeOK, PlanRows, PlanRows', AmendmentKeepsDispatched,
                      ActiveScopesDisjoint, [PlanNext]_planAll
               PROVE  ActiveScopesDisjoint'
    OBVIOUS
  <1>r. \A a \in ActiveAttempts' : attempt'[a].run \in Run
    BY DEF PlanRows, Rows, LineageShared, ActiveAttempts, IsActive, ActiveStatus
  <1> SUFFICES ASSUME NEW a \in ActiveAttempts', NEW b \in ActiveAttempts', a # b,
                      NEW m \in Run, NEW n \in Run, m = attempt'[a].run, n = attempt'[b].run
               PROVE  Apart(m, n)'
    BY <1>r DEF ActiveScopesDisjoint, Apart, SourceGraph
  <1>d. ASSUME NEW c \in ActiveAttempts, NEW q \in Run, q = attempt[c].run PROVE Dispatched(q)
    BY <1>d, AttemptIsDispatched, RowsAreFounded DEF ActiveAttempts, IsActive, ActiveStatus
  <1>u. ASSUME Dispatched(m), Dispatched(n), Apart(m, n) PROVE Apart(m, n)'
    <2>1. SourceGraph(m)' = SourceGraph(m) /\ SourceGraph(n)' = SourceGraph(n)
      BY <1>u, SourceStays, RowsAreFounded
    <2> QED
      BY <1>u, <2>1 DEF Apart
  <1>o. ASSUME a \in ActiveAttempts, b \in ActiveAttempts,
               attempt'[a].run = attempt[a].run, attempt'[b].run = attempt[b].run
        PROVE  Apart(m, n)
    BY <1>o DEF ActiveScopesDisjoint, Apart
  <1>1. CASE /\ ActiveAttempts' \subseteq ActiveAttempts
             /\ \A c \in ActiveAttempts' : attempt'[c].run = attempt[c].run
    BY <1>1, <1>d, <1>o, <1>u
  <1>2. ASSUME NEW c \in Attempt, NEW r \in Run, NEW w \in Worktree,
               GraphClaimRunAttempt(c, r, w),
               c \notin ActiveAttempts, ActiveAttempts' = ActiveAttempts \cup {c},
               attempt'[c].run = r,
               \A d \in ActiveAttempts : attempt'[d].run = attempt[d].run
        PROVE  Apart(m, n)'
    <2>1. Dispatched(r)
      BY <1>2, GraphClaimEffect
    <2>2. CASE a = c
      <3>1. b \in ActiveAttempts /\ n = attempt[b].run /\ m = r
        BY <1>2, <2>2
      <3>2. Apart(m, n) /\ Dispatched(n)
        BY <1>2, <1>d, <3>1, ClaimIsApart
      <3> QED
        BY <1>u, <2>1, <3>1, <3>2
    <2>3. CASE b = c
      <3>1. a \in ActiveAttempts /\ m = attempt[a].run /\ n = r
        BY <1>2, <2>3
      <3>2. Apart(m, n) /\ Dispatched(m)
        BY <1>2, <1>d, <3>1, ClaimIsApart
      <3> QED
        BY <1>u, <2>1, <3>1, <3>2
    <2>4. CASE a # c /\ b # c
      BY <1>2, <1>d, <1>o, <1>u, <2>4
    <2> QED
      BY <2>2, <2>3, <2>4
  <1> QED
    BY <1>1, <1>2, WorkersStep

\* Finitely many attempts are at work.
WorkFinite == IsFiniteSet(ActiveAttempts)

\* Work is always of finitely many attempts, so that its number means something.
THEOREM WorkIsFinite == PlanSpec => []WorkFinite
<1>1. PlanInit => WorkFinite
  <2>1. PlanInit => ActiveAttempts = {}
    BY DEF PlanInit, Init, ActiveAttempts, IsActive, ActiveStatus, NoAttempt
  <2> QED
    BY <2>1, FS_EmptySet DEF WorkFinite
<1>2. PlanTypeOK /\ PlanRows /\ WorkFinite /\ [PlanNext]_planAll => WorkFinite'
  <2> SUFFICES ASSUME PlanTypeOK, PlanRows, IsFiniteSet(ActiveAttempts), [PlanNext]_planAll
               PROVE  IsFiniteSet(ActiveAttempts')
    BY DEF WorkFinite
  <2>1. \/ ActiveAttempts' \in SUBSET ActiveAttempts
        \/ \E a \in Attempt : ActiveAttempts' = ActiveAttempts \cup {a}
    BY WorkersStep
  <2> QED
    BY <2>1, FS_Subset, FS_AddElement
<1>3. QED
  BY <1>1, <1>2, PlanIsTyped, PlansKeepTheService, PTL DEF PlanSpec, planAll

\* No two nodes whose scopes share a path are ever worked on at once, for every set of
\* graphs and changes, under approvals, amendments and claims in any order.
THEOREM ScopesApartAlways == PlanSpec => []ActiveScopesDisjoint
<1>1. PlanInit => ActiveScopesDisjoint
  BY DEF PlanInit, Init, ActiveScopesDisjoint, ActiveAttempts, IsActive, ActiveStatus, NoAttempt
<1>2. QED
  BY <1>1, ScopesApartStep, PlanIsTyped, PlansKeepTheService, AmendmentsKeepDispatched, PTL
  DEF PlanSpec, planAll

\* No step raises the number of attempts at work above the limit of the revision in force.
THEOREM LimitHolds == PlanSpec => LimitHeldAtStart
<1>1. PlanTypeOK /\ PlanRows /\ WorkFinite /\ [PlanNext]_planAll
        => [Cardinality(ActiveAttempts') > Cardinality(ActiveAttempts)
              => Cardinality(ActiveAttempts') <= CurrentGraph.limit]_<<vars, planVars>>
  <2> SUFFICES ASSUME PlanTypeOK, PlanRows, IsFiniteSet(ActiveAttempts), [PlanNext]_planAll,
                      Cardinality(ActiveAttempts') > Cardinality(ActiveAttempts)
               PROVE  Cardinality(ActiveAttempts') <= CurrentGraph.limit
    BY DEF WorkFinite
  <2>1. Cardinality(ActiveAttempts) \in Nat
    BY FS_CardinalityType
  <2>2. CASE ActiveAttempts' \in SUBSET ActiveAttempts
    <3>1. Cardinality(ActiveAttempts') <= Cardinality(ActiveAttempts)
      BY <2>2, FS_Subset
    <3>2. IsFiniteSet(ActiveAttempts')
      BY <2>2, FS_Subset
    <3>3. Cardinality(ActiveAttempts') \in Nat
      BY <3>2, FS_CardinalityType
    <3> QED
      BY <2>1, <3>1, <3>3
  <2>3. ASSUME NEW a \in Attempt, NEW r \in Run, NEW w \in Worktree,
               GraphClaimRunAttempt(a, r, w), a \notin ActiveAttempts,
               ActiveAttempts' = ActiveAttempts \cup {a}
        PROVE  Cardinality(ActiveAttempts') <= CurrentGraph.limit
    <3>1. Cardinality(ActiveAttempts') = Cardinality(ActiveAttempts) + 1
      BY <2>3, FS_AddElement
    <3>2. GraphClaimable(r, w)
      BY <2>3, GraphClaimEffect
    <3>3. HasCurrent /\ Cardinality(ActiveAttempts) < CurrentGraph.limit
      BY <3>2 DEF GraphClaimable
    <3>4. CurrentGraph.limit \in Nat
      BY <3>3, RevisionsAreTyped, PlanAssumption
    <3> QED
      BY <2>1, <3>1, <3>3, <3>4
  <2> QED
    BY <2>2, <2>3, WorkersStep
<1>2. QED
  BY <1>1, PlanIsTyped, PlansKeepTheService, WorkIsFinite, PTL
  DEF PlanSpec, LimitHeldAtStart, planAll

\* Nodes that are worked on side by side are apart in paths and worktrees, and within
\* the limit, for every instance.
THEOREM WorkIsSideBySide == PlanSpec => WorkSideBySide
<1>1. PlanRows => WorktreeLeaseUnique
  BY DEF PlanRows
<1>2. QED
  BY <1>1, ScopesApartAlways, PlansKeepTheService, LimitHolds, PTL DEF WorkSideBySide
=============================================================================
