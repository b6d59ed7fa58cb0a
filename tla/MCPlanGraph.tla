----------------------------- MODULE MCPlanGraph -----------------------------
(* Instances of PlanGraph for TLC: the task graphs its planners submit. *)
EXTENDS PlanGraph, TLC

CONSTANTS r1, r2

\* Attempts and worktrees are interchangeable identities; the graphs name Runs.
Symmetry == Permutations(Attempt) \cup Permutations(Worktree)

Src   == [path |-> <<"src">>, kind |-> "tree"]
Room  == [path |-> <<"src", "room">>, kind |-> "tree"]
Docs  == [path |-> <<"docs">>, kind |-> "tree"]

InRoom == {<<"src", "room", "a">>}
InDocs == {<<"docs", "a">>}

Changes == {{}, InRoom, InDocs}

PerTask(node, dep, scope, limit) ==
    [node |-> node, dep |-> dep, scope |-> scope, limit |-> limit,
     policy |-> "per_task", integration |-> {}]

IntegrationOnly(node, dep, scope, last) ==
    [node |-> node, dep |-> dep, scope |-> scope, limit |-> 1,
     policy |-> "integration_only", integration |-> {last}]

\* Side by side in disjoint scopes, under a limit of one and of two; in scopes that
\* overlap, without an order and with one; a component and its integration node.
ExecutionGraphs ==
    LET apart   == (r1 :> {Room}) @@ (r2 :> {Docs})
        overlap == (r1 :> {Room}) @@ (r2 :> {Src})
        free    == (r1 :> {}) @@ (r2 :> {})
        chain   == (r1 :> {}) @@ (r2 :> {r1})
    IN
    { PerTask({r1, r2}, free, apart, 1),
      PerTask({r1, r2}, free, apart, 2),
      PerTask({r1, r2}, free, overlap, 2),
      PerTask({r1, r2}, chain, overlap, 2),
      IntegrationOnly({r1, r2}, chain, overlap, r2) }

\* What amendments may try: a second node beside, below or above the first or in a
\* cycle with it, another scope for the first, and a switch of policy.
AmendmentGraphs ==
    { PerTask({r1}, r1 :> {}, r1 :> {Room}, 1) }
    \cup { PerTask({r1, r2}, dep, [n \in {r1, r2} |-> {Room}], 1) :
             dep \in [{r1, r2} -> SUBSET {r1, r2}] }
    \cup { PerTask({r1}, r1 :> {}, r1 :> {Docs}, 1),
           PerTask({r1, r2}, (r1 :> {}) @@ (r2 :> {}), (r1 :> {Docs}) @@ (r2 :> {Room}), 1),
           IntegrationOnly({r1, r2}, (r1 :> {}) @@ (r2 :> {r1}),
                           (r1 :> {Room}) @@ (r2 :> {Room}), r2) }

AllGraphs == ExecutionGraphs \cup AmendmentGraphs

\* A plan is either executed as it was first approved, with all that attempts may meet, or
\* amended, with one attempt that changes nothing and is reviewed without findings; not
\* both, which only multiplies the states of the two.
Executing == revision # << >> /\ revision[1].graph \in ExecutionGraphs

Execute ==
    /\ \/ \E verdict \in {"approved", "rejected"} : DecidePlanRevision(verdict)
       \/ \E mapping \in Mappings : ReconcilePlan(mapping)
       \/ GraphRunOperation
       \/ Ungraphed
    /\ \A a \in Attempt : attempt'[a].status = "succeeded" => evidence'[a] # {}

Amend ==
    /\ PlanNext
    /\ Len(revision') > 1 => \A k \in DOMAIN revision' : revision'[k].graph \in AmendmentGraphs
    /\ Cardinality({a \in Attempt : attempt'[a].status # "absent"}) <= 1
    /\ Cardinality({run'[r].worktree : r \in Run} \ {None}) <= 1
    /\ \A r \in Run : run'[r].task = 0
    /\ \A a \in Attempt : /\ attempt'[a].status \in {"absent", "running", "succeeded", "failed"}
                          /\ evidence'[a] = {} /\ review'[a] \in {"none", "clean"}

PlanSpecApart == PlanInit /\ [][IF Executing THEN Execute ELSE Amend]_<<vars, planVars>>
=============================================================================
