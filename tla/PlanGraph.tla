------------------------------ MODULE PlanGraph ------------------------------
(***************************************************************************)
(* The plan of a Room (src/room/room-service.ts): revisions of its task    *)
(* graph, the user's decisions about them, the NodeDispatches through      *)
(* which reconcilePlan turns nodes into Runs, and what a dispatch adds to  *)
(* claim, settlement, review and acceptance of its Run.                    *)
(*                                                                         *)
(* A node is identified with its Run: a node's task_spec fixes its run_id, *)
(* and task_id and run_id are unique in node_dispatches.  A Room has one   *)
(* plan.  Implementation Tasks enter through the plan only, as the MCP     *)
(* boundary has it (room_submit_task takes Fix Tasks only).                *)
(***************************************************************************)
EXTENDS RunLifecycle, TaskGraph

CONSTANTS
    Graph,        \* the task graphs a planner may submit, valid or not
    Change,       \* sets of paths git may report when an attempt is settled
    MaxRevision   \* bound: revisions of the plan

\* As taskGraphContentSchema has a graph; a changed path is a relative path.
ASSUME PlanAssumption ==
    /\ \A g \in Graph :
          /\ g.node \subseteq Run
          /\ g.limit \in Nat \ {0}
          /\ \A n \in g.node : g.scope[n] \subseteq [path : Seq(STRING), kind : {"file", "tree"}]
    /\ Change \subseteq SUBSET Seq(STRING)
    /\ MaxRevision \in Nat

VARIABLES
    revision,   \* task_graph_revisions by revision_no, each with its decision
    dispatch,   \* node_dispatches by Run; status "none" until the row is inserted
    evidence,   \* run_attempts.git_evidence of a succeeded attempt, as changed paths
    decision    \* reviews.decision of the Review of an attempt

planVars == <<revision, dispatch, evidence, decision>>

\* "waiting" is in the schema but written nowhere.
DispatchStatus == {"awaiting_git", "ready", "dispatched", "blocked", "completed"}

NoDispatch == [status |-> "none", worktree |-> None, violated |-> FALSE, rev |-> 0]

PlanTypeOK ==
    /\ TypeOK
    /\ revision \in Seq([graph : Graph, decision : {"draft", "approved", "rejected"}])
    /\ Len(revision) <= MaxRevision
    /\ dispatch \in [Run -> [status   : DispatchStatus \cup {"none"},
                             worktree : Worktree \cup {None},
                             violated : BOOLEAN,
                             rev      : 0 .. MaxRevision]]
    /\ evidence \in [Attempt -> Change \cup {{}}]
    /\ decision \in [Attempt -> {"none", "approved", "changes_requested"}]

-----------------------------------------------------------------------------
(* Queries.                                                                *)

Dispatched(n) == dispatch[n].status # "none"

\* The graph of the revision that dispatched n.
SourceGraph(n) == revision[dispatch[n].rev].graph

\* Faulty: falls back on an earlier approved revision.
HasApproved == \E k \in 1 .. Len(revision) : revision[k].decision = "approved"

\* currentApprovedTaskGraphRevision: only the exact latest revision counts.
HasCurrent == revision # << >> /\ revision[Len(revision)].decision = "approved"

CurrentGraph == revision[Len(revision)].graph

\* Faulty: an accepted Run suffices.
AcceptedOnly(n) == run[n].status = "accepted"

\* What a dependency must be to unlock its dependants.
Satisfied(n) ==
    /\ run[n].status = "accepted"
    /\ dispatch[n].status = "completed"
    /\ ~dispatch[n].violated

\* orderedEligibleNodes
Eligible(n) ==
    /\ ~Dispatched(n)
    /\ \A d \in CurrentGraph.dep[n] : Satisfied(d)

\* Faulty: looks at the dispatches of the revision before only.
AmendableToPrior(g, k) ==
    \A n \in Run : Dispatched(n) /\ dispatch[n].rev = k - 1 =>
        /\ n \in g.node
        /\ NodeOf(g, n) = NodeOf(SourceGraph(n), n)
        /\ Ancestors(g, n) = Ancestors(SourceGraph(n), n)

\* assertAmendmentImmutable, of graph g as revision k: what has been dispatched
\* keeps its node and its ancestors, and fixes policy and integration node.
Amendable(g, k) ==
    /\ \A n \in Run : Dispatched(n) /\ dispatch[n].rev < k =>
          /\ n \in g.node
          /\ NodeOf(g, n) = NodeOf(SourceGraph(n), n)
          /\ Ancestors(g, n) = Ancestors(SourceGraph(n), n)
    /\ k > 1 /\ (\E n \in Run : Dispatched(n) /\ dispatch[n].rev < k) =>
          LET prior == revision[k - 1].graph IN
          /\ g.policy = prior.policy
          /\ g.integration = prior.integration
          /\ \A i \in g.integration : NodeOf(g, i) = NodeOf(prior, i)

\* The paths of a change that no scope of the node covers.
OutOfScope(n, paths) ==
    {p \in paths : \A s \in SourceGraph(n).scope[n] : ~ScopeContainsPath(s, p)}

ActiveAttempts == {a \in Attempt : IsActive(a)}

-----------------------------------------------------------------------------
PlanInit ==
    /\ Init
    /\ revision = << >>
    /\ dispatch = [n \in Run |-> NoDispatch]
    /\ evidence = [a \in Attempt |-> {}]
    /\ decision = [a \in Attempt |-> "none"]

(* The plan (planner and orchestrator). *)

CreatePlanRevision(g) ==
    /\ Len(revision) < MaxRevision
    /\ ValidGraph(g)
    /\ Amendable(g, Len(revision) + 1)
    /\ revision' = Append(revision, [graph |-> g, decision |-> "draft"])
    /\ UNCHANGED <<vars, dispatch, evidence, decision>>

\* The user's one decision about the latest revision; either one ends the
\* confirmation.
DecidePlanRevision(verdict) ==
    LET k == Len(revision) IN
    /\ room = "WAITING_FOR_USER_CONFIRMATION"
    /\ k > 0 /\ revision[k].decision = "draft"
    /\ ValidGraph(revision[k].graph)
    /\ Amendable(revision[k].graph, k)
    /\ verdict = "approved" => NoUnorderedScopeOverlap(revision[k].graph)
    /\ revision' = [revision EXCEPT ![k].decision = verdict]
    /\ room' = "DISCUSSION"
    /\ UNCHANGED <<run, attempt, question, review, guidance, dispatch, evidence, decision>>

\* Faulty: a blocked component is projected as well.
PolicyAcceptsBlocked(n) ==
    /\ CurrentGraph.policy = "integration_only"
    /\ n \in Components(CurrentGraph)
    /\ Dispatched(n)
    /\ run[n].status = "review_discussion"
    /\ \E a \in Attempt : IsCurrentReview(n, a) /\ decision[a] = "approved"

\* projectIntegrationPolicyAcceptance: an approving Review is enough, whatever
\* its findings are.
PolicyAccepts(n) ==
    /\ CurrentGraph.policy = "integration_only"
    /\ n \in Components(CurrentGraph)
    /\ Dispatched(n)
    /\ ~dispatch[n].violated /\ dispatch[n].status # "blocked"
    /\ run[n].status = "review_discussion"
    /\ \E a \in Attempt : IsCurrentReview(n, a) /\ decision[a] = "approved"

\* The partial unique index over a whole table of Runs.
LeasesUnique(runs) ==
    \A r, s \in Run :
        r # s /\ runs[r].worktree = runs[s].worktree /\ runs[r].worktree # None
            => "accepted" \in {runs[r].status, runs[s].status}

\* mapping gives the worktree, or None, the orchestrator has for some nodes.
ReconcilePlan(mapping) ==
    /\ HasCurrent
    /\ ValidGraph(CurrentGraph)
    /\ NoUnorderedScopeOverlap(CurrentGraph)
    /\ Amendable(CurrentGraph, Len(revision))
    /\ DOMAIN mapping \subseteq CurrentGraph.node
    /\ \A n \in DOMAIN mapping : Dispatched(n) => mapping[n] = dispatch[n].worktree
    /\ LET accepted == {n \in CurrentGraph.node : PolicyAccepts(n)}
           fresh    == {n \in DOMAIN mapping : Eligible(n)}
       IN
       /\ run' = [n \in Run |->
                    IF n \in accepted THEN [run[n] EXCEPT !.status = "accepted"]
                    ELSE IF n \in fresh
                      THEN [status |-> "ready", worktree |-> mapping[n], task |-> 0]
                      ELSE run[n]]
       /\ LeasesUnique(run')
       /\ dispatch' = [n \in Run |->
                    IF n \in accepted THEN [dispatch[n] EXCEPT !.status = "awaiting_git"]
                    ELSE IF n \in fresh
                      THEN [status   |-> IF mapping[n] = None THEN "awaiting_git" ELSE "dispatched",
                            worktree |-> mapping[n], violated |-> FALSE, rev |-> Len(revision)]
                      ELSE dispatch[n]]
    /\ UNCHANGED <<room, attempt, question, review, guidance, revision, evidence, decision>>

-----------------------------------------------------------------------------
(* What a dispatch adds to the operations on its Run. *)

\* assertGraphClaim
GraphClaimable(r, w) ==
    /\ dispatch[r].worktree # None
    /\ \/ dispatch[r].status \in {"ready", "dispatched"}
       \/ dispatch[r].status = "blocked" /\ run[r].task > 0
    /\ HasCurrent
    /\ r \in CurrentGraph.node
    /\ NodeOf(CurrentGraph, r) = NodeOf(SourceGraph(r), r)
    /\ dispatch[r].worktree = w
    /\ Cardinality(ActiveAttempts) < CurrentGraph.limit
    /\ \A a \in ActiveAttempts : attempt[a].run \in CurrentGraph.node =>
          ~ScopesOverlap(CurrentGraph.scope[r], CurrentGraph.scope[attempt[a].run])

GraphClaimRunAttempt(a, r, w) ==
    /\ ClaimRunAttempt(a, r, w)
    /\ GraphClaimable(r, w)
    /\ dispatch' = [dispatch EXCEPT ![r].status = IF @ = "ready" THEN "dispatched" ELSE @]
    /\ UNCHANGED <<revision, evidence, decision>>

\* Faulty: a successful Fix lifts the block without a look at its own paths.
ScopeProjectionOfFirst(n, paths) ==
    IF run[n].task > 0
      THEN [dispatch EXCEPT ![n].status = "dispatched", ![n].violated = FALSE]
      ELSE IF OutOfScope(n, paths) # {}
        THEN [dispatch EXCEPT ![n].status = "blocked", ![n].violated = TRUE]
        ELSE dispatch

\* applyScopeProjection, of a succeeded attempt: paths out of scope block the
\* dispatch, and only a Fix all of whose paths are in scope lifts the block.
ScopeProjection(n, paths) ==
    IF OutOfScope(n, paths) # {}
      THEN [dispatch EXCEPT ![n].status = "blocked", ![n].violated = TRUE]
      ELSE IF run[n].task > 0 /\ (dispatch[n].violated \/ dispatch[n].status = "blocked")
        THEN [dispatch EXCEPT ![n].status = "dispatched", ![n].violated = FALSE]
        ELSE dispatch

\* The evidence of any other outcome than success is read by nobody.
GraphSettleRunAttempt(a, status, result, failure, session, paths) ==
    /\ SettleRunAttempt(a, status, result, failure, session)
    /\ IF SettleTarget(a, status) = "succeeded"
         THEN /\ evidence' = [evidence EXCEPT ![a] = paths]
              /\ dispatch' = ScopeProjection(attempt[a].run, paths)
         ELSE UNCHANGED <<evidence, dispatch>>
    /\ UNCHANGED <<revision, decision>>

GraphSubmitReview(a, severity, d) ==
    /\ SubmitReview(a, severity)
    /\ decision' = [decision EXCEPT ![a] = d]
    /\ UNCHANGED <<revision, dispatch, evidence>>

\* The user's acceptance: never of a blocked node, of a component of an
\* integration_only plan never.  An integration node that changed something has
\* to be committed first.
GraphAcceptReview(a) ==
    LET r == attempt[a].run
        g == SourceGraph(r)
    IN
    /\ AcceptReview(a)
    /\ ~dispatch[r].violated /\ dispatch[r].status # "blocked"
    /\ g.policy = "integration_only" => r \in g.integration
    /\ dispatch' = [dispatch EXCEPT ![r].status =
          IF g.policy = "integration_only" /\ evidence[a] # {} THEN "awaiting_git" ELSE "completed"]
    /\ UNCHANGED <<revision, evidence, decision>>

\* Operations the plan adds nothing to.
Ungraphed ==
    /\ \/ TransitionToArchitectureReview
       \/ TransitionToWaitingForUserConfirmation
       \/ \E r \in Run, a \in Attempt : SubmitFix(r, a) \/ CancelRun(r, a)
       \/ \E a \in Attempt : AskQuestion(a)
       \/ \E a \in Attempt, changesContract \in BOOLEAN : AnswerQuestion(a, changesContract)
       \/ \E r \in Run : RetryRun(r)
       \/ \E g \in Guidance, r \in Run : AddRunGuidance(g, r)
    /\ UNCHANGED planVars

-----------------------------------------------------------------------------
\* The evidence with which an executor settles; RunLifecycle admits the rest.
ResultOf(a, status) ==
    IF status = "succeeded" THEN [status |-> "completed", task |-> attempt[a].task] ELSE None
FailureOf(status) == IF status = "succeeded" THEN None ELSE "failure"

Mappings == UNION {[S -> Worktree \cup {None}] : S \in SUBSET Run}

PlanOperation ==
    \/ \E g \in Graph : CreatePlanRevision(g)
    \/ \E verdict \in {"approved", "rejected"} : DecidePlanRevision(verdict)
    \/ \E mapping \in Mappings : ReconcilePlan(mapping)

GraphRunOperation ==
    \/ \E a \in Attempt, r \in Run, w \in Worktree : GraphClaimRunAttempt(a, r, w)
    \/ \E a \in Attempt, status \in TerminalStatus, paths \in Change :
          GraphSettleRunAttempt(a, status, ResultOf(a, status), FailureOf(status), None, paths)
    \/ \E a \in Attempt, severity \in Severity, d \in {"approved", "changes_requested"} :
          GraphSubmitReview(a, severity, d)
    \/ \E a \in Attempt : GraphAcceptReview(a)

PlanNext == PlanOperation \/ GraphRunOperation \/ Ungraphed

PlanSpec == PlanInit /\ [][PlanNext]_<<vars, planVars>>

-----------------------------------------------------------------------------
(* Safety. *)

\* Nobody works without consent: every Run stems from a revision that the user
\* approved, though newer drafts and rejections come and go around it.
OnlyApprovedIsRun ==
    \A n \in Run : run[n].status # "absent" =>
        /\ dispatch[n].rev \in 1 .. Len(revision)
        /\ revision[dispatch[n].rev].decision = "approved"
        /\ n \in SourceGraph(n).node

\* The order of the plan holds at all times, not only at the moment of dispatch:
\* what any dispatched node depends on, directly or not, in its own revision or
\* in any later one, is accepted, completed and within its scopes.
DependenciesComplete ==
    \A n \in Run : Dispatched(n) =>
        \A k \in dispatch[n].rev .. Len(revision) :
            \A m \in Ancestors(revision[k].graph, n) :
                /\ run[m].status = "accepted"
                /\ dispatch[m].status = "completed"
                /\ ~dispatch[m].violated

\* A node once dispatched is part of every later revision, unchanged and with the
\* same ancestors, across rejected drafts and any number of amendments.
AmendmentKeepsDispatched ==
    \A n \in Run : Dispatched(n) =>
        \A k \in dispatch[n].rev .. Len(revision) :
            LET g == revision[k].graph IN
            /\ n \in g.node
            /\ NodeOf(g, n) = NodeOf(SourceGraph(n), n)
            /\ Ancestors(g, n) = Ancestors(SourceGraph(n), n)

\* Two attempts at work never may change the same path: approval refuses unordered
\* overlapping scopes, order keeps ordered ones apart, and claim looks again.
ActiveScopesDisjoint ==
    \A a, b \in ActiveAttempts : a # b =>
        \A p \in UNION Change :
            ~ \E s \in SourceGraph(attempt[a].run).scope[attempt[a].run],
                 t \in SourceGraph(attempt[b].run).scope[attempt[b].run] :
                    Contains(s, p) /\ Contains(t, p)

\* The dispatch of a node and its Run tell one story: a node is blocked exactly
\* while the last success of its Run left paths out of scope; whoever works on it
\* works where it was dispatched to; and it is completed, or waits for the commit
\* of its work, exactly when its Run is accepted.
DispatchFollowsRun ==
    \A n \in Run :
        /\ Dispatched(n) <=> run[n].status # "absent"
        /\ dispatch[n].violated <=> dispatch[n].status = "blocked"
        /\ dispatch[n].worktree = run[n].worktree
        /\ run[n].status = "accepted" <=>
              \/ dispatch[n].status = "completed"
              \/ dispatch[n].status = "awaiting_git" /\ dispatch[n].worktree # None
        /\ HasActiveAttempt(n) => dispatch[n].status \in {"dispatched", "blocked"}
        /\ dispatch[n].violated <=>
              \E a \in AttemptsOf(n) :
                  /\ attempt[a].status = "succeeded"
                  /\ \A b \in AttemptsOf(n) :
                        attempt[b].status = "succeeded" => attempt[b].no <= attempt[a].no
                  /\ OutOfScope(n, evidence[a]) # {}

\* Accepted work lies within the scopes the user approved, be it accepted by the
\* user or by policy, after any number of Fixes.
AcceptedWorkInScope ==
    \A n \in Run : run[n].status = "accepted" =>
        \A a \in AttemptsOf(n) : IsLatestAttempt(n, a) => OutOfScope(n, evidence[a]) = {}

-----------------------------------------------------------------------------
(* What a step may never do. *)

\* No step raises the number of attempts at work above the limit of the revision in
\* force; one that waits for an answer or for its cancel still counts.
LimitHeldAtStart ==
    [][Cardinality(ActiveAttempts') > Cardinality(ActiveAttempts)
          => Cardinality(ActiveAttempts') <= CurrentGraph.limit]_<<vars, planVars>>

\* Nodes that are worked on side by side are apart in paths and worktrees, and within the
\* limit: under approvals, amendments, reconciliation and claims in any order.
WorkSideBySide == [](ActiveScopesDisjoint /\ WorktreeLeaseUnique) /\ LimitHeldAtStart

=============================================================================
