SPECIFICATION PlanSpecApart
CONSTANTS
    r1 = r1
    r2 = r2
    Run = {r1, r2}
    Attempt = {a1, a2, a3}
    Guidance = {}
    Worktree = {w1, w2}
    None = None
    MaxFix = 1
    MaxAttemptNo = 2
    Graph <- AllGraphs
    Change <- Changes
    MaxRevision = 3
SYMMETRY Symmetry
INVARIANTS
    DispatchFollowsRun
    AcceptedWorkInScope
    OnlyApprovedIsRun
    DependenciesComplete
    AmendmentKeepsDispatched
PROPERTIES
    WorkSideBySide
\* the identities run out, and the planner may stop asking
CHECK_DEADLOCK FALSE
