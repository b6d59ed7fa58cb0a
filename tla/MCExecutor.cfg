SPECIFICATION SceneSpec
CONSTANTS
    Run = {r1, r2}
    Attempt = {a1, a2}
    Guidance = {g1}
    Worktree = {w1}
    None = None
    MaxFix = 1
    MaxAttemptNo = 2
    Executor = {e1, e2}
    Troubles = {{"crash", "late"}, {"again"}, {"again", "crash"}, {"cli"}, {"stdin"}}
SYMMETRY Symmetry
INVARIANTS
    WorkerHoldsWorktree
    UnacceptedWorkIsHeld
    SuccessIsEarned
PROPERTIES
    GuidanceIsDelivered
\* every invocation ends, and the planner may stop asking
CHECK_DEADLOCK FALSE
