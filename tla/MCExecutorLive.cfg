SPECIFICATION FairExecutorSpec
CONSTANTS
    Run = {r1}
    Attempt = {a1, a2}
    Guidance = {}
    Worktree = {w1}
    None = None
    MaxFix = 1
    MaxAttemptNo = 2
    Executor = {e1, e2}
    Troubles = {{}}
PROPERTIES
    CancelIsHonoured
\* every invocation ends, and the planner may stop asking
CHECK_DEADLOCK FALSE
