SPECIFICATION ExecutorSpec
CONSTANTS
    Run = {r1}
    Attempt = {a1}
    Guidance = {}
    Worktree = {w1}
    None = None
    MaxFix = 0
    MaxAttemptNo = 1
    Executor = {e1}
    Troubles = {{"stdin"}}
SYMMETRY Symmetry
INVARIANTS
    SettledAfterClose
\* every invocation ends, and the planner may stop asking
CHECK_DEADLOCK FALSE
