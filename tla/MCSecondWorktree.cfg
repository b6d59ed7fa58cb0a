SPECIFICATION GitSpec
CONSTANTS
    r1 = r1
    r2 = r2
    Run = {r1}
    Attempt = {a1}
    Guidance = {}
    Worktree = {w1, w2}
    None = None
    MaxFix = 0
    MaxAttemptNo = 1
    Graph <- SingleNode
    Change <- OneChange
    MaxRevision = 1
    Call = {c1, c2}
    Main = main
    MaxAction = 2
SYMMETRY GitSymmetry
INVARIANTS
    FirstAttemptFreezesWorktree
CHECK_DEADLOCK FALSE
