SPECIFICATION LineageSpec
CONSTANTS
    r1 = r1
    r2 = r2
    Run = {r1, r2}
    Attempt = {a1, a2}
    Guidance = {}
    Worktree = {w1, w2}
    None = None
    MaxFix = 0
    MaxAttemptNo = 1
    Graph <- BothPlans
    Change <- OneChange
    MaxRevision = 1
    Call = {c1, c2}
    Main = main
    MaxAction = 4
SYMMETRY GitSymmetry
INVARIANTS
    GitTypeOK
    LineageIsWhole
    CompletedWorkIsCommitted
PROPERTIES
    ExecutedOnceAsShown
\* the identities run out, and the user may stop asking
CHECK_DEADLOCK FALSE
