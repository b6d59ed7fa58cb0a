SPECIFICATION Spec
CONSTANTS
    Run = {r1, r2}
    Attempt = {a1, a2, a3}
    Guidance = {}
    Worktree = {w1, w2}
    None = None
    MaxFix = 1
    MaxAttemptNo = 3
SYMMETRY Symmetry
INVARIANTS
    TypeOK
    Coherent
    WorktreesApart
    QuestionFollowsAttempt
    AcceptedWorkIsReviewed
PROPERTIES
    HistoryIsKept
    ImplementsWorktreeLease
\* the identities run out, and the planner may stop asking
CHECK_DEADLOCK FALSE
