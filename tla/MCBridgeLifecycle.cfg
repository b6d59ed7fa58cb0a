SPECIFICATION SceneSpec
CONSTANTS
    c1 = c1
    c2 = c2
    r1 = r1
    r2 = r2
    p1 = p1
    p2 = p2
    Confirmation = {c1, c2}
    Bundle <- Repeated
    ReviewId = {v1, v2}
    AcceptanceId = {a1}
    AuthorizationId = {z1}
    Fault <- Faults
    None = None
    MaxCommit = 4
\* commits and identifiers are bounded, and a closed Stage is at rest
CHECK_DEADLOCK FALSE
INVARIANTS
    BridgeLifecycleTypeOK
    PreparationsAgree
    FixIsAuthorized
    ReadyIsReviewed
    ReportIsHonest
PROPERTIES
    ClosureIsAuthorized
    RepetitionHeals
