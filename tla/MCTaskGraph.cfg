CONSTANTS
    Node = {n1, n2, n3}
    Name = {"src", "room"}
    MaxDepth = 2
SPECIFICATION GraphSpec
INVARIANTS
    OverlapIsSharedPath
    ValidGraphHasOrder
    OneBranchToContinue
