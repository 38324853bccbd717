SPECIFICATION MCSpec
CONSTANTS
    a = a
    b = b
    Collectors = {a, b}
    NodeIds = {a, b}
    NodeId <- MCNodeId
    Metrics <- MCMetrics
    Attempts = 2
    MaxInserts = 3
    MaxFaults = 1
    Nodes = {0, 1}
    TokenOrder <- MCTokenOrder
    Total_Node = 2
    Total_criteria = 2
    Benefit = {2}
    Scale = 4
    Epsilon = 1
    MaxCalls = 2
    Entropy_w <- MCEntropy_w
CHECK_DEADLOCK FALSE
INVARIANTS
    TypeOK
    OneRowPerNode
    AloneIsRight
    PreferredIsBest
