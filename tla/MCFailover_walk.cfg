SPECIFICATION FairSpec
CONSTANTS
    a = a
    b = b
    c = c
    P = P
    Q = Q
    R = R
    baa = baa
    Lanes <- MCLanes
    Pools <- MCPools
    Tags <- MCTags
    Configs <- MCConfigs
    GateReplies <- SomeGates
INVARIANTS RestrictHolds AclHolds NoLaneTwice ContextRespected DeadlineStopsWalk
PROPERTIES Answered
