SPECIFICATION Spec
CONSTANTS
    Nil = Nil
    MaxOpenTools = 4
    MaxBlocks = 3
    Routes <- AllRoutes
INVARIANTS ClientGrammar Faithful EndsHonestly BilledOnce
CHECK_DEADLOCK FALSE
