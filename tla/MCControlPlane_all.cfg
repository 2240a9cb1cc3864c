SPECIFICATION Spec
CONSTANTS
    Hooks = {"b", "x"}
    Groups = {"g", "t"}
    HookCfgs <- TwoCfgs
    Settings = {1}
    Files <- OneEdit
    FirstFile <- FileOne
    Bodies <- OneBody
    FullCallers = {"admin"}
    NarrowCallers = {"ci"}
    MintCallers = {"portal"}
    KeptVersions = 2
    MaxSwaps = 3
    MaxRestarts = 1
    MaxFaults = 1
INVARIANTS NoLostUpdate NarrowStaysNarrow RestartIsFaithful
CHECK_DEADLOCK FALSE
