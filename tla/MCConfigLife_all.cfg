SPECIFICATION Spec
CONSTANTS
    BaseConfig <- OneConfig
    Catalog = {"up", "up2"}
    Edits <- AllEdits
    ApiHooks <- SomeApiHooks
    Artifacts <- SomeArtifacts
    Files = {"hk1", "more"}
    KeyGroups = {"u"}
    MaxChanges = 2
INVARIANTS ValidatedConfigServes GatesFailAsDeclared DowngradeOnlyByRollback
PROPERTIES InstallKeepsBootable
CHECK_DEADLOCK FALSE
