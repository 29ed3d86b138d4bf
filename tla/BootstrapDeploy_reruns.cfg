CONSTANTS
    Host = {salt}
    Master = salt
    Rhel5 = {salt}
    UseCase <- BothUseCases
    Package = {old, new}
    Enabled <- AllSteps
    SaltEntries <- AnySaltEntry
    NetworkFiles <- NetworkFileSet
    Original = Original
    Damaged = Damaged
    Missing = Missing
    Nothing = Nothing
    MaxFailures = 2
    MaxReruns = 2
SPECIFICATION Spec
INVARIANTS
    TypeOK
    DeploymentHolds
    OriginalReposKept
    MasterUsesItsConfiguration
CHECK_DEADLOCK FALSE
