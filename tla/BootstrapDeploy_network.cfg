CONSTANTS
    Host = {salt, node}
    Master = salt
    Rhel5 = {salt}
    UseCase <- Online
    Package = {new}
    Enabled <- AllSteps
    SaltEntries <- NewHosts
    NetworkFiles <- NetworkFileSet
    Original = Original
    Damaged = Damaged
    Missing = Missing
    Nothing = Nothing
    MaxFailures = 2
    MaxReruns = 0
SPECIFICATION FairSpec
INVARIANT DeploymentHolds
PROPERTY EveryHostIsDeployed
CHECK_DEADLOCK FALSE
