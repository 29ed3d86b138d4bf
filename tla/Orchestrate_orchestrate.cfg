SPECIFICATION FairSpec
CONSTANTS
    Stages <- MCStages
    Order <- StateFlagFilesOrder
    Prerequisites <- prerequisites
    Enforced <- MCStages
    AutoCreations <- MCAutoCreations
    SaltStates <- MCSaltStates
    StageOf <- MCStageOf
    Present <- MCSaltStates
    Needs <- MCNeeds
    Unguarded <- MCUnguarded
    Deps <- MCDeps
    MaxFailures = 2
    MaxDestroyed = 1
INVARIANTS TypeOK PassedMeansDeployed OneRunSuffices
PROPERTIES StagesInOrder DeployedInTheEnd
