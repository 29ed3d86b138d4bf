\* Runs that are interrupted or killed anywhere, and run again.
SPECIFICATION FairSpec
CONSTANTS
    lib = lib
    app = app
    appPom = appPom
    topPom = topPom
    none = none
    nothing = nothing
    v1 = v1
    v2 = v2
    Artifact <- MCArtifact
    Pom <- OnePom
    Version <- MCVersion
    NoPom <- none
    NoItem <- nothing
    Pillars <- FourPillars
    Trees <- OnePomTrees
    MaxRuns = 2
    MaxInterrupts = 1
    MaxKills = 1
    MaxEdits = 0
    MaxRefs = 1
INVARIANTS
    StagesInOrder
    VerifiedIsClean
PROPERTIES
    SavedStagesStick
    ImplementsVerdict
    RunEnds
CHECK_DEADLOCK FALSE
