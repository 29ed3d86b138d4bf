\* Does an interrupted run leave a report the next run accepts?
SPECIFICATION Spec
CONSTANTS
    lib = lib
    app = app
    appPom = appPom
    topPom = topPom
    none = none
    nothing = nothing
    v1 = v1
    v2 = v2
    Artifact <- MCArtifact
    Pom <- MCPom
    Version <- MCVersion
    NoPom <- none
    NoItem <- nothing
    Pillars <- TwoPillars
    Trees <- TwoTrees
    MaxRuns = 2
    MaxInterrupts = 1
    MaxKills = 0
    MaxEdits = 0
    MaxRefs = 1
INVARIANTS
    AssertionHolds
CHECK_DEADLOCK FALSE
