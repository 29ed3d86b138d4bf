\* Every kind of input; runs that end by themselves, and their verdicts, with the
\* operator editing the pillar and removing entries from the report between them.
SPECIFICATION Spec
CONSTANTS
    lib = lib
    app = app
    appPom = appPom
    topPom = topPom
    none = none
    nothing = nothing
    v1 = v1
    v2 = v2
    Artifact <- MCArtifact
    Pom <- MCPom
    Version <- MCVersion
    NoPom <- none
    NoItem <- nothing
    Pillars <- AllPillars
    Trees <- AllTrees
    MaxRuns = 2
    MaxInterrupts = 0
    MaxKills = 0
    MaxEdits = 2
    MaxRefs = 8
INVARIANTS
    TypeOK
    AssertionHolds
    VerdictMatchesReference
    ReferencesCounted
    VerifiedIsClean
PROPERTIES
    SavedStagesStick
    PassesProgress
CHECK_DEADLOCK FALSE
