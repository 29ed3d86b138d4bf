SPECIFICATION FairSpec
CONSTANTS
    Repos = {states}
    Pillars = {}
    Files = {file}
    Versions = {v0, v1}
    UserBranches = {profile, master}
    Profile = profile
    MaxBuilds = 2
    MaxEdits = 1
    MaxFailures = 1
    FailAt <- Everywhere
    Kinds = {"fresh", "rebuild", "checkout"}
    None = None
    Detached = Detached
    states = states
    pillars = pillars
    master = master
    profile = profile
    file = file
    v0 = v0
    v1 = v1
    v2 = v2
INVARIANTS RecoveryPending BuildRecorded
PROPERTIES RevertedInTheEnd
