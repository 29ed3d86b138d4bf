SPECIFICATION Spec
CONSTANTS
    Repos = {states}
    Pillars = {}
    Files = {file}
    Versions = {v0, v1}
    UserBranches = {profile}
    Profile = profile
    MaxBuilds = 1
    MaxEdits = 1
    MaxFailures = 1
    FailAt <- Everywhere
    Kinds = {"fresh"}
    None = None
    Detached = Detached
    states = states
    pillars = pillars
    master = master
    profile = profile
    file = file
    v0 = v0
    v1 = v1
    v2 = v2
INVARIANTS WorkRestored
