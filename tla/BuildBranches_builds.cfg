SPECIFICATION Spec
CONSTANTS
    Repos = {states, pillars}
    Pillars = {pillars}
    Files = {file}
    Versions = {v0, v1}
    UserBranches = {master, profile}
    Profile = profile
    MaxBuilds = 2
    MaxEdits = 2
    MaxFailures = 1
    FailAt <- OutsideSnapshot
    Kinds = {"fresh", "rebuild"}
    None = None
    Detached = Detached
    states = states
    pillars = pillars
    master = master
    profile = profile
    file = file
    v0 = v0
    v1 = v1
    v2 = v2
INVARIANTS TypeOK WorkKept ResetRestores BuildRecorded WorkIsBuilt
