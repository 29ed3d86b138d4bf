SPECIFICATION FairSpec
CONSTANTS
    Projects = {a, b}
    Properties <- MCProperties
    a = a
    b = b
    Settings = {v0}
    Nothing = Nothing
    Missing = Missing
    Torn = Torn
    MaxTime = 1
    MaxEdits = 1
    MaxFailures = 2
    MaxRuns = 1
INVARIANTS TypeOK SettingsKept Configured
PROPERTIES ConfiguredInTheEnd
CHECK_DEADLOCK FALSE
