SPECIFICATION FairSpec
CONSTANTS
    Nodes <- MCNodes
    Kind <- MCKind
    Below <- MCBelow
    ResultKey <- MCResultKey
    CommentKey <- MCCommentKey
    MinCount = 3
    m1 = m1
    m2 = m2
    Minions = {m1, m2}
    Returns = {1, 2, 3, 4, 5, 6}
    Refusal = 5
    MaxOthers = 1
    MaxFaults = 1
INVARIANTS TypeOK VerdictMatchesReference WaitsForRunning
PROPERTIES WaitEnds
CHECK_DEADLOCK FALSE
