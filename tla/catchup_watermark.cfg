SPECIFICATION Spec
CONSTANTS
    p1 = p1
    p2 = p2
    v0 = v0
    v1 = v1
    v2 = v2
    v3 = v3
    Pks = {p1, p2}
    Values = {v0, v1, v2, v3}
    Zero = v0
    Keep = Keep
    Absent = Absent
    NoWriter = NoWriter
    Before <- MCBefore
    Included = 1
    Requests <- MCRequests
    Topic <- MCTopic
    Writers = {}
    MaxPuts = 0
    PutsUntil = 1
    MaxRestarts = 0
    Faults = {}
INVARIANTS
    CatchUpFollowsWatermark
CHECK_DEADLOCK FALSE
