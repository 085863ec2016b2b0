SPECIFICATION FairSpec
CONSTANTS
    p1 = p1
    p2 = p2
    v0 = v0
    v1 = v1
    v2 = v2
    v3 = v3
    Pks = {p1, p2}
    Values = {v0, v1, v2, v3}
    Zero = v0
    Keep = Keep
    Absent = Absent
    NoWriter = NoWriter
    Before <- MCBefore
    Included = 1
    Requests <- MCRequests
    Topic <- MCTopic
    Writers = {w1, w2}
    MaxPuts = 2
    PutsUntil = 1
    MaxRestarts = 3
    Faults = {"crash", "open", "disk", "kafka", "setup"}
INVARIANTS
    IInv
    OffsetCoversHandled
    ReplayConverges
    StopsAreExact
    LastBatchStands
    RejectedBatchPutsNothing
PROPERTIES
    ConsumerCatchesUp
CHECK_DEADLOCK FALSE
