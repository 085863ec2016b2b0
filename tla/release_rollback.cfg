SPECIFICATION Spec
CONSTANTS
    Agents = {a1, a2}
    MaxId = 5
    MaxBuild = 5
    Keep = 2
    Seeds = {1, 2, 3}
    Faults = {}
    Ops = {"deployIndex"}
    AskedIds = {1}
    MaxEvents = 1
INVARIANTS
    MustKeepIsKept
CHECK_DEADLOCK FALSE
