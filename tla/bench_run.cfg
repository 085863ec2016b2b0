SPECIFICATION FairSpec
CONSTANTS
    Workers = {w1, w2, w3}
    Cap = 2
    MaxSamples = 1
    MaxCalls = 2
    Faults = {"init"}
INVARIANTS
    TypeOK
    OvershootIsBounded
    ReportIsExact
PROPERTIES
    RunEnds
