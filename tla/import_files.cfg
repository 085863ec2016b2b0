SPECIFICATION FairSpec
CONSTANTS
    Workers = {w1, w2}
    Files = 3
    Batches <- MCBatches
    Chunks = 2
    Capacity = 0
    Wrap = 128
    MaxBits = 4
    Faults = {"create", "open", "read", "schema", "apply", "arena", "meta"}
INVARIANTS
    TypeOK
    MetaMeansComplete
    BucketsFitRows
    NobodyWaitsInVain
PROPERTIES
    ImplementsJob
    ImportEnds
