SPECIFICATION Spec
CONSTANTS
    Tables = {t1}
    Builds = {b1, b2}
    KafkaBuilds = {b1}
    Clients = {c1, c2}
    Reloaders = {r1, r2}
    Main = main
    Ptrs = {p1, p2, p3}
    Faults = {"crash", "spawn"}
    ExclusiveArena = FALSE
    TableDir = TableDir
    Nothing = Nothing
SYMMETRY Symmetry
INVARIANTS
    TypeOK
    IInv
    HandleIsMapped
    LiveIsMapped
    ConsumerIsMapped
    QuietTableHasOneConsumer
    StagingLinkNamesSlotDir
    ReloadServesActive
PROPERTIES
    ImplementsService
