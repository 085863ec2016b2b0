SPECIFICATION Spec
CONSTANTS
    Tables = {t1}
    Builds = {b1, b2}
    KafkaBuilds = {b1}
    Clients = {c1}
    Reloaders = {r1}
    Main = main
    Ptrs = {p1, p2, p3}
    Faults = {}
    ExclusiveArena = FALSE
    TableDir = TableDir
    Nothing = Nothing
SYMMETRY Symmetry
INVARIANTS
    OneConsumerPerOffsetFile
