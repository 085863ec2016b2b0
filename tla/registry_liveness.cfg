SPECIFICATION FairSpec
CONSTANTS
    Tables = {t1}
    Builds = {b1, b2}
    KafkaBuilds = {b1}
    Clients = {c1, c2}
    Reloaders = {r1}
    Main = main
    Ptrs = {p1, p2, p3}
    Faults = {}
    ExclusiveArena = TRUE
    TableDir = TableDir
    Nothing = Nothing
INVARIANTS
    QuietTableHasOneMapping
    OneConsumerPerArena
PROPERTIES
    ReloadIsAnswered
