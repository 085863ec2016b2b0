SPECIFICATION Spec
CONSTANTS
    Agents = {a1, a2}
    MaxId = 5
    MaxBuild = 5
    Keep = 2
    Seeds = {1, 2}
    Faults = {"disk", "import", "kill", "reload", "restart", "timeout"}
    Ops = {"buildIndex", "publishIndex", "pushIndex", "pullIndex", "deployIndex", "switchReloadIndex"}
    AskedIds = {1}
    MaxEvents = 3
INVARIANTS
    TypeOK
    DeployOkIsServed
    PublishOkIsItsBuild
    PullKeepsNewest
PROPERTIES
    ActiveYieldsToNewer
SYMMETRY AgentSymmetry
CHECK_DEADLOCK FALSE
