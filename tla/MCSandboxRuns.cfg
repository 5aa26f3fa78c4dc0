SPECIFICATION Spec
CONSTANTS
    Experiments = {e1, e2}
    Runs = {r1, r2}
    Tokens = {t1, t2}
    Ops = {}
    Servers = {}
    Cells = {}
    BroadcastFaults = TRUE
    DockerFaults = TRUE
    SaveFaults = FALSE
    MayCrash = TRUE
    Missing = Missing
    None = None
SYMMETRY Symmetry
INVARIANTS TypeOK TokenOneShot ConsentGate RegistryHonest
