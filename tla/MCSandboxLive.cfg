SPECIFICATION Spec
CONSTANTS
    Experiments = {e1}
    Runs = {r1}
    Tokens = {t1}
    Ops = {o1}
    Servers = {s1}
    Cells = {c1}
    BroadcastFaults = FALSE
    DockerFaults = FALSE
    SaveFaults = FALSE
    MayCrash = FALSE
    Missing = Missing
    None = None
PROPERTIES RunningClears LockReleased ServerStops
