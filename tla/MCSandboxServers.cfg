SPECIFICATION Spec
CONSTANTS
    Experiments = {e1}
    Runs = {r1}
    Tokens = {t1}
    Ops = {o1, o2}
    Servers = {s1, s2}
    Cells = {}
    BroadcastFaults = FALSE
    DockerFaults = TRUE
    SaveFaults = TRUE
    MayCrash = TRUE
    Missing = Missing
    None = None
SYMMETRY Symmetry
INVARIANTS ServerTracked OneServer CeilingStopsItsOwn
