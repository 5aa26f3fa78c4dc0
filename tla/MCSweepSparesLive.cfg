\* A reconnect while a turn runs.
SPECIFICATION Spec
CONSTANTS
    Turns = {t1}
    Conns = {c1, c2}
    Texts = {x1}
    MaxIterations = 1
    MaxCalls = 1
    BroadcastFaults = FALSE
    MayCrash = FALSE
    None = None
INVARIANTS
    SweepSparesLive
CHECK_DEADLOCK FALSE
