\* Two turns of one text, two connects, any number of crashes, broken sockets.
SPECIFICATION Spec
CONSTANTS
    Turns = {t1, t2}
    Conns = {c1, c2}
    Texts = {x1}
    MaxIterations = 1
    MaxCalls = 1
    BroadcastFaults = TRUE
    MayCrash = TRUE
    None = None
INVARIANTS
    TypeOK
    SlotIsTask
    TurnsDontInterleave
    ToolRowsPaired
    NewestIsRegistered
    CompleteIsAnswered
    OrphansAnswered
SYMMETRY Symmetry
CHECK_DEADLOCK FALSE
