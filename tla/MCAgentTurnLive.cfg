\* One turn with two completions and two tool calls, a reconnect; no crash.
SPECIFICATION Spec
CONSTANTS
    Turns = {t1}
    Conns = {c1, c2}
    Texts = {x1}
    MaxIterations = 2
    MaxCalls = 2
    BroadcastFaults = TRUE
    MayCrash = FALSE
    None = None
PROPERTIES
    ImplementsConsent
    SlotFrees
CHECK_DEADLOCK FALSE
