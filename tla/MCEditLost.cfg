SPECIFICATION Spec
CONSTANTS
    Moving = {"editor"}
    None = None
    Noise = 0
    Items = {i1, i2}
    PollIds = {p1, p2}
    MaxTime = 2
    MaxFaults = 1
    Terms = {w1, w2}
    Readers = {r1, r2}
    MaxSaves = 1
    Projects = {a, b}
    MaxDispatches = 2
    MaxFailures = 1
    Calls = {c1, c2}
    MaxRetries = 1
    RepairRetries = 1
    Interval = 2
    Callers = {c1, c2}
    MaxSpawns = 2
    MaxIds = 3
    MaxLines = 1
    MaxSkips = 2
    Columns = {a, b}
    Custom = {a}
    Views = {v1, v2}
    Edits = {e1, e2}
    MaxEdits = 2
    Tabs = {t1, t2}
    Papers = {p1, p2}
    PageSize = 1
    MaxResults = 2
    MaxLength = 5
    MaxDelta = 2
    MinQuote = 2
    MaxHolds = 3
    MaxTurns = 3
    MaxSentences = 2
    Drafts = {d1, d2}
    First = d1
    Blank = {0, 2}
    MaxTexts = 2
    MaxClicks = 2
    MaxBroken = 1
    Pages = {home, paper, notes}
    Dashboard = home
    Untitled = {paper}
    MaxMoves = 2
    MaxLost = 1
    Home = a
    MaxSockets = 3
    MaxSends = 2
    MaxDrops = 1
    Writers = {w1, w2, w3}
    Titles = {a, b}
    Bodies = {b1, b2}
    Torn = Torn
    Marks = {m1, m2, m3}
    Noted = {n1}
    Conversation = cv
    Jobs = {j1, j2, j3}
    MaxVersions = 2
    MaxDepth = 3
    MaxIterations = 2
INVARIANTS NoEditLost
CHECK_DEADLOCK FALSE
