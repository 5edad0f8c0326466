SPECIFICATION AllSpec
CONSTANTS
    Scenes = {"room", "troubled", "retried", "page", "moved", "show", "switch", "builds"}
    e1 = e1
    e2 = e2
    c1 = c1
    obs = obs
    Event = {e1, e2}
    Line = {c1}
    Client = {obs}
    caller <- OneCaller
    MaxAttempts = 2
    MaxPublishes = 1
    MaxConnects = 1
    MaxPerClient = 1
    MaxConnections = 1
    MaxFaults = 0
INVARIANTS NoSilentGap ShownOnce OneAtATime
PROPERTIES FeedPromise ReloadQuiet
CHECK_DEADLOCK FALSE
