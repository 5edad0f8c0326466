SPECIFICATION AllSpec
CONSTANTS
    Request = {r1, r2}
    Tab = {t1}
    IsBot = FALSE
    Removes = FALSE
    MaxIssued = 3
    MaxWrites = 1
    MaxPolls = 2
    None = None
    u1 = u1
    u2 = u2
    s1 = s1
    s2 = s2
    p1 = p1
    Scenes = {"subscribed"}
INVARIANTS OffStaysOff
CHECK_DEADLOCK FALSE
