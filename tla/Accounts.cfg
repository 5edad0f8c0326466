SPECIFICATION AllSpec
CONSTANTS
    Request = {r1, r2}
    Tab = {t1}
    IsBot = FALSE
    Removes = FALSE
    MaxIssued = 3
    MaxWrites = 1
    MaxPolls = 2
    None = None
    u1 = u1
    u2 = u2
    s1 = s1
    s2 = s2
    p1 = p1
    Scenes = {"tokens", "bot", "login", "readable", "pages", "overlap", "logins", "checks", "subscribed", "codes", "turns"}
INVARIANTS NoSilentLoss LeaseHolds DisableHolds
PROPERTIES RefreshKeepsLogin LoginHolds PlanKept
CHECK_DEADLOCK FALSE
