SPECIFICATION AllSpec
CONSTANTS
    Single = Single
    Triple = Triple
    c3 = c3
    l1 = l1
    r1 = r1
    x = x
    y = y
    a = a
    b = b
    c = c
    full = full
    compact = compact
    Event = {Triple}
    Draws <- TwoDraws
    MaxDraws = 3
    Card = {c1, c2}
    Limits = {1}
    Chat = {}
    Caller = {l1, r1}
    Live = {l1}
    Relay = {r1}
    Raid = {}
    Editable = {}
    MaxSends = 2
    RpcTries = 2
    Reselects = 2
    None = None
    Unlimited = Unlimited
    Scenes = {"refund"}
INVARIANTS NoLateRefund
CHECK_DEADLOCK FALSE
