SPECIFICATION AllSpec
CONSTANTS
    Scenes = {"trading", "rewards", "failing", "pages"}
    ann = ann
    ben = ben
    X = X
    Y = Y
    x1 = x1
    x2 = x2
    y1 = y1
    y2 = y2
    o1 = o1
    o2 = o2
    o3 = o3
    a = a
    b = b
    c = c
    full = full
    compact = compact
    User = {ann, ben}
    Card = {X, Y}
    Copy = {x1, x2, y1, y2}
    Offer = {o1, o2, o3}
    CardOf <- CardOfCopy
    Offerer <- OffererOf
    Offered <- OfferedOf
    Wanted <- WantedOf
    Request = {r1}
    Session = {t1, t2}
    None = None
INVARIANTS NoDoubleSpend RewardsHold
PROPERTIES ImplementsBoard
CHECK_DEADLOCK FALSE
