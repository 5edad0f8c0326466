SPECIFICATION AllSpec
CONSTANTS
    Scenes = {"transaction", "statistics", "ordered", "rates", "form", "shares", "files", "tabs"}
    Single = Single
    Triple = Triple
    ann = ann
    ben = ben
    x = x
    y = y
    X = X
    Y = Y
    Event = {Single, Triple}
    Draws <- Doubled
    MaxDraws = 2
    Card = {c1, c2}
    Limits <- OneOrUnlimited
    Chat = {Triple}
    Session = {t1, t2}
    None = None
    Unlimited = Unlimited
SYMMETRY Interchangeable
INVARIANTS BatchComplete FiguresFollow ImagesHold
PROPERTIES ImplementsLedger LastWriterRepairs
CHECK_DEADLOCK FALSE
