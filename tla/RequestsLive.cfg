SPECIFICATION LiveSpec
CONSTANTS
    Scenes = {"draws", "trades", "parked", "deploy", "drain"}
    ann = ann
    ben = ben
    X = X
    Y = Y
    x1 = x1
    y1 = y1
    c1 = c1
    b1 = b1
    b2 = b2
    l1 = l1
    r1 = r1
    t1 = t1
    t2 = t2
    ci = ci
    op = op
    None = None
    Unlimited = Unlimited
PROPERTIES EveryCallEnds ParkedIsSettled FilesRecorded CronDrains
CHECK_DEADLOCK FALSE
