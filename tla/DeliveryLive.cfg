SPECIFICATION LiveSpec
CONSTANTS
    Scenes = {"outbox", "page"}
    b1 = b1
    r1 = r1
    None = None
PROPERTIES EventuallySettled EveryDrawShown
CHECK_DEADLOCK FALSE
