SPECIFICATION AllSpec
CONSTANTS
    Scenes = {"outbox", "park"}
    Batch = {b1}
    Live = {l1, l2}
    Relay = {r1}
    None = None
    MaxAttempts = 2
    SendTries = 2
    LeaseTicks = 2
    SendTicks = 1
    RetryTicks <- RetryDelays
    SentTicks = 1
    DeadTicks = 1
INVARIANTS NoConcurrentSend SettledForCause ParkHolds
PROPERTIES ImplementsDelivery
