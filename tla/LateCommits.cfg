SPECIFICATION LateSpec
CONSTANTS
    Event = {1, 2}
    Line = {me}
    Me = me
    PageRows = 1
    Buffer = 2
    Trigger = 2
    Endpoint = {}
    Unusable = {}
    LateCommits = TRUE
    MaxFaults = 0
PROPERTIES EveryDrawShown
