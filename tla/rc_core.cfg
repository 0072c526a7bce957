SPECIFICATION FairSpec
CONSTANTS
    SWARM <- Fleet
    Watched = {"SC-02"}
    Fault = {"comm", "queue"}
    OwnFaults = {"comm", "queue"}
    Modes = {"NORMAL", "SAFE"}
    Launchable = {}
    StaleAfter = 1
    SafeAfter = 0
    NotSafe = NotSafe
    Engine = Engine
    Operator = Operator
    Adrift = Adrift
    Nothing = Nothing
    MaxMounts = 1
    MaxLaunches = 0
    MaxMisses = 1
    MaxOutages = 1
    MaxOrders = 1
PROPERTIES OnlyStaleCleared StaleIsCleared
