SPECIFICATION FairSpec
CONSTANTS
    Faults = {"LOW_BATTERY", "TASK_HANG"}
    Instances = {r1, r2}
    TokenCount = 1
    EscalateAt = 2
    LogContended = TRUE
    ReRaise = TRUE
    Sensed = {"LOW_BATTERY"}
    Injected = {}
    Cleared = {}
    WatchdogActs = TRUE
    BatteryMoves = {"critical", "high"}
PROPERTY FaultsRecover
