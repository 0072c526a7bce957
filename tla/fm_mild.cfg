SPECIFICATION Spec
CONSTANTS
    Faults = {"LOW_BATTERY"}
    Instances = {r1, r2}
    TokenCount = 1
    EscalateAt = 3
    LogContended = FALSE
    ReRaise = TRUE
    Sensed = {"LOW_BATTERY"}
    Injected = {}
    Cleared = {}
    WatchdogActs = FALSE
    BatteryMoves = {"critical", "high"}
SYMMETRY InstanceSymmetry
INVARIANT NeverUnderstated
