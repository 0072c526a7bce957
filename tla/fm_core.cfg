SPECIFICATION Spec
CONSTANTS
    Faults = {"HIGH_TEMP", "COMM_TIMEOUT", "TASK_HANG"}
    Instances = {r1, r2}
    TokenCount = 1
    EscalateAt = 9
    LogContended = TRUE
    ReRaise = TRUE
    Sensed = {}
    Injected = {"HIGH_TEMP", "COMM_TIMEOUT"}
    Cleared = {"COMM_TIMEOUT"}
    WatchdogActs = TRUE
    BatteryMoves = {"high"}
SYMMETRY InstanceSymmetry
INVARIANTS TypeOK SingleMitigation TokensConserved
PROPERTY PowerBudgetKept
