SPECIFICATION Spec
CONSTANTS
    Craft = {"SC-01"}
    METRICS <- TwoMetrics
    WindowSize = 3
    Warmup = 2
    ZHigh = 130
    ZMedium = 60
    Horizon = 3
    WINDOW = 4
    MinSamples = 3
    ReportAnomalies = 2
    ReportEvents = 2
    ReportBench = 2
    OnlineFor = 1
    QuietFor = 1
    Never = Never
    Frames <- SomeFrames
    LogTypes = {"StateChange", "RestartTask"}
    Unparsable = Unparsable
    MaxMessages = 4
    MaxTime = 2
    MaxRefusals = 1
    MaxRestarts = 1
INVARIANTS TypeOK OnRecord ReportIsFresh
PROPERTY FirstMoveIsHigh
CHECK_DEADLOCK FALSE
