SPECIFICATION FairSpec
CONSTANTS
    Craft = {"SC-01"}
    MAX_TOASTS = 2
    Unseen = Unseen
    MAX_HISTORY = 2
    MAX_RING = 2
    NoFrame = NoFrame
    Shapes <- SomeShapes
    Links <- SomeLinks
    MaxSends = 4
    MaxOthers = 1
    MaxCuts = 1
    MaxCloses = 1
INVARIANTS TypeOK ScreenIsTrue
PROPERTIES FixedIsTold LiveAgain
CHECK_DEADLOCK FALSE
