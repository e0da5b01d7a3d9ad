SPECIFICATION LiveSpec
CONSTANTS
    loop = loop
    a = a
    b = b
    LoopThread = loop
    Others <- MCOthers
    MaxCalls <- MCCalls
    PollTimesOut = TRUE
INVARIANTS
    NoLostWakeup
    NoLostQuit
PROPERTIES
    RefinesFunctorQueue
    FunctorsRun
    QuitStops
CHECK_DEADLOCK FALSE
