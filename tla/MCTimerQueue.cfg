SPECIFICATION Spec
CONSTANTS
    Addr <- MCAddr
    MaxTimers = 3
    MaxClock = 3
    MaxTasks = 1
    Delays <- MCDelays
    Intervals <- MCIntervals
INVARIANTS
    SetsAgree
    OneOwner
    ArmedInTime
    NeverEarly
    FirstTimerCancelled
CHECK_DEADLOCK FALSE
