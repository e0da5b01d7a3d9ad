SPECIFICATION LiveSpec
INVARIANTS
    OneAttempt
    NoAbort
    NoSocketLeak
PROPERTIES
    StopIsFinal
    Reconnects
