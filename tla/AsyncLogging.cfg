SPECIFICATION LiveSpec
CONSTANTS
    Capacity = 2
    Null = Null
    rollSize = 2
    flushInterval = 1
    SecondsPerDay = 3
    MaxNow = 4
    MaxLines = 6
INVARIANTS
    LinesInOrder
    FilesOfOneDay
PROPERTY StopReturns
CHECK_DEADLOCK FALSE
