SPECIFICATION LiveSpec
CONSTANTS
    MaxSent = 4
    SockBuf = 2
INVARIANTS
    BytesInOrder
    NoStrandedBytes
    OneLifecycle
PROPERTIES
    NoTruncation
    EventuallyDestroyed
    ShutdownHappens
CHECK_DEADLOCK FALSE
