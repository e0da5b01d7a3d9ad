SPECIFICATION BufferSpec
CONSTANTS
    kCheapPrepend = 2
    kInitialSize = 3
    ExtraBuf = 3
    MaxBytes = 9
INVARIANTS
    GrowthBounded
PROPERTY RefinesByteQueue
