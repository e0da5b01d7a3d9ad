SPECIFICATION Spec
CONSTANTS
  LengthMax = 40
  MaxHeaderSize = 46
  MaxChunk = 3
  Streams <- MCStreams
INVARIANTS FragmentsDontMatter RoundTrip NoAssertFails
CHECK_DEADLOCK FALSE
