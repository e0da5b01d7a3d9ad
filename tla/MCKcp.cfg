SPECIFICATION Spec
CONSTANTS
  Ends <- MCEnds
  Calls <- MCCalls
  Mss = 2
  Overhead = 1
  SndWnd = 2
  RcvWnd = 3
  FastResend = 1
  FastLimit = 1
  BufLen = 4
  MaxFaults = 1
INVARIANTS MessagesInOrder AckedIsHeld NeverStuck
CHECK_DEADLOCK FALSE

