SPECIFICATION LayerSpec
CONSTANTS
  Server = s
  Clients = {c1, c2}
  MaxConnects = 1
  MaxSends = 1
  MaxUnflushed = 1
  Mss = 2
  Overhead = 1
  SndWnd = 2
  RcvWnd = 3
  FastResend = 1
  FastLimit = 1
  DatagramLen = 4
INVARIANTS HandshakeAgrees ConversationsApart
CHECK_DEADLOCK FALSE
