SPECIFICATION FairSpec
CONSTANTS
  Host <- MCHost
  NS = 3
  SeqSpace = 64
  BufMax = 2
  Mss = 2
  AcceptQ = 2
  MaxRetries = 1
  MaxWire = 2
  Fds = {1, 2}
  Port = 1
  Ports = {2, 3}
  Starts <- MCStarts
  Lens = {1, 2}
  MaxPut = 3
INVARIANT StreamIntact
INVARIANT EndsAgree
INVARIANT SocketsHeld
INVARIANT OneEndEach
INVARIANT PollTellsTruth
PROPERTY CloseEnds
CHECK_DEADLOCK FALSE
