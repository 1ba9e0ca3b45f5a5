SPECIFICATION FairSpec
CONSTANTS
  Conns = {c1, c2}
  MaxStreams = 2
  MaxFds = 3
INVARIANT DescriptorsMatch
INVARIANT EchoStaysUp
PROPERTY QueuedIsAccepted
PROPERTY RequestsResolve
PROPERTY ClosedIsReleased
PROPERTY ExitsOnlyFull
CHECK_DEADLOCK FALSE
