CONSTANTS
  base = base
  io = io
  Base = base
  Pools <- NoneOrOne
  Last = 2
  Limits = {1, 2}
  Room = 1
  MsgLen = 2
  MaxSent = 2
SPECIFICATION FairSpec
INVARIANTS
  EventsAreAlive
  UpThenDown
  MessagesArriveWhole
PROPERTIES
  ClosedIsReleased
  WaitsForPeersOnly
CHECK_DEADLOCK FALSE
