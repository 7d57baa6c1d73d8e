CONSTANTS
  CmdLens = {1, 3}
  RspLens = {1, 3}
  Rooms = {1, 2, 3}
  CardIfs = {1}
  FirstIfs = 2
  CardChunk = 2
  ErrLimit = 2
  MaxCalls = 3
  MaxFaults = 3
  MaxRequests = 1
  Drivers = {"ppa", "PCSC", "ISO"}
  ReplyLens = {0, 1, 2, 3, 4}
  Rooms0 = {2, 3, 4, 5, 6}
  Max = 3
SPECIFICATION TransmitSpec
INVARIANTS InStep T0Response
PROPERTIES ExchangeSpec TransmitReturns
CHECK_DEADLOCK FALSE
