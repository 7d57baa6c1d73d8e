CONSTANTS
  Byte <- MCBytes
  Commands = {}
  RxBlocks = {}
  RspBound = 0
  MaxRspLens = {3}
  IfscInit = 2
  ErrLimit = 3
  WtxLimit = 4
  CmdLens = {2, 3}
  RspLens = {2, 4}
  ReaderIfs = 2
  Requests <- MCRequests
  Devices = {"kernel", "libusb"}
  MaxCalls = 2
  MaxDamaged = 3
  MaxMissing = 1
  MaxRequests = 1
  MaxIncidents = 1
SPECIFICATION LinkFairSpec
INVARIANTS InStep Recovers
PROPERTIES ExchangeSpec Terminates
