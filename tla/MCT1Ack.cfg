CONSTANTS
  Byte <- MCBytes
  Commands = {}
  RxBlocks = {}
  RspBound = 0
  MaxRspLens = {4}
  IfscInit = 2
  ErrLimit = 3
  WtxLimit = 4
  CmdLens = {7}
  RspLens = {2}
  ReaderIfs = 2
  Requests <- MCRequests
  Devices = {"kernel"}
  MaxCalls = 1
  MaxDamaged = 0
  MaxMissing = 1
  MaxRequests = 0
  MaxIncidents = 1
SPECIFICATION LinkSpec
PROPERTY NextIBlockAcknowledged
