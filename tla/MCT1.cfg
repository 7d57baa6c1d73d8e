CONSTANTS
  Byte <- MCBytes
  Commands <- MCCommands
  MaxRspLens = {2}
  RxBlocks <- MCRxBlocks
  RspBound = 3
  IfscInit = 2
  ErrLimit = 1
  WtxLimit = 1
SPECIFICATION Spec
INVARIANTS TypeOK ResponseBuffer SendWindow
