SPECIFICATION FairSpec
CONSTANTS
  Links = {"usb", "serial"}
  SeqModulus = 3
  MaxCalls = 3
  MaxDamaged = 1
  MaxInterrupts = 1
  MaxSends = 6
CHECK_DEADLOCK FALSE
INVARIANTS OwnAnswer ExecutedOnce
PROPERTIES Returns
