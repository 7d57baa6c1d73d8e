CONSTANTS
  Luns = {l1, l2, l3}
  NoName = NoName
  Names = {NoName, usb1, usb2}
  Serial = TRUE
  MaxCreates = 5
  None = None
SYMMETRY Symmetry
SPECIFICATION Spec
INVARIANTS TypeOK OpenHasStatus CountsChannels
CHECK_DEADLOCK FALSE
