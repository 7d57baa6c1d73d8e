CONSTANTS
  Requests <- MCRequests
  Commands <- MCCommands
  Inputs <- MCInputs
  Readers <- MCReaders
  Callbacks = {cb}
  DisplayMax = 3
  None = None
SPECIFICATION Spec
INVARIANTS PositionHonoured LengthsHonoured CallbackKept
PROPERTIES OutcomeReported
