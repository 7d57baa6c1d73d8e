CONSTANTS
  Cards <- MCCards
  None = None
SPECIFICATION Spec
INVARIANTS TypeOK ProtocolAgrees AtrOfCard
PROPERTIES ActivatedIsActive CommandsReturn
