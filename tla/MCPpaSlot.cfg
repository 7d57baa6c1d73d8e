SPECIFICATION FairSpec
CONSTANTS
  Cards <- MCCards
  IfsTries = 3
  Waits = {0, 1}
  MaxCommands = 3
  MaxChanges = 2
  MaxFaults = 1
CHECK_DEADLOCK FALSE
INVARIANTS TypeOK PoweredIsReady
PROPERTIES AnswerTells Returns
