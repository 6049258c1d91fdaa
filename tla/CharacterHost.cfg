SPECIFICATION FairSpec
CONSTANTS
  MaxSamples = 2
  MaxCommands = 3
  MaxRequests = 1
  MaxFaults = 2
INVARIANTS
  TypeOK
  NoUseAfterClose
PROPERTIES
  PresenceInOrder
  StoppingSettles
CHECK_DEADLOCK FALSE
