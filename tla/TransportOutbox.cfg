SPECIFICATION FairSpec
CONSTANTS
  ScanLimit = 2
  MaxLog = 3
  MaxFaults = 3
INVARIANTS
  SentWasShown
  ShownInOrder
  RepeatsExplained
PROPERTY SpokenIsSent
CHECK_DEADLOCK FALSE
