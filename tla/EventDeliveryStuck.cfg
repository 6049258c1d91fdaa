SPECIFICATION FairSpec
CONSTANTS
  Events <- MCEvents
  Consumers <- MCConsumers
  NoEvent = "none"
  Route <- ShortRoute
  Internal = {}
  Stamp <- MCStamp
  SeqOrdered = {"um"}
  Transactional = {"act"}
  Follow <- MCFollow
  FirstHandlers = {"um", "act"}
  MaxAttempts = 2
  MaxRuns = 2
  PromptRestart = TRUE
PROPERTY DeliverySettles
CHECK_DEADLOCK FALSE
