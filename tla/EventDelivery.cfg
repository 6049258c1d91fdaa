SPECIFICATION Spec
CONSTANTS
  Events <- MCEvents
  Consumers <- MCConsumers
  NoEvent = "none"
  Route <- MCRoute
  Internal = {}
  Stamp <- MCStamp
  SeqOrdered = {"um"}
  Transactional = {"act"}
  Follow <- MCFollow
  FirstHandlers = {"act"}
  MaxAttempts = 2
  MaxRuns = 2
  PromptRestart = TRUE
INVARIANTS
  WorkerHoldsLease
  FollowUpDurable
  InAdmissionOrder
  NothingForgotten
PROPERTY
  ContractSpec
CHECK_DEADLOCK FALSE
