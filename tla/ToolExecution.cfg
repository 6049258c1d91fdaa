SPECIFICATION FairSpec
CONSTANTS
  Calls = {look, act}
  ReadOnly = {look}
  Authorised = {look, act}
  NoCall = NoCall
  MaxRounds = 2
  MaxReplans = 1
  MaxAttempts = 2
  MaxOutputs = 1
  MaxThoughts = 2
  MaxBatch = 2
  MaxInputs = 2
  MaxCrashes = 1
INVARIANTS
  SideEffectOnce
  ActionsReported
PROPERTIES
  FreshDecision
  ReplyEnds
CHECK_DEADLOCK FALSE
