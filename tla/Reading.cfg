SPECIFICATION WorkSpec
CONSTANTS
  Ends <- MCEnds
  ChapterStarts = {3}
  Block = 2
  Items = 2
  Parts = 2
  PromptParts = 1
  BufferMax = 1
  Concurrency = 1
  Slots = {1}
  MaxReads = 1
  MaxTurns = 1
  MaxSaves = 1
  MaxChecks = 1
  MaxFaults = 1
  Jobs = {"book", "page", "sources", "piece", "survey"}
  PageLength <- MCPageLength
  Found <- MCFound
  FetchCount = 2
  MaxActions = 3
  MaxHalts = 2
INVARIANTS
  WorkTypeOK
  SourceCovered
  OutputsKept
  RevisionNamesProgress
  LeavesOneRun
CHECK_DEADLOCK FALSE
