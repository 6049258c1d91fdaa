SPECIFICATION LiveSpec
CONSTANTS
  None = None
  reading = reading
  rest = rest
  work = work
  wish = wish
  errand = errand
  Activities = {rest, work}
  Desires = {wish}
  Tasks = {errand}
  Source <- MCSource
  Resumable = {}
  Surveys = {work}
  Callers = {tick, message}
  Interrupters = {}
  Runners = {r1, r2}
  Faults = {"stop", "bus"}
PROPERTIES OrphansReconciled
CHECK_DEADLOCK FALSE
