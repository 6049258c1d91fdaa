SPECIFICATION Spec
CONSTANTS
  None = None
  reading = reading
  rest = rest
  work = work
  wish = wish
  errand = errand
  Activities = {reading, work}
  Desires = {wish}
  Tasks = {errand}
  Source <- MCSource
  Resumable = {reading, work}
  Surveys = {}
  Callers = {tick, message}
  Interrupters = {user}
  Runners = {r1, r2}
  Faults = {}
SYMMETRY CallerSymmetry
INVARIANTS OneRunner
CHECK_DEADLOCK FALSE
