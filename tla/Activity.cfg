SPECIFICATION Spec
CONSTANTS
  None = None
  reading = reading
  rest = rest
  work = work
  wish = wish
  errand = errand
  Activities = {reading, work}
  Desires = {wish}
  Tasks = {errand}
  Source <- MCSource
  Resumable = {reading}
  Surveys = {work}
  Callers = {tick, message}
  Interrupters = {user}
  Runners = {r1, r2}
  Faults = {"crash", "bus"}
SYMMETRY CallerSymmetry
INVARIANTS ActiveDesireOwned
PROPERTIES SurveyNotRedone
CHECK_DEADLOCK FALSE
