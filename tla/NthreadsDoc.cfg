SPECIFICATION Spec
CONSTANTS
  PriMin = 0
  PriMax = 1
  Reqs = {r1}
  Quits = {q1}
  Workers = {w1}
  None = None
  PriIn = {0}
  Word = 8
  Wanted0 = 1
  MaxIdle0 = 0
  Parallel = {0}
  IdleArgs = {}
  PollArgs = {}
  CbResults = {0}
  TimedPoll = FALSE
  CreateFails = FALSE
  Timeouts = TRUE
  Forking = FALSE
INVARIANTS NthreadsExist
CHECK_DEADLOCK FALSE
