SPECIFICATION FairRubySpec
CONSTANTS
  PriMin = 0
  PriMax = 0
  Reqs = {r1}
  Quits = {q1}
  Workers = {w1}
  None = None
  PriIn = {0}
  Word = 8
  Wanted0 = 1
  MaxIdle0 = 1
  Parallel = {}
  IdleArgs = {}
  PollArgs = {}
  CbResults = {0}
  TimedPoll = FALSE
  CreateFails = FALSE
  Timeouts = TRUE
  Forking = FALSE
PROPERTIES WaitReturns
CHECK_DEADLOCK FALSE
