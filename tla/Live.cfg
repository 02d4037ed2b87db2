SPECIFICATION FairLoopSpec
CONSTANTS
  PriMin = 0
  PriMax = 1
  Reqs = {r1, r2}
  Quits = {q1}
  Workers = {w1, w2}
  None = None
  PriIn = {0, 1}
  Word = 8
  Wanted0 = 2
  MaxIdle0 = 1
  Parallel = {1}
  IdleArgs = {}
  PollArgs = {}
  CbResults = {0}
  TimedPoll = FALSE
  CreateFails = FALSE
  Timeouts = FALSE
  Forking = FALSE
PROPERTIES EveryRequestEnds Shrinks WaitReturns
