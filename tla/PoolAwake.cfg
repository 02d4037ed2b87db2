SPECIFICATION RubySpec
CONSTANTS
  PriMin = 0
  PriMax = 0
  Reqs = {r1, r2}
  Quits = {q1, q2}
  Workers = {w1, w2, w3}
  None = None
  PriIn = {0}
  Word = 8
  Wanted0 = 2
  MaxIdle0 = 1
  Parallel = {1, 2}
  IdleArgs = {}
  PollArgs = {1}
  CbResults = {0}
  TimedPoll = TRUE
  CreateFails = FALSE
  Timeouts = FALSE
  Forking = FALSE
SYMMETRY Symmetry
INVARIANTS NoneStranded PoolBounded SleepsOnWork
PROPERTIES WaitDrains
