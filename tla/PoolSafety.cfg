SPECIFICATION Spec
CONSTANTS
  PriMin <- Lowest
  PriMax = 0
  Reqs = {r1, r2}
  Quits = {q1}
  Workers = {w1, w2}
  None = None
  PriIn = {127}
  Word = 6
  Wanted0 = 2
  MaxIdle0 = 1
  Parallel = {1, 2}
  IdleArgs = {0}
  PollArgs = {}
  CbResults = {0, 1}
  TimedPoll = FALSE
  CreateFails = TRUE
  Timeouts = TRUE
  Forking = TRUE
SYMMETRY Symmetry
INVARIANTS TypeOK Placed Counts PipeMirrorsResults ThreadLedger IdleLedger
PROPERTIES Implements IdleBounded
CHECK_DEADLOCK FALSE
