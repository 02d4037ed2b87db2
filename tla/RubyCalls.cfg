SPECIFICATION FairSpec
CONSTANTS
  Reqs = {r1, r2}
  Handles = {1, 2}
  Workers = {w1}
  None = None
  Methods <- Some
  PriArgs <- Wide
  Errnos = {EBADF, ENOENT}
  StaleUse = FALSE
INVARIANTS TypeOK OwnEnd ProcKept
PROPERTIES CallsImplement EveryCallEnds
