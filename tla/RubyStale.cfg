SPECIFICATION Spec
CONSTANTS
  Reqs = {r1, r2}
  Handles = {1, 2}
  Workers = {w1}
  None = None
  Methods <- Some
  PriArgs <- Wide
  Errnos = {EBADF, ENOENT}
  StaleUse = TRUE
INVARIANTS OwnEnd
