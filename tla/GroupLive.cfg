SPECIFICATION FairSpec
CONSTANTS
  Reqs = {r1, r2}
  Grps = {g1}
  None = None
  Limits <- Few
  CbResults = {0, 1}
  MaxDepth = 2
PROPERTIES EveryGroupEnds
