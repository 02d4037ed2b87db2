SPECIFICATION ForkSpec
CONSTANTS
  Reqs = {r1}
  Grps = {g1}
  None = None
  Limits <- One
  CbResults = {0}
  MaxDepth = 2
PROPERTIES ForkEmpties
