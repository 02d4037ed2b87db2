SPECIFICATION Spec
CONSTANTS
  Reqs = {r1, r2}
  Grps = {g1, g2}
  None = None
  Limits <- Two
  CbResults = {0}
  MaxDepth = 3
SYMMETRY Symmetry
INVARIANTS TypeOK Linked FinishedLast FinishedOnce NotForgotten FeederServed
PROPERTIES MembersImplement
