SPECIFICATION StatSpec
CONSTANTS
  Cutoff = 3
  Fast = 3
  InodeBits = 2
  Entries = {}
  MaxEntries = 0
  FlagSets = {}
  DentAlloc0 = 2
  NamesAlloc0 = 4
  Failing = {"call"}
  Types <- Stats
  BufSize = 3
  FileLen = 6
  Ranges = {}
  Areas = {}
  PageSize = 4
INVARIANTS StatLives
CHECK_DEADLOCK FALSE
