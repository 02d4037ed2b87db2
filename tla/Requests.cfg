SPECIFICATION FairSpec
CONSTANTS
  Cutoff = 3
  Fast = 3
  InodeBits = 2
  Entries <- Some
  MaxEntries = 5
  FlagSets <- Asked
  DentAlloc0 = 2
  NamesAlloc0 = 4
  Failing <- Faults
  Types <- AllWrappers
  BufSize = 3
  FileLen = 6
  Ranges <- Asks
  Areas <- Memory
  PageSize = 4
INVARIANTS TypeOK Capacity Owned Released DirsFirst StatOrder Everything InsertionStops Transfers InArea
PROPERTIES Implements Ends
CHECK_DEADLOCK FALSE
