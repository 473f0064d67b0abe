SPECIFICATION Spec
CONSTANTS
  Keys = {k1, k2}
  Vals = {v1, v2}
  Missing = Missing
  NoEntry = NoEntry
  NoTable = NoTable
  NoOp = NoOp
  NoFile = NoFile
  TornRecord = TornRecord
  TornFile = TornFile
  KeyLen = 1
  ValLen = 1
  WordMod = 16
  Ttls = {0}
  MaxSst = 2
  Radix = 10
  MemLimit = 4
  Epoch = 2
  MaxClock = 2
  MaxLog = 4
  TornTail = FALSE
INVARIANT
  DeletedStaysDeleted
