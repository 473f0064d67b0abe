SPECIFICATION FairSpec
CONSTANTS
  Keys = {k1}
  Vals = {v1, v2}
  Missing = Missing
  NoEntry = NoEntry
  NoTable = NoTable
  NoOp = NoOp
  NoFile = NoFile
  TornRecord = TornRecord
  TornFile = TornFile
  KeyLen = 1
  ValLen = 1
  WordMod = 16
  Ttls = {0, 2}
  MaxSst = 2
  Radix = 10
  MemLimit = 4
  Epoch = 3
  MaxClock = 6
  MaxLog = 3
  TornTail = FALSE
INVARIANTS
  AckedPutSurvives
  AckedPutIsListed
  MemTableMirrorsLog
PROPERTIES
  OperationsEnd
