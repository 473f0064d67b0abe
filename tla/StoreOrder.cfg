SPECIFICATION Spec
CONSTANTS
  Keys = {k1}
  Vals = {v1, v2}
  Missing = Missing
  NoEntry = NoEntry
  NoTable = NoTable
  NoOp = NoOp
  NoFile = NoFile
  TornRecord = TornRecord
  TornFile = TornFile
  KeyLen = 1
  ValLen = 1
  WordMod = 16
  Ttls = {0}
  MaxSst = 4
  Radix = 3
  MemLimit = 1
  Epoch = 2
  MaxClock = 2
  MaxLog = 1
  TornTail = FALSE
INVARIANT
  AckedPutSurvives
