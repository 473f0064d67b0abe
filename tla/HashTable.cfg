SPECIFICATION Spec
CONSTANTS
  k1 = k1
  k2 = k2
  k3 = k3
  k4 = k4
  Keys = {k1, k2, k3, k4}
  Vals = {v1}
  Missing = Missing
  NoEntry = NoEntry
  Empty = Empty
  Tomb = Tomb
  NoPut = NoPut
  KeyLen = 2
  ValLen = 2
  WordMod = 64
  Ttls = {0, 1}
  Hash <- MCHash
  InitCap = 4
  MemLimit = 20
  ArenaFactor = 8
  Align = 8
  Epoch = 2
  MaxClock = 3
INVARIANTS
  TypeOK
  CountersCoverTheSlots
  SearchesEnd
  KeysAreFound
  RehashIsNotNested
  
PROPERTIES
  ImplementsMap
  PutEnds
