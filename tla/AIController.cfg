SPECIFICATION FairSpec
CONSTANTS
  Records <- AllRecords
  Ledgers <- SomeLedgers
  Reports <- SomeReports
  Registries <- SomeRegistries
  Fabricated <- SomeFabricated
  Claims = {20, 100, 250}
CHECK_DEADLOCK FALSE
INVARIANTS
  TypeOK
  ResolvedOnOwnEvidence
  AuditAccountsForStatus
PROPERTIES
  EveryExceptionDecided
