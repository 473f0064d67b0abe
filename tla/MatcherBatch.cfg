SPECIFICATION Spec
CONSTANTS
  Records <- BatchRecords
  RuleSets <- SomeRules
  BuiltIn <- OneBuiltIn
  Policies <- NoContract
  DayLength = 2
  MaxPuts = 4
  MaxOutcomes = 2
INVARIANTS
  BankLinesMatchedOnce
