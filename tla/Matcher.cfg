SPECIFICATION Spec
CONSTANTS
  Records <- OrderAndBatch
  RuleSets <- SomeRules
  BuiltIn <- OneBuiltIn
  Policies <- Contract
  DayLength = 2
  MaxPuts = 4
  MaxOutcomes = 2
INVARIANTS
  TypeOK
  MatchesAreOneToOne
  LeftoversAreReported
  DuplicateChargesNeverMatch
PROPERTIES
  RunsDoNotDependOnHistory
  OrderOfPaymentsDoesNotMatter
