SPECIFICATION PipelineSpec
CONSTANTS
  Records <- GeneratedRecords
  Prices <- TwoPrices
  Datasets <- SomeDatasets
  RuleSets <- BothRules
  BuiltIn <- DefaultPolicies
  Policies = {}
  DayLength = 24
  MaxPuts = 0
  MaxOutcomes = 4
INVARIANTS
  PipelineTypeOK
  NoFalseResolution
  ResolvableIsResolved
  EveryCaseIsSeen
  ExpectedTypes
  EvidenceShowsTheOrder
  CasesJudgedAlone
  CasesAreRightAlone
