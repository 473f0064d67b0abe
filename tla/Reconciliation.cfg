SPECIFICATION ReconSpec
CONSTANTS
  Files <- Months
  Records <- AllRecords
  RuleSets <- ProductionRules
  BuiltIn <- DefaultPolicies
  Policies <- NoPolicies
  Limits = {0, 2, 3}
  DayLength = 24
  MaxPuts = 0
  MaxOutcomes = 0
INVARIANTS
  ReconTypeOK
  WholeCasesAreJudgedAlike
  FullRunsAgree
  LoadedRecordsAreFound
