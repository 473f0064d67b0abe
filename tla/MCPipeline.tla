----------------------------- MODULE MCPipeline -----------------------------
(* Pipeline for TLC: two prices, at which the fixed fees of two stress     *)
(* scenarios are in turn the standard 2 percent; data sets of two cases    *)
(* at different prices.                                                    *)
EXTENDS CasesAlone

TwoPrices == {60000, 75000}

Has(case, price) == \E r \in case.records : r.amount = price

Mixed(datasets) ==
  {d \in datasets : \E a, b \in Prices : a # b /\ Has(d[1], a) /\ Has(d[2], b)}

SomeDatasets ==
  [stress |-> Mixed(StressDatasets), benchmark |-> Mixed(BenchmarkDatasets),
   suite |-> {EvaluationSuite, Demo, SafetyTests}]

GeneratedRecords ==
  UNION {c.records : c \in (UNION {StressCases(n) \cup BenchmarkCases(n) : n \in {1, 2}})
                         \cup ToSet(EvaluationSuite \o Demo \o SafetyTests)}

BothRules == {GatewaySettlement, DefaultRules}
=============================================================================
