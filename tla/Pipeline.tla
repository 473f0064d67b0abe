------------------------------ MODULE Pipeline ------------------------------
(***************************************************************************)
(* The whole pipeline on generated data with known answers: a data set is  *)
(* loaded, the matcher reconciles it, the AI controller investigates the   *)
(* exceptions with the mock provider, and the outcome is scored against    *)
(* the ground truth.  Three programs run it in this order:                 *)
(*   "stress"     stress_test/runner.py, scored by stress_test/evaluator.py *)
(*   "benchmark"  evaluation/benchmark.py, scored by evaluation/metrics.py *)
(*   "suite"      investigate.py and the safety tests, which hand          *)
(*                exceptions written by hand to the controller             *)
(***************************************************************************)
EXTENDS Matcher, StressScenarios, BenchmarkScenarios, EvaluationCases

CONSTANT Datasets   \* data sets by program, each a set of sequences of cases

\* All records of a data set.
RecordsIn(data) == UNION {data[i].records : i \in DOMAIN data}

\* What an exception may name as its primary record: also an order, by hand.
Nameable == {Key(r) : r \in Records}
              \cup {OrderRef(r.order) : r \in {s \in Records : s.kind = "PROCESSOR"}}

(* A data set is a list of cases with finitely many records, one for each  *)
(* key; the exceptions of the suite are about records, with lists of       *)
(* related ones.                                                           *)
ASSUME DatasetsAssumption ==
  \A p \in DOMAIN Datasets : \A d \in Datasets[p] :
    /\ d \in Seq(ToSet(d))
    /\ RecordsIn(d) \subseteq Records /\ IsFiniteSet(RecordsIn(d))
    /\ \A r, s \in RecordsIn(d) : Key(r) = Key(s) => r = s
    /\ p = "suite" =>
         \A i \in DOMAIN d : LET e == d[i].exception
                            IN  /\ e.primary \in Nameable
                                /\ e.related \in Seq(ToSet(e.related))

VARIABLES
  program,     \* which of the three runs
  dataset,     \* its cases, in order
  step,        \* "load", "match", "ask", "done"
  scores,      \* the class the scorer puts each case in
  report, current, phase, evidence, status, verified, audit, proposal

AI == INSTANCE AIController WITH
        Ledgers <- {}, Reports <- {}, Registries <- {}, Claims <- {},
        Fabricated <- {}

Provider == INSTANCE MockLLM

asked == <<report, current, phase, evidence, status, verified, audit, proposal>>
plan == <<program, dataset>>
pipelineVars == <<vars, plan, step, scores, asked>>

GatewaySettlement == Rules("GATEWAY_SETTLEMENT", 5, 7, 10, 3 * Hours)
DefaultRules == Rules("GATEWAY", 1, 5, 7, 3 * Hours)

RulesOf(p) == IF p = "stress" THEN GatewaySettlement ELSE DefaultRules

RegisterAll(policies, more) == FoldLeft(Register, policies, more)

\* The fee policies that come with a data set.
PoliciesOf(p, data) ==
  CASE p = "stress"    -> StressPolicies
    [] p = "benchmark" -> <<>>
    [] p = "suite"     -> FlattenSeq([i \in DOMAIN data |-> data[i].policies])

(* The engine's GLOBAL_FEE_REGISTRY may have served a stress test before   *)
(* it serves a benchmark.                                                  *)
FirstRegistries(p) ==
  {BuiltIn} \cup IF p = "benchmark" THEN {RegisterAll(BuiltIn, StressPolicies)} ELSE {}

PipelineInit ==
  /\ program \in DOMAIN Datasets /\ dataset \in Datasets[program]
  /\ \E policies \in FirstRegistries(program) : NewEngine(policies)
  /\ rules = RulesOf(program)
  /\ step = "load" /\ scores = <<>>
  /\ report = <<>> /\ current = 1 /\ phase = "next" /\ evidence = {}
  /\ status = <<>> /\ verified = <<>> /\ audit = <<>> /\ proposal = <<>>

\* Faulty variant of Hand: the exceptions get no status.
HandWithoutStatus(list) ==
  /\ report' = list /\ current' = 1 /\ phase' = "next" /\ evidence' = {}
  /\ status' = <<>>
  /\ verified' = [i \in DOMAIN list |-> {}]
  /\ audit' = [i \in DOMAIN list |-> <<>>]
  /\ proposal' = [i \in DOMAIN list |-> AI!NoReply]

\* What the controller is handed: the exceptions, none investigated yet.
Hand(list) ==
  /\ report' = list /\ current' = 1 /\ phase' = "next" /\ evidence' = {}
  /\ status' = [i \in DOMAIN list |-> "OPEN"]
  /\ verified' = [i \in DOMAIN list |-> {}]
  /\ audit' = [i \in DOMAIN list |-> <<>>]
  /\ proposal' = [i \in DOMAIN list |-> AI!NoReply]
-----------------------------------------------------------------------------
(* IngestionLoader.load_dataset into an empty directory, and the policies  *)
(* of the data set into the registry.                                      *)
Fill ==
  /\ PutAll(RecordsIn(dataset))
  /\ registry' = RegisterAll(registry, PoliciesOf(program, dataset))
  /\ UNCHANGED <<engine, rules, lastRun, puts, plan, scores>>

Load ==
  /\ step = "load" /\ program # "suite"
  /\ Fill
  /\ step' = "match"
  /\ UNCHANGED asked

\* run_eval_suite stores the records and takes the exceptions as they are.
LoadSuite ==
  /\ step = "load" /\ program = "suite"
  /\ Fill
  /\ step' = "ask"
  /\ Hand([i \in DOMAIN dataset |-> dataset[i].exception])
-----------------------------------------------------------------------------
\* The matcher, called by either program.

Payments == Scan("PAYMENT")
Unrun == step = "match" /\ stage = "idle" /\ lastRun = NoRun
Measured == program = "benchmark" => Len(matches \o exceptions) = Len(Payments)

\* run_benchmark first times a single call for each payment.
Measure ==
  /\ Unrun /\ ~Measured
  /\ SingleOrder(Get(Payments[Len(matches \o exceptions) + 1]))
  /\ UNCHANGED <<plan, step, scores, asked>>

ReconcileAll ==
  /\ Unrun /\ Measured
  /\ Begin(Payments)
  /\ UNCHANGED <<plan, step, scores, asked>>

Match ==
  /\ step = "match"
  /\ NextOrder \/ OrdersDone \/ NextProcessor \/ ProcessorsDone \/ NextBatch
  /\ UNCHANGED <<plan, step, scores, asked>>

HandOver ==
  /\ step = "match" /\ Finish
  /\ Hand(exceptions)
  /\ step' = "ask"
  /\ UNCHANGED <<plan, scores>>

\* What investigate does with the reply of the mock provider.
Answered ==
  LET reply == Provider!MockReply(report[current], evidence)
  IN  /\ phase = "asking"
      /\ IF reply = Provider!NotJson THEN AI!NoUsableReply ELSE AI!Decide(reply)

\* The loop of investigations.
Investigate ==
  /\ step = "ask"
  /\ AI!Start \/ Answered
  /\ UNCHANGED <<engine, rules, lastRun, puts, plan, step, scores>>
-----------------------------------------------------------------------------
(* The scorers look a case up by the names in its ground truth.            *)

MatchedRefs ==
  (UNION {{m.payment, m.target, OrderRef(Get(m.payment).order)} : m \in ToSet(matches)})
    \cup (UNION {{m.batch, m.line} : m \in ToSet(payouts)})

IsPrimary(ref) == {i \in DOMAIN report : report[i].primary = ref}
IsRelated(ref) == {i \in DOMAIN report : ref \in ToSet(report[i].related)}

Earliest(indexes) == CHOOSE i \in indexes : \A j \in indexes : i <= j
Latest(indexes) == CHOOSE i \in indexes : \A j \in indexes : j <= i

(* actual_outcomes: an exception replaces what was known of its primary    *)
(* record, but adds nothing to what is known of a related one.             *)
Outcome(ref) ==
  IF IsPrimary(ref) # {} THEN status[Latest(IsPrimary(ref))]
  ELSE IF ref \in MatchedRefs THEN "MATCHED"
  ELSE IF IsRelated(ref) # {} THEN status[Earliest(IsRelated(ref))]
  ELSE "UNSEEN"

\* StressTestEvaluator.evaluate: the record, or else its order.
StressVerdict(case) ==
  IF Outcome(case.refs[1]) # "UNSEEN" THEN Outcome(case.refs[1])
                                      ELSE Outcome(case.refs[2])

\* MetricsEvaluator.evaluate: any match, or else the first exception.
BenchmarkVerdict(case) ==
  LET about == UNION {IsPrimary(ref) \cup IsRelated(ref) : ref \in ToSet(case.refs)}
  IN  IF ToSet(case.refs) \cap MatchedRefs # {} THEN "MATCHED"
      ELSE IF about # {} THEN status[Earliest(about)]
      ELSE "UNSEEN"

Verdict(i) ==
  CASE program = "stress"    -> StressVerdict(dataset[i])
    [] program = "benchmark" -> BenchmarkVerdict(dataset[i])
    [] program = "suite"     -> status[i]

Class(i) ==
  LET resolved == Verdict(i) \in {"MATCHED", "AI_RESOLVED"}
  IN  IF dataset[i].resolvable THEN IF resolved THEN "TP" ELSE "FN"
      ELSE IF resolved THEN "FP"
      ELSE IF program = "benchmark" /\ Verdict(i) = "UNSEEN" THEN "NONE"
      ELSE "TN"

Score ==
  /\ step = "ask" /\ phase = "next" /\ current > Len(report)
  /\ scores' = [i \in DOMAIN dataset |-> Class(i)]
  /\ step' = "done"
  /\ UNCHANGED <<vars, plan, asked>>

\* The only end of a run: stopping anywhere else is a deadlock.
Done == step = "done" /\ UNCHANGED pipelineVars

PipelineNext ==
  \/ Load \/ LoadSuite \/ Measure \/ ReconcileAll \/ Match \/ HandOver
  \/ Investigate \/ Score \/ Done

PipelineSpec == PipelineInit /\ [][PipelineNext]_pipelineVars
-----------------------------------------------------------------------------
(* Types: among them, that what is asked about is a list of exceptions     *)
(* about records of the ledger, each with a status.                        *)
PipelineTypeOK ==
  /\ ledger \subseteq Records
  /\ step \in {"load", "match", "ask", "done"}
  /\ DOMAIN status = DOMAIN report /\ DOMAIN audit = DOMAIN report
  /\ \A i \in DOMAIN report :
       /\ report[i].primary \in Nameable
       /\ status[i] \in {"OPEN", "AI_RESOLVED", "HUMAN_REVIEW"}
  /\ \A i \in DOMAIN scores : scores[i] \in {"TP", "TN", "FP", "FN", "NONE"}

Scored(class) == {i \in DOMAIN scores : scores[i] = class}

\* The exceptions about a case: those that have one of its records as primary.
About(i) ==
  {j \in DOMAIN report : report[j].primary \in {Key(r) : r \in dataset[i].records}}

(* No case that should have been left to a human is resolved by the AI     *)
(* controller, whatever its records say; and the matcher resolves one only *)
(* where the fee its scenario meant to be wrong happens to be what the     *)
(* policy asks, which a generator with fixed fees of $12 and $15 allows.   *)
NoFalseResolution ==
  \A i \in Scored("FP") :
    /\ \A j \in About(i) : status[j] # "AI_RESOLVED"
    /\ \E p, t \in dataset[i].records :
         /\ p.kind = "PAYMENT" /\ t.kind = "PROCESSOR"
         /\ dataset[i].type = "FEE_MISMATCH" /\ FeeFindings(p, t) = <<>>

(* Every case that can be resolved is, by the matcher or the controller,   *)
(* except deposits for bundled invoices, which the matcher reports under a *)
(* type (MISSING_INTERNAL) that the controller never resolves.             *)
ResolvableIsResolved ==
  \A i \in Scored("FN") : dataset[i].scenario = "BUNDLED_PAYMENT_RESOLVABLE"

(* The report accounts for every case: the scorer finds each by a name in  *)
(* its ground truth, except an order charged twice, whose exception names  *)
(* nothing but the charges and counts as rightly escalated without being   *)
(* looked at.                                                              *)
EveryCaseIsSeen ==
  step = "done" /\ program # "suite" =>
    \A i \in DOMAIN dataset :
      Verdict(i) = "UNSEEN" <=> dataset[i].scenario = "DUPLICATE_PROCESSOR"

(* Every exception about a generated case has the type the ground truth    *)
(* expects, and a case expected to match has none that stays unresolved;   *)
(* but a late payout is reported as in the wrong currency, for its batch   *)
(* has the default one.                                                    *)
ExpectedTypes ==
  step = "done" /\ program = "stress" =>
    \A i \in DOMAIN dataset : \A j \in About(i) :
      report[j].type = IF dataset[i].type = "LATE_SETTLEMENT"
                       THEN "CURRENCY_MISMATCH" ELSE dataset[i].type

(* While the provider is asked about an exception the matcher raised for a *)
(* payment, the evidence holds all the order's records, on both sides of   *)
(* the discrepancy; only duplicates, which are named by full primary keys, *)
(* are put to it with the primary record alone.                            *)
EvidenceShowsTheOrder ==
  (phase = "asking" /\ program # "suite") =>
    LET e == report[current]
        order == Get(e.payment).order
    IN  (/\ e.payment.kind = "PAYMENT"
         /\ e.type \notin {"DUPLICATE_INTERNAL", "DUPLICATE_PROCESSOR"})
          => \A kind \in {"PAYMENT", "INVOICE", "PROCESSOR", "REFUND"} :
               {Key(r) : r \in OnOrder(kind, order)} \subseteq evidence
=============================================================================
