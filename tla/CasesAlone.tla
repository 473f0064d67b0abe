----------------------------- MODULE CasesAlone -----------------------------
(***************************************************************************)
(* The pipeline on one case of a data set, as if no other case had been    *)
(* loaded: what the matcher says of the case's records, what the           *)
(* controller decides on each exception, and what the scorers then see.    *)
(* Only the fee registry is that of the whole data set.  Pipeline judges   *)
(* every case the way it is judged here (CasesJudgedAlone); so what makes  *)
(* a data set right is that its cases are right one by one.                *)
(***************************************************************************)
EXTENDS Pipeline

\* The matcher on a store that holds nothing but some records, fully indexed.
Alone(records, policies, theRules) ==
  INSTANCE Orders WITH
    ledger <- records, index <- UNION {IndexEntries(r) : r \in records},
    registry <- policies, rules <- theRules

\* The controller and the mock provider there.
Asking(records, policies) ==
  INSTANCE MockLLM WITH
    ledger <- records, index <- UNION {IndexEntries(r) : r \in records},
    registry <- policies

OfType(records, kind) == {r \in records : r.kind = kind}

\* The exceptions reconcile_all raises with nothing locked.
ExceptionsAlone(records, policies, theRules) ==
  (UNION {ToSet(Alone(records, policies, theRules)!Answer(p, {}).exception)
            : p \in OfType(records, "PAYMENT")})
  \cup (UNION {ToSet(When(Alone(records, policies, theRules)!Orphan(Key(q), {}),
                          Alone(records, policies, theRules)!Unrecorded(Key(q))))
                 : q \in OfType(records, "PROCESSOR")})
  \cup (UNION {ToSet(Alone(records, policies, theRules)!BatchAnswer(b).exception)
                 : b \in OfType(records, "BATCH")})

\* The names its matches of payments and of batches account for.
MatchedAlone(records, policies, theRules) ==
  (UNION {UNION {{m.payment, m.target, OrderRef(p.order)}
                   : m \in ToSet(Alone(records, policies, theRules)!Answer(p, {}).match)}
            : p \in OfType(records, "PAYMENT")})
  \cup (UNION {UNION {{m.batch, m.line}
                        : m \in ToSet(Alone(records, policies, theRules)!BatchAnswer(b).payout)}
                 : b \in OfType(records, "BATCH")})

\* The status investigate gives an exception on a reply and some evidence.
StatusFrom(reply, items, records, policies) ==
  IF reply = Asking(records, policies)!NotJson THEN "HUMAN_REVIEW"
  ELSE Asking(records, policies)!Outcome(reply, items)

\* On the mock provider's reply to that evidence.
DecidedOn(e, items, records, policies) ==
  StatusFrom(Asking(records, policies)!MockReply(e, items), items, records, policies)

\* And on that reply to the evidence gathered for it.
DecidedAlone(e, records, policies) ==
  DecidedOn(e, Asking(records, policies)!Gathered(e), records, policies)

\* The statuses of some exceptions about it.
StatusesAlone(exceptionSet, records, policies) ==
  {DecidedAlone(e, records, policies) : e \in exceptionSet}
-----------------------------------------------------------------------------
(* What the scorers may find: the exceptions of a record are not listed in *)
(* an order here, so there may be several outcomes.                        *)

\* Of all exceptions, and the names the matches account for.
OutcomesAmong(ref, all, matched, records, policies) ==
  LET primary == {e \in all : e.primary = ref}
      related == {e \in all : ref \in ToSet(e.related)}
  IN  IF primary # {} THEN StatusesAlone(primary, records, policies)
      ELSE IF ref \in matched THEN {"MATCHED"}
      ELSE IF related # {} THEN StatusesAlone(related, records, policies)
      ELSE {"UNSEEN"}

OutcomesAlone(ref, records, policies, theRules) ==
  OutcomesAmong(ref, ExceptionsAlone(records, policies, theRules),
                MatchedAlone(records, policies, theRules), records, policies)

StressVerdicts(case, policies) ==
  LET of(i) == OutcomesAlone(case.refs[i], case.records, policies, RulesOf("stress"))
  IN  UNION {IF outcome = "UNSEEN" THEN of(2) ELSE {outcome} : outcome \in of(1)}

BenchmarkVerdicts(case, policies) ==
  LET theRules == RulesOf("benchmark")
      about == {e \in ExceptionsAlone(case.records, policies, theRules) :
                  ({e.primary} \cup ToSet(e.related)) \cap ToSet(case.refs) # {}}
  IN  IF ToSet(case.refs) \cap MatchedAlone(case.records, policies, theRules) # {}
      THEN {"MATCHED"}
      ELSE IF about # {} THEN StatusesAlone(about, case.records, policies)
      ELSE {"UNSEEN"}

VerdictsAlone(p, case, policies) ==
  CASE p = "stress"    -> StressVerdicts(case, policies)
    [] p = "benchmark" -> BenchmarkVerdicts(case, policies)
    [] p = "suite"     -> StatusesAlone({case.exception}, case.records, policies)

\* The exceptions that have one of a case's records as primary.
AboutAlone(p, case, policies) ==
  LET all == IF p = "suite" THEN {case.exception}
             ELSE ExceptionsAlone(case.records, policies, RulesOf(p))
  IN  {e \in all : e.primary \in {Key(r) : r \in case.records}}

\* What Pipeline asks of the scores of a data set, asked of a verdict on a case.
RightVerdict(p, case, policies, verdict) ==
  LET resolved == verdict \in {"MATCHED", "AI_RESOLVED"}
  IN  /\ resolved /\ ~case.resolvable =>
           \E pay, t \in case.records :
             /\ pay.kind = "PAYMENT" /\ t.kind = "PROCESSOR"
             /\ case.type = "FEE_MISMATCH"
             /\ Alone(case.records, policies, RulesOf(p))!FeeFindings(pay, t) = <<>>
      /\ ~resolved /\ case.resolvable => case.scenario = "BUNDLED_PAYMENT_RESOLVABLE"
      /\ p # "suite" => (verdict = "UNSEEN" <=> case.scenario = "DUPLICATE_PROCESSOR")

\* And of an exception about it.
RightException(p, case, policies, e) ==
  /\ ~case.resolvable => DecidedAlone(e, case.records, policies) # "AI_RESOLVED"
  /\ p = "stress" => e.type = IF case.type = "LATE_SETTLEMENT"
                              THEN "CURRENCY_MISMATCH" ELSE case.type

RightAlone(p, case, policies) ==
  /\ \A verdict \in VerdictsAlone(p, case, policies) :
       RightVerdict(p, case, policies, verdict)
  /\ \A e \in AboutAlone(p, case, policies) : RightException(p, case, policies, e)

(* Every verdict is the one on the case alone: no record, exception,       *)
(* evidence or lock of another case has a part in it.                      *)
CasesJudgedAlone ==
  step = "done" =>
    \A i \in DOMAIN dataset :
      Verdict(i) \in VerdictsAlone(program, dataset[i], registry)

(* Each case of the data set, put to matcher, controller and scorer alone, *)
(* is judged rightly; no step of the run has a part in this.               *)
CasesAreRightAlone ==
  step = "done" => \A i \in DOMAIN dataset : RightAlone(program, dataset[i], registry)
-----------------------------------------------------------------------------
\* The names a case's records go by, and those it is looked up by.
RecordNames(records) ==
  {Key(r) : r \in records} \cup {e.by : e \in UNION {IndexEntries(r) : r \in records}}

NamesOf(p, case) ==
  RecordNames(case.records)
    \cup IF p = "suite" THEN {case.exception.primary} \cup ToSet(case.exception.related)
                        ELSE ToSet(case.refs)

\* The registries a data set may be judged with.
RegistriesOf(p, data) ==
  {RegisterAll(policies, PoliciesOf(p, data)) : policies \in FirstRegistries(p)}

(* The generators number the records of each case afresh and name two      *)
(* references to look a stress case up by; no policy has the name of a     *)
(* kind of record.                                                         *)
ASSUME CasesApartAssumption ==
  \A p \in DOMAIN Datasets : \A d \in Datasets[p] :
    /\ p \in {"stress", "benchmark", "suite"}
    /\ \A i, j \in DOMAIN d :
         i # j => NamesOf(p, d[i]) \cap RecordNames(d[j].records) = {}
    /\ \A i \in DOMAIN d : \A n \in NamesOf(p, d[i]) : n.kind # "PRIMARY_KEY"
    /\ p = "stress" => \A i \in DOMAIN d : {1, 2} \subseteq DOMAIN d[i].refs
    /\ \A policies \in RegistriesOf(p, d) :
         /\ policies \in Seq(ToSet(policies))
         /\ \A policy \in ToSet(policies) : policy.id \notin Kinds \cup {"PRIMARY_KEY"}
=============================================================================
