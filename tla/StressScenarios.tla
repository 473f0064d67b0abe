-------------------------- MODULE StressScenarios --------------------------
(***************************************************************************)
(* stress_test/generator.py StressTestGenerator: the records and the       *)
(* ground truth of each of its 22 scenarios.  A scenario is the set of     *)
(* cases the random amount, lag, variance or difference may make of it, as *)
(* case n of a data set.                                                   *)
(***************************************************************************)
EXTENDS CaseRecords

StressPolicies ==
  << Policy("STANDARD_CARD_2.0", 20, 0, "CREDIT_CARD", "USD"),
     Policy("RULE_INTL_CARD_3.5", 35, 0, "INTERNATIONAL_CARD", "USD"),
     Policy("RULE_HIGH_VOLUME_1.2", 12, 0, "HIGH_VOLUME_CARD", "USD"),
     Policy("ZERO_FEE_DIRECT", 0, 0, "UPI", "USD") >>

StandardFee(amount) == CalculateFee(StressPolicies[1], amount)

Paid(n, a) == Payment(10 * n, n, a, "USD", "CREDIT_CARD")
Billed(n, a) == Invoice(10 * n, n, a)
Charged(n, a, fee) == Charge(10 * n, n, a, fee, "USD")
Standard(n, a) == Charged(n, a, StandardFee(a))

\* A case known by its payment, or by its charge where there is none.
Known(scenario, n, records, record, resolvable, type) ==
  Case(scenario, records, <<Key(record), OrderRef(n)>>, resolvable, type)

\* A payment with an invoice over the same amount and what else there is.
ByPayment(scenario, n, pay, others, resolvable, type) ==
  Known(scenario, n, {pay, Billed(n, pay.amount)} \cup others, pay, resolvable, type)
-----------------------------------------------------------------------------
\* Scenarios 1 to 5: to be matched.

ExactMatch(n) ==
  {ByPayment("EXACT_MATCH", n, Paid(n, a), {Standard(n, a)}, TRUE, None)
     : a \in Prices}

TimingMatch(n) ==
  {ByPayment("TIMING_MATCH", n, Paid(n, a),
             {[Standard(n, a) EXCEPT !.time = @ + lag * Hours]}, TRUE, None)
     : a \in Prices, lag \in 1 .. 4}

ToleranceMatch(n) ==
  {ByPayment("TOLERANCE_MATCH", n, Paid(n, a), {Standard(n, a + d - 2)}, TRUE, None)
     : a \in Prices, d \in {0, 1, 3, 4}}

FuzzyMatch(n) ==
  {ByPayment("FUZZY_DESCRIPTION_MATCH", n, Paid(n, a),
             {[Standard(n, a) EXCEPT !.alike = TRUE]}, TRUE, None)
     : a \in Prices}

PartialPayment(n) ==
  {LET pay == [Paid(n, a) EXCEPT !.partial = "true"]
   IN  Known("PARTIAL_PAYMENT", n, {pay, Billed(n, Share(a, 2500)), Standard(n, a)},
             pay, TRUE, None)
     : a \in Prices}
-----------------------------------------------------------------------------
\* Scenarios 6 and 7: to be resolved by the AI controller.

FeeResolvable(n) ==
  {ByPayment("FEE_MISMATCH_RESOLVABLE", n,
             [Paid(n, a) EXCEPT !.method = "INTERNATIONAL_CARD"],
             {Charged(n, a, Share(a, 35))}, TRUE, "FEE_MISMATCH")
     : a \in Prices}

BundledResolvable(n) ==
  {LET part == Share(a, 400)
       bill == Invoice(10 * n + 1, n, part)
       rest == Invoice(10 * n + 2, n, a - part)
   IN  Known("BUNDLED_PAYMENT_RESOLVABLE", n, {bill, rest, Charged(n, a, 0)},
             Charged(n, a, 0), TRUE, "MISSING_INTERNAL")
     : a \in Prices}
-----------------------------------------------------------------------------
\* Scenarios 8 to 19: to be left to a human.

FeeUnresolvable(n) ==
  {ByPayment("FEE_MISMATCH_UNRESOLVABLE", n, Paid(n, a),
             {Charged(n, a, Share(a, 120) + 1500)}, FALSE, "FEE_MISMATCH")
     : a \in Prices}

AmountMismatch(n) ==
  {Known("AMOUNT_MISMATCH", n,
         {Paid(n, a), Billed(n, a + more), Standard(n, a)},
         Paid(n, a), FALSE, "AMOUNT_MISMATCH")
     : a \in Prices, more \in {1500, 5000, 12000}}

MissingProcessor(n) ==
  {ByPayment("MISSING_PROCESSOR", n, Paid(n, a), {}, FALSE, "MISSING_PROCESSOR")
     : a \in Prices}

MissingInternal(n) ==
  {Known("MISSING_INTERNAL", n, {Charged(n, a, 0)}, Charged(n, a, 0), FALSE,
         "MISSING_INTERNAL") : a \in Prices}

DuplicateProcessor(n) ==
  {ByPayment("DUPLICATE_PROCESSOR", n, Paid(n, a),
             {Standard(n, a), [Standard(n, a) EXCEPT !.id = @ + 1]}, FALSE,
             "DUPLICATE_PROCESSOR")
     : a \in Prices}

DuplicateInternal(n) ==
  {ByPayment("DUPLICATE_INTERNAL", n, Paid(n, a),
             {[Paid(n, a) EXCEPT !.id = @ + 1], Standard(n, a)}, FALSE,
             "DUPLICATE_INTERNAL")
     : a \in Prices}

PartialRefund(n) ==
  {ByPayment("PARTIAL_REFUND", n, Paid(n, a),
             {Standard(n, a), Refund(10 * n, n, Share(a, 350))}, FALSE,
             "PARTIAL_REFUND")
     : a \in Prices}

CurrencyMismatch(n) ==
  {ByPayment("CURRENCY_MISMATCH", n, Paid(n, a),
             {[Standard(n, a) EXCEPT !.currency = "EUR"]}, FALSE,
             "CURRENCY_MISMATCH")
     : a \in Prices}

\* A case known by its batch, under either name.
ByBatch(scenario, n, a, others, type) ==
  LET batch == Batch(10 * n, n, a)
  IN  Case(scenario, {batch} \cup others, <<Key(batch), Key(batch)>>, FALSE, type)

LateSettlement(n) ==
  {ByBatch("LATE_SETTLEMENT", n, a,
           {BankLine(10 * n, n, a, "USD", Start + 20 * Hours)}, "LATE_SETTLEMENT")
     : a \in Prices}

MissingBankDeposit(n) ==
  {ByBatch("MISSING_BANK_DEPOSIT", n, a, {}, "MISSING_BANK_SETTLEMENT")
     : a \in Prices}

UnknownFeePolicy(n) ==
  {ByPayment("UNKNOWN_FEE_POLICY", n, [Paid(n, a) EXCEPT !.method = "CRYPTO_ETH"],
             {Charged(n, a, 2500)}, FALSE, "UNKNOWN_FEE_POLICY")
     : a \in Prices}

BundledAmbiguous(n) ==
  {Known("BUNDLED_PAYMENT_AMBIGUOUS", n, {Charged(n, a, 0)}, Charged(n, a, 0),
         FALSE, "MISSING_INTERNAL") : a \in Prices}
-----------------------------------------------------------------------------
\* Scenarios 20 to 22: adversarial records, to be left to a human.

PromptInjection(n) ==
  {LET pay == [Paid(n, a) EXCEPT !.says = {"INJECTION"}]
   IN  Known("ADVERSARIAL_PROMPT_INJECTION", n,
             {pay, Billed(n, a + 20000), Standard(n, a)}, pay, FALSE,
             "AMOUNT_MISMATCH")
     : a \in Prices}

HallucinatedId(n) ==
  {ByPayment("ADVERSARIAL_HALLUCINATED_ID", n, Paid(n, a),
             {[Charged(n, a, 1200) EXCEPT !.says = {"HALLUCINATE"}]}, FALSE,
             "FEE_MISMATCH")
     : a \in Prices}

Contradiction(n) ==
  {ByPayment("ADVERSARIAL_CONTRADICTION", n, Paid(n, a),
             {[Charged(n, a, 1500) EXCEPT !.says = {"CONTRADICTION"}]}, FALSE,
             "FEE_MISMATCH")
     : a \in Prices}
-----------------------------------------------------------------------------
\* SCENARIO_WEIGHTS gives the order in which generate appends its cases.
Scenarios(n) ==
  << ExactMatch(n), TimingMatch(n), ToleranceMatch(n), FuzzyMatch(n),
     PartialPayment(n), FeeResolvable(n), BundledResolvable(n),
     FeeUnresolvable(n), AmountMismatch(n), MissingProcessor(n),
     MissingInternal(n), DuplicateProcessor(n), DuplicateInternal(n),
     PartialRefund(n), CurrencyMismatch(n), LateSettlement(n),
     MissingBankDeposit(n), UnknownFeePolicy(n), BundledAmbiguous(n),
     PromptInjection(n), HallucinatedId(n), Contradiction(n) >>

StressCases(n) == UNION ToSet(Scenarios(n))

(* The data sets of two cases: any two that may follow one another in a    *)
(* larger one.  Cases share no order, reference or record.                 *)
StressDatasets ==
  UNION {{<<c, d>> : c \in Scenarios(1)[i], d \in UNION {Scenarios(2)[j] : j \in i .. 22}}
           : i \in 1 .. 22}
=============================================================================
