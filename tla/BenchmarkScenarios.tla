------------------------- MODULE BenchmarkScenarios -------------------------
(***************************************************************************)
(* ingestion/generators.py SyntheticDataGenerator: the records and ground  *)
(* truth of its five scenarios, which evaluation/benchmark.py runs.  All   *)
(* records have the default currency; processor records there are none.   *)
(***************************************************************************)
EXTENDS CaseRecords

Methods == {"UPI", "CREDIT_CARD", "DEBIT_CARD", "NET_BANKING"}

\* calculate_standard_fee for the methods the generator draws.
GatewayFee(method, amount) ==
  CASE method = "UPI" -> 0
    [] method = "CREDIT_CARD" -> Share(amount, 20)
    [] method = "DEBIT_CARD" -> Share(amount, 9)
    [] method = "NET_BANKING" -> 1500

Received(n, a, method) == Payment(20 * n, n, a, "INR", method)
Demanded(n, a) == Invoice(30 * n, n, a)

\* Filed under the payment, a minute or two short of a day after it.
Settled(n, a, fee) ==
  Settlement(40 * n, [kind |-> "PAYMENT", id |-> 20 * n], a, fee, "INR", Start + 23)

Deposit(n, ref, a, fee) ==
  BankLine(50 * n, ref, a - fee, "INR", Start + Hours)

\* The ground truth names a case's records by their identifiers.
Names(records) == [i \in DOMAIN records |-> Key(records[i])]

CleanCase(n) ==
  {LET fee == GatewayFee(method, a)
       all == <<Received(n, a, method), Demanded(n, a), Settled(n, a, fee),
                Deposit(n, 40 * n, a, fee)>>
   IN  Case("EXACT_MATCH", ToSet(all), Names(all), TRUE, None)
     : a \in Prices, method \in Methods}

FeeAnomaly(n) ==
  {LET pay == [Received(n, a, "CREDIT_CARD") EXCEPT !.says = {"INTERNATIONAL_PREMIUM"}]
       fee == Share(a, 35)
       settle == [Settled(n, a, fee) EXCEPT !.says = {"INTL_CARD_SURCHARGE_3.5%"}]
   IN  Case("FEE_ANOMALY",
            {pay, Demanded(n, a), settle, Deposit(n, 40 * n, a, fee)},
            Names(<<pay, settle>>), TRUE, None)
     : a \in Prices}

\* The bank line carries a mangled reference.
NoisyBankRef(n) ==
  {LET settle == Settled(n, a, 0)
       bank == Deposit(n, 60 * n, a, 0)
   IN  Case("NOISY_BANK_REF",
            {Received(n, a, "UPI"), Demanded(n, a), settle, bank},
            Names(<<settle, bank>>), TRUE, None)
     : a \in Prices}

Underpaid(n) ==
  {LET pay == Received(n, a, method)
       bill == Demanded(n, a + 15000)
   IN  Case("AMOUNT_MISMATCH", {pay, bill, Settled(n, a, GatewayFee(method, a))},
            Names(<<pay, bill>>), FALSE, None)
     : a \in Prices, method \in Methods}

MissingSettlement(n) ==
  {LET pay == Received(n, a, method)
   IN  Case("MISSING_SETTLEMENT", {pay, Demanded(n, a)}, Names(<<pay>>), FALSE, None)
     : a \in Prices, method \in Methods}

BenchmarkCases(n) ==
  CleanCase(n) \cup FeeAnomaly(n) \cup NoisyBankRef(n) \cup Underpaid(n)
    \cup MissingSettlement(n)

\* The data sets of two cases; the scenarios are drawn at random.
BenchmarkDatasets ==
  {<<c, d>> : c \in BenchmarkCases(1), d \in BenchmarkCases(2)}
=============================================================================
