---------------------------- MODULE CaseRecords ----------------------------
(***************************************************************************)
(* The records the data generators and evaluation cases are made of: the   *)
(* models of ingestion/schemas.py with their defaults.  Case n has order n *)
(* and numbers its records from 10 * n.  Amounts are in cents, times in    *)
(* hours.  says holds the words of a record's metadata somebody looks for. *)
(***************************************************************************)
EXTENDS Ledger, FeePolicy, SequencesExt

CONSTANT Prices   \* the amounts the generators draw

\* No share of an amount the generators take needs rounding.
ASSUME PricesAssumption == \A a \in Prices : a \in Nat /\ a % 1000 = 0

\* part thousandths of an amount.
Share(amount, part) == (amount * part) \div 1000

Hours == 24       \* in a day
Start == Hours    \* the generators' base time, not 0

Payment(id, order, amount, currency, method) ==
  [kind |-> "PAYMENT", id |-> id, order |-> order, amount |-> amount,
   currency |-> currency, method |-> method, time |-> Start, dup |-> FALSE,
   partial |-> "unset", policy |-> None, says |-> {}]

Invoice(id, order, amount) ==
  [kind |-> "INVOICE", id |-> id, order |-> order, amount |-> amount, says |-> {}]

Refund(id, order, amount) ==
  [kind |-> "REFUND", id |-> id, order |-> order, amount |-> amount, says |-> {}]

Charge(id, order, amount, fee, currency) ==
  [kind |-> "PROCESSOR", id |-> id, order |-> order, amount |-> amount,
   fee |-> fee, currency |-> currency, time |-> Start, processor |-> "GATEWAY",
   alike |-> FALSE, policy |-> None, says |-> {}]

Settlement(id, txn, amount, fee, currency, time) ==
  [kind |-> "SETTLEMENT", id |-> id, txn |-> txn, amount |-> amount,
   fee |-> fee, currency |-> currency, time |-> time, says |-> {}]

\* A batch has no currency of its own: the default of the schema is INR.
Batch(id, ref, amount) ==
  [kind |-> "BATCH", id |-> id, ref |-> ref, amount |-> amount,
   currency |-> "INR", time |-> Start, says |-> {}]

BankLine(id, ref, amount, currency, time) ==
  [kind |-> "BANK", id |-> id, ref |-> ref, amount |-> amount,
   currency |-> currency, time |-> time, says |-> {}]

(* A case with its ground truth: the names its outcome is looked up by, in *)
(* order, whether it should end resolved, and the exception type expected. *)
Case(scenario, records, refs, resolvable, type) ==
  [scenario |-> scenario, records |-> records, refs |-> refs,
   resolvable |-> resolvable, type |-> type]
=============================================================================
