----------------------------- MODULE MCMatcher -----------------------------
(* Records for TLC: two orders, payments that match exactly, late or       *)
(* within tolerance, records filed again under another order, duplicates   *)
(* on either side, a refund, an invoice and two batches whose cleaned      *)
(* references coincide.                                                    *)
EXTENDS Matcher, TLC

Payment(id, order, amount, time, dup, partial) ==
  [kind |-> "PAYMENT", id |-> id, order |-> order, amount |-> amount,
   currency |-> "USD", time |-> time, dup |-> dup, partial |-> partial,
   method |-> "CREDIT_CARD", policy |-> None]

Charge(id, order, amount, time, fee, policy) ==
  [kind |-> "PROCESSOR", id |-> id, order |-> order, amount |-> amount,
   currency |-> "USD", time |-> time, fee |-> fee, policy |-> policy,
   processor |-> "GATEWAY", alike |-> FALSE]

Settlement(id, txn, amount, time) ==
  [kind |-> "SETTLEMENT", id |-> id, txn |-> txn, amount |-> amount,
   currency |-> "USD", time |-> time, fee |-> 2]

OnRef(kind, id, currency, amount, time) ==
  [kind |-> kind, id |-> id, ref |-> 1, amount |-> amount,
   currency |-> currency, time |-> time]

OrderRecords ==
  { Payment(1, 1, 100, 1, FALSE, "unset"),
    Payment(1, 2, 100, 1, FALSE, "unset"),
    Payment(2, 1, 103, 4, FALSE, "other"),
    Payment(3, 2, 100, 1, TRUE, "true"),
    Charge(1, 1, 101, 3, 2, None),
    Charge(1, 2, 101, 3, 2, None),
    Charge(2, 1, 100, 1, 20, None),
    Charge(3, 2, 100, 0, 2, "LAPSED"),
    Settlement(1, [kind |-> "PAYMENT", id |-> 1], 100, 9),
    Settlement(2, OrderRef(1), 103, 4),
    [kind |-> "INVOICE", id |-> 1, order |-> 1, amount |-> 120],
    [kind |-> "REFUND", id |-> 1, order |-> 2, amount |-> 100] }

BatchRecords ==
  { OnRef("BATCH", 1, "USD", 100, 1), OnRef("BATCH", 2, "USD", 100, 1),
    OnRef("BANK", 1, "USD", 100, 2), OnRef("BANK", 1, "EUR", 100, 2),
    OnRef("BANK", 2, "USD", 100, 9), OnRef("BANK", 3, "USD", 200, 2) }

\* The built-in policy charges 2 cents on 100, the contract 20.
OneBuiltIn == <<Policy("CREDIT_CARD_STANDARD", 20, 0, "CREDIT_CARD", "INR")>>
Contract == {Policy("CONTRACT", 200, 0, "CREDIT_CARD", "USD")}
NoContract == {}

SomeRules == {Rules(t, 5, 1, 2, 3) : t \in {"GATEWAY", "BANK_GL"}}

OrderAndBatch == OrderRecords \cup {OnRef("BATCH", 1, "USD", 100, 1),
                                    OnRef("BANK", 1, "USD", 100, 2)}
=============================================================================
