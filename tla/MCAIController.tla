--------------------------- MODULE MCAIController ---------------------------
(* An order with its payment, charge and invoice, and a second order's     *)
(* payment; reports as the matcher writes them: a fee exception, an amount *)
(* exception, and a duplicate whose related records are given by primary   *)
(* key, which no tool looks up.                                            *)
EXTENDS AIController, TLC

Paid(id, order, amount) ==
  [kind |-> "PAYMENT", id |-> id, order |-> order, amount |-> amount,
   currency |-> "INR", method |-> "CREDIT_CARD"]

AllRecords == {Paid(1, 1, 100), Paid(2, 2, 300),
               [kind |-> "PROCESSOR", id |-> 1, order |-> 1, amount |-> 120,
                fee |-> 10, currency |-> "INR", processor |-> "GATEWAY"],
               [kind |-> "INVOICE", id |-> 1, order |-> 2, amount |-> 200]}

PaymentKey(id) == [kind |-> "PAYMENT", id |-> id]
ChargeKey == [kind |-> "PROCESSOR", id |-> 1]

Reported(type, primary, related) ==
  [type |-> type, primary |-> primary, related |-> related]

Fee == Reported("FEE_MISMATCH", ChargeKey, <<PaymentKey(1), OrderRef(1)>>)
Underpaid == Reported("AMOUNT_MISMATCH", PaymentKey(2),
                      <<[kind |-> "INVOICE", id |-> 1], OrderRef(2)>>)
Twice == Reported("DUPLICATE_PROCESSOR", ChargeKey,
                  <<[kind |-> "PRIMARY_KEY", id |-> 1]>>)

SomeLedgers == {{}, AllRecords}
SomeRegistries == {<<>>, <<Policy("CREDIT_CARD_STANDARD", 20, 0, "CREDIT_CARD", "INR")>>}
SomeReports == {<<Fee, Underpaid>>, <<Underpaid, Twice>>, <<Twice, Fee>>}
SomeFabricated == {[kind |-> "NOWHERE", id |-> 9]}
=============================================================================
