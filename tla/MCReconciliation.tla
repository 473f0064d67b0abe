-------------------------- MODULE MCReconciliation --------------------------
(* Two data directories for TLC.  JAN has five orders: one that is paid    *)
(* under a contract of its own, one without charge, one paid twice, a      *)
(* charge nobody paid, and a partial refund whose payout came twice.  FEB  *)
(* has an order under another contract and a charge nobody paid.           *)
EXTENDS Reconciliation, TLC

PaymentRow(order, n) ==
  [payment |-> 10 * order + n, order |-> order, amount |-> 1000,
   currency |-> "USD", method |-> "CREDIT_CARD", initiated |-> 24]
InvoiceRow(order) == [invoice |-> 10 * order, order |-> order, amount |-> 1000]
ChargeRow(order, fee, policy) ==
  [charge |-> 10 * order, order |-> order, gross |-> 1000, fee |-> fee,
   currency |-> "USD", processed |-> 24, processor |-> "STRIPE",
   policy |-> policy]
SettlementRow(order) ==
  [settlement |-> 10 * order, net |-> 950, currency |-> "USD", settled |-> 48]
BankRow(order, n) ==
  [line |-> 10 * order + n, settlement |-> 10 * order, amount |-> 950,
   currency |-> "USD", posted |-> 60]
RefundRow(order) == [refund |-> 10 * order, order |-> order, amount |-> 400]
PolicyRow(id, rate) ==
  [policy |-> id, rate |-> rate, fixed |-> 0, method |-> "CREDIT_CARD",
   currency |-> "USD", processor |-> "STRIPE"]

January ==
  [payments |-> <<PaymentRow(1, 0), PaymentRow(2, 0), PaymentRow(3, 1),
                  PaymentRow(3, 0), PaymentRow(5, 0)>>,
   charges |-> <<ChargeRow(1, 50, "C"), ChargeRow(3, 30, "A"),
                 ChargeRow(4, 30, "A"), ChargeRow(5, 30, "A")>>,
   bank |-> <<BankRow(1, 0), BankRow(3, 0), BankRow(4, 0), BankRow(5, 1),
              BankRow(5, 0)>>,
   invoices |-> <<InvoiceRow(1), InvoiceRow(2), InvoiceRow(3), InvoiceRow(5)>>,
   refunds |-> <<RefundRow(5)>>,
   settlements |-> <<SettlementRow(1), SettlementRow(3), SettlementRow(4),
                     SettlementRow(5)>>,
   policies |-> <<PolicyRow("A", 30), PolicyRow("B", 40), PolicyRow("C", 50)>>]

February ==
  [payments |-> <<PaymentRow(6, 0)>>,
   charges |-> <<ChargeRow(6, 70, None), ChargeRow(7, 70, None)>>,
   bank |-> <<>>, refunds |-> <<>>, invoices |-> <<>>,
   settlements |-> <<SettlementRow(6)>>,
   policies |-> <<PolicyRow("C", 70)>>]

Months == [d \in {"JAN", "FEB"} |-> IF d = "JAN" THEN January ELSE February]
AllRecords == UNION {RecordsOf(d) : d \in Dirs}
ProductionRules == {Rules("GATEWAY", 5, 7, 10, 72)}
NoPolicies == {}
=============================================================================
