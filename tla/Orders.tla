------------------------------- MODULE Orders -------------------------------
(***************************************************************************)
(* The answers of recon/matcher.py ReconciliationEngine as functions of    *)
(* what is stored: reconcile_order for a payment and the targets that are  *)
(* taken, the search for unrecorded charges, reconcile_batch.              *)
(* Amounts are in cents; times are in units of which DayLength make a day, *)
(* 0 standing for a record without a timestamp.                            *)
(***************************************************************************)
EXTENDS Ledger, FeePolicy

CONSTANTS RuleSets,     \* the ReconciliationRules an engine may be given
          DayLength     \* time units in a day

(* ReconciliationRules: amount_tolerance in cents, timing_window_days and  *)
(* tolerance_window_days, time_window_seconds in time units, topology.     *)
Rules(topology, tolerance, timing, window, sla) ==
  [topology |-> topology, tolerance |-> tolerance, timing |-> timing,
   window |-> window, sla |-> sla]

ASSUME OrdersAssumption ==
  /\ DayLength \in Nat \ {0}
  /\ \A r \in RuleSets :
       {r.tolerance, r.timing, r.window, r.sla} \subseteq Nat

VARIABLE rules   \* the engine's ReconciliationRules

\* A finding is added when its condition holds.
When(condition, finding) == IF condition THEN <<finding>> ELSE <<>>
-----------------------------------------------------------------------------
(* reconcile_order, from the stored records and consumed_target_ids.       *)

\* Faulty variant of Finding: the order is not related.
FindingWithoutOrder(type, k, p) == [type |-> type, related |-> <<k>>]

\* A finding names a record and the order as related.
Finding(type, k, p) == [type |-> type, related |-> <<k, OrderRef(p.order)>>]

\* Faulty variant of RefundFindings: partial and full change places.
RefundFindingsSwapped(p) ==
  LET refunds == Entries(OrderRef(p.order), "REFUND")
      partial == Get(refunds[1]).amount >= p.amount
  IN  IF refunds = <<>> THEN <<>>
      ELSE <<Finding(IF partial THEN "PARTIAL_REFUND" ELSE "FULL_REFUND",
                     refunds[1], p)>>

RefundFindings(p) ==
  LET refunds == Entries(OrderRef(p.order), "REFUND")
      partial == Get(refunds[1]).amount < p.amount
  IN  IF refunds = <<>> THEN <<>>
      ELSE <<Finding(IF partial THEN "PARTIAL_REFUND" ELSE "FULL_REFUND",
                     refunds[1], p)>>

\* Faulty variant of InvoiceFindings: a part payment is not excused.
InvoiceFindingsStrict(p) ==
  LET invoices == Entries(OrderRef(p.order), "INVOICE")
      total == Get(invoices[1]).amount
  IN  IF invoices = <<>> THEN <<>>
      ELSE IF p.amount > total + rules.tolerance
           THEN <<Finding("OVERPAYMENT", invoices[1], p)>>
      ELSE When(p.amount + rules.tolerance < total,
                Finding("AMOUNT_MISMATCH", invoices[1], p))

(* The metadata value of is_partial only has to be non-empty to excuse an  *)
(* underpaid invoice.                                                      *)
InvoiceFindings(p) ==
  LET invoices == Entries(OrderRef(p.order), "INVOICE")
      total == Get(invoices[1]).amount
  IN  IF invoices = <<>> THEN <<>>
      ELSE IF p.amount > total + rules.tolerance
           THEN <<Finding("OVERPAYMENT", invoices[1], p)>>
      ELSE When(p.amount + rules.tolerance < total /\ p.partial = "unset",
                Finding("AMOUNT_MISMATCH", invoices[1], p))

\* Faulty variant of Free: consumed_target_ids is not looked at.
FreeOrNot(keys, taken) == keys

Free(keys, taken) == keys \ taken

\* Faulty variant of Available: only the first free charge is read.
FirstAvailable(p, taken) ==
  LET free == Free(Under(OrderRef(p.order), "PROCESSOR"), taken)
  IN  IF free = {} THEN free ELSE {First(free)}

Available(p, taken) == Free(Under(OrderRef(p.order), "PROCESSOR"), taken)

\* Faulty variant of AvailableSettlements: falls back to anyone's settlement.
AnySettlement(p, taken) == Free({Key(r) : r \in Of("SETTLEMENT")}, taken)

\* Settlements naming the payment, or failing any, those naming its order.
AvailableSettlements(p, taken) ==
  LET named == Under(Key(p), "SETTLEMENT")
  IN  Free(IF named # {} THEN named
                         ELSE Under(OrderRef(p.order), "SETTLEMENT"), taken)

Targets(p, taken) ==
  IF Available(p, taken) # {} THEN Available(p, taken)
                              ELSE AvailableSettlements(p, taken)

DaysApart(p, t) ==
  IF p.time = 0 \/ t.time = 0 THEN 0 ELSE Gap(p.time, t.time) \div DayLength

(* A settlement carries no description, which counts as fully similar.     *)
SimilarEnough(p, t) == t.kind = "SETTLEMENT" \/ t.alike \/ t.order = p.order

Strategy(p, t) ==
  LET cents == Gap(p.amount, t.amount)
      days == DaysApart(p, t)
  IN  IF cents <= 1 /\ days = 0 THEN "EXACT"
      ELSE IF cents <= 1 /\ days <= rules.timing THEN "TIMING"
      ELSE IF /\ cents <= rules.tolerance /\ days <= rules.window
              /\ SimilarEnough(p, t)
           THEN "TOLERANCE"
      ELSE "NONE"

(* A policy named in the charge's or else the payment's metadata, or else  *)
(* the one the registry finds for the payment's method and currency.       *)
PolicyFor(p, t) ==
  LET charge == t.kind = "PROCESSOR"
  IN  ExpectedPolicy(registry,
                     IF charge /\ t.policy # None THEN t.policy ELSE p.policy,
                     [processor |-> IF charge THEN t.processor ELSE "SETTLEMENT",
                      method |-> p.method, currency |-> p.currency])

FeeFindings(p, t) ==
  LET policy == PolicyFor(p, t)
  IN  IF rules.topology = "BANK_GL" THEN <<>>
      ELSE IF policy = NoPolicy
           THEN <<Finding("UNKNOWN_FEE_POLICY", Key(p), p)>>
      ELSE When(Gap(CalculateFee(policy, p.amount), t.fee) > rules.tolerance,
                Finding("FEE_MISMATCH", Key(p), p))

(* findings lists the types in the exception's metadata; created says that *)
(* its audit trail opens with EXCEPTION_CREATED.                           *)
Exception(type, primary, payment, related, findings) ==
  [type |-> type, primary |-> primary, payment |-> payment,
   related |-> related, findings |-> findings, created |-> TRUE]

\* Duplicates name each other by full primary key.
PrimaryKeys(keys) ==
  [i \in DOMAIN keys |-> [kind |-> "PRIMARY_KEY", id |-> keys[i].id]]

(* The answer of reconcile_order(p): an exception that names the first     *)
(* finding, or a match.                                                    *)
Refused(p, findings, primary) ==
  [match |-> <<>>,
   exception |-> <<Exception(findings[1].type, primary, Key(p),
                             findings[1].related,
                             [i \in DOMAIN findings |-> findings[i].type])>>]

PostedTwice(p, related) ==
  [match |-> <<>>, exception |-> <<Exception("DUPLICATE_INTERNAL", Key(p),
                                             Key(p), related, <<>>)>>]

Matched(p, t) ==
  [match |-> <<[payment |-> Key(p), target |-> Key(t),
                strategy |-> Strategy(p, t), partial |-> p.partial = "true"]>>,
   exception |-> <<>>]

Compared(p, t, before) ==
  LET findings ==
        before \o When(p.currency # t.currency,
                       Finding("CURRENCY_MISMATCH", Key(t), p))
               \o When(Strategy(p, t) = "NONE",
                       Finding("AMOUNT_MISMATCH", Key(t), p))
               \o FeeFindings(p, t)
      primary == IF t.kind = "PROCESSOR" THEN Key(t) ELSE Key(p)
  IN  IF findings # <<>> THEN Refused(p, findings, primary)
                         ELSE Matched(p, t)

(* taken is consumed_target_ids at the time of the call.                   *)
Answer(p, taken) ==
  LET posted == Entries(OrderRef(p.order), "PAYMENT")
      charged == Entries(OrderRef(p.order), "PROCESSOR")
      before == RefundFindings(p) \o InvoiceFindings(p)
                \o When(Cardinality(Available(p, taken)) > 1,
                        [type |-> "DUPLICATE_PROCESSOR",
                         related |-> PrimaryKeys(charged)])
      missing == [type |-> "MISSING_PROCESSOR",
                  related |-> <<OrderRef(p.order)>>]
      twice == Len(posted) > 1
  IN  IF p.dup THEN PostedTwice(p, <<OrderRef(p.order)>>)
      ELSE IF twice /\ rules.topology # "BANK_GL"
           THEN PostedTwice(p, PrimaryKeys(posted))
      ELSE IF Targets(p, taken) # {}
           THEN Compared(p, Get(First(Targets(p, taken))), before)
      ELSE IF twice THEN PostedTwice(p, PrimaryKeys(posted))
      ELSE Refused(p, Append(before, missing), Key(p))
-----------------------------------------------------------------------------
(* reconcile_all: charges no payment accounts for.                         *)

\* A charge without an internal entry.
Unrecorded(k) ==
  Exception("MISSING_INTERNAL", k, k, <<OrderRef(Get(k).order)>>, <<>>)

\* Faulty variant of Orphan: any entry of the order counts as internal.
OrphanUnindexed(k, taken) == /\ k \notin taken
                             /\ \A e \in index : e.by # OrderRef(Get(k).order)

\* A processor transaction left over whose order has no payment entry.
Orphan(k, taken) == /\ k \notin taken
                    /\ Entries(OrderRef(Get(k).order), "PAYMENT") = <<>>
-----------------------------------------------------------------------------
(* reconcile_batch: the single bank line that carries the batch's cleaned  *)
(* reference, its currency, amount and time.                               *)

BatchAnswer(b) ==
  LET lines == Entries([kind |-> "REF", id |-> b.ref], "BANK")
      line == Get(lines[1])
      Fails(type, related) ==
        [payout |-> <<>>,
         exception |-> <<[Exception(type, Key(b), Key(b), related, <<>>)
                            EXCEPT !.created = type # "CURRENCY_MISMATCH"]>>]
  IN  IF Len(lines) > 1
      THEN Fails("DUPLICATE_BANK_ENTRY", PrimaryKeys(lines))
      ELSE IF lines = <<>> THEN Fails("MISSING_BANK_SETTLEMENT", <<>>)
      ELSE IF b.currency # line.currency
           THEN Fails("CURRENCY_MISMATCH", lines)
      ELSE IF Gap(b.amount, line.amount) > rules.tolerance
           THEN Fails("AMOUNT_MISMATCH", lines)
      ELSE IF Gap(b.time, line.time) > rules.sla
           THEN Fails("LATE_SETTLEMENT", lines)
      ELSE [payout |-> <<[batch |-> Key(b), line |-> Key(line)]>>,
            exception |-> <<>>]
=============================================================================
