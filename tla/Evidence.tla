------------------------------ MODULE Evidence ------------------------------
(***************************************************************************)
(* What AIController.investigate does before and after it asks a language  *)
(* model, as functions of what is stored: the evidence it gathers with the *)
(* tools of ai/tools.py, and what ai/guardrails.py makes of a proposal.    *)
(***************************************************************************)
EXTENDS Ledger, FeePolicy, Functions
-----------------------------------------------------------------------------
(* ai/tools.py: each piece of evidence is named by the record it shows.    *)

GetRecord(k) == IF k \in {Key(r) : r \in ledger} THEN <<k>> ELSE <<>>

SearchByOrder(ref) ==
  Entries(ref, "PAYMENT") \o Entries(ref, "INVOICE")
    \o Entries(ref, "PROCESSOR") \o Entries(ref, "REFUND")

\* Faulty variant of RelatedEvidence: a related order is not looked up.
RelatedRecord(ref) == GetRecord(ref)

\* The records of a related order, or else the related record itself.
RelatedEvidence(ref) ==
  IF SearchByOrder(ref) # <<>> THEN SearchByOrder(ref) ELSE GetRecord(ref)

\* The first of some positions.
Foremost(positions) == CHOOSE i \in positions : \A j \in positions : i <= j

\* Steps 1a and 1b: the lists of records, in the order they are added.
Found(e) ==
  <<GetRecord(e.primary)>> \o [i \in DOMAIN e.related |-> RelatedEvidence(e.related[i])]

Contents(found) == UNION {Range(list) : list \in Range(found)}

FeeTypes == {"FEE_MISMATCH", "FEE_DISCREPANCY", "UNKNOWN_FEE_POLICY"}

OfKind(list, kind) == {i \in DOMAIN list : list[i].kind = kind}

\* The record of a kind found first, if any.
FirstFound(found, kind) ==
  LET having == {i \in DOMAIN found : OfKind(found[i], kind) # {}}
      list == found[Foremost(having)]
  IN  IF having = {} THEN <<>> ELSE <<list[Foremost(OfKind(list, kind))]>>

\* Step 1c: the policy for the first payment and the first charge found.
FeeContext(found) ==
  LET pay == FirstFound(found, "PAYMENT")
      charge == FirstFound(found, "PROCESSOR")
  IN  [processor |-> IF charge = <<>> THEN None ELSE Get(charge[1]).processor,
       method |-> IF pay = <<>> THEN None ELSE Get(pay[1]).method,
       currency |-> IF pay \o charge = <<>> THEN None
                    ELSE Get((pay \o charge)[1]).currency]

PolicyEvidence(policy) == [kind |-> policy.id, id |-> 0]

GetFeePolicy(e, found) ==
  LET policy == MatchPolicy(registry, FeeContext(found))
  IN  IF e.type \in FeeTypes /\ policy # NoPolicy
      THEN {PolicyEvidence(policy)} ELSE {}

\* HISTORICAL_CASES has one precedent for each of three types.
GetSimilarCases(e) ==
  IF e.type \in {"FEE_DISCREPANCY", "NOISY_BANK_REFERENCE", "AMOUNT_MISMATCH"}
  THEN {[kind |-> "CASE_PRECEDENT", id |-> 1]} ELSE {}

\* Step 1d: search_by_customer is search_by_order under another name.
CustomerEvidence(e) ==
  IF e.type = "BUNDLED_PAYMENT"
  THEN UNION {Range(SearchByOrder(ref)) : ref \in {e.primary} \cup Range(e.related)}
  ELSE {}

\* Steps 1a to 1e of investigate.
Gathered(e) ==
  Contents(Found(e)) \cup GetFeePolicy(e, Found(e)) \cup CustomerEvidence(e)
    \cup GetSimilarCases(e)
-----------------------------------------------------------------------------
(* ai/guardrails.py DecisionPolicy.evaluate_decision.                      *)

Near(a, b) == Gap(a, b) <= 5

\* amount, gross_amount, fee_amount, net_amount and their batch counterparts.
Amounts(items) ==
  UNION {{r.amount} \cup (IF r.kind \in {"PROCESSOR", "SETTLEMENT"}
                          THEN {r.fee, Gap(r.amount, r.fee)} ELSE {})
           : r \in {s \in ledger : Key(s) \in items}}

\* A claimed amount needs an amount on record, or a difference of two.
Contradicted(claims, items) ==
  \E c \in claims :
    /\ Amounts(items) # {}
    /\ \A a \in Amounts(items) : ~Near(c, a)
    /\ \A a, b \in Amounts(items) : ~Near(c, Gap(a, b))

\* Faulty variant of Passes: a citation may name anything.
PassesUncited(reply, items) ==
  /\ ~Contradicted(reply.claims, items)
  /\ reply.confidence # "low"
  /\ reply.decision = "AI_RESOLVED" => (reply.cites # {} \/ items # {})

(* Rules 1 to 4, in that order; "low" is below the threshold, and a        *)
(* confidence that is not a number is below nothing.                       *)
Passes(reply, items) ==
  /\ reply.cites \subseteq items
  /\ ~Contradicted(reply.claims, items)
  /\ reply.confidence # "low"
  /\ reply.decision = "AI_RESOLVED" => (reply.cites # {} \/ items # {})

Outcome(reply, items) ==
  IF reply.decision = "AI_RESOLVED" /\ Passes(reply, items)
  THEN "AI_RESOLVED" ELSE "HUMAN_REVIEW"
=============================================================================
