----------------------------- MODULE FeePolicy -----------------------------
(***************************************************************************)
(* recon/rules.py FeePolicyRegistry and the fee and tolerance rules of     *)
(* ReconciliationRules, with FeePolicy of ingestion/schemas.py.  A         *)
(* registry is the sequence of its policies in the order of the Python     *)
(* dictionary.  Rates are per mille, amounts in cents and not negative.    *)
(* merchant_id is accepted everywhere and looked at nowhere.               *)
(***************************************************************************)
EXTENDS Naturals, Sequences

ANY == "ANY"
None == "None"             \* a missing argument, or no policy identifier
NoPolicy == [id |-> None]

Policy(id, rate, fixed, method, currency) ==
  [id |-> id, rate |-> rate, fixed |-> fixed, method |-> method,
   currency |-> currency, processor |-> ANY]

\* _register_default_policies, in its order.
DefaultPolicies ==
  << Policy("STRIPE_STANDARD", 29, 30, ANY, "USD"),
     Policy("CARD_STANDARD_2.9", 29, 30, "CARD", ANY),
     Policy("UPI_STANDARD", 0, 0, "UPI", ANY),
     Policy("DEBIT_CARD_STANDARD", 9, 0, "DEBIT_CARD", "INR"),
     Policy("CREDIT_CARD_STANDARD", 20, 0, "CREDIT_CARD", "INR"),
     Policy("NET_BANKING_STANDARD", 0, 1500, "NET_BANKING", "INR"),
     Policy("DIRECT_DEBIT_ZERO", 0, 0, "DIRECT_DEBIT", ANY),
     Policy("BANK_TRANSFER_ZERO", 0, 0, "BANK_TRANSFER", ANY),
     Policy("CHEQUE_ZERO", 0, 0, "CHEQUE", ANY),
     Policy("SEPA_CREDIT_ZERO", 0, 0, "SEPA_CREDIT_TRANSFER", ANY),
     Policy("RULE_INTL_CARD_3.5", 35, 0, "INTERNATIONAL_CARD", ANY),
     Policy("RULE_HIGH_VOLUME_DISCOUNT", 12, 0, ANY, ANY) >>

\* A policy registered under an identifier in use takes its place in the order.
Register(registry, p) ==
  IF \E i \in DOMAIN registry : registry[i].id = p.id
  THEN [i \in DOMAIN registry |->
          IF registry[i].id = p.id THEN p ELSE registry[i]]
  ELSE Append(registry, p)

GetPolicy(registry, id) ==
  LET at == {i \in DOMAIN registry : registry[i].id = id}
  IN  IF at = {} THEN NoPolicy ELSE registry[CHOOSE i \in at : TRUE]
-----------------------------------------------------------------------------
(* match_policy.  A context is [processor, method, currency]; the four     *)
(* loops are tiers, and each walks the registry from its end.  The third   *)
(* takes any currency, not only policies whose currency is ANY.            *)

ForProcessor(p, c) ==
  /\ c.processor # None /\ c.processor # ANY
  /\ p.processor = c.processor

ForMethod(p, c) == c.method # None /\ p.method = c.method

Applies(tier, p, c) ==
  \/ /\ tier = 1 /\ ForProcessor(p, c)
     /\ c.method = None \/ p.method \in {ANY, c.method}
     /\ c.currency = None \/ p.currency \in {ANY, c.currency}
  \/ tier = 2 /\ ForMethod(p, c) /\ p.currency = c.currency
  \/ tier = 3 /\ ForMethod(p, c)
  \/ tier = 4 /\ ForProcessor(p, c)

Tiers == 1 .. 4

Covers(p, c) == \E tier \in Tiers : Applies(tier, p, c)

\* Where the policies of each tier stand in the registry.
Fitting(registry, c) ==
  [tier \in Tiers |-> {i \in DOMAIN registry : Applies(tier, registry[i], c)}]

BestTier(fit) ==
  CHOOSE t \in Tiers : /\ fit[t] # {}
                       /\ \A s \in Tiers : s < t => fit[s] = {}

\* The last registered policy of the best tier some policy reaches.
MatchPolicy(registry, c) ==
  LET fit == Fitting(registry, c)
      best == fit[BestTier(fit)]
  IN  IF \A t \in Tiers : fit[t] = {} THEN NoPolicy
      ELSE registry[CHOOSE i \in best : \A j \in best : j <= i]
-----------------------------------------------------------------------------
\* calculate_fee and calculate_net: half a cent is rounded up.
CalculateFee(p, gross) == (gross * p.rate + 500) \div 1000 + p.fixed

Gap(a, b) == IF a > b THEN a - b ELSE b - a

(* compute_expected_fee where fees are checked: a transaction that names a *)
(* policy is held to it, known or not; any other to the policy that fits.  *)
ExpectedPolicy(registry, named, c) ==
  IF named # None THEN GetPolicy(registry, named) ELSE MatchPolicy(registry, c)
=============================================================================
