------------------------------ MODULE MockLLM ------------------------------
(***************************************************************************)
(* ai/llm.py MockLLMProvider, the provider get_llm_provider falls back to: *)
(* its reply to the prompt investigate formats from an exception and the   *)
(* evidence gathered for it.  What it searches the prompt for is a set of  *)
(* words here; its rules are tried in the order of the code.               *)
(***************************************************************************)
EXTENDS Evidence

(* The prompt holds the exception's type, its findings and candidates, and *)
(* the evidence: records with their metadata, a payment with its method, a *)
(* fee policy with its identifier.                                         *)
Shown(items) == {r \in ledger : Key(r) \in items}

Words(e, items) ==
  {e.type} \cup Range(e.findings)
    \cup {r.method : r \in {s \in Shown(items) : s.kind = "PAYMENT"}}
    \cup {k.kind : k \in items} \cup UNION {r.says : r \in Shown(items)}

FeeWords == {"FEE_MISMATCH", "FEE_DISCREPANCY"}

\* Words with RULE_INTL_CARD_3.5, 3.5% or INTERNATIONAL in them.
International == {"INTERNATIONAL_CARD", "INTERNATIONAL_PREMIUM",
                  "INTL_CARD_SURCHARGE_3.5%", "RULE_INTL_CARD_3.5"}

\* Words with HIGH_VOLUME or 1.2% in them.
HighVolume == {"HIGH_VOLUME_CARD", "RULE_HIGH_VOLUME_1.2", "RULE_HIGH_VOLUME_DISCOUNT"}

Undecided == {"AMOUNT_MISMATCH", "DUPLICATE_PROCESSOR", "DUPLICATE_INTERNAL",
              "DUPLICATE_BANK_ENTRY", "MISSING_PROCESSOR", "MISSING_INTERNAL",
              "MISSING_BANK_SETTLEMENT"}

Reply(decision, confidence, cites, claims) ==
  [decision |-> decision, confidence |-> confidence, cites |-> cites,
   claims |-> claims]

ToHuman == Reply("HUMAN_REVIEW", "high", {}, {})
Resolve(cites) == Reply("AI_RESOLVED", "high", cites, {})

Invented == [kind |-> "EVID_POLICY_HALLUCINATED_9999", id |-> 0]

\* The first EVID_POLICY_ identifier in the prompt, or one written in the code.
PolicyCited(items, otherwise) ==
  LET shown == {k \in items : \E i \in DOMAIN registry :
                                   k = PolicyEvidence(registry[i])}
  IN  IF shown = {} THEN {[kind |-> otherwise, id |-> 0]} ELSE shown

(* Two mentions of invoices count as a bundle, and the prompt mentions     *)
(* each piece of evidence twice.                                           *)
BundleReply(items) ==
  LET invoices == {k \in items : k.kind = "INVOICE"}
  IN  IF 2 * Cardinality(invoices) >= 2 THEN Resolve(invoices) ELSE ToHuman

NotJson == Reply("NONE", "low", {}, {})

\* A rule answers a prompt that holds a word of each of its sets.
LLMRules(items) ==
  << [words |-> <<{"INJECTION"}>>, reply |-> ToHuman],
     [words |-> <<{"HALLUCINATE"}>>, reply |-> Resolve({Invented})],
     [words |-> <<{"MALFORMED_JSON"}>>, reply |-> NotJson],
     [words |-> <<{"LOW_CONFIDENCE"}>>,
      reply |-> Reply("AI_RESOLVED", "low", {}, {})],
     [words |-> <<{"CONTRADICTION"}>>,
      reply |-> Reply("AI_RESOLVED", "high", {}, {999988})],
     [words |-> <<FeeWords, International>>,
      reply |-> Resolve(PolicyCited(items, "RULE_INTL_CARD_3.5"))],
     [words |-> <<FeeWords, HighVolume>>,
      reply |-> Resolve(PolicyCited(items, "RULE_HIGH_VOLUME_DISCOUNT"))],
     [words |-> <<FeeWords>>, reply |-> ToHuman],
     [words |-> <<{"BUNDLED_PAYMENT"}>>, reply |-> BundleReply(items)],
     [words |-> <<Undecided>>, reply |-> ToHuman],
     [words |-> <<>>, reply |-> Reply("HUMAN_REVIEW", "low", {}, {})] >>

Fires(rule, words) ==
  \A i \in DOMAIN rule.words : rule.words[i] \cap words # {}

\* The reply of the first rule that does; the last one always does.
MockReply(e, items) ==
  LET fits == {i \in DOMAIN LLMRules(items) : Fires(LLMRules(items)[i], Words(e, items))}
  IN  LLMRules(items)[Foremost(fits)].reply
=============================================================================
