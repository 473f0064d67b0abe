---------------------------- MODULE AIController ----------------------------
(***************************************************************************)
(* ai/agent.py AIController.investigate, called by the pipeline for one    *)
(* exception after the other, with the evidence tools of ai/tools.py, the  *)
(* EvidenceSet of ai/evidence.py and the guardrails of ai/guardrails.py.   *)
(* The language model (ai/llm.py) is the environment: it may fail, answer  *)
(* with something that is not JSON, with JSON whose fields cannot be used, *)
(* or with any proposal, whatever evidence it was shown.                   *)
(***************************************************************************)
EXTENDS Evidence, SequencesExt

CONSTANTS Ledgers,   \* the contents MiniVaultDB may have, each a set of records
          Reports,   \* the lists of exceptions the matcher may hand over
          Registries, \* the contents the fee registry may have
          Claims,    \* dollar amounts a rationale may mention
          Fabricated \* identifiers of no record

\* A store has finitely many records, one for each key.
ASSUME AIControllerAssumption ==
  /\ \A l \in Ledgers :
       /\ l \subseteq Records /\ IsFiniteSet(l)
       /\ \A r, s \in l : Key(r) = Key(s) => r = s
  /\ \A list \in Reports :
       /\ list \in Seq(ToSet(list))
       /\ \A e \in ToSet(list) : e.related \in Seq(ToSet(e.related))
  /\ \A policies \in Registries : policies \in Seq(ToSet(policies))
  /\ Claims \subseteq Nat

VARIABLES
  report,     \* the exceptions to investigate, in order
  current,    \* the one under investigation or next
  phase,      \* "next", "asking" (the provider), "aborted"
  evidence,   \* the EvidenceSet of the running investigation
  status,     \* exception.status of each exception
  verified,   \* exception.evidence of each exception
  audit,      \* the actions logged in audit_trail since the report
  proposal    \* history: the parsed reply each resolution was made from

vars == <<stored, report, current, phase, evidence, status, verified, audit,
          proposal>>

\* "RESOLVED" counts as AI_RESOLVED, any other word as HUMAN_REVIEW.
Decisions == {"AI_RESOLVED", "HUMAN_REVIEW"}
NoReply == [decision |-> "HUMAN_REVIEW", confidence |-> "low", cites |-> {},
            claims |-> {}]
-----------------------------------------------------------------------------
Init ==
  /\ ledger \in Ledgers
  /\ index = UNION {IndexEntries(r) : r \in ledger}
  /\ registry \in Registries /\ report \in Reports
  /\ current = 1 /\ phase = "next" /\ evidence = {}
  /\ status = [i \in DOMAIN report |-> "OPEN"]
  /\ verified = [i \in DOMAIN report |-> {}]
  /\ audit = [i \in DOMAIN report |-> <<>>]
  /\ proposal = [i \in DOMAIN report |-> NoReply]

Log(action) == audit' = [audit EXCEPT ![current] = Append(@, action)]

\* Faulty variant of Start: the evidence of the last investigation is kept.
StartKeepingEvidence ==
  /\ phase = "next" /\ current \in DOMAIN report
  /\ Log("AI_INVESTIGATION_STARTED")
  /\ evidence' = evidence \cup Gathered(report[current])
  /\ phase' = "asking"
  /\ UNCHANGED <<stored, report, current, status, verified, proposal>>

\* Faulty variant of Start: the loop ends one exception early.
StartButLast ==
  /\ phase = "next" /\ current < Len(report)
  /\ Log("AI_INVESTIGATION_STARTED")
  /\ evidence' = Gathered(report[current])
  /\ phase' = "asking"
  /\ UNCHANGED <<stored, report, current, status, verified, proposal>>

\* The investigation is logged and its evidence gathered afresh.
Start ==
  /\ phase = "next" /\ current \in DOMAIN report
  /\ Log("AI_INVESTIGATION_STARTED")
  /\ evidence' = Gathered(report[current])
  /\ phase' = "asking"
  /\ UNCHANGED <<stored, report, current, status, verified, proposal>>

\* Faulty variant of NoUsableReply: returns before it logs or decides.
NoUsableReplyUnlogged ==
  /\ phase = "asking"
  /\ current' = current + 1 /\ phase' = "next"
  /\ UNCHANGED <<stored, report, evidence, status, verified, audit, proposal>>

\* The provider raised an exception, or its text held no JSON object.
NoUsableReply ==
  /\ phase = "asking"
  /\ status' = [status EXCEPT ![current] = "HUMAN_REVIEW"]
  /\ Log("AI_DECISION")
  /\ current' = current + 1 /\ phase' = "next"
  /\ UNCHANGED <<stored, report, evidence, verified, proposal>>

\* Faulty variant of Decide: unverified citations are kept on the exception.
DecideUnverified(reply) ==
  LET outcome == Outcome(reply, evidence)
  IN  /\ phase = "asking"
      /\ status' = [status EXCEPT ![current] = outcome]
      /\ verified' = [verified EXCEPT ![current] = reply.cites]
      /\ proposal' = IF outcome = "AI_RESOLVED"
                     THEN [proposal EXCEPT ![current] = reply] ELSE proposal
      /\ Log("AI_INVESTIGATION_COMPLETED")
      /\ current' = current + 1 /\ phase' = "next"
      /\ UNCHANGED <<stored, report, evidence>>

Decide(reply) ==
  LET outcome == Outcome(reply, evidence)
  IN  /\ phase = "asking"
      /\ status' = [status EXCEPT ![current] = outcome]
      /\ verified' = [verified EXCEPT ![current] = reply.cites \cap evidence]
      /\ proposal' = IF outcome = "AI_RESOLVED"
                     THEN [proposal EXCEPT ![current] = reply] ELSE proposal
      /\ Log("AI_INVESTIGATION_COMPLETED")
      /\ current' = current + 1 /\ phase' = "next"
      /\ UNCHANGED <<stored, report, evidence>>

(* JSON that is not an object, or whose decision, confidence, citations or *)
(* findings have the wrong type, raises out of investigate: no caller's    *)
(* loop continues after it.                                                *)
UnusableFields ==
  /\ phase = "asking"
  /\ phase' = "aborted"
  /\ UNCHANGED <<stored, report, current, evidence, status, verified, audit,
                 proposal>>

Citable == {Key(r) : r \in Records} \cup Fabricated
           \cup {[kind |-> "CASE_PRECEDENT", id |-> 1]}
           \cup UNION {{PolicyEvidence(r[i]) : i \in DOMAIN r} : r \in Registries}

Replies == [decision : Decisions, confidence : {"low", "high", "nan"},
            cites : {c \in SUBSET Citable : Cardinality(c) <= 1},
            claims : {c \in SUBSET Claims : Cardinality(c) <= 1}]

Next == Start \/ NoUsableReply \/ UnusableFields \/ \E r \in Replies : Decide(r)

Spec == Init /\ [][Next]_vars

FairSpec == Spec /\ WF_vars(Next)
-----------------------------------------------------------------------------
\* What evidence there is: stored records, registered policies, precedents.
Evidence == {Key(r) : r \in ledger}
            \cup {PolicyEvidence(registry[i]) : i \in DOMAIN registry}
            \cup {[kind |-> "CASE_PRECEDENT", id |-> 1]}

(* Types: among them, that no evidence is of anything but what the store   *)
(* and the registry hold, also in what an exception keeps.                 *)
TypeOK ==
  /\ ledger \in Ledgers /\ registry \in Registries /\ report \in Reports
  /\ current \in 1 .. Len(report) + 1
  /\ phase \in {"next", "asking", "aborted"}
  /\ evidence \subseteq Evidence
  /\ \A i \in DOMAIN report :
       /\ status[i] \in {"OPEN", "AI_RESOLVED", "HUMAN_REVIEW"}
       /\ verified[i] \subseteq Evidence

(* An exception is resolved without a human only on a proposal that fits   *)
(* its own case: every citation is evidence gathered for this exception    *)
(* (none from an earlier investigation, none invented), a claimed amount   *)
(* is one on record there, and the confidence is not low                   *)
(* (DecisionPolicy on the EvidenceSet investigate builds).                 *)
ResolvedOnOwnEvidence ==
  \A i \in DOMAIN report :
    status[i] = "AI_RESOLVED" =>
      /\ proposal[i].decision = "AI_RESOLVED"
      /\ proposal[i].confidence # "low"
      /\ proposal[i].cites \subseteq Gathered(report[i])
      /\ ~Contradicted(proposal[i].claims, Gathered(report[i]))
      /\ verified[i] = proposal[i].cites

(* The audit trail accounts for the status: an exception is decided        *)
(* exactly when its trail closes with a decision, each investigation was   *)
(* announced first, and when a reply breaks the run off, the exceptions    *)
(* behind it stay untouched and the one in hand stays OPEN with an         *)
(* investigation that never ends.                                          *)
AuditAccountsForStatus ==
  \A i \in DOMAIN report :
    /\ i < current =>
         /\ status[i] # "OPEN"
         /\ Len(audit[i]) = 2 /\ audit[i][1] = "AI_INVESTIGATION_STARTED"
         /\ status[i] = "AI_RESOLVED" => audit[i][2] = "AI_INVESTIGATION_COMPLETED"
    /\ i >= current => status[i] = "OPEN" /\ verified[i] = {}
    /\ i > current => audit[i] = <<>>
    /\ i = current => (audit[i] = <<>> <=> phase = "next")

(* Every exception of the report is eventually decided unless a reply      *)
(* breaks the run off: provider calls end, by their timeout if not before, *)
(* and no answer leaves an exception waiting.                              *)
EveryExceptionDecided ==
  <>(phase = "aborted" \/ \A i \in DOMAIN report : status[i] # "OPEN")
=============================================================================
