------------------------------ MODULE AIProofs ------------------------------
(***************************************************************************)
(* Proofs about AIController for every ledger, every report of the matcher *)
(* and every behaviour of the language model.                              *)
(*                                                                         *)
(* ResolvedOnOwnEvidence is not inductive: it says nothing of the evidence *)
(* of an investigation under way.  EvidenceIsOwn adds that while the       *)
(* provider is asked, the evidence set is the one gathered for the         *)
(* exception in hand.  That none of it is invented (TypeOK) rests on the   *)
(* index, which leads the tools to stored records only (StoreIsIndexed).   *)
(***************************************************************************)
EXTENDS AIController, LedgerProofs

\* A list of exceptions, each with a list of related records.
IsReport(list) ==
  /\ IsSequence(list)
  /\ \A e \in ToSet(list) : IsSequence(e.related)

Shape ==
  /\ IsReport(report)
  /\ DOMAIN status = DOMAIN report
  /\ DOMAIN verified = DOMAIN report
  /\ DOMAIN audit = DOMAIN report
  /\ DOMAIN proposal = DOMAIN report
  /\ current \in 1 .. Len(report) + 1
  /\ phase \in {"next", "asking", "aborted"}
  /\ phase # "next" => current \in DOMAIN report

EvidenceIsOwn == phase = "asking" => evidence = Gathered(report[current])

IInv == Shape /\ EvidenceIsOwn /\ ResolvedOnOwnEvidence

\* A step of an investigation, whatever the reply: not only those of Replies.
Investigation ==
  Start \/ NoUsableReply \/ UnusableFields \/ \E reply : Decide(reply)

LEMMA StepsInvestigate == [Next]_vars => [Investigation]_vars
BY DEF Next, Investigation
-----------------------------------------------------------------------------
(* What is gathered and what contradicts it depend on the records and      *)
(* entries stored only, which no investigation changes.                    *)
LEMMA EvidenceDependsOnStoreOnly ==
  ASSUME UNCHANGED stored
  PROVE  /\ \A e : Gathered(e)' = Gathered(e)
         /\ \A c, items : Contradicted(c, items)' = Contradicted(c, items)
<1>1. \A k : GetRecord(k)' = GetRecord(k)
  BY DEF GetRecord, stored
<1>2. \A by, kind : Entries(by, kind)' = Entries(by, kind)
  BY DEF Entries, Under, stored
<1>3. \A ref : SearchByOrder(ref)' = SearchByOrder(ref)
  BY <1>2 DEF SearchByOrder
<1>4. \A ref : RelatedEvidence(ref)' = RelatedEvidence(ref)
  BY <1>1, <1>3 DEF RelatedEvidence
<1>5. \A items : Amounts(items)' = Amounts(items)
  BY DEF Amounts, stored
<1>6. \A e : Gathered(e)' = Gathered(e)
  <2> TAKE e
  <2>1. [i \in DOMAIN e.related |-> RelatedEvidence(e.related[i])]'
          = [i \in DOMAIN e.related |-> RelatedEvidence(e.related[i])]
    BY <1>4
  <2>2. Found(e)' = Found(e)
    BY <1>1, <2>1 DEF Found
  <2>3. FeeContext(Found(e))' = FeeContext(Found(e))
    <3>1. \A k : Get(k)' = Get(k)
      BY DEF Get, stored
    <3>2. \A found : FeeContext(found)' = FeeContext(found)
      BY <3>1 DEF FeeContext
    <3> QED BY <2>2, <3>2
  <2>4. MatchPolicy(registry, FeeContext(Found(e)))'
          = MatchPolicy(registry, FeeContext(Found(e)))
    BY <2>3 DEF MatchPolicy, Fitting, BestTier, stored
  <2>5. GetFeePolicy(e, Found(e))' = GetFeePolicy(e, Found(e))
    BY <2>4 DEF GetFeePolicy
  <2>6. CustomerEvidence(e)' = CustomerEvidence(e)
    <3>1. {Range(SearchByOrder(ref)) : ref \in {e.primary} \cup Range(e.related)}'
            = {Range(SearchByOrder(ref)) : ref \in {e.primary} \cup Range(e.related)}
      BY <1>3
    <3> QED BY <3>1 DEF CustomerEvidence
  <2> QED BY <2>2, <2>5, <2>6 DEF Gathered, Contents, GetSimilarCases
<1>7. \A c, items : Contradicted(c, items)' = Contradicted(c, items)
  BY <1>5 DEF Contradicted
<1> QED BY <1>6, <1>7
-----------------------------------------------------------------------------
(* A report is a list, whose exceptions are numbered from 1.               *)
LEMMA ReportsAreLists ==
  ASSUME NEW list, IsReport(list)
  PROVE  Len(list) \in Nat /\ DOMAIN list = 1 .. Len(list)
BY DEF IsReport, IsSequence

LEMMA ReportsAreReports ==
  ASSUME NEW list \in Reports
  PROVE  IsReport(list)
BY AIControllerAssumption DEF IsReport, IsSequence

(* Before the first investigation nothing is resolved.                     *)
LEMMA NothingResolvedAtFirst == Init => IInv
<1> SUFFICES ASSUME Init PROVE IInv
  OBVIOUS
<1>1. Len(report) \in Nat /\ DOMAIN report = 1 .. Len(report)
  BY ReportsAreReports, ReportsAreLists DEF Init
<1>2. Shape
  BY <1>1, ReportsAreReports DEF Init, Shape
<1>3. EvidenceIsOwn /\ ResolvedOnOwnEvidence
  BY DEF Init, EvidenceIsOwn, ResolvedOnOwnEvidence
<1> QED BY <1>2, <1>3 DEF IInv

(* Every step keeps the shape of the state.                                *)
LEMMA ShapeIsKept == Shape /\ [Investigation]_vars => Shape'
<1> SUFFICES ASSUME Shape, [Investigation]_vars PROVE Shape'
  OBVIOUS
<1>1. Len(report) \in Nat /\ DOMAIN report = 1 .. Len(report)
  BY ReportsAreLists DEF Shape
<1>2. CASE Start BY <1>1, <1>2 DEF Shape, Start, Log
<1>3. CASE NoUsableReply BY <1>1, <1>3 DEF Shape, NoUsableReply, Log
<1>4. ASSUME NEW reply, Decide(reply) PROVE Shape'
  BY <1>1, <1>4 DEF Shape, Decide, Log
<1>5. CASE UnusableFields BY <1>1, <1>5 DEF Shape, UnusableFields
<1>6. CASE UNCHANGED vars BY <1>6 DEF Shape, vars
<1> QED BY <1>2, <1>3, <1>4, <1>5, <1>6 DEF Investigation

(* What is known of the exceptions a step leaves alone stays known: their  *)
(* case is the same, and so are their status, proposal and citations.      *)
LEMMA OthersKeepTheirResolution ==
  ASSUME IInv, UNCHANGED <<stored, report>>, NEW i \in DOMAIN report,
         status'[i] = status[i], verified'[i] = verified[i],
         proposal'[i] = proposal[i], status'[i] = "AI_RESOLVED"
  PROVE  /\ proposal'[i].decision = "AI_RESOLVED"
         /\ proposal'[i].confidence # "low"
         /\ proposal'[i].cites \subseteq Gathered(report[i])'
         /\ ~Contradicted(proposal[i].claims, Gathered(report[i]))'
         /\ verified'[i] = proposal'[i].cites
<1>1. /\ \A e : Gathered(e)' = Gathered(e)
      /\ \A c, items : Contradicted(c, items)' = Contradicted(c, items)
  BY EvidenceDependsOnStoreOnly
<1>2. /\ proposal[i].decision = "AI_RESOLVED"
      /\ proposal[i].confidence # "low"
      /\ proposal[i].cites \subseteq Gathered(report[i])
      /\ ~Contradicted(proposal[i].claims, Gathered(report[i]))
      /\ verified[i] = proposal[i].cites
  BY DEF IInv, ResolvedOnOwnEvidence
<1>3. Gathered(report[i])' = Gathered(report[i])
  BY <1>1
<1>4. Contradicted(proposal[i].claims, Gathered(report[i]))'
        = Contradicted(proposal[i].claims, Gathered(report[i]))
  BY <1>1, <1>3
<1> QED BY <1>2, <1>3, <1>4

(* A decision resolves only on what Passes demands of the evidence at      *)
(* hand, which is the exception's own.                                     *)
LEMMA DecisionUsesOwnEvidence ==
  ASSUME IInv, NEW reply, Decide(reply),
         status'[current] = "AI_RESOLVED"
  PROVE  /\ proposal'[current] = reply
         /\ verified'[current] = reply.cites
         /\ reply.decision = "AI_RESOLVED" /\ reply.confidence # "low"
         /\ reply.cites \subseteq Gathered(report[current])
         /\ ~Contradicted(reply.claims, Gathered(report[current]))
<1>1. /\ current \in DOMAIN report /\ evidence = Gathered(report[current])
      /\ DOMAIN status = DOMAIN report /\ DOMAIN verified = DOMAIN report
      /\ DOMAIN proposal = DOMAIN report
  BY DEF IInv, Shape, EvidenceIsOwn, Decide
<1>2. Outcome(reply, evidence) = "AI_RESOLVED"
  BY <1>1 DEF Decide
<1>3. reply.decision = "AI_RESOLVED" /\ Passes(reply, evidence)
  BY <1>2 DEF Outcome
<1>4. /\ reply.cites \subseteq evidence
      /\ ~Contradicted(reply.claims, evidence)
      /\ reply.confidence # "low"
  BY <1>3 DEF Passes
<1>5. proposal'[current] = reply
  BY <1>1, <1>2 DEF Decide
<1>6. verified'[current] = reply.cites \cap evidence
  BY <1>1 DEF Decide
<1> QED BY <1>1, <1>3, <1>4, <1>5, <1>6

(* Every action keeps the invariant.                                       *)
LEMMA ResolutionsStayJustified == IInv /\ [Investigation]_vars => IInv'
<1> SUFFICES ASSUME IInv, [Investigation]_vars PROVE IInv'
  OBVIOUS
<1>1. Shape'
  BY ShapeIsKept DEF IInv
<1>2. UNCHANGED <<stored, report>>
  BY DEF Investigation, Start, NoUsableReply, Decide, UnusableFields, vars
<1>3. \A e : Gathered(e)' = Gathered(e)
  BY <1>2, EvidenceDependsOnStoreOnly
<1>4. CASE Start
  <2>2. EvidenceIsOwn'
    BY <1>3, <1>4 DEF EvidenceIsOwn, Start
  <2>3. ResolvedOnOwnEvidence'
    BY <1>2, <1>4, OthersKeepTheirResolution
       DEF Start, ResolvedOnOwnEvidence
  <2> QED BY <1>1, <2>2, <2>3 DEF IInv
<1>5. CASE NoUsableReply
  <2>2. EvidenceIsOwn'
    BY <1>5 DEF EvidenceIsOwn, NoUsableReply
  <2>3. \A i \in DOMAIN report :
          status'[i] = "AI_RESOLVED" => status'[i] = status[i]
    BY <1>5 DEF IInv, Shape, NoUsableReply
  <2>4. ResolvedOnOwnEvidence'
    BY <1>2, <1>5, <2>3, OthersKeepTheirResolution
       DEF NoUsableReply, ResolvedOnOwnEvidence
  <2> QED BY <1>1, <2>2, <2>4 DEF IInv
<1>6. ASSUME NEW reply, Decide(reply) PROVE IInv'
  <2>2. EvidenceIsOwn'
    BY <1>6 DEF EvidenceIsOwn, Decide
  <2>3. ASSUME NEW i \in DOMAIN report, status'[i] = "AI_RESOLVED"
        PROVE  /\ proposal'[i].decision = "AI_RESOLVED"
               /\ proposal'[i].confidence # "low"
               /\ proposal'[i].cites \subseteq Gathered(report[i])'
               /\ ~Contradicted(proposal[i].claims, Gathered(report[i]))'
               /\ verified'[i] = proposal'[i].cites
    <3>1. CASE i = current
      <4>1. /\ proposal'[i] = reply /\ verified'[i] = reply.cites
            /\ reply.decision = "AI_RESOLVED" /\ reply.confidence # "low"
            /\ reply.cites \subseteq Gathered(report[i])
            /\ ~Contradicted(reply.claims, Gathered(report[i]))
        BY <1>6, <2>3, <3>1, DecisionUsesOwnEvidence
      <4>2. Gathered(report[i])' = Gathered(report[i])
        BY <1>2, <1>3
      <4>3. Contradicted(proposal[i].claims, Gathered(report[i]))'
              = Contradicted(reply.claims, Gathered(report[i]))
        BY <1>2, <4>1, <4>2, EvidenceDependsOnStoreOnly
      <4> QED BY <4>1, <4>2, <4>3
    <3>2. CASE i # current
      <4>1. /\ status'[i] = status[i] /\ verified'[i] = verified[i]
            /\ proposal'[i] = proposal[i]
        BY <1>6, <2>3, <3>2 DEF IInv, Shape, Decide
      <4> QED BY <1>2, <2>3, <4>1, OthersKeepTheirResolution
    <3> QED BY <3>1, <3>2
  <2>4. ResolvedOnOwnEvidence'
    BY <1>2, <2>3 DEF ResolvedOnOwnEvidence
  <2> QED BY <1>1, <2>2, <2>4 DEF IInv
<1>7. CASE UnusableFields
  <2>2. EvidenceIsOwn'
    BY <1>7 DEF EvidenceIsOwn, UnusableFields
  <2>3. ResolvedOnOwnEvidence'
    BY <1>2, <1>7, OthersKeepTheirResolution
       DEF UnusableFields, ResolvedOnOwnEvidence
  <2> QED BY <1>1, <2>2, <2>3 DEF IInv
<1>8. CASE UNCHANGED vars
  <2>1. EvidenceIsOwn'
    BY <1>3, <1>8 DEF IInv, Shape, EvidenceIsOwn, vars
  <2>2. ResolvedOnOwnEvidence'
    BY <1>2, <1>8, OthersKeepTheirResolution DEF vars, ResolvedOnOwnEvidence
  <2> QED BY <1>1, <2>1, <2>2 DEF IInv
<1> QED BY <1>4, <1>5, <1>6, <1>7, <1>8 DEF Investigation

(* Whatever the language model answers, for every ledger and every report, *)
(* an exception is resolved without a human only on evidence gathered for  *)
(* it, with every citation verified and no amount contradicted             *)
(* (DecisionPolicy.evaluate_decision within investigate).                  *)
THEOREM NoResolutionOnForeignEvidence == Spec => []ResolvedOnOwnEvidence
<1>1. IInv => ResolvedOnOwnEvidence
  BY DEF IInv
<1> QED BY <1>1, NothingResolvedAtFirst, ResolutionsStayJustified,
         StepsInvestigate, PTL DEF Spec
-----------------------------------------------------------------------------
(* The trail of the exception in hand, once its investigation is open.     *)
OpenTrail ==
  phase # "next" => audit[current] = <<"AI_INVESTIGATION_STARTED">>

AuditInv == Shape /\ OpenTrail /\ AuditAccountsForStatus

(* A trail is closed by one more action.                                   *)
LEMMA ClosedTrail ==
  ASSUME NEW a, NEW b
  PROVE  /\ Append(<<>>, a) = <<a>> /\ <<a>> # <<>>
         /\ Len(Append(<<a>>, b)) = 2
         /\ Append(<<a>>, b)[1] = a /\ Append(<<a>>, b)[2] = b
OBVIOUS

(* Closing the investigation in hand with a decision and going on to the   *)
(* next exception keeps the trails in step with the statuses.              *)
LEMMA ClosingKeepsTrails ==
  ASSUME AuditInv, phase = "asking", phase' = "next",
         current' = current + 1, UNCHANGED report,
         NEW action, Log(action), NEW outcome,
         status' = [status EXCEPT ![current] = outcome],
         \A i \in DOMAIN report : i # current => verified'[i] = verified[i],
         outcome # "OPEN",
         outcome = "AI_RESOLVED" => action = "AI_INVESTIGATION_COMPLETED"
  PROVE  OpenTrail' /\ AuditAccountsForStatus'
<1>1. /\ Len(report) \in Nat /\ DOMAIN report = 1 .. Len(report)
      /\ current \in DOMAIN report
  BY ReportsAreLists DEF AuditInv, Shape
<1>2. /\ audit[current] = <<"AI_INVESTIGATION_STARTED">>
      /\ audit' = [audit EXCEPT ![current] = Append(audit[current], action)]
  BY DEF AuditInv, OpenTrail, Log
<1>3. /\ Len(audit'[current]) = 2
      /\ audit'[current][1] = "AI_INVESTIGATION_STARTED"
      /\ audit'[current][2] = action
  BY <1>1, <1>2, ClosedTrail DEF AuditInv, Shape
<1>4. \A i \in DOMAIN report : i # current =>
        /\ audit'[i] = audit[i] /\ status'[i] = status[i]
        /\ verified'[i] = verified[i]
  BY <1>1, <1>2 DEF AuditInv, Shape
<1>5. status'[current] = outcome
  BY <1>1 DEF AuditInv, Shape
<1>6. ASSUME NEW i \in DOMAIN report
      PROVE  /\ i < current + 1 =>
                  /\ status'[i] # "OPEN"
                  /\ Len(audit'[i]) = 2
                  /\ audit'[i][1] = "AI_INVESTIGATION_STARTED"
                  /\ status'[i] = "AI_RESOLVED"
                       => audit'[i][2] = "AI_INVESTIGATION_COMPLETED"
             /\ i >= current + 1 =>
                  /\ status'[i] = "OPEN" /\ verified'[i] = {}
                  /\ audit'[i] = <<>>
  <2>1. CASE i = current
    BY <1>1, <1>3, <1>5, <2>1
  <2>2. CASE i < current
    BY <1>1, <1>4, <1>6, <2>2 DEF AuditInv, AuditAccountsForStatus
  <2>3. CASE i > current
    BY <1>1, <1>4, <1>6, <2>3 DEF AuditInv, AuditAccountsForStatus
  <2> QED BY <1>1, <2>1, <2>2, <2>3
<1>7. OpenTrail'
  BY DEF OpenTrail
<1>8. AuditAccountsForStatus'
  BY <1>1, <1>6 DEF AuditAccountsForStatus
<1> QED BY <1>7, <1>8

(* At first every exception is open and has no trail.                      *)
LEMMA NoTrailAtFirst == Init => AuditInv
<1> SUFFICES ASSUME Init PROVE AuditInv
  OBVIOUS
<1>1. Len(report) \in Nat /\ DOMAIN report = 1 .. Len(report)
  BY ReportsAreReports, ReportsAreLists DEF Init
<1>2. Shape /\ OpenTrail
  BY <1>1, ReportsAreReports DEF Init, Shape, OpenTrail
<1>3. AuditAccountsForStatus
  BY <1>1 DEF Init, AuditAccountsForStatus
<1> QED BY <1>2, <1>3 DEF AuditInv

(* Every action keeps trails and statuses in step.                         *)
LEMMA TrailsStayInStep == AuditInv /\ [Investigation]_vars => AuditInv'
<1> SUFFICES ASSUME AuditInv, [Investigation]_vars PROVE AuditInv'
  OBVIOUS
<1>1. Len(report) \in Nat /\ DOMAIN report = 1 .. Len(report)
  BY ReportsAreLists DEF AuditInv, Shape
<1>2. Shape'
  BY ShapeIsKept DEF AuditInv
<1>3. CASE Start
  <2>1. /\ current \in DOMAIN report /\ audit[current] = <<>>
        /\ audit' = [audit EXCEPT ![current] =
                       Append(audit[current], "AI_INVESTIGATION_STARTED")]
    BY <1>3 DEF Start, Log, AuditInv, AuditAccountsForStatus
  <2>2. /\ audit'[current] = <<"AI_INVESTIGATION_STARTED">>
        /\ audit'[current] # <<>>
    BY <2>1, ClosedTrail DEF AuditInv, Shape
  <2>3. \A i \in DOMAIN report : i # current => audit'[i] = audit[i]
    BY <2>1 DEF AuditInv, Shape
  <2>4. OpenTrail'
    BY <1>3, <2>2 DEF Start, OpenTrail
  <2>5. AuditAccountsForStatus'
    <3> SUFFICES ASSUME NEW i \in DOMAIN report
        PROVE  /\ i < current =>
                    /\ status[i] # "OPEN"
                    /\ Len(audit'[i]) = 2
                    /\ audit'[i][1] = "AI_INVESTIGATION_STARTED"
                    /\ status[i] = "AI_RESOLVED"
                         => audit'[i][2] = "AI_INVESTIGATION_COMPLETED"
               /\ i >= current => status[i] = "OPEN" /\ verified[i] = {}
               /\ i > current => audit'[i] = <<>>
               /\ i = current => audit'[i] # <<>>
      BY <1>3 DEF Start, AuditAccountsForStatus
    <3>1. CASE i = current
      BY <1>1, <2>1, <2>2, <3>1, <1>3
         DEF Start, AuditInv, AuditAccountsForStatus
    <3>2. CASE i # current
      BY <1>1, <2>3, <3>2 DEF AuditInv, AuditAccountsForStatus
    <3> QED BY <3>1, <3>2
  <2> QED BY <1>2, <2>4, <2>5 DEF AuditInv
<1>4. CASE NoUsableReply
  <2>1. /\ phase = "asking" /\ phase' = "next" /\ current' = current + 1
        /\ UNCHANGED report /\ Log("AI_DECISION")
        /\ status' = [status EXCEPT ![current] = "HUMAN_REVIEW"]
    BY <1>4 DEF NoUsableReply
  <2>2. \A i \in DOMAIN report : i # current => verified'[i] = verified[i]
    BY <1>4 DEF NoUsableReply
  <2>3. "HUMAN_REVIEW" # "OPEN" /\ "HUMAN_REVIEW" # "AI_RESOLVED"
    OBVIOUS
  <2> QED BY <1>2, <2>1, <2>2, <2>3, ClosingKeepsTrails DEF AuditInv
<1>5. ASSUME NEW reply, Decide(reply) PROVE AuditInv'
  <2>1. /\ phase = "asking" /\ phase' = "next" /\ current' = current + 1
        /\ UNCHANGED report /\ Log("AI_INVESTIGATION_COMPLETED")
        /\ status' = [status EXCEPT ![current] = Outcome(reply, evidence)]
        /\ \A i \in DOMAIN report : i # current => verified'[i] = verified[i]
    BY <1>5 DEF Decide, AuditInv, Shape
  <2>2. Outcome(reply, evidence) # "OPEN"
    BY DEF Outcome
  <2> QED BY <1>2, <2>1, <2>2, ClosingKeepsTrails DEF AuditInv
<1>6. CASE UnusableFields
  BY <1>1, <1>2, <1>6
     DEF UnusableFields, AuditInv, OpenTrail, AuditAccountsForStatus
<1>7. CASE UNCHANGED vars
  BY <1>2, <1>7 DEF vars, AuditInv, OpenTrail, AuditAccountsForStatus
<1> QED BY <1>3, <1>4, <1>5, <1>6, <1>7 DEF Investigation

(* For every report and every reply, an exception has left OPEN exactly    *)
(* when its trail ends with a decision, and a run broken off leaves the    *)
(* exceptions behind it untouched (the logging calls of investigate).      *)
THEOREM TrailsAccountForStatuses == Spec => []AuditAccountsForStatus
<1>1. AuditInv => AuditAccountsForStatus
  BY DEF AuditInv
<1> QED BY <1>1, NoTrailAtFirst, TrailsStayInStep, StepsInvestigate, PTL DEF Spec
-----------------------------------------------------------------------------
(* Evidence is of what is stored.                                          *)

\* The keys of the stored records, and a store whose index leads to them.
Stored == {Key(r) : r \in ledger}
StoreIsIndexed ==
  /\ ledger \subseteq Records /\ IsFiniteSet(ledger)
  /\ \A r, s \in ledger : Key(r) = Key(s) => r = s
  /\ index = UNION {IndexEntries(r) : r \in ledger}

(* A lookup through the index lists stored records.                        *)
LEMMA EntriesAreStored ==
  ASSUME StoreIsIndexed, NEW by, NEW kind
  PROVE  /\ Entries(by, kind) \in Seq(Stored)
         /\ ToSet(Entries(by, kind)) = Under(by, kind)
<1> DEFINE keys == Under(by, kind)
<1>1. ledger \subseteq Records /\ IsFiniteSet(ledger)
  BY DEF StoreIsIndexed
<1>2. \A e \in index : e.to \in Stored
  BY DEF StoreIsIndexed, IndexEntries, Stored
<1>3. keys \subseteq Stored /\ \A k \in keys : k.kind = kind
  BY <1>2 DEF Under
<1>4. IsFiniteSet(Stored)
  <2> DEFINE key == [r \in ledger |-> Key(r)]
  <2>1. key \in Surjection(ledger, Stored)
    BY DEF Stored, Surjection
  <2> QED BY <1>1, <2>1, FS_Surjection
<1>5. IsFiniteSet(keys)
  BY <1>3, <1>4, FS_Subset
<1>6. \A k \in keys : k.id \in Nat
  BY <1>1, <1>3, RecordsAssumption DEF Stored, Key
<1>7. \A j, k \in keys : j.id = k.id => j = k
  BY <1>3 DEF Stored, Key
<1> HIDE DEF keys
<1>8. IsSequence(Listed(keys)) /\ ToSet(Listed(keys)) = keys
  BY <1>5, <1>6, <1>7, ListedEnumerates
<1>9. Listed(keys) \in Seq(Stored)
  BY <1>3, <1>8 DEF IsSequence
<1> QED BY <1>8, <1>9 DEF Entries, keys

(* So do the tools.                                                        *)
LEMMA ToolsShowStored ==
  ASSUME StoreIsIndexed, NEW ref
  PROVE  /\ GetRecord(ref) \in Seq(Stored)
         /\ SearchByOrder(ref) \in Seq(Stored)
         /\ RelatedEvidence(ref) \in Seq(Stored)
<1>1. GetRecord(ref) \in Seq(Stored)
  <2>1. CASE ref \in Stored
    <3>1. GetRecord(ref) = <<ref>>
      BY <2>1 DEF GetRecord, Stored
    <3> QED BY <2>1, <3>1
  <2>2. CASE ref \notin Stored
    <3>1. GetRecord(ref) = <<>>
      BY <2>2 DEF GetRecord, Stored
    <3> QED BY <3>1
  <2> QED BY <2>1, <2>2
<1>2. SearchByOrder(ref) \in Seq(Stored)
  BY EntriesAreStored DEF SearchByOrder
<1> QED BY <1>1, <1>2 DEF RelatedEvidence

\* What a list holds.
LEMMA RangeIsToSet == \A s : Range(s) = ToSet(s)
BY DEF Range, ToSet

\* What one of the lists holds is among their contents.
LEMMA ListIsInContents ==
  ASSUME NEW found, NEW i \in DOMAIN found, NEW x \in ToSet(found[i])
  PROVE  x \in Contents(found)
<1>1. found[i] \in Range(found)
  BY DEF Range
<1>2. x \in Range(found[i])
  BY RangeIsToSet
<1> QED BY <1>1, <1>2 DEF Contents

(* What is found for an exception is what is found for each record and     *)
(* order it names, list by list.                                           *)
LEMMA FoundInLists ==
  ASSUME NEW e, IsSequence(e.related)
  PROVE  /\ DOMAIN Found(e) = 1 .. Len(e.related) + 1
         /\ Found(e)[1] = GetRecord(e.primary)
         /\ \A i \in DOMAIN e.related : Found(e)[i + 1] = RelatedEvidence(e.related[i])
         /\ \A x : x \in Contents(Found(e)) <=>
              \/ x \in ToSet(GetRecord(e.primary))
              \/ \E ref \in ToSet(e.related) : x \in ToSet(RelatedEvidence(ref))
<1> DEFINE n == Len(e.related)
           rest == [i \in DOMAIN e.related |-> RelatedEvidence(e.related[i])]
           S == {GetRecord(e.primary)} \cup {rest[i] : i \in 1 .. n}
<1>1. n \in Nat /\ DOMAIN e.related = 1 .. n
  BY DEF IsSequence
<1>2. rest \in [1 .. n -> S]
  BY <1>1
<1>3. rest \in Seq(S) /\ Len(rest) = n /\ DOMAIN rest = 1 .. n
  <2> HIDE DEF rest, S, n
  <2> QED BY <1>1, <1>2, SeqDef
<1>4. <<GetRecord(e.primary)>> \in Seq(S)
  OBVIOUS
<1>5. \A i \in DOMAIN e.related : rest[i] = RelatedEvidence(e.related[i])
  OBVIOUS
<1> HIDE DEF rest, S, n
<1>6. /\ DOMAIN Found(e) = 1 .. n + 1
      /\ Found(e)[1] = GetRecord(e.primary)
      /\ \A i \in 1 .. n : Found(e)[i + 1] = rest[i]
  <2>1. Found(e) = <<GetRecord(e.primary)>> \o rest
    BY DEF Found, rest
  <2>2. Len(<<GetRecord(e.primary)>>) = 1 /\ <<GetRecord(e.primary)>>[1] = GetRecord(e.primary)
    OBVIOUS
  <2>3. /\ Found(e) \in Seq(S) /\ Len(Found(e)) = 1 + n
        /\ \A i \in 1 .. 1 + n :
             Found(e)[i] = IF i <= 1 THEN <<GetRecord(e.primary)>>[i] ELSE rest[i - 1]
    BY <1>1, <1>3, <1>4, <2>1, <2>2, ConcatProperties
  <2>4. DOMAIN Found(e) = 1 .. 1 + n
    BY <2>3
  <2> HIDE DEF Found
  <2> QED BY <1>1, <2>2, <2>3, <2>4
<1>7. ASSUME NEW x, x \in Contents(Found(e))
      PROVE  \/ x \in ToSet(GetRecord(e.primary))
             \/ \E ref \in ToSet(e.related) : x \in ToSet(RelatedEvidence(ref))
  <2>1. PICK i \in 1 .. n + 1 : x \in ToSet(Found(e)[i])
    <3>1. PICK list \in Range(Found(e)) : x \in Range(list)
      BY <1>7 DEF Contents
    <3>2. PICK i \in DOMAIN Found(e) : list = Found(e)[i]
      BY <3>1 DEF Range
    <3> HIDE DEF Found
    <3> QED BY <1>6, <3>1, <3>2, RangeIsToSet
  <2>2. CASE i = 1
    BY <1>6, <2>1, <2>2
  <2>3. CASE i # 1
    <3>1. i - 1 \in 1 .. n /\ i = (i - 1) + 1
      BY <1>1, <2>3
    <3>2. Found(e)[i] = RelatedEvidence(e.related[i - 1])
      BY <1>1, <1>5, <1>6, <3>1
    <3>3. e.related[i - 1] \in ToSet(e.related)
      BY <1>1, <3>1 DEF ToSet
    <3> QED BY <2>1, <3>2, <3>3
  <2> QED BY <2>2, <2>3
<1>8. ASSUME NEW x, x \in ToSet(GetRecord(e.primary))
      PROVE  x \in Contents(Found(e))
  <2>1. 1 \in DOMAIN Found(e) /\ x \in ToSet(Found(e)[1])
    BY <1>1, <1>6, <1>8
  <2> QED BY <2>1, ListIsInContents
<1>9. ASSUME NEW x, NEW ref \in ToSet(e.related), x \in ToSet(RelatedEvidence(ref))
      PROVE  x \in Contents(Found(e))
  <2>1. PICK i \in 1 .. n : e.related[i] = ref
    BY <1>1 DEF ToSet
  <2>2. i + 1 \in DOMAIN Found(e)
    BY <1>1, <1>6
  <2>3. Found(e)[i + 1] = rest[i]
    BY <1>6
  <2>4. rest[i] = RelatedEvidence(ref)
    BY <1>1, <1>5, <2>1
  <2>5. x \in ToSet(Found(e)[i + 1])
    BY <1>9, <2>3, <2>4
  <2> QED BY <2>2, <2>5, ListIsInContents
<1>10. /\ DOMAIN Found(e) = 1 .. Len(e.related) + 1
       /\ \A i \in DOMAIN e.related : Found(e)[i + 1] = RelatedEvidence(e.related[i])
  BY <1>1, <1>5, <1>6 DEF n
<1> HIDE DEF Found
<1> QED BY <1>6, <1>7, <1>8, <1>9, <1>10

(* It is stored.                                                           *)
LEMMA FoundIsStored ==
  ASSUME StoreIsIndexed, NEW e, IsSequence(e.related)
  PROVE  Contents(Found(e)) \subseteq Stored
<1>1. \A s \in Seq(Stored) : ToSet(s) \subseteq Stored
  BY DEF ToSet
<1> QED BY <1>1, FoundInLists, ToolsShowStored

(* A policy found is one of the registry.                                  *)
LEMMA PolicyIsRegistered ==
  ASSUME IsSequence(registry), NEW c, MatchPolicy(registry, c) # NoPolicy
  PROVE  \E i \in DOMAIN registry : MatchPolicy(registry, c) = registry[i]
<1>1. registry \in Seq(ToSet(registry))
  BY DEF IsSequence
<1>2. CASE \E i \in DOMAIN registry : Covers(registry[i], c)
  BY <1>1, <1>2, PolicyFoundCovers
<1>3. CASE ~\E i \in DOMAIN registry : Covers(registry[i], c)
  <2>1. \A t \in Tiers : Fitting(registry, c)[t] = {}
    BY <1>3 DEF Covers, Fitting
  <2> QED BY <2>1 DEF MatchPolicy
<1> QED BY <1>2, <1>3

(* Steps 1a to 1e gather nothing but evidence there is.                    *)
LEMMA GatheredIsEvidence ==
  ASSUME StoreIsIndexed, IsSequence(registry), NEW e, IsSequence(e.related)
  PROVE  Gathered(e) \subseteq Evidence
<1>1. \A s \in Seq(Stored) : ToSet(s) \subseteq Evidence
  BY DEF ToSet, Stored, Evidence
<1>2. Contents(Found(e)) \subseteq Evidence
  BY FoundIsStored DEF Stored, Evidence
<1>3. CustomerEvidence(e) \subseteq Evidence
  <2>1. \A ref : Range(SearchByOrder(ref)) \subseteq Evidence
    BY <1>1, ToolsShowStored, RangeIsToSet
  <2> QED BY <2>1 DEF CustomerEvidence
<1>4. \A found : GetFeePolicy(e, found) \subseteq Evidence
  BY PolicyIsRegistered DEF GetFeePolicy, Evidence
<1>5. GetSimilarCases(e) \subseteq Evidence
  BY DEF GetSimilarCases, Evidence
<1> QED BY <1>2, <1>3, <1>4, <1>5 DEF Gathered

(* An exception that names an order as related is asked about with every   *)
(* record of the order (search_by_order of step 1b).                       *)
LEMMA OrderIsShown ==
  ASSUME StoreIsIndexed, NEW e, IsSequence(e.related),
         NEW r \in ledger, r.kind \in {"PAYMENT", "INVOICE", "PROCESSOR", "REFUND"},
         OrderRef(r.order) \in ToSet(e.related)
  PROVE  Key(r) \in Gathered(e)
<1> DEFINE ref == OrderRef(r.order)
           orders == SearchByOrder(ref)
<1>1. [by |-> ref, to |-> Key(r)] \in index
  <2>1. IndexEntries(r) = {[by |-> ref, to |-> Key(r)]}
    BY DEF IndexEntries
  <2> QED BY <2>1 DEF StoreIsIndexed
<1>2. Key(r) \in Under(ref, r.kind)
  BY <1>1 DEF Under, Key
<1>3. \A kind : /\ Entries(ref, kind) \in Seq(Stored)
                /\ ToSet(Entries(ref, kind)) = Under(ref, kind)
  BY EntriesAreStored
<1> HIDE DEF ref
<1>4. \A kind : IsSequence(Entries(ref, kind))
  BY <1>3, SequenceOfItsElements
<1>5. /\ IsSequence(orders)
      /\ ToSet(orders) = Under(ref, "PAYMENT") \cup Under(ref, "INVOICE")
                           \cup Under(ref, "PROCESSOR") \cup Under(ref, "REFUND")
  <2>1. /\ IsSequence(Entries(ref, "PAYMENT") \o Entries(ref, "INVOICE"))
        /\ ToSet(Entries(ref, "PAYMENT") \o Entries(ref, "INVOICE"))
             = Under(ref, "PAYMENT") \cup Under(ref, "INVOICE")
    BY <1>3, <1>4, ElementsOfConcat
  <2>2. /\ IsSequence(Entries(ref, "PAYMENT") \o Entries(ref, "INVOICE")
                        \o Entries(ref, "PROCESSOR"))
        /\ ToSet(Entries(ref, "PAYMENT") \o Entries(ref, "INVOICE")
                        \o Entries(ref, "PROCESSOR"))
             = Under(ref, "PAYMENT") \cup Under(ref, "INVOICE")
                 \cup Under(ref, "PROCESSOR")
    BY <1>3, <1>4, <2>1, ElementsOfConcat
  <2> QED BY <1>3, <1>4, <2>2, ElementsOfConcat DEF SearchByOrder
<1>6. Key(r) \in ToSet(orders)
  BY <1>2, <1>5
<1>7. orders # <<>>
  BY <1>6 DEF ToSet
<1>8. RelatedEvidence(ref) = orders
  BY <1>7 DEF RelatedEvidence
<1>9. Key(r) \in Contents(Found(e))
  BY <1>6, <1>8, FoundInLists DEF ref
<1> QED BY <1>9 DEF Gathered
-----------------------------------------------------------------------------
(* TypeOK is inductive together with the index, which leads the tools to   *)
(* stored records.                                                         *)
EvidenceExists ==
  /\ evidence \subseteq Evidence
  /\ \A i \in DOMAIN report :
       /\ status[i] \in {"OPEN", "AI_RESOLVED", "HUMAN_REVIEW"}
       /\ verified[i] \subseteq Evidence

TypeInv == Shape /\ StoreIsIndexed /\ IsSequence(registry) /\ EvidenceExists

LEMMA TypesAtFirst == Init => TypeInv
<1> SUFFICES ASSUME Init PROVE TypeInv
  OBVIOUS
<1>1. Shape
  BY NothingResolvedAtFirst DEF IInv
<1>2. StoreIsIndexed /\ IsSequence(registry)
  BY AIControllerAssumption DEF Init, StoreIsIndexed, IsSequence
<1>3. EvidenceExists
  BY DEF Init, EvidenceExists
<1> QED BY <1>1, <1>2, <1>3 DEF TypeInv

(* What was evidence stays evidence, as no investigation stores a record.  *)
LEMMA EvidenceStays ==
  ASSUME UNCHANGED stored
  PROVE  Evidence' = Evidence
BY DEF Evidence, stored

(* Every action keeps the types.                                           *)
LEMMA TypesAreKept == TypeInv /\ [Investigation]_vars => TypeInv'
<1> SUFFICES ASSUME TypeInv, [Investigation]_vars PROVE TypeInv'
  OBVIOUS
<1>1. Shape'
  BY ShapeIsKept DEF TypeInv
<1>2. UNCHANGED <<stored, report>>
  BY DEF Investigation, Start, NoUsableReply, Decide, UnusableFields, vars
<1>3. Evidence' = Evidence /\ StoreIsIndexed' /\ IsSequence(registry)'
  BY <1>2, EvidenceStays DEF TypeInv, StoreIsIndexed, stored
<1> SUFFICES EvidenceExists'
  BY <1>1, <1>3 DEF TypeInv
<1>4. /\ evidence \subseteq Evidence
      /\ \A i \in DOMAIN report :
           /\ i \in DOMAIN status /\ i \in DOMAIN verified
           /\ status[i] \in {"OPEN", "AI_RESOLVED", "HUMAN_REVIEW"}
           /\ verified[i] \subseteq Evidence
  BY DEF TypeInv, Shape, EvidenceExists
<1>5. CASE Start
  <2>1. report[current] \in ToSet(report)
    BY <1>5 DEF Start, ToSet
  <2>2. IsSequence(report[current].related)
    BY <2>1 DEF TypeInv, Shape, IsReport
  <2>3. evidence' \subseteq Evidence
    BY <1>5, <2>2, GatheredIsEvidence DEF Start, TypeInv
  <2> QED BY <1>2, <1>3, <1>4, <1>5, <2>3 DEF Start, EvidenceExists
<1>6. CASE NoUsableReply
  BY <1>2, <1>3, <1>4, <1>6 DEF NoUsableReply, EvidenceExists
<1>7. ASSUME NEW reply, Decide(reply) PROVE EvidenceExists'
  <2>1. /\ UNCHANGED evidence
        /\ status' = [status EXCEPT ![current] = Outcome(reply, evidence)]
        /\ verified' = [verified EXCEPT ![current] = reply.cites \cap evidence]
    BY <1>7 DEF Decide
  <2>2. Outcome(reply, evidence) \in {"AI_RESOLVED", "HUMAN_REVIEW"}
    BY DEF Outcome
  <2>3. ASSUME NEW i \in DOMAIN report
        PROVE  /\ status'[i] \in {"OPEN", "AI_RESOLVED", "HUMAN_REVIEW"}
               /\ verified'[i] \subseteq Evidence
    BY <1>4, <2>1, <2>2
  <2> QED BY <1>2, <1>3, <1>4, <2>1, <2>3 DEF EvidenceExists
<1>8. CASE UnusableFields
  BY <1>2, <1>3, <1>4, <1>8 DEF UnusableFields, EvidenceExists
<1>9. CASE UNCHANGED vars
  BY <1>2, <1>3, <1>4, <1>9 DEF vars, EvidenceExists
<1> QED BY <1>5, <1>6, <1>7, <1>8, <1>9 DEF Investigation

\* The store, the registry and the report are the ones given at first.
Given == ledger \in Ledgers /\ registry \in Registries /\ report \in Reports

LEMMA GivenStays == Given /\ [Investigation]_vars => Given'
BY DEF Given, Investigation, Start, NoUsableReply, Decide, UnusableFields, vars,
       stored

(* For every store, registry and report, and whatever the language model   *)
(* answers: the evidence of an investigation, and what an exception keeps  *)
(* of it, is of stored records, registered policies and precedents only,   *)
(* and the variables have their types (EvidenceSet and the tools that fill *)
(* it).                                                                    *)
THEOREM NoEvidenceIsInvented == Spec => []TypeOK
<1>1. TypeInv /\ Given => TypeOK
  BY DEF TypeInv, Given, EvidenceExists, Shape, TypeOK
<1>2. Init => Given
  BY DEF Init, Given
<1> QED BY <1>1, <1>2, TypesAtFirst, TypesAreKept, GivenStays, StepsInvestigate, PTL
        DEF Spec
=============================================================================
