---------------------------- MODULE MatcherProofs ----------------------------
(***************************************************************************)
(* The matcher's properties for every set of records, rules and policies,  *)
(* whatever mix of calls, re-filed records, runs and crashes:              *)
(* greedy consumption (MatchesAreOneToOne); what a run may not lose or     *)
(* hide (LeftoversAreReported, DuplicateChargesNeverMatch); types; that a  *)
(* run repeats its report (RunsDoNotDependOnHistory), and in what sense    *)
(* the order of its list is immaterial (OrderOfPaymentsDoesNotMatter).     *)
(***************************************************************************)
EXTENDS Matcher, LedgerProofs

(* The store: records are of the known ones, and the index leads to stored *)
(* records only, since put_record writes the record before its entries.    *)
StoreInv ==
  /\ ledger \subseteq Records
  /\ \A e \in index : \E r \in ledger : Key(r) = e.to

\* No target is locked that is not matched, and none is matched twice.
ConsumedInv ==
  /\ IsSequence(matches)
  /\ MatchesAreOneToOne

MInv == StoreInv /\ ConsumedInv

\* Some key of a set comes first in a scan.
LEMMA FirstIsOne ==
  ASSUME NEW keys, keys # {}, \A k \in keys : k.id \in Nat
  PROVE  First(keys) \in keys
<1> DEFINE ids == {k.id : k \in keys}
           less == OpToRel(<, Nat)
<1>1. ids \subseteq Nat /\ ids # {}
  OBVIOUS
<1>2. IsWellFoundedOn(less, Nat)
  BY NatLessThanWellFounded
<1>3. \A x, y \in Nat : <<y, x>> \in less <=> y < x
  BY DEF OpToRel
<1> HIDE DEF less
<1> HIDE DEF ids
<1>4. PICK x \in ids : \A y \in ids : <<y, x>> \notin less
  BY <1>1, <1>2, WFMin
<1>5. \A y \in ids : x <= y
  <2> TAKE y \in ids
  <2>1. x \in Nat /\ y \in Nat /\ ~(y < x)
    BY <1>1, <1>3, <1>4
  <2> QED BY <2>1
<1>6. \E k \in keys : \A j \in keys : k.id <= j.id
  BY <1>4, <1>5 DEF ids
<1> QED BY <1>6 DEF First

\* What Get returns for a key the index leads to has that key.
LEMMA GetFinds ==
  ASSUME NEW k, \E r \in ledger : Key(r) = k
  PROVE  Get(k) \in ledger /\ Key(Get(k)) = k
BY DEF Get

\* Keys found through the index are numbered and lead to stored records.
LEMMA KeysUnder ==
  ASSUME StoreInv, NEW by, NEW kind, NEW k \in Under(by, kind)
  PROVE  k.id \in Nat /\ (\E r \in ledger : Key(r) = k)
<1>1. PICK e \in index : k = e.to
  BY DEF Under
<1>2. PICK r \in ledger : Key(r) = k
  BY <1>1 DEF StoreInv
<1>3. r.id \in Nat /\ k.id = r.id
  BY <1>2, RecordsAssumption DEF StoreInv, Key
<1> QED BY <1>2, <1>3

\* What a payment may be matched with is free, numbered and stored.
LEMMA TargetsAreStored ==
  ASSUME StoreInv, NEW p, NEW taken, NEW k \in Targets(p, taken)
  PROVE  /\ k \notin taken /\ k.id \in Nat
         /\ \E r \in ledger : Key(r) = k
<1>1. k \notin taken
  BY DEF Targets, Available, AvailableSettlements, Free
<1>2. \E by, kind : k \in Under(by, kind)
  BY DEF Targets, Available, AvailableSettlements, Free
<1> QED BY <1>1, <1>2, KeysUnder

\* The target of an order is a stored record that no match has taken.
LEMMA TargetIsFree ==
  ASSUME StoreInv, NEW p, NEW taken, Targets(p, taken) # {}
  PROVE  LET t == Get(First(Targets(p, taken)))
         IN  /\ t \in ledger /\ Key(t) \in Targets(p, taken)
             /\ Key(t) \notin taken
<1>1. First(Targets(p, taken)) \in Targets(p, taken)
  BY TargetsAreStored, FirstIsOne
<1>2. /\ Get(First(Targets(p, taken))) \in ledger
      /\ Key(Get(First(Targets(p, taken)))) = First(Targets(p, taken))
  BY <1>1, TargetsAreStored, GetFinds
<1> QED BY <1>1, <1>2, TargetsAreStored

(* reconcile_order refuses with one exception in the payment's name, or    *)
(* compares it with the first of its targets and returns the match.        *)
LEMMA AnswerIsOne ==
  ASSUME NEW p, NEW taken
  PROVE  \/ /\ Answer(p, taken).match = <<>>
            /\ \E e : /\ Answer(p, taken).exception = <<e>>
                     /\ e.payment = Key(p)
         \/ /\ Targets(p, taken) # {}
            /\ Answer(p, taken)
                 = Matched(p, Get(First(Targets(p, taken))))
<1>1. ASSUME NEW a, NEW findings
      PROVE  /\ Refused(p, findings, a).match = <<>>
             /\ \E e : /\ Refused(p, findings, a).exception = <<e>>
                      /\ e.payment = Key(p)
  <2> DEFINE types == [i \in DOMAIN findings |-> findings[i].type]
             e == Exception(findings[1].type, a, Key(p), findings[1].related,
                            types)
  <2>1. Refused(p, findings, a) = [match |-> <<>>, exception |-> <<e>>]
    BY DEF Refused
  <2> HIDE DEF types
  <2>2. e.payment = Key(p)
    BY DEF Exception
  <2> HIDE DEF e
  <2> QED BY <2>1, <2>2
<1>2. ASSUME NEW related
      PROVE  /\ PostedTwice(p, related).match = <<>>
             /\ \E e : /\ PostedTwice(p, related).exception = <<e>>
                      /\ e.payment = Key(p)
  BY DEF PostedTwice, Exception
<1>3. ASSUME NEW t, NEW before
      PROVE  \/ \E a, findings : Compared(p, t, before) = Refused(p, findings, a)
             \/ Compared(p, t, before) = Matched(p, t)
  BY DEF Compared
<1>4. \/ \E a, findings : Answer(p, taken) = Refused(p, findings, a)
      \/ \E related : Answer(p, taken) = PostedTwice(p, related)
      \/ /\ Targets(p, taken) # {}
         /\ \E before :
              Answer(p, taken)
                = Compared(p, Get(First(Targets(p, taken))), before)
  BY DEF Answer
<1> QED BY <1>1, <1>2, <1>3, <1>4

\* reconcile_order returns no match, or one with a free target.
LEMMA AnswerMatchesFree ==
  ASSUME StoreInv, NEW p, NEW taken
  PROVE  \/ Answer(p, taken).match = <<>>
         \/ \E m : Answer(p, taken).match = <<m>> /\ m.target \notin taken
<1>1. \A t : \E m : Matched(p, t).match = <<m>> /\ m.target = Key(t)
  BY DEF Matched
<1> QED BY <1>1, AnswerIsOne, TargetIsFree

-----------------------------------------------------------------------------
\* Storing a record, whole or in part, leads the index nowhere else.
LEMMA PutKeepsStore ==
  ASSUME StoreInv, NEW r \in Records, PutRecord(r) \/ PutPrimaryOnly(r)
  PROVE  StoreInv'
<1>1. ledger' = {s \in ledger : Key(s) # Key(r)} \cup {r}
  BY DEF PutRecord, PutPrimaryOnly
<1>2. ledger' \subseteq Records
  BY <1>1 DEF StoreInv
<1>3. \A e \in IndexEntries(r) : e.to = Key(r)
  BY DEF IndexEntries
<1>4. index' \subseteq index \cup IndexEntries(r)
  BY DEF PutRecord, PutPrimaryOnly
<1>5. ASSUME NEW e \in index' PROVE \E s \in ledger' : Key(s) = e.to
  <2>1. CASE e.to = Key(r)
    BY <1>1, <2>1
  <2>2. CASE e.to # Key(r)
    <3>1. PICK s \in ledger : Key(s) = e.to
      BY <1>3, <1>4, <1>5, <2>2 DEF StoreInv
    <3> QED BY <1>1, <2>2, <3>1
  <2> QED BY <2>1, <2>2
<1> QED BY <1>2, <1>5 DEF StoreInv

\* A match adds its target to the locked ones, and it was not among them.
LEMMA OrderKeepsConsumed ==
  ASSUME MInv, NEW p, ReconcileOrder(p)
  PROVE  ConsumedInv'
<1> DEFINE found == Answer(p, consumed).match
<1>1. consumed' = Consume(Answer(p, consumed)) /\ matches' = matches \o found
  BY DEF ReconcileOrder
<1>2. IsSequence(matches) /\ MatchesAreOneToOne
  BY DEF MInv, ConsumedInv
<1>3. CASE found = <<>>
  <2>1. matches' = matches
    BY <1>1, <1>2, <1>3 DEF IsSequence
  <2>2. consumed' = consumed
    BY <1>1, <1>3 DEF Consume, ToSet
  <2> QED BY <1>2, <2>1, <2>2 DEF ConsumedInv, MatchesAreOneToOne, IsSequence, ToSet
<1>4. ASSUME NEW m, found = <<m>>, m.target \notin consumed
      PROVE  ConsumedInv'
  <2> DEFINE n == Len(matches)
  <2>1. /\ n \in Nat /\ DOMAIN matches = 1 .. n
        /\ matches' = matches \o <<m>>
    BY <1>1, <1>2, <1>4 DEF IsSequence
  <2>2. IsSequence(<<m>>)
    BY SequenceOfItsElements, <<m>> \in Seq({m})
  <2>3. IsSequence(matches')
    BY <1>2, <2>1, <2>2, ElementsOfConcat
  <2>4. /\ DOMAIN matches' = 1 .. n + 1
        /\ \A i \in 1 .. n : matches'[i] = matches[i]
        /\ matches'[n + 1] = m
    BY <1>2, <2>1 DEF IsSequence
  <2>5. consumed' = consumed \cup {m.target}
    BY <1>1, <1>4 DEF Consume, ToSet
  <2>6. consumed = {matches[i].target : i \in 1 .. n}
    BY <1>2, <2>1 DEF MatchesAreOneToOne
  <2> HIDE DEF n
  <2>7. consumed' = {matches'[i].target : i \in 1 .. n + 1}
    <3>1. 1 .. n + 1 = (1 .. n) \cup {n + 1}
      BY <2>1
    <3> QED BY <2>4, <2>5, <2>6, <3>1
  <2>8. ASSUME NEW i \in 1 .. n + 1, NEW j \in 1 .. n + 1,
               matches'[i].target = matches'[j].target
        PROVE  i = j
    <3>1. CASE i \in 1 .. n /\ j \in 1 .. n
      BY <1>2, <2>1, <2>4, <2>8, <3>1 DEF MatchesAreOneToOne
    <3>2. CASE i = n + 1 /\ j \in 1 .. n
      BY <1>4, <2>4, <2>6, <2>8, <3>2
    <3>3. CASE i \in 1 .. n /\ j = n + 1
      BY <1>4, <2>4, <2>6, <2>8, <3>3
    <3> QED BY <2>1, <3>1, <3>2, <3>3
  <2> QED BY <2>3, <2>4, <2>7, <2>8 DEF ConsumedInv, MatchesAreOneToOne
<1> QED BY <1>3, <1>4, AnswerMatchesFree DEF MInv

\* reset_state empties both sides.
LEMMA ResetIsConsumed ==
  ASSUME consumed' = {}, matches' = <<>>
  PROVE  ConsumedInv'
<1>1. IsSequence(<<>>)
  BY SequenceOfItsElements, <<>> \in Seq({})
<1>2. DOMAIN matches' = {}
  OBVIOUS
<1> QED BY <1>1, <1>2 DEF ConsumedInv, MatchesAreOneToOne

\* What touches neither side keeps both.
LEMMA OthersAreConsumed ==
  ASSUME MInv, UNCHANGED <<consumed, matches>>
  PROVE  ConsumedInv'
BY DEF MInv, ConsumedInv, MatchesAreOneToOne, IsSequence, ToSet

\* What leaves records and index alone keeps the store.
LEMMA StoreStays ==
  ASSUME MInv, UNCHANGED <<ledger, index>>
  PROVE  StoreInv'
BY DEF MInv, StoreInv

\* A new engine on an empty ledger.
LEMMA StartsMatching ==
  ASSUME Init PROVE MInv
<1>1. ledger = {} /\ index = {} /\ consumed = {} /\ matches = <<>>
  BY DEF Init, NewEngine
<1>2. IsSequence(<<>>)
  BY SequenceOfItsElements, <<>> \in Seq({})
<1>3. DOMAIN matches = {}
  BY <1>1
<1> QED BY <1>1, <1>2, <1>3 DEF MInv, StoreInv, ConsumedInv, MatchesAreOneToOne

\* Every step keeps the two invariants.
LEMMA StepKeepsMatching ==
  ASSUME MInv, [Next]_vars
  PROVE  StoreInv' /\ ConsumedInv'
<1> USE DEF stored, engine
<1>1. ASSUME NEW r \in Records, Store(r) PROVE StoreInv' /\ ConsumedInv'
  BY <1>1, PutKeepsStore, OthersAreConsumed DEF Store, MInv
<1>2. ASSUME NEW r \in Records, StoreInterrupted(r)
      PROVE  StoreInv' /\ ConsumedInv'
  BY <1>2, PutKeepsStore, ResetIsConsumed DEF StoreInterrupted, MInv
<1>3. ASSUME NEW policy \in Policies, RegisterPolicy(policy)
      PROVE  StoreInv' /\ ConsumedInv'
  BY <1>3, StoreStays, OthersAreConsumed DEF RegisterPolicy
<1>4. ASSUME NEW p, ReconcileOrder(p) PROVE StoreInv' /\ ConsumedInv'
  <2>1. UNCHANGED <<ledger, index>>
    BY <1>4 DEF ReconcileOrder
  <2> QED BY <1>4, <2>1, StoreStays, OrderKeepsConsumed
<1>5. ASSUME NEW p \in Of("PAYMENT"), SingleOrder(p)
      PROVE  StoreInv' /\ ConsumedInv'
  BY <1>4, <1>5 DEF SingleOrder
<1>6. ASSUME NEW list, Begin(list) PROVE StoreInv' /\ ConsumedInv'
  BY <1>6, StoreStays, ResetIsConsumed DEF Begin
<1>7. CASE NextOrder
  BY <1>4, <1>7 DEF NextOrder
<1>8. CASE OrdersDone
  BY <1>8, StoreStays, OthersAreConsumed DEF OrdersDone
<1>9. CASE NextProcessor
  BY <1>9, StoreStays, OthersAreConsumed DEF NextProcessor
<1>10. CASE ProcessorsDone
  BY <1>10, StoreStays, OthersAreConsumed DEF ProcessorsDone
<1>11. CASE NextBatch
  BY <1>11, StoreStays, OthersAreConsumed DEF NextBatch
<1>12. CASE Finish
  BY <1>12, StoreStays, OthersAreConsumed DEF Finish
<1>13. CASE UNCHANGED vars
  BY <1>13, StoreStays, OthersAreConsumed DEF vars
<1> QED
  BY <1>1, <1>2, <1>3, <1>5, <1>6, <1>7, <1>8, <1>9, <1>10, <1>11, <1>12,
     <1>13 DEF Next

-----------------------------------------------------------------------------
\* A list of the caller holds each element of the set.
LEMMA ListsAll ==
  ASSUME NEW S, IsFiniteSet(S), NEW s \in SetToSeqs(S)
  PROVE  IsSequence(s) /\ ToSet(s) = S
<1> DEFINE n == Cardinality(S)
<1>1. n \in Nat /\ IsFiniteSet(1 .. n) /\ Cardinality(1 .. n) = n
  BY FS_CardinalityType, FS_Interval
<1>2. s \in Injection(1 .. n, S)
  BY DEF SetToSeqs, Injection, IsInjective
<1>3. s \in Surjection(1 .. n, S)
  BY <1>1, <1>2, FS_Injection
<1>4. s \in [1 .. n -> S] /\ \A x \in S : \E i \in 1 .. n : s[i] = x
  BY <1>3 DEF Surjection
<1>5. s \in Seq(S)
  BY <1>1, <1>4, SeqDef
<1>6. ToSet(s) = S
  BY <1>4 DEF ToSet
<1> QED BY <1>5, <1>6, SequenceOfItsElements

\* The keys stored under a kind, and the payments refused since the reset.
KeysOf(kind) == {Key(r) : r \in Of(kind)}
RefusedSoFar == {e.payment : e \in ToSet(exceptions)}

\* A payment was refused, or no charge of its order is left.
Resolved(p, refused, used) ==
  \/ Key(p) \in refused
  \/ Under(OrderRef(p.order), "PROCESSOR") \subseteq used

\* A charge was matched, or reported, or belongs to an order with payments.
Accounted(q, refused, used) ==
  \/ Key(q) \in used \cup refused
  \/ Under(OrderRef(q.order), "PAYMENT") # {}

\* No match has taken one of two charges of the same order.
SparesDuplicates(used) ==
  CleanIndex =>
    \A q, r \in Of("PROCESSOR") :
      (q # r /\ q.order = r.order) => Key(q) \notin used

\* The records put_record has stored: finitely many, one for each key.
LedgerInv ==
  /\ IsFiniteSet(ledger)
  /\ \A r, s \in ledger : Key(r) = Key(s) => r = s
  /\ \A e \in index : \E r \in Records : e \in IndexEntries(r)

\* The kind of records each stage of reconcile_all walks.
Walked == [orders |-> "PAYMENT", processors |-> "PROCESSOR", batches |-> "BATCH"]

(* reconcile_all under way: what is behind it is settled or accounted for, *)
(* and what is not is still in the queue.                                  *)
RunInv ==
  /\ IsSequence(queue) /\ IsSequence(exceptions)
  /\ stage \in {"idle"} \cup DOMAIN Walked
  /\ stage # "idle" =>
       /\ ToSet(queue) \subseteq KeysOf(Walked[stage])
       /\ SparesDuplicates(consumed)
       /\ \A p \in Of("PAYMENT") :
            \/ stage = "orders" /\ Key(p) \in ToSet(queue)
            \/ Resolved(p, RefusedSoFar, consumed)
  /\ stage \in {"processors", "batches"} =>
       \A q \in Of("PROCESSOR") :
         \/ stage = "processors" /\ Key(q) \in ToSet(queue)
         \/ Accounted(q, RefusedSoFar, consumed)

\* The finished run on this ledger.
ReportInv ==
  lastRun # NoRun =>
    /\ SparesDuplicates(Used(lastRun))
    /\ \A p \in Of("PAYMENT") : Resolved(p, Refusals(lastRun), Used(lastRun))
    /\ \A q \in Of("PROCESSOR") : Accounted(q, Refusals(lastRun), Used(lastRun))

-----------------------------------------------------------------------------
\* The keys of all stored records.
Stored == {Key(r) : r \in ledger}

\* There are as many keys as stored records, and a key is its kind and number.
LEMMA KeysAreFinite ==
  ASSUME StoreInv, LedgerInv
  PROVE  /\ IsFiniteSet(Stored)
         /\ \A k \in Stored : k.id \in Nat
         /\ \A j, k \in Stored : (j.kind = k.kind /\ j.id = k.id) => j = k
<1> DEFINE key == [r \in ledger |-> Key(r)]
<1>1. key \in Surjection(ledger, Stored)
  BY DEF Stored, Surjection
<1>2. IsFiniteSet(Stored)
  BY <1>1, FS_Surjection DEF LedgerInv
<1>3. \A k \in Stored : k.id \in Nat
  BY RecordsAssumption DEF Stored, StoreInv, Key
<1>4. \A j, k \in Stored : (j.kind = k.kind /\ j.id = k.id) => j = k
  BY DEF Stored, Key
<1> QED BY <1>2, <1>3, <1>4

\* A record is found under its key.
LEMMA GetKey ==
  ASSUME LedgerInv, NEW r \in ledger
  PROVE  Get(Key(r)) = r
BY GetFinds DEF LedgerInv

\* Listing stored keys of one kind lists exactly those.
LEMMA ListedStored ==
  ASSUME StoreInv, LedgerInv, NEW kind, NEW keys, keys \subseteq Stored,
         \A k \in keys : k.kind = kind
  PROVE  IsSequence(Listed(keys)) /\ ToSet(Listed(keys)) = keys
<1>1. IsFiniteSet(keys)
  BY KeysAreFinite, FS_Subset
<1>2. \A k \in keys : k.id \in Nat
  BY KeysAreFinite
<1>3. \A j, k \in keys : j.id = k.id => j = k
  BY KeysAreFinite
<1> QED BY <1>1, <1>2, <1>3, ListedEnumerates

\* Scans and lookups enumerate what is stored and indexed.
LEMMA ScanEnumerates ==
  ASSUME StoreInv, LedgerInv, NEW kind
  PROVE  IsSequence(Scan(kind)) /\ ToSet(Scan(kind)) = KeysOf(kind)
<1>1. KeysOf(kind) \subseteq Stored /\ \A k \in KeysOf(kind) : k.kind = kind
  BY DEF KeysOf, Of, Stored, Key
<1> QED BY <1>1, ListedStored DEF Scan, KeysOf

\* So do the lookups of an index entry, of which there are finitely many.
LEMMA EntriesEnumerate ==
  ASSUME StoreInv, LedgerInv, NEW by, NEW kind
  PROVE  /\ IsSequence(Entries(by, kind))
         /\ ToSet(Entries(by, kind)) = Under(by, kind)
         /\ IsFiniteSet(Under(by, kind))
         /\ Under(by, kind) \subseteq Stored
<1>1. Under(by, kind) \subseteq Stored /\ \A k \in Under(by, kind) : k.kind = kind
  BY DEF Under, Stored, StoreInv
<1>2. IsFiniteSet(Under(by, kind))
  BY <1>1, KeysAreFinite, FS_Subset
<1> QED BY <1>1, <1>2, ListedStored DEF Entries

\* Nothing is listed only where there is nothing.
LEMMA NoEntries ==
  ASSUME StoreInv, LedgerInv, NEW by, NEW kind
  PROVE  Entries(by, kind) = <<>> <=> Under(by, kind) = {}
<1>1. ToSet(<<>>) = {}
  BY DEF ToSet
<1>2. ASSUME Under(by, kind) = {} PROVE Entries(by, kind) = <<>>
  <2>1. Entries(by, kind) \in Seq({})
    BY <1>2, EntriesEnumerate DEF IsSequence
  <2> QED BY <2>1
<1> QED BY <1>1, <1>2, EntriesEnumerate

-----------------------------------------------------------------------------
\* A concatenation is empty only if both parts are.
LEMMA EmptyParts ==
  ASSUME NEW s, IsSequence(s), NEW t, IsSequence(t)
  PROVE  s \o t = <<>> => (s = <<>> /\ t = <<>>)
<1> DEFINE S == ToSet(s) \cup ToSet(t)
<1>1. s \in Seq(S) /\ t \in Seq(S)
  BY DEF IsSequence
<1> HIDE DEF S
<1> QED BY <1>1, ConcatEqualIffEmpty

\* The findings of one step of reconcile_order are none or one.
LEMMA FindingsAreSequences ==
  /\ IsSequence(<<>>)
  /\ \A x : IsSequence(<<x>>)
  /\ \A c, x : IsSequence(When(c, x))
  /\ \A p : IsSequence(RefundFindings(p)) /\ IsSequence(InvoiceFindings(p))
  /\ \A p, t : IsSequence(FeeFindings(p, t))
<1>1. IsSequence(<<>>)
  BY SequenceOfItsElements, <<>> \in Seq({})
<1>2. ASSUME NEW x PROVE IsSequence(<<x>>)
  BY SequenceOfItsElements, <<x>> \in Seq({x})
<1>3. ASSUME NEW c, NEW x PROVE When(c, x) = <<>> \/ When(c, x) = <<x>>
  BY DEF When
<1>4. ASSUME NEW p
      PROVE  RefundFindings(p) = <<>> \/ \E x : RefundFindings(p) = <<x>>
  BY DEF RefundFindings
<1>5. ASSUME NEW p
      PROVE  InvoiceFindings(p) = <<>> \/ \E x : InvoiceFindings(p) = <<x>>
  BY <1>3 DEF InvoiceFindings
<1>6. ASSUME NEW p, NEW t
      PROVE  FeeFindings(p, t) = <<>> \/ \E x : FeeFindings(p, t) = <<x>>
  BY <1>3 DEF FeeFindings
<1> QED BY <1>1, <1>2, <1>3, <1>4, <1>5, <1>6

(* A match has a strategy, is never made where more than one free charge   *)
(* was in sight, and outside BANK_GL not for an order posted twice.        *)
LEMMA MatchIsFitting ==
  ASSUME NEW p, NEW taken, Answer(p, taken).match # <<>>
  PROVE  /\ Strategy(p, Get(First(Targets(p, taken)))) # "NONE"
         /\ ~(Cardinality(Available(p, taken)) > 1)
         /\ rules.topology # "BANK_GL"
              => ~(Len(Entries(OrderRef(p.order), "PAYMENT")) > 1)
<1> DEFINE t == Get(First(Targets(p, taken)))
           duplicate == [type |-> "DUPLICATE_PROCESSOR",
                         related |-> PrimaryKeys(
                           Entries(OrderRef(p.order), "PROCESSOR"))]
           several == When(Cardinality(Available(p, taken)) > 1, duplicate)
           before == RefundFindings(p) \o InvoiceFindings(p) \o several
           other == When(p.currency # t.currency,
                         Finding("CURRENCY_MISMATCH", Key(t), p))
           unlike == When(Strategy(p, t) = "NONE",
                          Finding("AMOUNT_MISMATCH", Key(t), p))
           fees == FeeFindings(p, t)
           twice == Len(Entries(OrderRef(p.order), "PAYMENT")) > 1
<1>1. \A f, a : Refused(p, f, a).match = <<>>
  BY DEF Refused
<1>2. \A f : PostedTwice(p, f).match = <<>>
  BY DEF PostedTwice
<1>3. /\ Answer(p, taken) = Compared(p, t, before)
      /\ ~(twice /\ rules.topology # "BANK_GL")
  BY <1>1, <1>2 DEF Answer
<1>4. before \o other \o unlike \o fees = <<>>
  BY <1>1, <1>3 DEF Compared
<1>5. /\ IsSequence(several) /\ IsSequence(other) /\ IsSequence(unlike)
      /\ IsSequence(fees)
  BY FindingsAreSequences
<1>6. /\ IsSequence(RefundFindings(p) \o InvoiceFindings(p))
      /\ IsSequence(before)
  BY <1>5, FindingsAreSequences, ElementsOfConcat
<1>7. several = <<>> /\ unlike = <<>>
  <2> HIDE DEF several, other, unlike, fees
  <2>1. IsSequence(before \o other) /\ IsSequence(before \o other \o unlike)
    <3> HIDE DEF before
    <3> QED BY <1>5, <1>6, ElementsOfConcat
  <2>2. before = <<>> /\ unlike = <<>>
    <3> HIDE DEF before
    <3> QED BY <1>4, <1>5, <1>6, <2>1, EmptyParts
  <2> QED BY <1>5, <1>6, <2>2, EmptyParts
<1>8. \A c, x : When(c, x) = <<>> => ~c
  BY DEF When
<1> QED BY <1>3, <1>7, <1>8

\* Two elements are more than one.
LEMMA TwoAreMore ==
  ASSUME NEW S, IsFiniteSet(S), NEW a \in S, NEW b \in S, a # b
  PROVE  Cardinality(S) > 1
<1>1. Cardinality(S) \in Nat
  BY FS_CardinalityType
<1>2. Cardinality(S) # 0
  BY FS_EmptySet
<1>3. Cardinality(S) # 1
  BY FS_Singleton
<1> QED BY <1>1, <1>2, <1>3

\* A match leaves no charge of its order to anybody.
LEMMA MatchTakesAllCharges ==
  ASSUME StoreInv, LedgerInv, NEW p, NEW taken, Answer(p, taken).match # <<>>
  PROVE  Under(OrderRef(p.order), "PROCESSOR")
           \subseteq taken \cup {Key(Get(First(Targets(p, taken))))}
<1> DEFINE t == Get(First(Targets(p, taken)))
<1>1. Targets(p, taken) # {}
  BY AnswerIsOne
<1>2. Key(t) \in Targets(p, taken)
  BY <1>1, TargetIsFree
<1>3. IsFiniteSet(Available(p, taken))
  BY EntriesEnumerate, FS_Difference DEF Available, Free
<1>4. SUFFICES ASSUME NEW k \in Available(p, taken) PROVE k = Key(t)
  BY DEF Available, Free
<1>5. Key(t) \in Available(p, taken)
  BY <1>2, <1>4 DEF Targets
<1> QED BY <1>3, <1>5, MatchIsFitting, TwoAreMore

\* What consuming an answer adds: nothing, or the one target.
LEMMA AnswerConsumes ==
  ASSUME NEW p, NEW taken
  PROVE  \/ /\ Answer(p, taken).match = <<>>
            /\ {m.target : m \in ToSet(Answer(p, taken).match)} = {}
         \/ /\ Answer(p, taken).match # <<>>
            /\ Answer(p, taken).exception = <<>>
            /\ {m.target : m \in ToSet(Answer(p, taken).match)}
                 = {Key(Get(First(Targets(p, taken))))}
<1>1. CASE Answer(p, taken).match = <<>>
  BY <1>1 DEF ToSet
<1>2. ASSUME NEW t, Answer(p, taken) = Matched(p, t)
      PROVE  /\ Answer(p, taken).match # <<>>
             /\ Answer(p, taken).exception = <<>>
             /\ {m.target : m \in ToSet(Answer(p, taken).match)} = {Key(t)}
  <2> DEFINE given == p.partial = "true"
             m == [payment |-> Key(p), target |-> Key(t),
                   strategy |-> Strategy(p, t), partial |-> given]
  <2>1. Matched(p, t) = [match |-> <<m>>, exception |-> <<>>]
    BY DEF Matched
  <2> HIDE DEF given
  <2>2. m.target = Key(t)
    OBVIOUS
  <2> HIDE DEF m
  <2>3. ToSet(<<m>>) = {m}
    BY DEF ToSet
  <2>4. Answer(p, taken).match = <<m>> /\ Answer(p, taken).exception = <<>>
    BY <1>2, <2>1
  <2> QED BY <2>2, <2>3, <2>4
<1> QED BY <1>1, <1>2, AnswerIsOne

\* A payment once evaluated is settled, and stays so.
LEMMA OrderSettles ==
  ASSUME StoreInv, LedgerInv, IsSequence(exceptions), NEW p, ReconcileOrder(p)
  PROVE  /\ IsSequence(exceptions')
         /\ consumed \subseteq consumed'
         /\ RefusedSoFar \subseteq RefusedSoFar'
         /\ Resolved(p, RefusedSoFar', consumed')
<1> DEFINE answer == Answer(p, consumed)
<1>1. /\ consumed' = consumed \cup {m.target : m \in ToSet(answer.match)}
      /\ exceptions' = exceptions \o answer.exception
  BY DEF ReconcileOrder, Consume
<1>2. \/ answer.exception = <<>> /\ answer.match # <<>>
      \/ \E e : answer.exception = <<e>> /\ e.payment = Key(p)
  <2> CASE answer.match = <<>>
    <3>1. ASSUME answer = Matched(p, Get(First(Targets(p, consumed))))
          PROVE  FALSE
      BY <3>1 DEF Matched
    <3> QED BY <3>1, AnswerIsOne
  <2> CASE answer.match # <<>>
    BY AnswerConsumes
  <2> QED OBVIOUS
<1>3. IsSequence(answer.exception)
  BY <1>2, FindingsAreSequences
<1>4. /\ IsSequence(exceptions')
      /\ ToSet(exceptions') = ToSet(exceptions) \cup ToSet(answer.exception)
  BY <1>1, <1>3, ElementsOfConcat
<1>5. Resolved(p, RefusedSoFar', consumed')
  <2>1. ASSUME NEW e, answer.exception = <<e>>, e.payment = Key(p)
        PROVE  Resolved(p, RefusedSoFar', consumed')
    <3>1. e \in ToSet(answer.exception)
      BY <2>1 DEF ToSet
    <3> QED BY <1>4, <2>1, <3>1 DEF Resolved, RefusedSoFar
  <2>2. CASE answer.match # <<>>
    BY <1>1, <2>2, MatchTakesAllCharges, AnswerConsumes DEF Resolved
  <2> QED BY <1>2, <2>1, <2>2
<1> QED BY <1>1, <1>4, <1>5 DEF RefusedSoFar

\* Whose index entry leads to a record, once no entry is outdated.
LEMMA CleanEntries ==
  ASSUME StoreInv, LedgerInv, CleanIndex, NEW by, NEW kind,
         NEW r \in ledger, r.kind = kind
  PROVE  Key(r) \in Under(by, kind) <=> [by |-> by, to |-> Key(r)] \in IndexEntries(r)
<1>1. \A e \in index : e.to = Key(r) => e \in IndexEntries(r)
  BY GetKey DEF CleanIndex, Stale
<1>2. ASSUME NEW e \in IndexEntries(r)
      PROVE  e \in index /\ e.to = Key(r) /\ e = [by |-> e.by, to |-> Key(r)]
  BY DEF CleanIndex, Indexed, IndexEntries
<1>3. Key(r).kind = kind
  BY DEF Key
<1>4. ASSUME Key(r) \in Under(by, kind)
      PROVE  [by |-> by, to |-> Key(r)] \in IndexEntries(r)
  <2>1. PICK e \in index : e.by = by /\ e.to = Key(r)
    BY <1>4 DEF Under
  <2> QED BY <1>1, <1>2, <2>1
<1>5. ASSUME [by |-> by, to |-> Key(r)] \in IndexEntries(r)
      PROVE  Key(r) \in Under(by, kind)
  BY <1>2, <1>3, <1>5 DEF Under
<1> QED BY <1>4, <1>5

\* The charges of an order, under the same condition.
LEMMA CleanCharges ==
  ASSUME StoreInv, LedgerInv, CleanIndex, NEW q \in Of("PROCESSOR"), NEW o
  PROVE  Key(q) \in Under(OrderRef(o), "PROCESSOR") <=> q.order = o
<1>1. q \in ledger /\ q.kind = "PROCESSOR"
  BY DEF Of
<1>2. IndexEntries(q) = {[by |-> OrderRef(q.order), to |-> Key(q)]}
  BY <1>1 DEF IndexEntries
<1>3. [by |-> OrderRef(o), to |-> Key(q)] \in IndexEntries(q) <=> q.order = o
  BY <1>2 DEF OrderRef
<1> QED BY <1>1, <1>3, CleanEntries

\* A match takes neither of two charges of one order.
LEMMA MatchSparesDuplicates ==
  ASSUME StoreInv, LedgerInv, NEW p, NEW taken, SparesDuplicates(taken),
         Answer(p, taken).match # <<>>
  PROVE  SparesDuplicates(taken \cup {Key(Get(First(Targets(p, taken))))})
<1> DEFINE t == Get(First(Targets(p, taken)))
<1> SUFFICES ASSUME CleanIndex, NEW q \in Of("PROCESSOR"), NEW r \in Of("PROCESSOR"),
                    q # r, q.order = r.order
             PROVE  Key(q) \notin taken \cup {Key(t)}
  BY DEF SparesDuplicates
<1>1. Key(q) \notin taken /\ Key(r) \notin taken
  BY DEF SparesDuplicates
<1>2. SUFFICES ASSUME Key(q) = Key(t) PROVE FALSE
  BY <1>1
<1>3. Key(t) \in Targets(p, taken)
  BY AnswerIsOne, TargetIsFree
<1>4. Key(q).kind = "PROCESSOR"
  BY DEF Of, Key
<1>5. Key(q) \in Available(p, taken)
  BY <1>2, <1>3, <1>4 DEF Targets, AvailableSettlements, Free, Under
<1>6. q.order = p.order
  BY <1>5, CleanCharges DEF Available, Free
<1>7. Key(r) \in Available(p, taken)
  BY <1>1, <1>6, CleanCharges DEF Available, Free
<1>8. Key(q) # Key(r)
  BY DEF LedgerInv, Of
<1>9. IsFiniteSet(Available(p, taken))
  BY EntriesEnumerate, FS_Difference DEF Available, Free
<1> QED BY <1>5, <1>7, <1>8, <1>9, TwoAreMore, MatchIsFitting

\* So an order evaluated spares them.
LEMMA OrderSparesDuplicates ==
  ASSUME StoreInv, LedgerInv, SparesDuplicates(consumed), NEW p, ReconcileOrder(p)
  PROVE  SparesDuplicates(consumed')
<1>1. consumed' = consumed \cup {m.target : m \in ToSet(Answer(p, consumed).match)}
  BY DEF ReconcileOrder, Consume
<1>2. CASE Answer(p, consumed).match = <<>>
  <2>1. consumed' = consumed
    BY <1>1, <1>2, AnswerConsumes
  <2> QED BY <2>1
<1>3. CASE Answer(p, consumed).match # <<>>
  <2>1. consumed' = consumed \cup {Key(Get(First(Targets(p, consumed))))}
    BY <1>1, <1>3, AnswerConsumes
  <2>2. SparesDuplicates(consumed \cup {Key(Get(First(Targets(p, consumed))))})
    BY <1>3, MatchSparesDuplicates
  <2> QED BY <2>1, <2>2
<1> QED BY <1>2, <1>3

\* The invariant of the ledger, the matches, the run and the report.
AllInv == MInv /\ LedgerInv /\ RunInv /\ ReportInv

\* What the three conditions say in the next state, when the ledger is the same.
LEMMA SameLedger ==
  ASSUME ledger' = ledger, index' = index
  PROVE  /\ SparesDuplicates(consumed)' <=> SparesDuplicates(consumed')
         /\ SparesDuplicates(Used(lastRun))' <=> SparesDuplicates(Used(lastRun'))
         /\ \A p : Resolved(p, RefusedSoFar, consumed)'
                     <=> Resolved(p, RefusedSoFar', consumed')
         /\ \A p : Resolved(p, Refusals(lastRun), Used(lastRun))'
                     <=> Resolved(p, Refusals(lastRun'), Used(lastRun'))
         /\ \A q : Accounted(q, RefusedSoFar, consumed)'
                     <=> Accounted(q, RefusedSoFar', consumed')
         /\ \A q : Accounted(q, Refusals(lastRun), Used(lastRun))'
                     <=> Accounted(q, Refusals(lastRun'), Used(lastRun'))
         /\ \A kind : Of(kind)' = Of(kind) /\ KeysOf(kind)' = KeysOf(kind)
<1>1. \A by, kind : Under(by, kind)' = Under(by, kind)
  BY DEF Under
<1>2. \A kind : Of(kind)' = Of(kind)
  BY DEF Of
<1>3. CleanIndex' = CleanIndex
  BY DEF CleanIndex, Indexed, Stale, Get
<1> QED BY <1>1, <1>2, <1>3 DEF SparesDuplicates, Resolved, Accounted, KeysOf

\* put_record keeps one record for each key, and entries of known records.
LEMMA PutKeepsLedger ==
  ASSUME StoreInv, LedgerInv, NEW r \in Records, PutRecord(r) \/ PutPrimaryOnly(r)
  PROVE  LedgerInv'
<1>1. /\ ledger' = {s \in ledger : Key(s) # Key(r)} \cup {r}
      /\ index' \subseteq index \cup IndexEntries(r)
  BY DEF PutRecord, PutPrimaryOnly
<1>2. IsFiniteSet({s \in ledger : Key(s) # Key(r)})
  BY FS_Subset DEF LedgerInv
<1>3. IsFiniteSet(ledger')
  BY <1>1, <1>2, FS_AddElement
<1> QED BY <1>1, <1>3 DEF LedgerInv

\* While no run is under way nothing is said of one.
LEMMA IdleRun ==
  ASSUME stage' = "idle", IsSequence(queue'), IsSequence(exceptions')
  PROVE  RunInv'
BY DEF RunInv, IsSequence, ToSet

\* Nor of a report when there is none.
LEMMA NoReport ==
  ASSUME lastRun' = NoRun
  PROVE  ReportInv'
BY DEF ReportInv

\* A report stays true while the ledger stays.
LEMMA ReportStays ==
  ASSUME ReportInv, UNCHANGED <<ledger, index, lastRun>>
  PROVE  ReportInv'
BY SameLedger DEF ReportInv, Of

\* A single call between runs.
LEMMA SingleOrderKeepsRun ==
  ASSUME AllInv, NEW p, SingleOrder(p)
  PROVE  LedgerInv' /\ RunInv' /\ ReportInv'
<1>1. UNCHANGED <<ledger, index, lastRun, stage, queue>> /\ stage = "idle"
  BY DEF SingleOrder, ReconcileOrder, stored
<1>2. IsSequence(exceptions')
  BY OrderSettles DEF AllInv, MInv, SingleOrder, RunInv
<1>3. IsSequence(queue')
  BY <1>1 DEF AllInv, RunInv
<1>4. LedgerInv'
  BY <1>1 DEF AllInv, LedgerInv
<1> QED BY <1>1, <1>2, <1>3, <1>4, IdleRun, ReportStays DEF AllInv

\* A run begins with every payment in the queue and nothing consumed.
LEMMA BeginKeepsRun ==
  ASSUME AllInv, NEW list \in SetToSeqs(KeysOf("PAYMENT")), Begin(list)
  PROVE  LedgerInv' /\ RunInv' /\ ReportInv'
<1>1. /\ UNCHANGED <<ledger, index, lastRun>>
      /\ stage' = "orders" /\ queue' = list
      /\ consumed' = {} /\ exceptions' = <<>>
  BY DEF Begin, stored
<1>2. IsFiniteSet(KeysOf("PAYMENT"))
  <2>1. KeysOf("PAYMENT") \subseteq Stored
    BY DEF KeysOf, Of, Stored
  <2> QED BY <2>1, KeysAreFinite, FS_Subset DEF AllInv, MInv
<1>3. IsSequence(list) /\ ToSet(list) = KeysOf("PAYMENT")
  BY <1>2, ListsAll
<1>4. IsSequence(queue') /\ IsSequence(exceptions')
  BY <1>1, <1>3, FindingsAreSequences
<1>5. ToSet(queue)' = KeysOf("PAYMENT")
  BY <1>1, <1>3 DEF ToSet
<1>6. Walked["orders"] = "PAYMENT" /\ "orders" \in DOMAIN Walked
  BY DEF Walked
<1>7. SparesDuplicates({})
  BY DEF SparesDuplicates
<1>8. \A p \in Of("PAYMENT") : Key(p) \in KeysOf("PAYMENT")
  BY DEF KeysOf
<1>9. RunInv'
  BY <1>1, <1>4, <1>5, <1>6, <1>7, <1>8, SameLedger DEF RunInv, IsSequence, ToSet
<1>10. LedgerInv'
  BY <1>1 DEF AllInv, LedgerInv
<1> QED BY <1>1, <1>9, <1>10, ReportStays DEF AllInv

\* What is true of some refusals and locked records is true of more.
LEMMA MoreIsSettled ==
  ASSUME NEW refused, NEW used, NEW more, NEW others,
         refused \subseteq more, used \subseteq others
  PROVE  /\ \A p : Resolved(p, refused, used) => Resolved(p, more, others)
         /\ \A q : Accounted(q, refused, used) => Accounted(q, more, others)
BY DEF Resolved, Accounted

\* The next payment of the queue is evaluated.
LEMMA NextOrderKeepsRun ==
  ASSUME AllInv, NextOrder
  PROVE  LedgerInv' /\ RunInv' /\ ReportInv'
<1> DEFINE p == Get(Head(queue))
<1>1. /\ UNCHANGED <<ledger, index, lastRun, stage>> /\ stage = "orders"
      /\ queue # <<>> /\ queue' = Tail(queue) /\ ReconcileOrder(p)
  BY DEF NextOrder, ReconcileOrder, stored
<1>2. StoreInv /\ LedgerInv /\ RunInv /\ ReportInv
  BY DEF AllInv, MInv
<1>3. Walked["orders"] = "PAYMENT"
  BY DEF Walked
<1>4. /\ IsSequence(Tail(queue)) /\ Head(queue) \in KeysOf("PAYMENT")
      /\ ToSet(queue) = {Head(queue)} \cup ToSet(Tail(queue))
  BY <1>1, <1>2, <1>3, HeadOrTail DEF RunInv
<1>5. \A r \in Of("PAYMENT") : Key(r) = Head(queue) => r = p
  BY <1>2, GetKey DEF Of
<1>6. /\ IsSequence(exceptions')
      /\ consumed \subseteq consumed' /\ RefusedSoFar \subseteq RefusedSoFar'
      /\ Resolved(p, RefusedSoFar', consumed')
  BY <1>1, <1>2, OrderSettles DEF RunInv
<1>7. SparesDuplicates(consumed')
  BY <1>1, <1>2, OrderSparesDuplicates DEF RunInv
<1>8. ASSUME NEW r \in Of("PAYMENT"), Key(r) \notin ToSet(Tail(queue))
      PROVE  Resolved(r, RefusedSoFar', consumed')
  BY <1>1, <1>2, <1>4, <1>5, <1>6, <1>8, MoreIsSettled DEF RunInv
<1> HIDE DEF p
<1>9. RunInv'
  <2>1. ToSet(queue)' = ToSet(Tail(queue)) /\ ToSet(exceptions)' = ToSet(exceptions')
    BY <1>1 DEF ToSet
  <2>2. IsSequence(queue)' /\ IsSequence(exceptions)'
    BY <1>1, <1>4, <1>6 DEF IsSequence, ToSet
  <2>3. ToSet(Tail(queue)) \subseteq KeysOf("PAYMENT")
    BY <1>1, <1>2, <1>3, <1>4 DEF RunInv
  <2> QED BY <1>1, <1>2, <1>3, <1>7, <1>8, <2>1, <2>2, <2>3, SameLedger DEF RunInv
<1>10. LedgerInv'
  BY <1>1, <1>2 DEF LedgerInv
<1> QED BY <1>1, <1>2, <1>9, <1>10, ReportStays

\* With the payments done every one is settled, and every charge is scanned.
LEMMA OrdersDoneKeepsRun ==
  ASSUME AllInv, OrdersDone
  PROVE  LedgerInv' /\ RunInv' /\ ReportInv'
<1>1. /\ UNCHANGED <<ledger, index, lastRun, consumed, exceptions>>
      /\ stage = "orders" /\ queue = <<>> /\ stage' = "processors"
      /\ queue' = Scan("PROCESSOR")
  BY DEF OrdersDone, stored
<1>2. StoreInv /\ LedgerInv /\ RunInv /\ ReportInv
  BY DEF AllInv, MInv
<1>3. /\ Walked["processors"] = "PROCESSOR" /\ Walked["orders"] = "PAYMENT"
      /\ "processors" \in DOMAIN Walked
  BY DEF Walked
<1>4. IsSequence(Scan("PROCESSOR")) /\ ToSet(Scan("PROCESSOR")) = KeysOf("PROCESSOR")
  BY <1>2, ScanEnumerates
<1>5. IsSequence(queue') /\ ToSet(queue') = KeysOf("PROCESSOR")
  BY <1>1, <1>4
<1>6. IsSequence(exceptions') /\ RefusedSoFar' = RefusedSoFar
  BY <1>1, <1>2 DEF RunInv, RefusedSoFar
<1>7. \A p \in Of("PAYMENT") : Resolved(p, RefusedSoFar, consumed)
  <2>1. ToSet(queue) = {}
    BY <1>1 DEF ToSet
  <2> QED BY <1>1, <1>2, <2>1 DEF RunInv
<1>8. \A q \in Of("PROCESSOR") : Key(q) \in KeysOf("PROCESSOR")
  BY DEF KeysOf
<1>9. RunInv'
  <2>1. ToSet(queue)' = KeysOf("PROCESSOR") /\ IsSequence(queue)' /\ IsSequence(exceptions)'
    BY <1>5, <1>6 DEF IsSequence, ToSet
  <2>2. SparesDuplicates(consumed')
    BY <1>1, <1>2 DEF RunInv
  <2>3. \A p \in Of("PAYMENT") : Resolved(p, RefusedSoFar', consumed')
    BY <1>1, <1>6, <1>7
  <2> QED BY <1>1, <1>3, <1>8, <2>1, <2>2, <2>3, SameLedger DEF RunInv
<1>10. LedgerInv'
  BY <1>1, <1>2 DEF LedgerInv
<1> QED BY <1>1, <1>2, <1>9, <1>10, ReportStays

\* More exceptions refuse more.
LEMMA MoreExceptions ==
  ASSUME IsSequence(exceptions), NEW more, IsSequence(more),
         exceptions' = exceptions \o more
  PROVE  /\ IsSequence(exceptions')
         /\ RefusedSoFar \subseteq RefusedSoFar'
         /\ \A e \in ToSet(more) : e.payment \in RefusedSoFar'
BY ElementsOfConcat DEF RefusedSoFar

\* The next charge is reported unless it was matched or its order has payments.
LEMMA NextProcessorKeepsRun ==
  ASSUME AllInv, NextProcessor
  PROVE  LedgerInv' /\ RunInv' /\ ReportInv'
<1> DEFINE k == Head(queue)
           found == When(Orphan(k, consumed), Unrecorded(k))
<1>1. /\ UNCHANGED <<ledger, index, lastRun, stage, consumed>>
      /\ stage = "processors" /\ queue # <<>> /\ queue' = Tail(queue)
      /\ exceptions' = exceptions \o found
  BY DEF NextProcessor, stored
<1>2. StoreInv /\ LedgerInv /\ RunInv /\ ReportInv
  BY DEF AllInv, MInv
<1>3. Walked["processors"] = "PROCESSOR"
  BY DEF Walked
<1>4. /\ IsSequence(Tail(queue)) /\ Head(queue) \in KeysOf("PROCESSOR")
      /\ ToSet(queue) = {Head(queue)} \cup ToSet(Tail(queue))
  BY <1>1, <1>2, <1>3, HeadOrTail DEF RunInv
<1>5. IsSequence(found)
  BY FindingsAreSequences
<1>6. /\ IsSequence(exceptions') /\ RefusedSoFar \subseteq RefusedSoFar'
      /\ \A e \in ToSet(found) : e.payment \in RefusedSoFar'
  <2> HIDE DEF found
  <2> QED BY <1>1, <1>2, <1>5, MoreExceptions DEF RunInv
<1>7. ASSUME NEW q \in Of("PROCESSOR"), Key(q) = k
      PROVE  Accounted(q, RefusedSoFar', consumed')
  <2>1. Get(k) = q
    BY <1>2, <1>7, GetKey DEF Of
  <2>2. CASE Orphan(k, consumed)
    <3>1. Unrecorded(k) \in ToSet(found)
      BY <2>2 DEF When, ToSet
    <3>2. Unrecorded(k).payment = k
      BY DEF Unrecorded, Exception
    <3> QED BY <1>6, <1>7, <3>1, <3>2 DEF Accounted
  <2>3. CASE ~Orphan(k, consumed)
    <3>1. k \in consumed \/ Entries(OrderRef(q.order), "PAYMENT") # <<>>
      BY <2>1, <2>3 DEF Orphan
    <3> QED BY <1>1, <1>2, <1>7, <3>1, NoEntries DEF Accounted
  <2> QED BY <2>2, <2>3
<1> HIDE DEF found, k
<1>8. ASSUME NEW q \in Of("PROCESSOR"), Key(q) \notin ToSet(Tail(queue))
      PROVE  Accounted(q, RefusedSoFar', consumed')
  <2>1. CASE Key(q) = k
    BY <1>7, <2>1
  <2>2. CASE Key(q) # k
    <3>1. Accounted(q, RefusedSoFar, consumed)
      BY <1>1, <1>2, <1>4, <1>8, <2>2 DEF RunInv, k
    <3> QED BY <1>1, <1>6, <3>1, MoreIsSettled
  <2> QED BY <2>1, <2>2
<1>9. \A p \in Of("PAYMENT") : Resolved(p, RefusedSoFar', consumed')
  BY <1>1, <1>2, <1>6, MoreIsSettled DEF RunInv
<1>10. RunInv'
  <2>1. ToSet(queue)' = ToSet(Tail(queue))
    BY <1>1 DEF ToSet
  <2>2. IsSequence(queue)' /\ IsSequence(exceptions)'
    BY <1>1, <1>4, <1>6 DEF IsSequence, ToSet
  <2>3. ToSet(Tail(queue)) \subseteq KeysOf("PROCESSOR")
    BY <1>1, <1>2, <1>3, <1>4 DEF RunInv
  <2>4. SparesDuplicates(consumed')
    BY <1>1, <1>2 DEF RunInv
  <2> QED BY <1>1, <1>2, <1>3, <1>8, <1>9, <2>1, <2>2, <2>3, <2>4, SameLedger DEF RunInv
<1>11. LedgerInv'
  BY <1>1, <1>2 DEF LedgerInv
<1> QED BY <1>1, <1>2, <1>10, <1>11, ReportStays

\* Then every charge is accounted for, and the batches are scanned.
LEMMA ProcessorsDoneKeepsRun ==
  ASSUME AllInv, ProcessorsDone
  PROVE  LedgerInv' /\ RunInv' /\ ReportInv'
<1>1. /\ UNCHANGED <<ledger, index, lastRun, consumed, exceptions>>
      /\ stage = "processors" /\ queue = <<>> /\ stage' = "batches"
      /\ queue' = Scan("BATCH")
  BY DEF ProcessorsDone, stored
<1>2. StoreInv /\ LedgerInv /\ RunInv /\ ReportInv
  BY DEF AllInv, MInv
<1>3. Walked["batches"] = "BATCH" /\ "batches" \in DOMAIN Walked
  BY DEF Walked
<1>4. IsSequence(Scan("BATCH")) /\ ToSet(Scan("BATCH")) = KeysOf("BATCH")
  BY <1>2, ScanEnumerates
<1>5. IsSequence(queue') /\ ToSet(queue') = KeysOf("BATCH")
  BY <1>1, <1>4
<1>6. IsSequence(exceptions') /\ RefusedSoFar' = RefusedSoFar
  BY <1>1, <1>2 DEF RunInv, RefusedSoFar
<1>7. ToSet(queue) = {}
  BY <1>1 DEF ToSet
<1>8. /\ \A p \in Of("PAYMENT") : Resolved(p, RefusedSoFar', consumed')
      /\ \A q \in Of("PROCESSOR") : Accounted(q, RefusedSoFar', consumed')
      /\ SparesDuplicates(consumed')
  BY <1>1, <1>2, <1>6, <1>7 DEF RunInv
<1>9. RunInv'
  <2>1. ToSet(queue)' = KeysOf("BATCH") /\ IsSequence(queue)' /\ IsSequence(exceptions)'
    BY <1>5, <1>6 DEF IsSequence, ToSet
  <2> QED BY <1>1, <1>3, <1>8, <2>1, SameLedger DEF RunInv
<1>10. LedgerInv'
  BY <1>1, <1>2 DEF LedgerInv
<1> QED BY <1>1, <1>2, <1>9, <1>10, ReportStays

\* reconcile_batch raises one exception at most.
LEMMA BatchAnswerIsShort ==
  ASSUME NEW b
  PROVE  IsSequence(BatchAnswer(b).exception) /\ IsSequence(BatchAnswer(b).payout)
<1> DEFINE Short(s) == s = <<>> \/ \E x : s = <<x>>
<1>1. Short(BatchAnswer(b).exception) /\ Short(BatchAnswer(b).payout)
  BY DEF BatchAnswer
<1> QED BY <1>1, FindingsAreSequences

\* The next batch adds to the exceptions at most.
LEMMA NextBatchKeepsRun ==
  ASSUME AllInv, NextBatch
  PROVE  LedgerInv' /\ RunInv' /\ ReportInv'
<1> DEFINE answer == BatchAnswer(Get(Head(queue)))
<1>1. /\ UNCHANGED <<ledger, index, lastRun, stage, consumed>>
      /\ stage = "batches" /\ queue # <<>> /\ queue' = Tail(queue)
      /\ exceptions' = exceptions \o answer.exception
  BY DEF NextBatch, stored
<1>2. StoreInv /\ LedgerInv /\ RunInv /\ ReportInv
  BY DEF AllInv, MInv
<1>3. Walked["batches"] = "BATCH"
  BY DEF Walked
<1>4. IsSequence(Tail(queue)) /\ ToSet(Tail(queue)) \subseteq ToSet(queue)
  BY <1>1, <1>2, HeadOrTail DEF RunInv
<1>5. IsSequence(answer.exception)
  BY BatchAnswerIsShort
<1> HIDE DEF answer
<1>6. IsSequence(exceptions') /\ RefusedSoFar \subseteq RefusedSoFar'
  BY <1>1, <1>2, <1>5, MoreExceptions DEF RunInv
<1>7. /\ \A p \in Of("PAYMENT") : Resolved(p, RefusedSoFar', consumed')
      /\ \A q \in Of("PROCESSOR") : Accounted(q, RefusedSoFar', consumed')
      /\ SparesDuplicates(consumed')
  BY <1>1, <1>2, <1>6, MoreIsSettled DEF RunInv
<1>8. RunInv'
  <2>1. ToSet(queue)' = ToSet(Tail(queue))
    BY <1>1 DEF ToSet
  <2>2. IsSequence(queue)' /\ IsSequence(exceptions)'
    BY <1>1, <1>4, <1>6 DEF IsSequence, ToSet
  <2>3. ToSet(Tail(queue)) \subseteq KeysOf("BATCH")
    BY <1>1, <1>2, <1>3, <1>4 DEF RunInv
  <2> QED BY <1>1, <1>2, <1>3, <1>7, <2>1, <2>2, <2>3, SameLedger DEF RunInv
<1>9. LedgerInv'
  BY <1>1, <1>2 DEF LedgerInv
<1> QED BY <1>1, <1>2, <1>8, <1>9, ReportStays

\* What is true of a run at its end is true of its report.
LEMMA FinishKeepsRun ==
  ASSUME AllInv, Finish
  PROVE  LedgerInv' /\ RunInv' /\ ReportInv'
<1>1. /\ UNCHANGED <<ledger, index, queue, exceptions>>
      /\ stage = "batches" /\ stage' = "idle"
      /\ lastRun' = [list |-> listed, matches |-> matches,
                     exceptions |-> exceptions, payouts |-> payouts]
  BY DEF Finish, stored
<1>2. StoreInv /\ LedgerInv /\ RunInv
  BY DEF AllInv, MInv
<1>3. Refusals(lastRun') = RefusedSoFar
  BY <1>1 DEF Refusals, RefusedSoFar
<1>4. Used(lastRun') = consumed
  <2>1. consumed = {matches[i].target : i \in DOMAIN matches}
    BY DEF AllInv, MInv, ConsumedInv, MatchesAreOneToOne
  <2> QED BY <1>1, <2>1 DEF Used, ToSet
<1>5. ReportInv'
  <2>1. /\ SparesDuplicates(Used(lastRun'))
        /\ \A p \in Of("PAYMENT") : Resolved(p, Refusals(lastRun'), Used(lastRun'))
        /\ \A q \in Of("PROCESSOR") : Accounted(q, Refusals(lastRun'), Used(lastRun'))
    BY <1>1, <1>2, <1>3, <1>4 DEF RunInv
  <2> QED BY <1>1, <2>1, SameLedger DEF ReportInv
<1>6. IsSequence(queue') /\ IsSequence(exceptions')
  BY <1>1, <1>2 DEF RunInv
<1>7. LedgerInv'
  BY <1>1, <1>2 DEF LedgerInv
<1> QED BY <1>1, <1>5, <1>6, <1>7, IdleRun

\* Every step keeps the invariant of the runs.
LEMMA StepKeepsRun ==
  ASSUME AllInv, [Next]_vars
  PROVE  LedgerInv' /\ RunInv' /\ ReportInv'
<1>1. StoreInv /\ LedgerInv /\ IsSequence(queue) /\ IsSequence(exceptions)
  BY DEF AllInv, MInv, RunInv
<1>2. ASSUME NEW r \in Records, Store(r)
      PROVE  LedgerInv' /\ RunInv' /\ ReportInv'
  BY <1>1, <1>2, PutKeepsLedger, IdleRun, NoReport DEF Store
<1>3. ASSUME NEW r \in Records, StoreInterrupted(r)
      PROVE  LedgerInv' /\ RunInv' /\ ReportInv'
  BY <1>1, <1>3, PutKeepsLedger, IdleRun, NoReport, FindingsAreSequences
     DEF StoreInterrupted
<1>4. ASSUME NEW policy \in Policies, RegisterPolicy(policy)
      PROVE  LedgerInv' /\ RunInv' /\ ReportInv'
  BY <1>1, <1>4, IdleRun, NoReport DEF RegisterPolicy, LedgerInv
<1>5. ASSUME NEW p \in Of("PAYMENT"), SingleOrder(p)
      PROVE  LedgerInv' /\ RunInv' /\ ReportInv'
  BY <1>5, SingleOrderKeepsRun
<1>6. ASSUME NEW list \in SetToSeqs({Key(p) : p \in Of("PAYMENT")}), Begin(list)
      PROVE  LedgerInv' /\ RunInv' /\ ReportInv'
  BY <1>6, BeginKeepsRun DEF KeysOf
<1>7. CASE UNCHANGED vars
  <2>1. UNCHANGED <<ledger, index, lastRun, stage, queue, consumed, exceptions>>
    BY <1>7 DEF vars, stored, engine
  <2>2. LedgerInv'
    BY <1>1, <2>1 DEF LedgerInv
  <2>3. /\ ToSet(queue)' = ToSet(queue) /\ IsSequence(queue)'
        /\ IsSequence(exceptions)' /\ RefusedSoFar' = RefusedSoFar
    BY <1>1, <2>1 DEF IsSequence, ToSet, RefusedSoFar
  <2>4. RunInv'
    BY <2>1, <2>3, SameLedger DEF AllInv, RunInv
  <2> QED BY <2>1, <2>2, <2>4, ReportStays DEF AllInv
<1> QED
  BY <1>2, <1>3, <1>4, <1>5, <1>6, <1>7, NextOrderKeepsRun, OrdersDoneKeepsRun,
     NextProcessorKeepsRun, ProcessorsDoneKeepsRun, NextBatchKeepsRun, FinishKeepsRun
     DEF Next

\* At first there is no run and no report.
LEMMA StartsWithoutRun ==
  ASSUME Init PROVE LedgerInv /\ RunInv /\ ReportInv
<1>1. /\ ledger = {} /\ index = {} /\ stage = "idle" /\ queue = <<>>
      /\ exceptions = <<>> /\ lastRun = NoRun
  BY DEF Init, NewEngine
<1>2. LedgerInv
  BY <1>1, FS_EmptySet DEF LedgerInv
<1> QED BY <1>1, <1>2, FindingsAreSequences DEF RunInv, ReportInv

\* The duplicates part of the report is the property.
LEMMA DuplicatesSpared ==
  ASSUME AllInv PROVE DuplicateChargesNeverMatch
BY DEF AllInv, ReportInv, SparesDuplicates, DuplicateChargesNeverMatch

\* And what is settled and accounted for leaves no charge unreported.
LEMMA LeftoversReported ==
  ASSUME AllInv PROVE LeftoversAreReported
<1> SUFFICES ASSUME lastRun # NoRun, NEW q \in Of("PROCESSOR"), Indexed(q),
                    Key(q) \notin Used(lastRun), Key(q) \notin Refusals(lastRun),
                    \A e \in index : e.by = OrderRef(q.order) => ~Stale(e)
             PROVE  /\ OnOrder("PAYMENT", q.order) # {}
                    /\ \A p \in OnOrder("PAYMENT", q.order) :
                         Key(p) \in Refusals(lastRun)
  BY DEF LeftoversAreReported
<1>1. StoreInv /\ LedgerInv
  BY DEF AllInv, MInv
<1>2. Under(OrderRef(q.order), "PAYMENT") # {}
  BY DEF AllInv, ReportInv, Accounted
<1>3. PICK e \in index : e.by = OrderRef(q.order) /\ e.to.kind = "PAYMENT"
  BY <1>2 DEF Under
<1>4. PICK p \in ledger : Key(p) = e.to
  BY <1>1 DEF StoreInv
<1>5. p.kind = "PAYMENT" /\ e \in IndexEntries(p)
  BY <1>1, <1>3, <1>4, GetKey DEF Stale, Key
<1>6. OrderRef(p.order) = OrderRef(q.order)
  BY <1>3, <1>5 DEF IndexEntries
<1>7. p \in OnOrder("PAYMENT", q.order)
  BY <1>5, <1>6 DEF OnOrder, Of, OrderRef
<1>8. Key(q) \in Under(OrderRef(q.order), "PROCESSOR")
  <2>1. q.kind = "PROCESSOR"
    BY DEF Of
  <2>2. [by |-> OrderRef(q.order), to |-> Key(q)] \in index
    BY <2>1 DEF Indexed, IndexEntries
  <2> QED BY <2>1, <2>2 DEF Under, Key
<1>9. ASSUME NEW r \in OnOrder("PAYMENT", q.order)
      PROVE  Key(r) \in Refusals(lastRun)
  <2>1. r \in Of("PAYMENT") /\ r.order = q.order
    BY DEF OnOrder
  <2>2. Resolved(r, Refusals(lastRun), Used(lastRun))
    BY <2>1 DEF AllInv, ReportInv
  <2> QED BY <1>8, <2>1, <2>2 DEF Resolved
<1> QED BY <1>7, <1>9

-----------------------------------------------------------------------------
\* TypeOK for one match.
TypedMatch(m) ==
  /\ m.payment \in PaymentKeys /\ m.target \in TargetKeys
  /\ m.strategy \in {"EXACT", "TIMING", "TOLERANCE"}

\* The primary record of each exception of a list is a known one.
Named(list) == \A e \in ToSet(list) : e.primary \in Keys

\* TypeOK, with lists as the sets of their elements.
LEMMA TypeOfElements ==
  TypeOK <=> /\ ledger \subseteq Records
             /\ index \subseteq UNION {IndexEntries(r) : r \in Records}
             /\ rules \in RuleSets /\ puts \in 0 .. MaxPuts
             /\ stage \in {"idle", "orders", "processors", "batches"}
             /\ consumed \subseteq TargetKeys
             /\ ToSet(queue) \cup ToSet(listed) \subseteq Keys
             /\ \A m \in ToSet(matches) : TypedMatch(m)
             /\ Named(exceptions)
BY DEF TypeOK, TypedMatch, Named, ToSet

\* A match pairs its payment with a charge or settlement, by a strategy.
LEMMA MatchIsTyped ==
  ASSUME StoreInv, NEW p \in Of("PAYMENT"), NEW taken, NEW m \in ToSet(Answer(p, taken).match)
  PROVE  TypedMatch(m)
<1> DEFINE t == Get(First(Targets(p, taken)))
           given == p.partial = "true"
           it == [payment |-> Key(p), target |-> Key(t),
                  strategy |-> Strategy(p, t), partial |-> given]
<1>1. Matched(p, t).match = <<it>>
  BY DEF Matched
<1> HIDE DEF given
<1>2. /\ it.payment = Key(p) /\ it.target = Key(t) /\ it.strategy = Strategy(p, t)
  OBVIOUS
<1> HIDE DEF it
<1>3. Answer(p, taken).match # <<>>
  BY DEF ToSet
<1>4. Targets(p, taken) # {} /\ Answer(p, taken).match = <<it>>
  BY <1>1, <1>3, AnswerIsOne
<1>5. m = it
  BY <1>4 DEF ToSet
<1>6. Strategy(p, t) \in {"EXACT", "TIMING", "TOLERANCE"}
  <2>1. Strategy(p, t) # "NONE"
    BY <1>3, MatchIsFitting
  <2> QED BY <2>1 DEF Strategy
<1>7. t \in ledger /\ Key(t) \in Targets(p, taken)
  BY <1>4, TargetIsFree
<1>8. Key(t).kind \in {"PROCESSOR", "SETTLEMENT"}
  BY <1>7 DEF Targets, Available, AvailableSettlements, Free, Under
<1>9. Key(t) \in TargetKeys
  BY <1>7, <1>8 DEF StoreInv, TargetKeys, Keys
<1>10. Key(p) \in PaymentKeys
  BY DEF Of, StoreInv, PaymentKeys, Keys, Key
<1> QED BY <1>2, <1>5, <1>6, <1>9, <1>10 DEF TypedMatch

\* An exception of an order is about its payment or the record compared.
LEMMA AnswerIsNamed ==
  ASSUME StoreInv, NEW p \in Of("PAYMENT"), NEW taken
  PROVE  Named(Answer(p, taken).exception)
<1> DEFINE t == Get(First(Targets(p, taken)))
<1>1. ASSUME NEW a \in Keys, NEW findings
      PROVE  Named(Refused(p, findings, a).exception)
  <2> DEFINE types == [i \in DOMAIN findings |-> findings[i].type]
             e == Exception(findings[1].type, a, Key(p), findings[1].related,
                            types)
  <2>1. Refused(p, findings, a).exception = <<e>>
    BY DEF Refused
  <2> HIDE DEF types
  <2>2. e.primary = a
    BY DEF Exception
  <2> HIDE DEF e
  <2> QED BY <2>1, <2>2 DEF Named, ToSet
<1>2. Key(p) \in Keys
  BY DEF Of, StoreInv, Keys
<1>3. ASSUME NEW related
      PROVE  Named(PostedTwice(p, related).exception)
  BY <1>2 DEF PostedTwice, Exception, Named, ToSet
<1>4. ASSUME NEW before, Targets(p, taken) # {}
      PROVE  Named(Compared(p, t, before).exception)
  <2>1. Key(t) \in Keys
    BY <1>4, TargetIsFree DEF StoreInv, Keys
  <2>2. Named(Matched(p, t).exception)
    BY DEF Matched, Named, ToSet
  <2> QED BY <1>1, <1>2, <2>1, <2>2 DEF Compared
<1> QED BY <1>1, <1>2, <1>3, <1>4 DEF Answer

\* A batch's exception is about the batch.
LEMMA BatchIsNamed ==
  ASSUME NEW b, Key(b) \in Keys
  PROVE  Named(BatchAnswer(b).exception)
<1>1. \A type, related, c :
        [Exception(type, Key(b), Key(b), related, <<>>) EXCEPT !.created = c].primary
          = Key(b)
  BY DEF Exception
<1>2. Named(<<>>) /\ \A e : e.primary = Key(b) => Named(<<e>>)
  BY DEF Named, ToSet
<1> QED BY <1>1, <1>2 DEF BatchAnswer

\* Lists stay typed when typed elements are added.
LEMMA AddedIsTyped ==
  ASSUME NEW s, IsSequence(s), NEW t, IsSequence(t)
  PROVE  /\ (Named(s) /\ Named(t)) => Named(s \o t)
         /\ ((\A m \in ToSet(s) : TypedMatch(m)) /\ (\A m \in ToSet(t) : TypedMatch(m)))
              => \A m \in ToSet(s \o t) : TypedMatch(m)
BY ElementsOfConcat DEF Named

\* The parts of TypeOK that the other invariants do not give.
Kept ==
  /\ rules \in RuleSets /\ puts \in 0 .. MaxPuts
  /\ ToSet(queue) \cup ToSet(listed) \subseteq Keys
  /\ \A m \in ToSet(matches) : TypedMatch(m)
  /\ Named(exceptions)

\* Together they are TypeOK.
LEMMA TypeFromParts ==
  ASSUME MInv, LedgerInv, RunInv, Kept
  PROVE  TypeOK
<1>1. stage \in {"idle", "orders", "processors", "batches"}
  BY DEF RunInv, Walked
<1>2. consumed \subseteq TargetKeys
  BY DEF MInv, ConsumedInv, MatchesAreOneToOne, Kept, TypedMatch, ToSet
<1>3. index \subseteq UNION {IndexEntries(r) : r \in Records}
  BY DEF LedgerInv
<1> QED BY <1>1, <1>2, <1>3, TypeOfElements DEF MInv, StoreInv, Kept

\* Keys of stored records are keys of known ones.
LEMMA StoredAreKnown ==
  ASSUME StoreInv, NEW kind
  PROVE  KeysOf(kind) \subseteq Keys
BY DEF StoreInv, KeysOf, Of, Keys

\* One order evaluated adds typed elements.
LEMMA OrderKeepsTypes ==
  ASSUME AllInv, Kept, NEW p \in Of("PAYMENT"), ReconcileOrder(p)
  PROVE  /\ rules' \in RuleSets /\ puts' \in 0 .. MaxPuts
         /\ \A m \in ToSet(matches') : TypedMatch(m)
         /\ Named(exceptions')
<1> DEFINE answer == Answer(p, consumed)
<1>1. /\ matches' = matches \o answer.match
      /\ exceptions' = exceptions \o answer.exception
      /\ UNCHANGED <<rules, puts>>
  BY DEF ReconcileOrder
<1>2. /\ \A m \in ToSet(answer.match) : TypedMatch(m)
      /\ Named(answer.exception)
  BY MatchIsTyped, AnswerIsNamed DEF AllInv, MInv
<1>3. IsSequence(answer.match) /\ IsSequence(answer.exception)
  <2>1. \A t : \E m : Matched(p, t) = [match |-> <<m>>, exception |-> <<>>]
    BY DEF Matched
  <2>2. \/ answer.match = <<>> /\ \E e : answer.exception = <<e>>
        \/ answer.exception = <<>> /\ \E m : answer.match = <<m>>
    BY <2>1, AnswerIsOne
  <2> QED BY <2>2, FindingsAreSequences
<1>4. IsSequence(matches) /\ IsSequence(exceptions)
  BY DEF AllInv, MInv, ConsumedInv, RunInv
<1> HIDE DEF answer
<1> QED BY <1>1, <1>2, <1>3, <1>4, AddedIsTyped DEF Kept

\* What has to be shown of a step.
LEMMA KeptNext ==
  ASSUME rules' \in RuleSets, puts' \in 0 .. MaxPuts,
         ToSet(queue') \subseteq Keys, ToSet(listed') \subseteq Keys,
         \A m \in ToSet(matches') : TypedMatch(m), Named(exceptions')
  PROVE  Kept'
BY DEF Kept, ToSet, TypedMatch, Named, PaymentKeys, TargetKeys, Keys, Key

\* Every step keeps the types.
LEMMA StepKeepsTypes ==
  ASSUME AllInv, Kept, [Next]_vars
  PROVE  Kept'
<1> USE DEF stored, engine
<1>1. /\ StoreInv /\ LedgerInv /\ RunInv /\ IsSequence(queue) /\ IsSequence(exceptions)
      /\ rules \in RuleSets /\ puts \in 0 .. MaxPuts
      /\ ToSet(queue) \subseteq Keys /\ ToSet(listed) \subseteq Keys
      /\ \A m \in ToSet(matches) : TypedMatch(m)
      /\ Named(exceptions)
  BY DEF AllInv, MInv, RunInv, Kept
<1>2. ToSet(<<>>) = {} /\ Named(<<>>)
  BY DEF ToSet, Named
<1>3. MaxPuts \in Nat
  BY MatcherAssumption, OrdersAssumption
<1>4. ASSUME NEW r \in Records, Store(r) PROVE Kept'
  <2>1. puts' \in 0 .. MaxPuts
    BY <1>1, <1>3, <1>4 DEF Store
  <2> QED BY <1>1, <1>2, <1>4, <2>1, KeptNext DEF Store
<1>5. ASSUME NEW r \in Records, StoreInterrupted(r) PROVE Kept'
  <2>1. puts' \in 0 .. MaxPuts
    BY <1>1, <1>3, <1>5 DEF StoreInterrupted
  <2> QED BY <1>1, <1>2, <1>5, <2>1, KeptNext DEF StoreInterrupted
<1>6. ASSUME NEW policy \in Policies, RegisterPolicy(policy) PROVE Kept'
  <2>1. puts' \in 0 .. MaxPuts
    BY <1>1, <1>3, <1>6 DEF RegisterPolicy
  <2> QED BY <1>1, <1>2, <1>6, <2>1, KeptNext DEF RegisterPolicy
<1>7. ASSUME NEW p \in Of("PAYMENT"), SingleOrder(p) PROVE Kept'
  BY <1>1, <1>7, OrderKeepsTypes, KeptNext DEF SingleOrder
<1>8. ASSUME NEW list \in SetToSeqs(KeysOf("PAYMENT")), Begin(list) PROVE Kept'
  <2>1. KeysOf("PAYMENT") \subseteq Stored
    BY DEF KeysOf, Of, Stored
  <2>2. ToSet(list) = KeysOf("PAYMENT")
    BY <1>1, <2>1, KeysAreFinite, FS_Subset, ListsAll
  <2>3. ToSet(list) \subseteq Keys
    BY <1>1, <2>2, StoredAreKnown
  <2> QED BY <1>1, <1>2, <1>8, <2>3, KeptNext DEF Begin
<1>9. CASE NextOrder
  <2>1. Get(Head(queue)) \in Of("PAYMENT") /\ ToSet(Tail(queue)) \subseteq Keys
    <3>1. Head(queue) \in KeysOf("PAYMENT") /\ ToSet(Tail(queue)) \subseteq ToSet(queue)
      BY <1>1, <1>9, HeadOrTail DEF NextOrder, RunInv, Walked
    <3> QED BY <1>1, <3>1, GetKey DEF KeysOf, Of
  <2> QED BY <1>1, <1>9, <2>1, OrderKeepsTypes, KeptNext DEF NextOrder
<1>10. CASE OrdersDone
  <2>1. ToSet(Scan("PROCESSOR")) \subseteq Keys
    BY <1>1, ScanEnumerates, StoredAreKnown
  <2> QED BY <1>1, <1>10, <2>1, KeptNext DEF OrdersDone
<1>11. CASE NextProcessor
  <2> DEFINE k == Head(queue)
             found == When(Orphan(k, consumed), Unrecorded(k))
  <2>1. k \in Keys /\ ToSet(Tail(queue)) \subseteq Keys
    BY <1>1, <1>11, HeadOrTail DEF NextProcessor
  <2>2. IsSequence(found) /\ Named(found)
    <3>1. Unrecorded(k).primary = k
      BY DEF Unrecorded, Exception
    <3> QED BY <2>1, <3>1, FindingsAreSequences DEF Named, When, ToSet
  <2>3. /\ exceptions' = exceptions \o found /\ queue' = Tail(queue)
        /\ UNCHANGED <<rules, puts, listed, matches>>
    BY <1>11 DEF NextProcessor
  <2> HIDE DEF found
  <2>4. Named(exceptions')
    BY <1>1, <2>2, <2>3, AddedIsTyped
  <2> QED BY <1>1, <2>1, <2>3, <2>4, KeptNext
<1>12. CASE ProcessorsDone
  <2>1. ToSet(Scan("BATCH")) \subseteq Keys
    BY <1>1, ScanEnumerates, StoredAreKnown
  <2> QED BY <1>1, <1>12, <2>1, KeptNext DEF ProcessorsDone
<1>13. CASE NextBatch
  <2> DEFINE b == Get(Head(queue))
  <2>1. Key(b) \in Keys /\ ToSet(Tail(queue)) \subseteq Keys
    <3>1. /\ Head(queue) \in KeysOf("BATCH") /\ Head(queue) \in Keys
          /\ ToSet(Tail(queue)) \subseteq Keys
      BY <1>1, <1>13, HeadOrTail DEF NextBatch, RunInv, Walked
    <3>2. Key(b) = Head(queue)
      BY <1>1, <3>1, GetKey DEF KeysOf, Of
    <3> QED BY <3>1, <3>2
  <2>2. IsSequence(BatchAnswer(b).exception) /\ Named(BatchAnswer(b).exception)
    BY <2>1, BatchAnswerIsShort, BatchIsNamed
  <2>3. /\ exceptions' = exceptions \o BatchAnswer(b).exception
        /\ queue' = Tail(queue) /\ UNCHANGED <<rules, puts, listed, matches>>
    BY <1>13 DEF NextBatch
  <2> HIDE DEF b
  <2>4. Named(exceptions')
    BY <1>1, <2>2, <2>3, AddedIsTyped
  <2> QED BY <1>1, <2>1, <2>3, <2>4, KeptNext
<1>14. CASE Finish
  BY <1>1, <1>14, KeptNext DEF Finish
<1>15. CASE UNCHANGED vars
  BY <1>1, <1>15, KeptNext DEF vars
<1> QED
  BY <1>4, <1>5, <1>6, <1>7, <1>8, <1>9, <1>10, <1>11, <1>12, <1>13, <1>14, <1>15
     DEF Next, KeysOf

\* The initial values have their types.
LEMMA StartsTyped ==
  ASSUME Init PROVE Kept
<1>1. /\ rules \in RuleSets /\ puts = 0 /\ queue = <<>> /\ listed = <<>>
      /\ matches = <<>> /\ exceptions = <<>>
  BY DEF Init, NewEngine
<1>2. ToSet(<<>>) = {}
  BY DEF ToSet
<1> QED BY <1>1, <1>2, MatcherAssumption, OrdersAssumption DEF Kept, Named

-----------------------------------------------------------------------------
\* The inputs of a run, which stay while it is under way.
inputs == <<ledger, index, registry, rules>>

\* What the operators of reconcile_order return depends on these alone.
LEMMA SameAnswers ==
  ASSUME UNCHANGED inputs
  PROVE  /\ \A by, kind : Under(by, kind)' = Under(by, kind)
         /\ \A by, kind : Entries(by, kind)' = Entries(by, kind)
         /\ \A k : Get(k)' = Get(k)
         /\ \A kind : Of(kind)' = Of(kind)
         /\ \A p, taken : Answer(p, taken)' = Answer(p, taken)
         /\ \A k, taken : Orphan(k, taken)' = Orphan(k, taken)
         /\ \A k : Unrecorded(k)' = Unrecorded(k)
         /\ \A b : BatchAnswer(b)' = BatchAnswer(b)
<1>1. ledger' = ledger /\ index' = index /\ registry' = registry /\ rules' = rules
  BY DEF inputs
<1>2. \A by, kind : Under(by, kind)' = Under(by, kind)
  BY <1>1 DEF Under
<1>3. \A k : Get(k)' = Get(k)
  BY <1>1 DEF Get
<1>4. \A by, kind : Entries(by, kind)' = Entries(by, kind)
  BY <1>2 DEF Entries
<1>5. \A p : /\ RefundFindings(p)' = RefundFindings(p)
             /\ InvoiceFindings(p)' = InvoiceFindings(p)
  BY <1>1, <1>3, <1>4 DEF RefundFindings, InvoiceFindings
<1>6. \A p, taken : /\ Available(p, taken)' = Available(p, taken)
                    /\ Targets(p, taken)' = Targets(p, taken)
  BY <1>2 DEF Targets, Available, AvailableSettlements
<1>7. \A p, t : Strategy(p, t)' = Strategy(p, t)
  BY <1>1 DEF Strategy
<1>8. \A p, t : FeeFindings(p, t)' = FeeFindings(p, t)
  <2>1. \A p, t : PolicyFor(p, t)' = PolicyFor(p, t)
    BY <1>1 DEF PolicyFor
  <2> QED BY <1>1, <2>1 DEF FeeFindings
<1>9. \A p, t : Matched(p, t)' = Matched(p, t)
  BY <1>7 DEF Matched
<1>10. \A p, t, before : Compared(p, t, before)' = Compared(p, t, before)
  BY <1>7, <1>8, <1>9 DEF Compared
<1>11. \A p, taken : Answer(p, taken)' = Answer(p, taken)
  BY <1>1, <1>3, <1>4, <1>5, <1>6, <1>10 DEF Answer
<1>12. \A b : BatchAnswer(b)' = BatchAnswer(b)
  BY <1>1, <1>3, <1>4 DEF BatchAnswer
<1> QED BY <1>1, <1>2, <1>3, <1>4, <1>11, <1>12 DEF Of, Orphan, Unrecorded

(* A run as a sequence of states of the engine: where it starts for a      *)
(* list of payments, what each step makes of a state, and where it ends.   *)
AtStart(list) ==
  [stage |-> "orders", queue |-> list, consumed |-> {}, matches |-> <<>>,
   exceptions |-> <<>>, payouts |-> <<>>]

\* The present state, and that a run has come to its end.
Now ==
  [stage |-> stage, queue |-> queue, consumed |-> consumed, matches |-> matches,
   exceptions |-> exceptions, payouts |-> payouts]

Over(s) == s.stage = "batches" /\ s.queue = <<>>

\* Past the payments, the charges or the batches, the next list is scanned.
Turned(s) ==
  [s EXCEPT !.stage = IF s.stage = "orders" THEN "processors" ELSE "batches",
            !.queue = Scan(IF s.stage = "orders" THEN "PROCESSOR" ELSE "BATCH")]

\* The steps for one payment, one charge and one batch.
OrderStep(s) ==
  LET answer == Answer(Get(Head(s.queue)), s.consumed)
  IN  [s EXCEPT !.queue = Tail(s.queue),
                !.consumed = s.consumed \cup {m.target : m \in ToSet(answer.match)},
                !.matches = s.matches \o answer.match,
                !.exceptions = s.exceptions \o answer.exception]

ProcessorStep(s) ==
  LET k == Head(s.queue)
  IN  [s EXCEPT !.queue = Tail(s.queue),
                !.exceptions =
                  s.exceptions \o When(Orphan(k, s.consumed), Unrecorded(k))]

BatchStep(s) ==
  LET answer == BatchAnswer(Get(Head(s.queue)))
  IN  [s EXCEPT !.queue = Tail(s.queue),
                !.payouts = s.payouts \o answer.payout,
                !.exceptions = s.exceptions \o answer.exception]

\* What follows a state that is not the last.
After(s) ==
  IF s.queue = <<>> THEN Turned(s)
  ELSE IF s.stage = "orders" THEN OrderStep(s)
  ELSE IF s.stage = "processors" THEN ProcessorStep(s)
  ELSE BatchStep(s)

\* t is a run of n steps; Reaches says that some run leads to a state.
Trace(list, n, t) ==
  /\ t[0] = AtStart(list)
  /\ \A i \in 0 .. n - 1 : ~Over(t[i]) /\ t[i + 1] = After(t[i])

Reaches(list, s) == \E n \in Nat : \E t : Trace(list, n, t) /\ t[n] = s

\* One step further.
LEMMA OneStepOn ==
  ASSUME NEW list, NEW s, Reaches(list, s), ~Over(s)
  PROVE  Reaches(list, After(s))
<1>1. PICK n \in Nat : \E t : Trace(list, n, t) /\ t[n] = s
  BY DEF Reaches
<1>2. PICK t : Trace(list, n, t) /\ t[n] = s
  BY <1>1
<1> DEFINE u == [i \in 0 .. n + 1 |-> IF i = n + 1 THEN After(s) ELSE t[i]]
<1>3. /\ u[0] = t[0] /\ u[n] = s /\ u[n + 1] = After(s)
      /\ \A i \in 0 .. n : u[i] = t[i]
  BY <1>2
<1> HIDE DEF u
<1>4. ASSUME NEW i \in 0 .. n + 1 - 1
      PROVE  ~Over(u[i]) /\ u[i + 1] = After(u[i])
  <2>1. CASE i = n
    BY <1>3, <2>1
  <2>2. CASE i # n
    <3>1. i \in 0 .. n - 1 /\ i \in 0 .. n /\ i + 1 \in 0 .. n
      BY <2>2
    <3> QED BY <1>2, <1>3, <3>1 DEF Trace
  <2> QED BY <2>1, <2>2
<1>5. Trace(list, n + 1, u)
  BY <1>2, <1>3, <1>4 DEF Trace
<1> QED BY <1>3, <1>5 DEF Reaches

\* Two traces of one list agree as far as both go.
LEMMA TracesAgree ==
  ASSUME NEW list, NEW n \in Nat, NEW m \in Nat, n <= m, NEW t, NEW u,
         Trace(list, n, t), Trace(list, m, u)
  PROVE  t[n] = u[n]
<1> DEFINE differ == {i \in 0 .. n : t[i] # u[i]}
           less == OpToRel(<, Nat)
<1>1. SUFFICES ASSUME differ # {} PROVE FALSE
  OBVIOUS
<1>2. IsWellFoundedOn(less, Nat)
  BY NatLessThanWellFounded
<1>3. \A x, y \in Nat : <<y, x>> \in less <=> y < x
  BY DEF OpToRel
<1>4. differ \subseteq Nat
  OBVIOUS
<1> HIDE DEF less
<1>5. PICK i \in differ : \A j \in differ : <<j, i>> \notin less
  <2> HIDE DEF differ
  <2> QED BY <1>1, <1>2, <1>4, WFMin
<1>6. CASE i = 0
  BY <1>6 DEF Trace
<1>7. CASE i # 0
  <2>1. i \in Nat /\ i - 1 \in Nat /\ i - 1 < i /\ i <= n
    BY <1>7
  <2>2. i - 1 \notin differ
    BY <1>3, <1>5, <2>1
  <2>3. t[i - 1] = u[i - 1]
    BY <2>1, <2>2
  <2>4. i - 1 \in 0 .. n - 1 /\ i - 1 \in 0 .. m - 1 /\ i - 1 + 1 = i
    BY <2>1
  <2>5. t[i] = After(t[i - 1]) /\ u[i] = After(u[i - 1])
    BY <2>4 DEF Trace
  <2>6. t[i] # u[i]
    OBVIOUS
  <2> QED BY <2>3, <2>5, <2>6
<1> QED BY <1>6, <1>7

\* So a list has one end.
LEMMA OneEnd ==
  ASSUME NEW list, NEW r, NEW s, Reaches(list, r), Over(r), Reaches(list, s), Over(s)
  PROVE  r = s
<1>a. PICK n \in Nat : \E t : Trace(list, n, t) /\ t[n] = r
  BY DEF Reaches
<1>1. PICK t : Trace(list, n, t) /\ t[n] = r
  BY <1>a
<1>b. PICK m \in Nat : \E u : Trace(list, m, u) /\ u[m] = s
  BY DEF Reaches
<1>2. PICK u : Trace(list, m, u) /\ u[m] = s
  BY <1>b
<1>3. CASE n <= m
  <2>1. u[n] = r
    BY <1>1, <1>2, <1>3, TracesAgree
  <2>2. ~(n \in 0 .. m - 1)
    BY <1>2, <2>1 DEF Trace
  <2>3. n = m
    BY <1>3, <2>2
  <2> QED BY <1>2, <2>1, <2>3
<1>4. CASE m <= n
  <2>1. t[m] = s
    BY <1>1, <1>2, <1>4, TracesAgree
  <2>2. ~(m \in 0 .. n - 1)
    BY <1>1, <2>1 DEF Trace
  <2>3. n = m
    BY <1>4, <2>2
  <2> QED BY <1>1, <2>1, <2>3
<1> QED BY <1>3, <1>4

\* The report of a run in its last state.
ReportAt(list, s) ==
  [list |-> list, matches |-> s.matches, exceptions |-> s.exceptions,
   payouts |-> s.payouts]

(* A run under way is on the one way its list takes; and the last report   *)
(* is from the end of such a way.                                          *)
HistoryInv ==
  /\ stage # "idle" => Reaches(listed, Now)
  /\ lastRun # NoRun =>
       \E s : /\ Reaches(lastRun.list, s) /\ Over(s)
              /\ lastRun = ReportAt(lastRun.list, s)

\* How HistoryInv reads after a step that leaves the inputs alone.
LEMMA SameHistory ==
  ASSUME UNCHANGED inputs
  PROVE  /\ Reaches(listed, Now)' <=> Reaches(listed', Now')
         /\ \A s : Reaches(lastRun.list, s)' <=> Reaches(lastRun'.list, s)
<1>1. \A kind : Scan(kind)' = Scan(kind)
  BY DEF Scan, Of, inputs
<1>2. \A x : Turned(x)' = Turned(x)
  BY <1>1 DEF Turned
<1>3. \A x : OrderStep(x)' = OrderStep(x)
  BY SameAnswers DEF OrderStep
<1>4. \A x : ProcessorStep(x)' = ProcessorStep(x)
  BY SameAnswers DEF ProcessorStep
<1>5. \A x : BatchStep(x)' = BatchStep(x)
  BY SameAnswers DEF BatchStep
<1>6. \A x : After(x)' = After(x)
  BY <1>2, <1>3, <1>4, <1>5 DEF After
<1> QED BY <1>6 DEF Reaches, Trace, AtStart, Over

\* Each step of a run is the one its state determines.
LEMMA StepIsDetermined ==
  ASSUME NextOrder \/ OrdersDone \/ NextProcessor \/ ProcessorsDone \/ NextBatch
  PROVE  /\ UNCHANGED inputs /\ UNCHANGED <<lastRun, listed>>
         /\ stage # "idle" /\ ~Over(Now) /\ Now' = After(Now)
<1> USE DEF stored, inputs, Now, Over, After
<1>1. CASE NextOrder
  <2> DEFINE answer == Answer(Get(Head(queue)), consumed)
  <2>1. /\ stage = "orders" /\ queue # <<>> /\ queue' = Tail(queue)
        /\ consumed' = consumed \cup {m.target : m \in ToSet(answer.match)}
        /\ matches' = matches \o answer.match
        /\ exceptions' = exceptions \o answer.exception
        /\ UNCHANGED <<ledger, index, registry, rules, lastRun, listed, stage, payouts>>
    BY <1>1 DEF NextOrder, ReconcileOrder, Consume
  <2>2. OrderStep(Now)
          = [Now EXCEPT !.queue = Tail(queue),
               !.consumed = consumed \cup {m.target : m \in ToSet(answer.match)},
               !.matches = matches \o answer.match,
               !.exceptions = exceptions \o answer.exception]
    BY DEF OrderStep
  <2> HIDE DEF answer
  <2> QED BY <2>1, <2>2
<1>2. CASE OrdersDone
  BY <1>2 DEF OrdersDone, Turned
<1>3. CASE NextProcessor
  <2> DEFINE found == When(Orphan(Head(queue), consumed), Unrecorded(Head(queue)))
  <2>1. /\ stage = "processors" /\ queue # <<>> /\ queue' = Tail(queue)
        /\ exceptions' = exceptions \o found
        /\ UNCHANGED <<ledger, index, registry, rules, lastRun, listed, stage, payouts,
                       consumed, matches>>
    BY <1>3 DEF NextProcessor
  <2>2. ProcessorStep(Now) = [Now EXCEPT !.queue = Tail(queue),
                                         !.exceptions = exceptions \o found]
    BY DEF ProcessorStep
  <2> HIDE DEF found
  <2> QED BY <2>1, <2>2
<1>4. CASE ProcessorsDone
  BY <1>4 DEF ProcessorsDone, Turned
<1>5. CASE NextBatch
  <2> DEFINE answer == BatchAnswer(Get(Head(queue)))
  <2>1. /\ stage = "batches" /\ queue # <<>> /\ queue' = Tail(queue)
        /\ payouts' = payouts \o answer.payout
        /\ exceptions' = exceptions \o answer.exception
        /\ UNCHANGED <<ledger, index, registry, rules, lastRun, listed, stage,
                       consumed, matches>>
    BY <1>5 DEF NextBatch
  <2>2. BatchStep(Now)
          = [Now EXCEPT !.queue = Tail(queue),
               !.payouts = payouts \o answer.payout,
               !.exceptions = exceptions \o answer.exception]
    BY DEF BatchStep
  <2> HIDE DEF answer
  <2> QED BY <2>1, <2>2
<1> QED BY <1>1, <1>2, <1>3, <1>4, <1>5

\* Every step keeps to the way.
LEMMA StepKeepsHistory ==
  ASSUME HistoryInv, [Next]_vars
  PROVE  HistoryInv'
<1> USE DEF stored, engine
<1>1. ASSUME stage' = "idle", lastRun' = NoRun PROVE HistoryInv'
  BY <1>1 DEF HistoryInv
<1>2. ASSUME UNCHANGED inputs, UNCHANGED <<stage, lastRun>>, stage = "idle"
      PROVE  HistoryInv'
  BY <1>2, SameHistory DEF HistoryInv, Over, ReportAt
<1>3. ASSUME NEW r \in Records, Store(r) \/ StoreInterrupted(r) PROVE HistoryInv'
  BY <1>1, <1>3 DEF Store, StoreInterrupted
<1>4. ASSUME NEW policy \in Policies, RegisterPolicy(policy) PROVE HistoryInv'
  BY <1>1, <1>4 DEF RegisterPolicy
<1>5. ASSUME NEW p, SingleOrder(p) PROVE HistoryInv'
  BY <1>2, <1>5 DEF SingleOrder, ReconcileOrder, inputs
<1>6. ASSUME NEW list, Begin(list) PROVE HistoryInv'
  <2>1. UNCHANGED inputs /\ UNCHANGED lastRun /\ listed' = list /\ Now' = AtStart(list)
    BY <1>6 DEF Begin, inputs, Now, AtStart
  <2>2. Reaches(list, AtStart(list))
    <3> DEFINE t == [i \in {0} |-> AtStart(list)]
    <3>1. t[0] = AtStart(list) /\ 0 \in Nat /\ \A i \in 0 .. 0 - 1 : FALSE
      OBVIOUS
    <3> HIDE DEF t
    <3>2. Trace(list, 0, t)
      BY <3>1 DEF Trace
    <3> QED BY <3>1, <3>2 DEF Reaches
  <2> QED BY <2>1, <2>2, SameHistory DEF HistoryInv, Over, ReportAt
<1>7. CASE NextOrder \/ OrdersDone \/ NextProcessor \/ ProcessorsDone \/ NextBatch
  <2>1. Reaches(listed, After(Now))
    BY <1>7, StepIsDetermined, OneStepOn DEF HistoryInv
  <2>2. /\ UNCHANGED inputs /\ UNCHANGED <<lastRun, listed>> /\ Now' = After(Now)
    BY <1>7, StepIsDetermined
  <2>3. Reaches(listed', Now')
    BY <2>1, <2>2
  <2> QED BY <2>2, <2>3, SameHistory DEF HistoryInv, Over, ReportAt
<1>8. CASE Finish
  <2>1. /\ UNCHANGED inputs /\ lastRun' = ReportAt(listed, Now) /\ stage # "idle"
        /\ Over(Now) /\ stage' = "idle"
    BY <1>8 DEF Finish, inputs, Now, ReportAt, Over
  <2>2. Reaches(listed, Now) /\ lastRun'.list = listed
    BY <2>1 DEF HistoryInv, ReportAt
  <2> QED BY <2>1, <2>2, SameHistory DEF HistoryInv, Over, ReportAt
<1>9. CASE UNCHANGED vars
  <2>1. /\ UNCHANGED inputs /\ UNCHANGED <<lastRun, stage, listed>> /\ Now' = Now
    BY <1>9 DEF vars, inputs, Now
  <2> QED BY <2>1, SameHistory DEF HistoryInv, Over, ReportAt
<1> QED
  BY <1>3, <1>4, <1>5, <1>6, <1>7, <1>8, <1>9 DEF Next

\* Two finished runs of one list on one ledger have one report.
LEMMA FinishRepeats ==
  ASSUME HistoryInv, Finish, lastRun # NoRun, lastRun.list = listed
  PROVE  lastRun' = lastRun
<1>1. lastRun' = ReportAt(listed, Now) /\ Over(Now) /\ Reaches(listed, Now)
  BY DEF Finish, Now, ReportAt, Over, HistoryInv
<1>2. PICK s : Reaches(listed, s) /\ Over(s) /\ lastRun = ReportAt(listed, s)
  BY DEF HistoryInv
<1> QED BY <1>1, <1>2, OneEnd

-----------------------------------------------------------------------------
\* The targets a payment could have if nothing were locked.
Own(p) == Under(OrderRef(p.order), "PROCESSOR") \cup Under(Key(p), "SETTLEMENT")
            \cup Under(OrderRef(p.order), "SETTLEMENT")

\* An answer only asks which of these are locked.
LEMMA AnswerAsksForOwn ==
  ASSUME NEW p, NEW taken, Own(p) \cap taken = {}
  PROVE  Answer(p, taken) = Answer(p, {})
<1>1. Available(p, taken) = Available(p, {})
  BY DEF Available, Free, Own
<1>2. AvailableSettlements(p, taken) = AvailableSettlements(p, {})
  BY DEF AvailableSettlements, Free, Own
<1>3. Targets(p, taken) = Targets(p, {})
  BY <1>1, <1>2 DEF Targets
<1> QED BY <1>1, <1>3 DEF Answer

\* Two keys under one index entry make a list of more than one.
LEMMA TwoEntries ==
  ASSUME StoreInv, LedgerInv, NEW by, NEW kind, NEW a \in Under(by, kind),
         NEW b \in Under(by, kind), a # b
  PROVE  Len(Entries(by, kind)) > 1
<1> DEFINE s == Entries(by, kind)
<1>1. IsSequence(s) /\ a \in ToSet(s) /\ b \in ToSet(s)
  BY EntriesEnumerate
<1> HIDE DEF s
<1>2. Len(s) \in Nat /\ DOMAIN s = 1 .. Len(s)
  BY <1>1 DEF IsSequence
<1>3. PICK i \in 1 .. Len(s), j \in 1 .. Len(s) : a = s[i] /\ b = s[j]
  BY <1>1, <1>2 DEF ToSet
<1>4. Len(s) > 1
  BY <1>2, <1>3
<1> QED BY <1>4 DEF s

\* Without outdated entries, only payments of one order share a target.
LEMMA OwnAreApart ==
  ASSUME StoreInv, LedgerInv, CleanIndex, NEW p \in Of("PAYMENT"),
         NEW q \in Of("PAYMENT"), NEW k \in Own(p), k \in Own(q)
  PROVE  p.order = q.order
<1>1. ASSUME NEW x, k \in Own(x)
      PROVE  \E by \in {OrderRef(x.order), Key(x)} : \E kind : k \in Under(by, kind)
  BY <1>1 DEF Own
<1>a. PICK a \in {OrderRef(p.order), Key(p)} : \E kind : k \in Under(a, kind)
  BY <1>1
<1>2. PICK ka : k \in Under(a, ka)
  BY <1>a
<1>b. PICK b \in {OrderRef(q.order), Key(q)} : \E kind : k \in Under(b, kind)
  BY <1>1
<1>3. PICK kb : k \in Under(b, kb)
  BY <1>b
<1>4. PICK r \in ledger : Key(r) = k
  BY <1>2, KeysUnder
<1>5. ka = r.kind /\ kb = r.kind
  BY <1>2, <1>3, <1>4 DEF Under, Key
<1>6. /\ [by |-> a, to |-> k] \in IndexEntries(r)
      /\ [by |-> b, to |-> k] \in IndexEntries(r)
  BY <1>2, <1>3, <1>4, <1>5, CleanEntries
<1>7. a = b
  BY <1>6 DEF IndexEntries
<1>8. \A o : \A x \in Of("PAYMENT") : Key(x) # OrderRef(o)
  BY DEF Of, Key, OrderRef
<1>9. Key(p) = Key(q) => p = q
  BY DEF LedgerInv, Of
<1>10. OrderRef(p.order) = OrderRef(q.order) => p.order = q.order
  BY DEF OrderRef
<1> QED BY <1>2, <1>3, <1>7, <1>8, <1>9, <1>10

\* Payments of one order are both found under it.
LEMMA PostedTogether ==
  ASSUME StoreInv, LedgerInv, CleanIndex, NEW p \in Of("PAYMENT"),
         NEW q \in Of("PAYMENT"), p # q, p.order = q.order
  PROVE  Len(Entries(OrderRef(p.order), "PAYMENT")) > 1
<1>1. ASSUME NEW x \in Of("PAYMENT")
      PROVE  Key(x) \in Under(OrderRef(x.order), "PAYMENT")
  <2>1. x \in ledger /\ x.kind = "PAYMENT"
    BY DEF Of
  <2>2. [by |-> OrderRef(x.order), to |-> Key(x)] \in IndexEntries(x)
    BY <2>1 DEF IndexEntries
  <2> QED BY <2>1, <2>2, CleanEntries
<1>2. Key(p) # Key(q)
  BY DEF LedgerInv, Of
<1> QED BY <1>1, <1>2, TwoEntries

(* So what other payments have locked changes no answer: the payments      *)
(* either share no target, or are refused as posted twice.                 *)
LEMMA OthersDoNotMatter ==
  ASSUME StoreInv, LedgerInv, CleanIndex, rules.topology # "BANK_GL",
         NEW p \in Of("PAYMENT"), NEW taken,
         \A k \in taken : \E q \in Of("PAYMENT") : q # p /\ k \in Own(q)
  PROVE  Answer(p, taken) = Answer(p, {})
<1>1. CASE Len(Entries(OrderRef(p.order), "PAYMENT")) > 1
  BY <1>1 DEF Answer
<1>2. CASE ~(Len(Entries(OrderRef(p.order), "PAYMENT")) > 1)
  <2>1. Own(p) \cap taken = {}
    <3> SUFFICES ASSUME NEW k \in Own(p), k \in taken PROVE FALSE
      OBVIOUS
    <3>1. PICK q \in Of("PAYMENT") : q # p /\ k \in Own(q)
      OBVIOUS
    <3>2. p.order = q.order
      BY <3>1, OwnAreApart
    <3> QED BY <1>2, <3>1, <3>2, PostedTogether
  <2> QED BY <2>1, AnswerAsksForOwn
<1> QED BY <1>1, <1>2

\* An answer has one match or one exception.
LEMMA AnswerIsShort ==
  ASSUME NEW p, NEW taken
  PROVE  IsSequence(Answer(p, taken).match) /\ IsSequence(Answer(p, taken).exception)
<1> DEFINE answer == Answer(p, taken)
<1>1. \A t : \E m : Matched(p, t) = [match |-> <<m>>, exception |-> <<>>]
  BY DEF Matched
<1>2. \/ answer.match = <<>> /\ \E e : answer.exception = <<e>>
      \/ answer.exception = <<>> /\ \E m : answer.match = <<m>>
  BY <1>1, AnswerIsOne
<1> QED BY <1>2, FindingsAreSequences

(* What every run on the ledger reports, whatever the order of its list.   *)
AllMatches == UNION {ToSet(Answer(p, {}).match) : p \in Of("PAYMENT")}
AllRefusals == UNION {ToSet(Answer(p, {}).exception) : p \in Of("PAYMENT")}
Locked == {m.target : m \in AllMatches}
OrphanAt(k) == ToSet(When(Orphan(k, Locked), Unrecorded(k)))
Orphans == UNION {OrphanAt(k) : k \in KeysOf("PROCESSOR")}
BatchAt(k) == ToSet(BatchAnswer(Get(k)).exception)
BatchRefusals == UNION {BatchAt(k) : k \in KeysOf("BATCH")}
AllExceptions == AllRefusals \cup Orphans \cup BatchRefusals

\* A list without repetition.
Once(s) == \A i, j \in DOMAIN s : s[i] = s[j] => i = j

\* Payments behind the queue have their answers, and what is locked is theirs.
OrdersFixed ==
  /\ Once(queue)
  /\ \A p \in Of("PAYMENT") : Key(p) \notin ToSet(queue) =>
       /\ ToSet(Answer(p, {}).match) \subseteq ToSet(matches)
       /\ ToSet(Answer(p, {}).exception) \subseteq ToSet(exceptions)
  /\ \A k \in consumed :
       \E p \in Of("PAYMENT") : Key(p) \notin ToSet(queue) /\ k \in Own(p)

\* After the payments, what is locked is settled.
LaterFixed ==
  /\ consumed = Locked /\ AllMatches \subseteq ToSet(matches)
  /\ AllRefusals \subseteq ToSet(exceptions)
  /\ stage = "processors" => \A k \in KeysOf("PROCESSOR") \ ToSet(queue) :
                               OrphanAt(k) \subseteq ToSet(exceptions)
  /\ stage = "batches" =>
       /\ Orphans \subseteq ToSet(exceptions)
       /\ \A k \in KeysOf("BATCH") \ ToSet(queue) :
            BatchAt(k) \subseteq ToSet(exceptions)

FixedInv ==
  (rules.topology # "BANK_GL" /\ CleanIndex) =>
    /\ stage # "idle" => /\ ToSet(matches) \subseteq AllMatches
                         /\ ToSet(exceptions) \subseteq AllExceptions
    /\ stage = "orders" => OrdersFixed
    /\ stage \in {"processors", "batches"} => LaterFixed
    /\ lastRun # NoRun => /\ ToSet(lastRun.matches) = AllMatches
                          /\ ToSet(lastRun.exceptions) = AllExceptions

\* A list without repetition does not hold its head twice.
LEMMA OnceTail ==
  ASSUME NEW s, IsSequence(s), s # <<>>, Once(s)
  PROVE  Once(Tail(s)) /\ Head(s) \notin ToSet(Tail(s))
<1>1. /\ Len(s) \in Nat \ {0} /\ DOMAIN s = 1 .. Len(s) /\ Head(s) = s[1]
      /\ Len(Tail(s)) = Len(s) - 1 /\ DOMAIN Tail(s) = 1 .. Len(s) - 1
      /\ \A i \in 1 .. Len(s) - 1 : Tail(s)[i] = s[i + 1]
  BY DEF IsSequence
<1>2. \A i \in 1 .. Len(s) - 1 : i + 1 \in DOMAIN s /\ i + 1 # 1 /\ 1 \in DOMAIN s
  BY <1>1
<1>3. Once(Tail(s))
  BY <1>1, <1>2 DEF Once
<1>4. Head(s) \notin ToSet(Tail(s))
  BY <1>1, <1>2 DEF Once, ToSet
<1> QED BY <1>3, <1>4

\* What every run reports is the same while the inputs stay.
LEMMA SameFixed ==
  ASSUME UNCHANGED inputs
  PROVE  /\ AllMatches' = AllMatches /\ AllExceptions' = AllExceptions
         /\ AllRefusals' = AllRefusals /\ Orphans' = Orphans /\ Locked' = Locked
         /\ \A k : OrphanAt(k)' = OrphanAt(k) /\ BatchAt(k)' = BatchAt(k)
         /\ \A p : Own(p)' = Own(p)
         /\ \A p : Answer(p, {})' = Answer(p, {})
         /\ \A kind : Of(kind)' = Of(kind) /\ KeysOf(kind)' = KeysOf(kind)
         /\ CleanIndex' <=> CleanIndex
         /\ rules' = rules
<1>1. /\ \A kind : Of(kind)' = Of(kind) /\ KeysOf(kind)' = KeysOf(kind)
      /\ rules' = rules
  BY DEF Of, KeysOf, inputs
<1>2. \A p : Answer(p, {})' = Answer(p, {})
  BY SameAnswers
<1>3. AllMatches' = AllMatches /\ AllRefusals' = AllRefusals
  BY <1>1, <1>2 DEF AllMatches, AllRefusals
<1>4. Locked' = Locked
  BY <1>3 DEF Locked
<1>5. \A k : OrphanAt(k)' = OrphanAt(k) /\ BatchAt(k)' = BatchAt(k)
  BY <1>4, SameAnswers DEF OrphanAt, BatchAt
<1>6. Orphans' = Orphans /\ BatchRefusals' = BatchRefusals
  BY <1>1, <1>5 DEF Orphans, BatchRefusals
<1>7. AllExceptions' = AllExceptions
  BY <1>3, <1>6 DEF AllExceptions
<1>8. \A p : Own(p)' = Own(p)
  BY SameAnswers DEF Own
<1>9. CleanIndex' <=> CleanIndex
  BY SameLedger DEF inputs, CleanIndex, Indexed, Stale, Get
<1> QED BY <1>1, <1>2, <1>3, <1>4, <1>5, <1>6, <1>7, <1>8, <1>9

\* A payment gets the answer it would get if it came first.
LEMMA NextOrderKeepsFixed ==
  ASSUME AllInv, FixedInv, NextOrder
  PROVE  FixedInv'
<1> DEFINE p == Get(Head(queue))
           answer == Answer(p, consumed)
<1>1. /\ UNCHANGED inputs /\ UNCHANGED <<stage, lastRun>> /\ stage = "orders"
      /\ queue # <<>> /\ queue' = Tail(queue)
      /\ consumed' = consumed \cup {m.target : m \in ToSet(answer.match)}
      /\ matches' = matches \o answer.match
      /\ exceptions' = exceptions \o answer.exception
  BY DEF NextOrder, ReconcileOrder, Consume, inputs, stored
<1>2. StoreInv /\ LedgerInv /\ RunInv /\ IsSequence(matches) /\ IsSequence(exceptions)
  BY DEF AllInv, MInv, ConsumedInv, RunInv
<1> SUFFICES ASSUME rules.topology # "BANK_GL", CleanIndex
             PROVE  /\ ToSet(matches') \subseteq AllMatches
                    /\ ToSet(exceptions') \subseteq AllExceptions
                    /\ OrdersFixed'
  <2>1. ToSet(matches)' = ToSet(matches') /\ ToSet(exceptions)' = ToSet(exceptions')
        /\ ToSet(lastRun.matches)' = ToSet(lastRun.matches)
        /\ ToSet(lastRun.exceptions)' = ToSet(lastRun.exceptions)
    BY <1>1 DEF ToSet
  <2> QED BY <1>1, <2>1, SameFixed DEF FixedInv
<1>3. /\ OrdersFixed /\ ToSet(matches) \subseteq AllMatches
      /\ ToSet(exceptions) \subseteq AllExceptions
  BY <1>1 DEF FixedInv
<1>4. /\ IsSequence(Tail(queue)) /\ Head(queue) \in KeysOf("PAYMENT")
      /\ ToSet(queue) = {Head(queue)} \cup ToSet(Tail(queue))
      /\ Once(Tail(queue)) /\ Head(queue) \notin ToSet(Tail(queue))
  <2>1. IsSequence(queue) /\ ToSet(queue) \subseteq KeysOf("PAYMENT") /\ Once(queue)
    BY <1>1, <1>2, <1>3 DEF RunInv, Walked, OrdersFixed
  <2> QED BY <1>1, <2>1, HeadOrTail, OnceTail
<1>5. p \in Of("PAYMENT") /\ Key(p) = Head(queue)
  BY <1>2, <1>4, GetKey DEF KeysOf, Of
<1>6. answer = Answer(p, {})
  BY <1>2, <1>3, <1>4, <1>5, OthersDoNotMatter DEF OrdersFixed
<1>7. IsSequence(answer.match) /\ IsSequence(answer.exception)
  BY AnswerIsShort
<1>8. ASSUME NEW k \in consumed', k \notin consumed
      PROVE  k \in Own(p)
  <2>1. answer.match # <<>> /\ k = Key(Get(First(Targets(p, consumed))))
    <3>1. k \in {m.target : m \in ToSet(answer.match)}
      <4> HIDE DEF answer
      <4> QED BY <1>1, <1>8
    <3> QED BY <3>1, AnswerConsumes
  <2>2. k \in Targets(p, consumed)
    BY <1>2, <2>1, AnswerIsOne, TargetIsFree
  <2> QED BY <2>2 DEF Targets, Available, AvailableSettlements, Free, Own
<1>9. \A r \in Of("PAYMENT") : Key(r) = Head(queue) => r = p
  BY <1>2, GetKey DEF Of
<1> HIDE DEF p, answer
<1>10. /\ ToSet(matches') = ToSet(matches) \cup ToSet(answer.match)
       /\ ToSet(exceptions') = ToSet(exceptions) \cup ToSet(answer.exception)
  BY <1>1, <1>2, <1>7, ElementsOfConcat
<1>11. /\ ToSet(answer.match) \subseteq AllMatches
       /\ ToSet(answer.exception) \subseteq AllRefusals
  BY <1>5, <1>6 DEF AllMatches, AllRefusals
<1>12. /\ Once(queue')
       /\ \A r \in Of("PAYMENT") : Key(r) \notin ToSet(queue') =>
            /\ ToSet(Answer(r, {}).match) \subseteq ToSet(matches')
            /\ ToSet(Answer(r, {}).exception) \subseteq ToSet(exceptions')
  BY <1>1, <1>3, <1>4, <1>6, <1>9, <1>10 DEF OrdersFixed
<1>13. \A k \in consumed' :
         \E r \in Of("PAYMENT") : Key(r) \notin ToSet(queue') /\ k \in Own(r)
  <2> TAKE k \in consumed'
  <2>1. CASE k \in consumed
    BY <1>1, <1>3, <1>4, <2>1 DEF OrdersFixed
  <2>2. CASE k \notin consumed
    BY <1>1, <1>4, <1>5, <1>8, <2>2
  <2> QED BY <2>1, <2>2
<1>14. OrdersFixed'
  <2>1. /\ ToSet(matches)' = ToSet(matches') /\ ToSet(exceptions)' = ToSet(exceptions')
        /\ ToSet(queue)' = ToSet(queue') /\ Once(queue)' <=> Once(queue')
    BY DEF ToSet, Once
  <2> QED BY <1>1, <1>12, <1>13, <2>1, SameFixed DEF OrdersFixed
<1> QED BY <1>3, <1>10, <1>11, <1>14 DEF AllExceptions

\* How FixedInv reads after a step of a run.
LEMMA FixedNext ==
  ASSUME FixedInv, UNCHANGED inputs, UNCHANGED lastRun,
         (rules.topology # "BANK_GL" /\ CleanIndex) =>
           /\ stage' # "idle" => /\ ToSet(matches') \subseteq AllMatches
                                 /\ ToSet(exceptions') \subseteq AllExceptions
           /\ stage' = "orders" => OrdersFixed'
           /\ stage' \in {"processors", "batches"} => LaterFixed'
  PROVE  FixedInv'
<1>1. /\ ToSet(matches)' = ToSet(matches') /\ ToSet(exceptions)' = ToSet(exceptions')
      /\ ToSet(lastRun.matches)' = ToSet(lastRun.matches)
      /\ ToSet(lastRun.exceptions)' = ToSet(lastRun.exceptions)
  BY DEF ToSet
<1> QED BY <1>1, SameFixed DEF FixedInv

\* And LaterFixed.
LEMMA LaterNext ==
  ASSUME UNCHANGED inputs,
         consumed' = Locked, AllMatches \subseteq ToSet(matches'),
         AllRefusals \subseteq ToSet(exceptions'),
         stage' = "processors" => \A k \in KeysOf("PROCESSOR") \ ToSet(queue') :
                                    OrphanAt(k) \subseteq ToSet(exceptions'),
         stage' = "batches" =>
           /\ Orphans \subseteq ToSet(exceptions')
           /\ \A k \in KeysOf("BATCH") \ ToSet(queue') :
                BatchAt(k) \subseteq ToSet(exceptions')
  PROVE  LaterFixed'
<1>1. /\ ToSet(matches)' = ToSet(matches') /\ ToSet(exceptions)' = ToSet(exceptions')
      /\ ToSet(queue)' = ToSet(queue')
  BY DEF ToSet
<1> QED BY <1>1, SameFixed DEF LaterFixed

\* At first all payments are in the queue, once each.
LEMMA BeginKeepsFixed ==
  ASSUME AllInv, FixedInv, NEW list \in SetToSeqs(KeysOf("PAYMENT")), Begin(list)
  PROVE  FixedInv'
<1>1. /\ UNCHANGED inputs /\ UNCHANGED lastRun
      /\ stage' = "orders" /\ queue' = list
      /\ consumed' = {} /\ matches' = <<>> /\ exceptions' = <<>>
  BY DEF Begin, stored, inputs
<1>2. KeysOf("PAYMENT") \subseteq Stored
  BY DEF KeysOf, Of, Stored
<1>3. ToSet(list) = KeysOf("PAYMENT")
  BY <1>2, KeysAreFinite, FS_Subset, ListsAll DEF AllInv, MInv
<1>4. Once(list)
  BY DEF SetToSeqs, Once
<1>5. ToSet(<<>>) = {}
  BY DEF ToSet
<1>6. OrdersFixed'
  <2>1. ToSet(queue)' = KeysOf("PAYMENT") /\ Once(queue)'
    BY <1>1, <1>3, <1>4 DEF ToSet, Once
  <2>2. \A p \in Of("PAYMENT") : Key(p) \in KeysOf("PAYMENT")
    BY DEF KeysOf
  <2> QED BY <1>1, <2>1, <2>2, SameFixed DEF OrdersFixed
<1> QED BY <1>1, <1>5, <1>6, FixedNext

\* With the payments done, what is locked is settled.
LEMMA OrdersDoneKeepsFixed ==
  ASSUME AllInv, FixedInv, OrdersDone
  PROVE  FixedInv'
<1>1. /\ UNCHANGED inputs /\ UNCHANGED <<lastRun, consumed, matches, exceptions>>
      /\ stage = "orders" /\ queue = <<>> /\ stage' = "processors"
      /\ queue' = Scan("PROCESSOR")
  BY DEF OrdersDone, stored, inputs
<1> SUFFICES ASSUME rules.topology # "BANK_GL", CleanIndex
             PROVE  /\ ToSet(matches') \subseteq AllMatches
                    /\ ToSet(exceptions') \subseteq AllExceptions
                    /\ LaterFixed'
  BY <1>1, FixedNext
<1>2. /\ OrdersFixed /\ ToSet(matches) \subseteq AllMatches
      /\ ToSet(exceptions) \subseteq AllExceptions
  BY <1>1 DEF FixedInv
<1>3. ToSet(queue) = {}
  BY <1>1 DEF ToSet
<1>4. AllMatches \subseteq ToSet(matches) /\ AllRefusals \subseteq ToSet(exceptions)
  BY <1>2, <1>3 DEF OrdersFixed, AllMatches, AllRefusals
<1>5. consumed = {m.target : m \in ToSet(matches)}
  BY DEF AllInv, MInv, ConsumedInv, MatchesAreOneToOne, ToSet
<1>6. consumed = Locked
  BY <1>2, <1>4, <1>5 DEF Locked
<1>7. ToSet(queue') = KeysOf("PROCESSOR")
  BY <1>1, ScanEnumerates DEF AllInv, MInv
<1>8. LaterFixed'
  BY <1>1, <1>4, <1>6, <1>7, LaterNext
<1> QED BY <1>1, <1>2, <1>8

\* So a charge is left over in each run or in none.
LEMMA NextProcessorKeepsFixed ==
  ASSUME AllInv, FixedInv, NextProcessor
  PROVE  FixedInv'
<1> DEFINE k == Head(queue)
           found == When(Orphan(k, consumed), Unrecorded(k))
<1>1. /\ UNCHANGED inputs /\ UNCHANGED <<lastRun, stage, consumed, matches>>
      /\ stage = "processors" /\ queue # <<>> /\ queue' = Tail(queue)
      /\ exceptions' = exceptions \o found
  BY DEF NextProcessor, stored, inputs
<1> SUFFICES ASSUME rules.topology # "BANK_GL", CleanIndex
             PROVE  /\ ToSet(matches') \subseteq AllMatches
                    /\ ToSet(exceptions') \subseteq AllExceptions
                    /\ LaterFixed'
  BY <1>1, FixedNext
<1>2. /\ LaterFixed /\ ToSet(matches) \subseteq AllMatches
      /\ ToSet(exceptions) \subseteq AllExceptions
  BY <1>1 DEF FixedInv
<1>3. /\ k \in KeysOf("PROCESSOR") /\ ToSet(queue) = {k} \cup ToSet(Tail(queue))
  BY <1>1, HeadOrTail DEF AllInv, RunInv, Walked
<1>4. ToSet(found) = OrphanAt(k)
  BY <1>2 DEF OrphanAt, LaterFixed
<1>5. IsSequence(found) /\ IsSequence(exceptions)
  BY FindingsAreSequences DEF AllInv, RunInv
<1> HIDE DEF found, k
<1>6. ToSet(exceptions') = ToSet(exceptions) \cup OrphanAt(k)
  BY <1>1, <1>4, <1>5, ElementsOfConcat
<1>7. OrphanAt(k) \subseteq AllExceptions
  BY <1>3 DEF Orphans, AllExceptions
<1>8. LaterFixed'
  <2>1. \A j \in KeysOf("PROCESSOR") \ ToSet(queue') : OrphanAt(j) \subseteq ToSet(exceptions')
    BY <1>1, <1>2, <1>3, <1>6 DEF LaterFixed
  <2> QED BY <1>1, <1>2, <1>6, <2>1, LaterNext DEF LaterFixed
<1> QED BY <1>1, <1>2, <1>6, <1>7, <1>8

\* With the charges done, all that are left over are reported.
LEMMA ProcessorsDoneKeepsFixed ==
  ASSUME AllInv, FixedInv, ProcessorsDone
  PROVE  FixedInv'
<1>1. /\ UNCHANGED inputs /\ UNCHANGED <<lastRun, consumed, matches, exceptions>>
      /\ stage = "processors" /\ queue = <<>> /\ stage' = "batches"
      /\ queue' = Scan("BATCH")
  BY DEF ProcessorsDone, stored, inputs
<1> SUFFICES ASSUME rules.topology # "BANK_GL", CleanIndex
             PROVE  /\ ToSet(matches') \subseteq AllMatches
                    /\ ToSet(exceptions') \subseteq AllExceptions
                    /\ LaterFixed'
  BY <1>1, FixedNext
<1>2. /\ LaterFixed /\ ToSet(matches) \subseteq AllMatches
      /\ ToSet(exceptions) \subseteq AllExceptions
  BY <1>1 DEF FixedInv
<1>3. ToSet(queue) = {}
  BY <1>1 DEF ToSet
<1>4. Orphans \subseteq ToSet(exceptions)
  BY <1>1, <1>2, <1>3 DEF LaterFixed, Orphans
<1>5. ToSet(queue') = KeysOf("BATCH")
  BY <1>1, ScanEnumerates DEF AllInv, MInv
<1>6. LaterFixed'
  BY <1>1, <1>2, <1>4, <1>5, LaterNext DEF LaterFixed
<1> QED BY <1>1, <1>2, <1>6

\* A batch is answered from the records alone.
LEMMA NextBatchKeepsFixed ==
  ASSUME AllInv, FixedInv, NextBatch
  PROVE  FixedInv'
<1> DEFINE k == Head(queue)
           answer == BatchAnswer(Get(k))
<1>1. /\ UNCHANGED inputs /\ UNCHANGED <<lastRun, stage, consumed, matches>>
      /\ stage = "batches" /\ queue # <<>> /\ queue' = Tail(queue)
      /\ exceptions' = exceptions \o answer.exception
  BY DEF NextBatch, stored, inputs
<1> SUFFICES ASSUME rules.topology # "BANK_GL", CleanIndex
             PROVE  /\ ToSet(matches') \subseteq AllMatches
                    /\ ToSet(exceptions') \subseteq AllExceptions
                    /\ LaterFixed'
  BY <1>1, FixedNext
<1>2. /\ LaterFixed /\ ToSet(matches) \subseteq AllMatches
      /\ ToSet(exceptions) \subseteq AllExceptions
  BY <1>1 DEF FixedInv
<1>3. /\ k \in KeysOf("BATCH") /\ ToSet(queue) = {k} \cup ToSet(Tail(queue))
  BY <1>1, HeadOrTail DEF AllInv, RunInv, Walked
<1>4. ToSet(answer.exception) = BatchAt(k)
  BY DEF BatchAt
<1>5. IsSequence(answer.exception) /\ IsSequence(exceptions)
  BY BatchAnswerIsShort DEF AllInv, RunInv
<1> HIDE DEF answer, k
<1>6. ToSet(exceptions') = ToSet(exceptions) \cup BatchAt(k)
  BY <1>1, <1>4, <1>5, ElementsOfConcat
<1>7. BatchAt(k) \subseteq AllExceptions
  BY <1>3 DEF BatchRefusals, AllExceptions
<1>8. LaterFixed'
  <2>1. \A j \in KeysOf("BATCH") \ ToSet(queue') : BatchAt(j) \subseteq ToSet(exceptions')
    BY <1>1, <1>2, <1>3, <1>6 DEF LaterFixed
  <2> QED BY <1>1, <1>2, <1>6, <2>1, LaterNext DEF LaterFixed
<1> QED BY <1>1, <1>2, <1>6, <1>7, <1>8

\* At the end nothing is missing from the report and nothing is in excess.
LEMMA ReportIsAll ==
  ASSUME FixedInv, Finish, rules.topology # "BANK_GL", CleanIndex
  PROVE  /\ ToSet(lastRun'.matches) = AllMatches
         /\ ToSet(lastRun'.exceptions) = AllExceptions
<1>1. /\ stage = "batches" /\ queue = <<>>
      /\ lastRun'.matches = matches /\ lastRun'.exceptions = exceptions
  BY DEF Finish
<1>2. /\ LaterFixed /\ ToSet(matches) \subseteq AllMatches
      /\ ToSet(exceptions) \subseteq AllExceptions
  BY <1>1 DEF FixedInv
<1>3. ToSet(queue) = {}
  BY <1>1 DEF ToSet
<1>4. BatchRefusals \subseteq ToSet(exceptions)
  BY <1>1, <1>2, <1>3 DEF LaterFixed, BatchRefusals
<1> QED BY <1>1, <1>2, <1>4 DEF LaterFixed, AllExceptions

\* The report is what it is said to be.
LEMMA FinishKeepsFixed ==
  ASSUME FixedInv, Finish
  PROVE  FixedInv'
<1>1. UNCHANGED inputs /\ stage' = "idle"
  BY DEF Finish, stored, inputs
<1>2. /\ ToSet(lastRun.matches)' = ToSet(lastRun'.matches)
      /\ ToSet(lastRun.exceptions)' = ToSet(lastRun'.exceptions)
  BY DEF ToSet
<1> QED BY <1>1, <1>2, ReportIsAll, SameFixed DEF FixedInv

\* Every step keeps FixedInv.
LEMMA StepKeepsFixed ==
  ASSUME AllInv, FixedInv, [Next]_vars
  PROVE  FixedInv'
<1> USE DEF stored, engine
<1>1. ASSUME stage' = "idle", lastRun' = NoRun PROVE FixedInv'
  BY <1>1 DEF FixedInv
<1>2. ASSUME NEW r \in Records, Store(r) \/ StoreInterrupted(r) PROVE FixedInv'
  BY <1>1, <1>2 DEF Store, StoreInterrupted
<1>3. ASSUME NEW policy \in Policies, RegisterPolicy(policy) PROVE FixedInv'
  BY <1>1, <1>3 DEF RegisterPolicy
<1>4. ASSUME NEW p, SingleOrder(p) PROVE FixedInv'
  BY <1>4, FixedNext DEF SingleOrder, ReconcileOrder, inputs
<1>5. ASSUME NEW list \in SetToSeqs({Key(p) : p \in Of("PAYMENT")}), Begin(list)
      PROVE  FixedInv'
  BY <1>5, BeginKeepsFixed DEF KeysOf
<1>6. CASE UNCHANGED vars
  <2>1. UNCHANGED <<inputs, lastRun, stage, queue, consumed, matches, exceptions>>
    BY <1>6 DEF vars, inputs
  <2>2. OrdersFixed' <=> OrdersFixed
    <3>1. ToSet(queue)' = ToSet(queue) /\ (Once(queue)' <=> Once(queue))
          /\ ToSet(matches)' = ToSet(matches) /\ ToSet(exceptions)' = ToSet(exceptions)
      BY <2>1 DEF ToSet, Once
    <3> QED BY <2>1, <3>1, SameFixed DEF OrdersFixed
  <2>3. LaterFixed => LaterFixed'
    BY <2>1, LaterNext DEF LaterFixed
  <2> QED BY <2>1, <2>2, <2>3, FixedNext DEF FixedInv
<1> QED
  BY <1>2, <1>3, <1>4, <1>5, <1>6, NextOrderKeepsFixed, OrdersDoneKeepsFixed,
     NextProcessorKeepsFixed, ProcessorsDoneKeepsFixed, NextBatchKeepsFixed,
     FinishKeepsFixed DEF Next

\* Two reports on one ledger are of the same matches and exceptions.
LEMMA OrderDoesNotMatter ==
  ASSUME FixedInv, Finish, lastRun # NoRun, rules.topology # "BANK_GL", CleanIndex
  PROVE  /\ ToSet(lastRun'.matches) = ToSet(lastRun.matches)
         /\ ToSet(lastRun'.exceptions) = ToSet(lastRun.exceptions)
BY ReportIsAll DEF FixedInv

-----------------------------------------------------------------------------
(* MatchesAreOneToOne, the property of the Matcher run: no processor or    *)
(* settlement record is the target of two matches, and the locked records  *)
(* are the matched ones, whatever single calls and runs were made and      *)
(* whatever was stored, or half stored, between them.                      *)
THEOREM GreedyMatchingIsOneToOne == Spec => []MatchesAreOneToOne
<1>1. Init => MInv
  BY StartsMatching
<1>2. MInv /\ [Next]_vars => MInv'
  BY StepKeepsMatching DEF MInv
<1>3. MInv => MatchesAreOneToOne
  BY DEF MInv, ConsumedInv
<1> QED BY <1>1, <1>2, <1>3, PTL DEF Spec

(* Types: TypeOK of the Matcher run, among it that only charges and        *)
(* settlements are ever locked and that each match has one of the three    *)
(* strategies, whatever is stored, half stored or registered in between.   *)
THEOREM TypeCorrect == Spec => []TypeOK
<1>1. Init => AllInv /\ Kept
  BY StartsMatching, StartsWithoutRun, StartsTyped DEF AllInv
<1>2. AllInv /\ Kept /\ [Next]_vars => (AllInv /\ Kept)'
  BY StepKeepsMatching, StepKeepsRun, StepKeepsTypes DEF AllInv, MInv
<1>3. AllInv /\ Kept => TypeOK
  BY TypeFromParts DEF AllInv
<1> QED BY <1>1, <1>2, <1>3, PTL DEF Spec

\* The invariant of the ledger, the matches, the run and the report holds.
LEMMA RunsAreInOrder == Spec => []AllInv
<1>1. Init => AllInv
  BY StartsMatching, StartsWithoutRun DEF AllInv
<1>2. AllInv /\ [Next]_vars => AllInv'
  BY StepKeepsMatching, StepKeepsRun DEF AllInv, MInv
<1> QED BY <1>1, <1>2, PTL DEF Spec

(* LeftoversAreReported: a processor transaction that is stored with its   *)
(* index entries is matched, or reported itself, or all payments of its    *)
(* order are refused, or only an outdated entry names its order. The       *)
(* reason is that a match is never made with several free charges in       *)
(* sight, so it takes the last one of its order.                           *)
THEOREM NoChargeDisappears == Spec => []LeftoversAreReported
BY RunsAreInOrder, LeftoversReported, PTL

(* DuplicateChargesNeverMatch: of two charges of one order none is ever    *)
(* matched by a run, in either topology, if no index entry is missing or   *)
(* outdated: a charge is only taken when it is the last one free, and the  *)
(* other could only have been taken under the same condition.              *)
THEOREM DoubleChargesAreSeen == Spec => []DuplicateChargesNeverMatch
BY RunsAreInOrder, DuplicatesSpared, PTL

(* RunsDoNotDependOnHistory: a run started again on the same ledger, rules *)
(* and registry, with the same list, ends with the same report, whatever   *)
(* was called in between. A run is one way through the states of the       *)
(* engine, and reset_state puts every run at the start of it.              *)
THEOREM RunsRepeat == Spec => RunsDoNotDependOnHistory
<1>1. Init => HistoryInv
  BY DEF Init, NewEngine, HistoryInv
<1>2. HistoryInv /\ [Next]_vars => HistoryInv'
  BY StepKeepsHistory
<1>3. HistoryInv /\ [Next]_vars
        => [(Finish /\ lastRun # NoRun /\ lastRun.list = listed)
              => lastRun' = lastRun]_vars
  BY FinishRepeats
<1> QED BY <1>1, <1>2, <1>3, PTL DEF Spec, RunsDoNotDependOnHistory

(* OrderOfPaymentsDoesNotMatter: outside BANK_GL and with a clean index,   *)
(* a run reports AllMatches and AllExceptions, which are defined without   *)
(* any list, so two runs differ at most in the order of their reports.     *)
THEOREM OrderIsImmaterial == Spec => OrderOfPaymentsDoesNotMatter
<1>1. Init => AllInv /\ FixedInv
  <2>1. Init => stage = "idle" /\ lastRun = NoRun
    BY DEF Init, NewEngine
  <2> QED BY <2>1, StartsMatching, StartsWithoutRun DEF AllInv, FixedInv
<1>2. AllInv /\ FixedInv /\ [Next]_vars => (AllInv /\ FixedInv)'
  BY StepKeepsMatching, StepKeepsRun, StepKeepsFixed DEF AllInv, MInv
<1>3. AllInv /\ FixedInv /\ [Next]_vars
        => [(Finish /\ lastRun # NoRun /\ rules.topology # "BANK_GL" /\ CleanIndex)
              => /\ ToSet(lastRun'.matches) = ToSet(lastRun.matches)
                 /\ ToSet(lastRun'.exceptions) = ToSet(lastRun.exceptions)]_vars
  BY OrderDoesNotMatter
<1> QED BY <1>1, <1>2, <1>3, PTL DEF Spec, OrderOfPaymentsDoesNotMatter
=============================================================================
