--------------------------- MODULE PipelineProofs ---------------------------
(***************************************************************************)
(* Proofs about the whole pipeline, for data sets of any number of cases.  *)
(* Its steps are steps of the matcher (EngineStep) or of an investigation  *)
(* (AsksStep), whose invariants therefore hold in it.                      *)
(*                                                                         *)
(* The second half shows that a case of a data set is judged as if it were *)
(* alone in the store: the names of its records are no other case's, so    *)
(* every look-up, answer, piece of evidence and decision is the same there *)
(* (LookupsAlone to DecisionAlone), and so is what the scorers find        *)
(* (NamedIsHere to BenchmarkHere).                                         *)
(***************************************************************************)
EXTENDS CasesAlone, MatcherProofs

P == INSTANCE AIProofs WITH
       Ledgers <- {}, Reports <- {}, Registries <- {}, Claims <- {},
       Fabricated <- {}
-----------------------------------------------------------------------------
\* An engine that has not been used.
AtRest ==
  /\ stage = "idle" /\ queue = <<>> /\ listed = <<>> /\ consumed = {}
  /\ matches = <<>> /\ exceptions = <<>> /\ payouts = <<>>
  /\ lastRun = NoRun /\ puts = 0 /\ rules \in RuleSets

EngineInv == AllInv /\ FixedInv /\ Kept

\* On any store with one record for each key its invariants hold.
LEMMA UnusedEngine == AtRest /\ StoreInv /\ LedgerInv => EngineInv
<1> SUFFICES ASSUME AtRest, StoreInv, LedgerInv PROVE EngineInv
  OBVIOUS
<1>1. IsSequence(<<>>)
  BY FindingsAreSequences
<1>2. DOMAIN matches = {} /\ ToSet(<<>>) = {}
  BY DEF AtRest, ToSet
<1>3. MInv
  BY <1>1, <1>2 DEF AtRest, MInv, ConsumedInv, MatchesAreOneToOne
<1>4. RunInv /\ ReportInv /\ FixedInv
  BY <1>1 DEF AtRest, RunInv, ReportInv, FixedInv
<1>5. Kept
  BY <1>2, MatcherAssumption DEF AtRest, Kept, Named
<1> QED BY <1>3, <1>4, <1>5 DEF EngineInv, AllInv

\* The steps of the matcher keep them.
LEMMA EngineStep ==
  ASSUME EngineInv, [Next]_vars
  PROVE  EngineInv'
BY StepKeepsMatching, StepKeepsRun, StepKeepsFixed, StepKeepsTypes
   DEF EngineInv, AllInv, MInv

\* The prefix scan of the payments is a list reconcile_all may be given.
LEMMA PaymentsAreListed ==
  ASSUME StoreInv, LedgerInv
  PROVE  /\ Payments \in SetToSeqs({Key(p) : p \in Of("PAYMENT")})
         /\ Len(Payments) \in Nat
         /\ \A i \in 1 .. Len(Payments) : Get(Payments[i]) \in Of("PAYMENT")
<1> DEFINE keys == {Key(p) : p \in Of("PAYMENT")}
<1>1. keys \subseteq Stored /\ \A k \in keys : k.kind = "PAYMENT"
  BY DEF Of, Stored, Key
<1>2. IsFiniteSet(keys) /\ \A k \in keys : k.id \in Nat
  BY <1>1, KeysAreFinite, FS_Subset
<1>3. \A j, k \in keys : j.id = k.id => j = k
  BY <1>1, KeysAreFinite
<1>4. Cardinality(keys) \in Nat
  BY <1>2, FS_CardinalityType
<1> HIDE DEF keys
<1>5. /\ Listed(keys) \in [1 .. Cardinality(keys) -> keys]
      /\ \A i, j \in 1 .. Cardinality(keys) :
           Listed(keys)[i] = Listed(keys)[j] => i = j
  BY <1>2, <1>3, ListedEnumerates
<1>6. Payments = Listed(keys)
  BY DEF Payments, Scan, keys
<1>7. Payments \in SetToSeqs(keys)
  BY <1>5, <1>6 DEF SetToSeqs, IsInjective
<1>8. Len(Payments) = Cardinality(keys)
  <2>1. DOMAIN Payments = 1 .. Cardinality(keys) /\ Payments \in Seq(keys)
    BY <1>4, <1>5, <1>6, SeqDef
  <2> QED BY <1>4, <2>1
<1>9. ASSUME NEW i \in 1 .. Len(Payments) PROVE Get(Payments[i]) \in Of("PAYMENT")
  <2>1. Payments[i] \in keys
    BY <1>5, <1>6, <1>8
  <2>2. PICK p \in Of("PAYMENT") : Payments[i] = Key(p)
    BY <2>1 DEF keys
  <2> QED BY <2>2, GetKey DEF Of
<1> QED BY <1>4, <1>7, <1>8, <1>9 DEF keys
-----------------------------------------------------------------------------
(* What exceptions tell.                                                   *)

Duplicates == {"DUPLICATE_INTERNAL", "DUPLICATE_PROCESSOR"}

\* The names under which reconcile_order finds a payment and its targets.
Around(p) ==
  {Key(p), OrderRef(p.order)} \cup Under(Key(p), "SETTLEMENT")
    \cup UNION {Under(OrderRef(p.order), kind) : kind \in Kinds}

\* Related names are some of these, or full primary keys.
Relates(related, names) ==
  IsSequence(related) /\ \A x \in ToSet(related) : x \in names \/ x.kind = "PRIMARY_KEY"

\* A finding about a payment names its order, or else all the duplicates.
Tells(finding, p) ==
  /\ Relates(finding.related, Around(p))
  /\ finding.type \in Duplicates \/ OrderRef(p.order) \in ToSet(finding.related)

AllTell(findings, p) == \A f \in ToSet(findings) : Tells(f, p)

\* Lists of no, one or two elements.
LEMMA ShortLists ==
  /\ IsSequence(<<>>) /\ ToSet(<<>>) = {}
  /\ \A x : IsSequence(<<x>>) /\ ToSet(<<x>>) = {x}
  /\ \A x, y : IsSequence(<<x, y>>) /\ ToSet(<<x, y>>) = {x, y}
<1>1. IsSequence(<<>>) /\ \A x : IsSequence(<<x>>)
  BY FindingsAreSequences
<1>2. ASSUME NEW x, NEW y PROVE IsSequence(<<x, y>>)
  <2>1. <<x, y>> \in Seq({x, y})
    OBVIOUS
  <2> QED BY <2>1, SequenceOfItsElements
<1>3. ToSet(<<>>) = {} /\ \A x : ToSet(<<x>>) = {x}
  BY DEF ToSet
<1>4. ASSUME NEW x, NEW y PROVE ToSet(<<x, y>>) = {x, y}
  <2>1. DOMAIN <<x, y>> = 1 .. 2 /\ <<x, y>>[1] = x /\ <<x, y>>[2] = y
    OBVIOUS
  <2> QED BY <2>1 DEF ToSet
<1> QED BY <1>1, <1>2, <1>3, <1>4

\* A list begins with one of the keys looked up.
LEMMA FirstEntry ==
  ASSUME NEW by, NEW kind, StoreInv, LedgerInv, Entries(by, kind) # <<>>
  PROVE  Entries(by, kind)[1] \in Under(by, kind)
<1> DEFINE s == Entries(by, kind)
<1>1. IsSequence(s) /\ ToSet(s) = Under(by, kind)
  BY EntriesEnumerate
<1> HIDE DEF s
<1>2. s \in Seq(ToSet(s)) /\ DOMAIN s = 1 .. Len(s) /\ s # <<>>
  BY <1>1 DEF IsSequence, s
<1>3. 1 \in DOMAIN s
  BY <1>2
<1>4. s[1] \in ToSet(s)
  BY <1>3 DEF ToSet
<1> QED BY <1>1, <1>4 DEF s

LEMMA FindingTells ==
  ASSUME NEW type, NEW p, NEW k \in Around(p)
  PROVE  Tells(Finding(type, k, p), p)
<1>1. OrderRef(p.order) \in Around(p)
  BY DEF Around
<1> HIDE DEF Around
<1> QED BY <1>1, ShortLists DEF Tells, Relates, Finding

LEMMA WhenTells ==
  ASSUME NEW c, NEW f, NEW p, c => Tells(f, p)
  PROVE  IsSequence(When(c, f)) /\ AllTell(When(c, f), p)
BY ShortLists DEF When, AllTell

LEMMA JoinedTell ==
  ASSUME NEW s, IsSequence(s), NEW t, IsSequence(t), NEW p, AllTell(s, p), AllTell(t, p)
  PROVE  IsSequence(s \o t) /\ AllTell(s \o t, p)
BY ElementsOfConcat DEF AllTell

\* Duplicates are listed by their keys.
LEMMA KeysListed ==
  ASSUME NEW keys, IsSequence(keys), NEW names
  PROVE  Relates(PrimaryKeys(keys), names)
<1>1. Len(keys) \in Nat /\ DOMAIN keys = 1 .. Len(keys)
  BY DEF IsSequence
<1>2. PrimaryKeys(keys) \in [1 .. Len(keys) ->
                               {[kind |-> "PRIMARY_KEY", id |-> keys[i].id] : i \in DOMAIN keys}]
  BY <1>1 DEF PrimaryKeys
<1>3. PrimaryKeys(keys) \in Seq({[kind |-> "PRIMARY_KEY", id |-> keys[i].id] : i \in DOMAIN keys})
  BY <1>1, <1>2, SeqDef
<1>4. \A x \in ToSet(PrimaryKeys(keys)) : x.kind = "PRIMARY_KEY"
  BY DEF ToSet, PrimaryKeys
<1> QED BY <1>3, <1>4, SequenceOfItsElements DEF Relates

\* A refusal is one exception, whose type and names are the first finding's.
LEMMA RefusalTells ==
  ASSUME NEW p, NEW findings, IsSequence(findings), findings # <<>>,
         AllTell(findings, p), NEW primary, NEW e \in ToSet(Refused(p, findings, primary).exception)
  PROVE  e.payment = Key(p) /\ e.primary = primary /\ Tells(e, p)
<1>1. 1 \in DOMAIN findings
  BY DEF IsSequence
<1>2. Tells(findings[1], p)
  BY <1>1 DEF AllTell, ToSet
<1>3. e = Exception(findings[1].type, primary, Key(p), findings[1].related,
                    [i \in DOMAIN findings |-> findings[i].type])
  BY ShortLists DEF Refused
<1>4. /\ e.payment = Key(p) /\ e.type = findings[1].type
      /\ e.related = findings[1].related /\ e.primary = primary
  BY <1>3 DEF Exception
<1> QED BY <1>2, <1>4 DEF Tells

LEMMA TwiceTells ==
  ASSUME NEW p, NEW related, Relates(related, Around(p)),
         NEW e \in ToSet(PostedTwice(p, related).exception)
  PROVE  e.payment = Key(p) /\ e.primary = Key(p) /\ Tells(e, p)
<1>1. e = Exception("DUPLICATE_INTERNAL", Key(p), Key(p), related, <<>>)
  BY ShortLists DEF PostedTwice
<1> QED BY <1>1 DEF Exception, Tells, Duplicates

\* The findings that need no target.
LEMMA BeforeTells ==
  ASSUME StoreInv, LedgerInv, NEW p
  PROVE  /\ IsSequence(RefundFindings(p)) /\ AllTell(RefundFindings(p), p)
         /\ IsSequence(InvoiceFindings(p)) /\ AllTell(InvoiceFindings(p), p)
         /\ \A t : IsSequence(FeeFindings(p, t)) /\ AllTell(FeeFindings(p, t), p)
<1>1. \A c, f : (c => Tells(f, p)) => IsSequence(When(c, f)) /\ AllTell(When(c, f), p)
  BY WhenTells
<1>2. /\ IsSequence(<<>>) /\ AllTell(<<>>, p)
      /\ \A f : Tells(f, p) => IsSequence(<<f>>) /\ AllTell(<<f>>, p)
  BY ShortLists DEF AllTell
<1>3. \A kind \in {"REFUND", "INVOICE"} : Entries(OrderRef(p.order), kind) # <<>> =>
        \A type : Tells(Finding(type, Entries(OrderRef(p.order), kind)[1], p), p)
  <2> TAKE kind \in {"REFUND", "INVOICE"}
  <2> HAVE Entries(OrderRef(p.order), kind) # <<>>
  <2>1. Entries(OrderRef(p.order), kind)[1] \in Around(p)
    BY FirstEntry DEF Around, Kinds
  <2> QED BY <2>1, FindingTells
<1>4. \A type : Tells(Finding(type, Key(p), p), p)
  <2>1. Key(p) \in Around(p)
    BY DEF Around
  <2> QED BY <2>1, FindingTells
<1>5. IsSequence(RefundFindings(p)) /\ AllTell(RefundFindings(p), p)
  BY <1>2, <1>3 DEF RefundFindings
<1>6. IsSequence(InvoiceFindings(p)) /\ AllTell(InvoiceFindings(p), p)
  BY <1>1, <1>2, <1>3 DEF InvoiceFindings
<1>7. \A t : IsSequence(FeeFindings(p, t)) /\ AllTell(FeeFindings(p, t), p)
  BY <1>1, <1>2, <1>4 DEF FeeFindings
<1> QED BY <1>5, <1>6, <1>7

LEMMA ComparedTells ==
  ASSUME StoreInv, LedgerInv, NEW p, NEW t, Key(t) \in Around(p),
         NEW before, IsSequence(before), AllTell(before, p),
         NEW e \in ToSet(Compared(p, t, before).exception)
  PROVE  e.payment = Key(p) /\ e.primary \in Around(p) /\ Tells(e, p)
<1> DEFINE currency == When(p.currency # t.currency,
                            Finding("CURRENCY_MISMATCH", Key(t), p))
           amount == When(Strategy(p, t) = "NONE", Finding("AMOUNT_MISMATCH", Key(t), p))
           findings == before \o currency \o amount \o FeeFindings(p, t)
           primary == IF t.kind = "PROCESSOR" THEN Key(t) ELSE Key(p)
<1>1. /\ IsSequence(currency) /\ AllTell(currency, p)
      /\ IsSequence(amount) /\ AllTell(amount, p)
  BY FindingTells, WhenTells
<1>2. IsSequence(FeeFindings(p, t)) /\ AllTell(FeeFindings(p, t), p)
  BY BeforeTells
<1>3. Compared(p, t, before) = IF findings # <<>> THEN Refused(p, findings, primary)
                                                  ELSE Matched(p, t)
  BY DEF Compared
<1>a. primary \in Around(p)
  BY DEF Around
<1> HIDE DEF currency, amount
<1>4. IsSequence(findings) /\ AllTell(findings, p)
  BY <1>1, <1>2, JoinedTell
<1> HIDE DEF findings, primary
<1>5. CASE findings # <<>>
  BY <1>3, <1>4, <1>5, <1>a, RefusalTells
<1>6. CASE findings = <<>>
  <2>1. ToSet(Matched(p, t).exception) = {}
    BY ShortLists DEF Matched
  <2> QED BY <1>3, <1>6, <2>1
<1> QED BY <1>5, <1>6

\* A target is found around its payment.
LEMMA TargetsAround ==
  ASSUME StoreInv, NEW p, NEW taken, Targets(p, taken) # {}
  PROVE  Key(Get(First(Targets(p, taken)))) \in Around(p)
<1>1. /\ \A kind \in Kinds : Under(OrderRef(p.order), kind) \subseteq Around(p)
      /\ Under(Key(p), "SETTLEMENT") \subseteq Around(p)
  <2>1. ASSUME NEW kind \in Kinds
        PROVE  Under(OrderRef(p.order), kind) \subseteq Around(p)
    <3>1. Under(OrderRef(p.order), kind) \in {Under(OrderRef(p.order), other) : other \in Kinds}
      OBVIOUS
    <3> QED BY <3>1, Zenon DEF Around
  <2>2. Under(Key(p), "SETTLEMENT") \subseteq Around(p)
    BY Zenon DEF Around
  <2> QED BY <2>1, <2>2
<1>2. "PROCESSOR" \in Kinds /\ "SETTLEMENT" \in Kinds
  BY DEF Kinds
<1>3. Targets(p, taken) \subseteq Around(p)
  <2> HIDE DEF Around
  <2> QED BY <1>1, <1>2 DEF Targets, Available, AvailableSettlements, Free
<1> QED BY <1>3, TargetIsFree

(* An exception reconcile_order returns is about its payment, and names    *)
(* the payment's order unless it is about duplicates; it names nothing but *)
(* what is found with the payment.                                         *)
LEMMA AnswerTells ==
  ASSUME StoreInv, LedgerInv, NEW p, NEW taken,
         NEW e \in ToSet(Answer(p, taken).exception)
  PROVE  e.payment = Key(p) /\ e.primary \in Around(p) /\ Tells(e, p)
<1> DEFINE posted == Entries(OrderRef(p.order), "PAYMENT")
           charged == Entries(OrderRef(p.order), "PROCESSOR")
           double == When(Cardinality(Available(p, taken)) > 1,
                          [type |-> "DUPLICATE_PROCESSOR",
                           related |-> PrimaryKeys(charged)])
           before == RefundFindings(p) \o InvoiceFindings(p) \o double
           missing == [type |-> "MISSING_PROCESSOR",
                       related |-> <<OrderRef(p.order)>>]
<1>a. Key(p) \in Around(p) /\ OrderRef(p.order) \in Around(p)
  BY DEF Around
<1>1. /\ Relates(PrimaryKeys(posted), Around(p)) /\ Relates(PrimaryKeys(charged), Around(p))
      /\ Relates(<<OrderRef(p.order)>>, Around(p))
  <2>1. Relates(<<OrderRef(p.order)>>, Around(p))
    <3> HIDE DEF Around
    <3> QED BY <1>a, ShortLists DEF Relates
  <2> QED BY <2>1, EntriesEnumerate, KeysListed
<1>2. IsSequence(double) /\ AllTell(double, p)
  <2>1. Tells([type |-> "DUPLICATE_PROCESSOR", related |-> PrimaryKeys(charged)], p)
    BY <1>1 DEF Tells, Duplicates
  <2> QED BY <2>1, WhenTells
<1>3. IsSequence(<<missing>>) /\ AllTell(<<missing>>, p)
  BY <1>1, ShortLists DEF AllTell, Tells
<1>4. \/ \E related \in {<<OrderRef(p.order)>>, PrimaryKeys(posted)} :
           Answer(p, taken) = PostedTwice(p, related)
      \/ /\ Targets(p, taken) # {}
         /\ Answer(p, taken) = Compared(p, Get(First(Targets(p, taken))), before)
      \/ Answer(p, taken) = Refused(p, Append(before, missing), Key(p))
  BY DEF Answer
<1> HIDE DEF double, missing
<1>5. IsSequence(before) /\ AllTell(before, p)
  <2>1. /\ IsSequence(RefundFindings(p)) /\ AllTell(RefundFindings(p), p)
        /\ IsSequence(InvoiceFindings(p)) /\ AllTell(InvoiceFindings(p), p)
    BY BeforeTells
  <2> QED BY <1>2, <2>1, JoinedTell
<1> HIDE DEF before, posted
<1>6. /\ Append(before, missing) = before \o <<missing>>
      /\ before \o <<missing>> # <<>>
  BY <1>5 DEF IsSequence
<1>7. IsSequence(before \o <<missing>>) /\ AllTell(before \o <<missing>>, p)
  BY <1>3, <1>5, JoinedTell
<1>8. \A related : (/\ Relates(related, Around(p))
                   /\ Answer(p, taken) = PostedTwice(p, related))
                  => e.payment = Key(p) /\ e.primary \in Around(p) /\ Tells(e, p)
  BY <1>a, TwiceTells
<1>9. CASE /\ Targets(p, taken) # {}
           /\ Answer(p, taken) = Compared(p, Get(First(Targets(p, taken))), before)
  BY <1>5, <1>9, ComparedTells, TargetsAround
<1>10. CASE Answer(p, taken) = Refused(p, Append(before, missing), Key(p))
  <2> DEFINE all == Append(before, missing)
  <2>1. IsSequence(all) /\ all # <<>> /\ AllTell(all, p)
    BY <1>6, <1>7
  <2> HIDE DEF all
  <2>2. \A x \in ToSet(Refused(p, all, Key(p)).exception) :
          x.payment = Key(p) /\ x.primary = Key(p) /\ Tells(x, p)
    BY <2>1, RefusalTells
  <2>3. e \in ToSet(Refused(p, all, Key(p)).exception)
    BY <1>10 DEF all
  <2> QED BY <1>a, <2>2, <2>3
<1>11. CASE \E related \in {<<OrderRef(p.order)>>, PrimaryKeys(posted)} :
                Answer(p, taken) = PostedTwice(p, related)
  <2>1. PICK related \in {<<OrderRef(p.order)>>, PrimaryKeys(posted)} :
               Answer(p, taken) = PostedTwice(p, related)
    BY <1>11
  <2>2. Relates(related, Around(p))
    BY <1>1, <2>1
  <2> QED BY <1>8, <2>1, <2>2
<1> QED BY <1>4, <1>9, <1>10, <1>11

\* An exception reconcile_batch returns is about its batch and its bank lines.
LEMMA BatchTells ==
  ASSUME StoreInv, LedgerInv, NEW b, NEW e \in ToSet(BatchAnswer(b).exception)
  PROVE  /\ e.payment = Key(b) /\ e.primary = Key(b)
         /\ Relates(e.related, Under([kind |-> "REF", id |-> b.ref], "BANK"))
<1> DEFINE by == [kind |-> "REF", id |-> b.ref]
           lines == Entries(by, "BANK")
           Fails(type, related) ==
             [Exception(type, Key(b), Key(b), related, <<>>)
                EXCEPT !.created = type # "CURRENCY_MISMATCH"]
<1>1. \A related \in {PrimaryKeys(lines), <<>>, lines} : Relates(related, Under(by, "BANK"))
  <2>1. IsSequence(lines) /\ ToSet(lines) = Under(by, "BANK")
    BY EntriesEnumerate
  <2>2. Relates(PrimaryKeys(lines), Under(by, "BANK"))
    BY <2>1, KeysListed
  <2>3. Relates(<<>>, Under(by, "BANK")) /\ Relates(lines, Under(by, "BANK"))
    <3> HIDE DEF by, lines
    <3> QED BY <2>1, ShortLists DEF Relates
  <2> QED BY <2>2, <2>3
<1>2. \A type, related : /\ Fails(type, related).payment = Key(b)
                         /\ Fails(type, related).primary = Key(b)
                         /\ Fails(type, related).related = related
  BY DEF Exception
<1>3. \E type, related :
        /\ Relates(related, Under(by, "BANK"))
        /\ BatchAnswer(b).exception \in {<<>>, <<Fails(type, related)>>}
  <2> HIDE DEF Fails
  <2>1. \/ BatchAnswer(b).exception = <<>>
        \/ \E type : \E related \in {PrimaryKeys(lines), <<>>, lines} :
             BatchAnswer(b).exception = <<Fails(type, related)>>
    BY DEF BatchAnswer, Fails
  <2> QED BY <1>1, <2>1
<1> HIDE DEF Fails
<1> QED BY <1>2, <1>3, ShortLists

\* An exception for a charge left over names it and its order.
LEMMA OrphanTells ==
  ASSUME NEW k, NEW taken, NEW e \in ToSet(When(Orphan(k, taken), Unrecorded(k)))
  PROVE  /\ Orphan(k, taken) /\ e = Unrecorded(k)
         /\ e.payment = k /\ e.primary = k
         /\ Relates(e.related, {OrderRef(Get(k).order)})
<1>1. Orphan(k, taken) /\ e = Unrecorded(k)
  <2>1. CASE Orphan(k, taken)
    BY <2>1, ShortLists DEF When
  <2>2. CASE ~Orphan(k, taken)
    BY <2>2, ShortLists DEF When
  <2> QED BY <2>1, <2>2
<1>2. e.payment = k /\ e.primary = k /\ e.related = <<OrderRef(Get(k).order)>>
  BY <1>1 DEF Unrecorded, Exception
<1> QED BY <1>1, <1>2, ShortLists DEF Relates

(* Of a report without BANK_GL, an exception raised for a payment names    *)
(* its order unless it is about duplicates.                                *)
LEMMA ReportTells ==
  ASSUME StoreInv, LedgerInv, NEW e \in AllExceptions
  PROVE  /\ IsSequence(e.related)
         /\ (e.payment.kind = "PAYMENT" /\ e.type \notin Duplicates)
              => /\ Get(e.payment) \in ledger
                 /\ OrderRef(Get(e.payment).order) \in ToSet(e.related)
<1>1. CASE e \in AllRefusals
  <2>1. PICK p \in Of("PAYMENT") : e \in ToSet(Answer(p, {}).exception)
    BY <1>1 DEF AllRefusals
  <2>2. e.payment = Key(p) /\ Tells(e, p)
    BY <2>1, AnswerTells
  <2>3. p \in ledger /\ Get(Key(p)) = p
    BY GetKey DEF Of
  <2> QED BY <2>2, <2>3 DEF Tells, Relates
<1>2. CASE e \in Orphans
  <2>1. PICK k \in KeysOf("PROCESSOR") : e \in OrphanAt(k)
    BY <1>2 DEF Orphans
  <2>2. e.payment = k /\ IsSequence(e.related)
    BY <2>1, OrphanTells DEF OrphanAt, Relates
  <2>3. k.kind = "PROCESSOR"
    BY DEF KeysOf, Of, Key
  <2> QED BY <2>2, <2>3
<1>3. CASE e \in BatchRefusals
  <2>1. PICK k \in KeysOf("BATCH") : e \in ToSet(BatchAnswer(Get(k)).exception)
    BY <1>3 DEF BatchRefusals, BatchAt
  <2>2. PICK b \in Of("BATCH") : k = Key(b) /\ Get(k) = b
    BY GetKey DEF KeysOf, Of
  <2>3. Key(b).kind = "BATCH"
    BY DEF Of, Key
  <2>4. e.payment = Key(b) /\ IsSequence(e.related)
    BY <2>1, <2>2, BatchTells DEF Relates
  <2> QED BY <2>3, <2>4
<1> QED BY <1>1, <1>2, <1>3 DEF AllExceptions
-----------------------------------------------------------------------------
(* The investigations.                                                     *)

(* AIProofs speaks of every store, report and registry; the pipeline gives *)
(* it none in advance, so what it assumes of them holds.                   *)
LEMMA AssumedByAIProofs == P!RecordsAssumption /\ P!AIControllerAssumption
<1>1. P!RecordsAssumption
  BY RecordsAssumption DEF P!RecordsAssumption, P!Kinds, Kinds
<1>2. P!AIControllerAssumption
  BY DEF P!AIControllerAssumption
<1> QED BY <1>1, <1>2

\* Investigations keep the invariants AIProofs gives for them.
LEMMA InvestigationsKeep ==
  /\ P!IInv /\ [P!Investigation]_(P!vars) => P!IInv'
  /\ P!AuditInv /\ [P!Investigation]_(P!vars) => P!AuditInv'
BY P!ResolutionsStayJustified, P!TrailsStayInStep, AssumedByAIProofs

\* The pipeline's controller gathers and decides as the one of AIProofs.
LEMMA SameEvidence == \A e : AI!Gathered(e) = P!Gathered(e)
<1>1. \A by, kind : AI!Entries(by, kind) = P!Entries(by, kind)
  BY DEF AI!Entries, P!Entries, AI!Listed, P!Listed, AI!Before, P!Before, AI!Under,
         P!Under, AI!Cardinality, P!Cardinality
<1>2. \A k : AI!GetRecord(k) = P!GetRecord(k)
  BY DEF AI!GetRecord, P!GetRecord, AI!Key, P!Key
<1>3. \A ref : AI!SearchByOrder(ref) = P!SearchByOrder(ref)
  BY <1>1 DEF AI!SearchByOrder, P!SearchByOrder
<1>4. \A ref : AI!RelatedEvidence(ref) = P!RelatedEvidence(ref)
  BY <1>2, <1>3 DEF AI!RelatedEvidence, P!RelatedEvidence
<1>5. \A e : AI!Found(e) = P!Found(e)
  <2> TAKE e
  <2>1. [i \in DOMAIN e.related |-> AI!RelatedEvidence(e.related[i])]
          = [i \in DOMAIN e.related |-> P!RelatedEvidence(e.related[i])]
    BY <1>4
  <2> QED BY <1>2, <2>1 DEF AI!Found, P!Found
<1>6. \A s : AI!Range(s) = P!Range(s)
  BY DEF AI!Range, P!Range
<1>7. \A found : AI!Contents(found) = P!Contents(found)
  <2> TAKE found
  <2>1. {AI!Range(list) : list \in P!Range(found)} = {P!Range(list) : list \in P!Range(found)}
    BY <1>6
  <2> QED BY <1>6, <2>1 DEF AI!Contents, P!Contents
<1>8. \A found : AI!FeeContext(found) = P!FeeContext(found)
  <2>1. \A k : AI!Get(k) = P!Get(k)
    BY DEF AI!Get, P!Get, AI!Key, P!Key
  <2>2. \A found, kind : AI!FirstFound(found, kind) = P!FirstFound(found, kind)
    BY DEF AI!FirstFound, P!FirstFound, AI!OfKind, P!OfKind, AI!Foremost, P!Foremost
  <2> QED BY <2>1, <2>2 DEF AI!FeeContext, P!FeeContext, AI!None, P!None
<1>9. \A g, c : AI!MatchPolicy(g, c) = P!MatchPolicy(g, c)
  <2>1. \A g, c : AI!Fitting(g, c) = P!Fitting(g, c)
    BY DEF AI!Fitting, P!Fitting, AI!Applies, P!Applies, AI!ForProcessor, P!ForProcessor,
           AI!ForMethod, P!ForMethod, AI!Tiers, P!Tiers, AI!ANY, P!ANY, AI!None, P!None
  <2>2. \A f : AI!BestTier(f) = P!BestTier(f)
    BY DEF AI!BestTier, P!BestTier, AI!Tiers, P!Tiers
  <2> TAKE g, c
  <2> DEFINE LastOf(best) == g[CHOOSE i \in best : \A j \in best : j <= i]
             Chosen(fit, tier) == IF \A t \in 1 .. 4 : fit[t] = {} THEN NoPolicy
                                  ELSE LastOf(fit[tier])
  <2>3. AI!MatchPolicy(g, c) = Chosen(AI!Fitting(g, c), AI!BestTier(AI!Fitting(g, c)))
    BY DEF AI!MatchPolicy, AI!Tiers, AI!NoPolicy, NoPolicy, AI!None, None
  <2>4. P!MatchPolicy(g, c) = Chosen(P!Fitting(g, c), P!BestTier(P!Fitting(g, c)))
    BY DEF P!MatchPolicy, P!Tiers, P!NoPolicy, NoPolicy, P!None, None
  <2> HIDE DEF Chosen
  <2> QED BY <2>1, <2>2, <2>3, <2>4
<1>10. \A e, found : AI!GetFeePolicy(e, found) = P!GetFeePolicy(e, found)
  BY <1>8, <1>9 DEF AI!GetFeePolicy, P!GetFeePolicy, AI!FeeTypes, P!FeeTypes,
     AI!PolicyEvidence, P!PolicyEvidence, AI!NoPolicy, P!NoPolicy, AI!None, P!None
<1>11. \A e : AI!GetSimilarCases(e) = P!GetSimilarCases(e)
  BY DEF AI!GetSimilarCases, P!GetSimilarCases
<1>12. ASSUME NEW e PROVE AI!CustomerEvidence(e) = P!CustomerEvidence(e)
  <2> DEFINE refs == {e.primary} \cup P!Range(e.related)
  <2>1. {AI!Range(AI!SearchByOrder(ref)) : ref \in refs}
          = {P!Range(P!SearchByOrder(ref)) : ref \in refs}
    BY <1>3, <1>6
  <2>2. AI!CustomerEvidence(e)
          = IF e.type = "BUNDLED_PAYMENT"
            THEN UNION {AI!Range(AI!SearchByOrder(ref)) : ref \in refs} ELSE {}
    BY <1>6 DEF AI!CustomerEvidence
  <2>3. P!CustomerEvidence(e)
          = IF e.type = "BUNDLED_PAYMENT"
            THEN UNION {P!Range(P!SearchByOrder(ref)) : ref \in refs} ELSE {}
    BY DEF P!CustomerEvidence
  <2> QED BY <2>1, <2>2, <2>3
<1> QED BY <1>5, <1>7, <1>10, <1>11, <1>12 DEF AI!Gathered, P!Gathered

LEMMA SameOutcome ==
  /\ \A claims, items : AI!Contradicted(claims, items) = P!Contradicted(claims, items)
  /\ \A reply, items : AI!Outcome(reply, items) = P!Outcome(reply, items)
<1>1. \A items : AI!Amounts(items) = P!Amounts(items)
  BY DEF AI!Amounts, P!Amounts, AI!Gap, P!Gap, AI!Key, P!Key
<1>2. \A claims, items : AI!Contradicted(claims, items) = P!Contradicted(claims, items)
  BY <1>1 DEF AI!Contradicted, P!Contradicted, AI!Near, P!Near, AI!Gap, P!Gap
<1> QED BY <1>2 DEF AI!Outcome, P!Outcome, AI!Passes, P!Passes

\* A step of the loop is a step of an investigation of AIProofs.
LEMMA AsksStep ==
  ASSUME AI!Start \/ Answered
  PROVE  P!Investigation
<1>1. CASE AI!Start
  <2>1. P!Start
    BY <1>1, SameEvidence DEF AI!Start, P!Start, AI!Log, P!Log, AI!stored, P!stored
  <2> QED BY <2>1 DEF P!Investigation
<1>2. ASSUME NEW reply, AI!Decide(reply) PROVE P!Investigation
  <2>1. P!Decide(reply)
    BY <1>2, SameOutcome DEF AI!Decide, P!Decide, AI!Log, P!Log, AI!stored, P!stored
  <2> QED BY <2>1 DEF P!Investigation
<1>3. CASE AI!NoUsableReply
  <2>1. P!NoUsableReply
    BY <1>3 DEF AI!NoUsableReply, P!NoUsableReply, AI!Log, P!Log, AI!stored, P!stored
  <2> QED BY <2>1 DEF P!Investigation
<1>4. Answered => AI!NoUsableReply \/ \E reply : AI!Decide(reply)
  BY DEF Answered
<1> QED BY <1>1, <1>2, <1>3, <1>4
-----------------------------------------------------------------------------
(* The invariant of the pipeline.                                          *)

Planned ==
  /\ program \in DOMAIN Datasets /\ dataset \in Datasets[program]
  /\ rules = RulesOf(program) /\ rules \in RuleSets
  /\ step \in {"load", "match", "ask", "done"}

\* The ledger before and after the data set is loaded.
Loaded ==
  IF step = "load" THEN AtRest /\ ledger = {} /\ index = {}
  ELSE ledger = RecordsIn(dataset) /\ index = UNION {IndexEntries(r) : r \in ledger}

\* A report nobody has looked at.
Unasked ==
  /\ current = 1 /\ phase = "next"
  /\ DOMAIN status = DOMAIN report /\ DOMAIN verified = DOMAIN report
  /\ DOMAIN audit = DOMAIN report /\ DOMAIN proposal = DOMAIN report
  /\ \A i \in DOMAIN report :
       status[i] = "OPEN" /\ verified[i] = {} /\ audit[i] = <<>>

\* The benchmark's calls of its own, one for each payment.
Measuring ==
  (stage = "idle" /\ program = "benchmark")
    => Len(matches) + Len(exceptions) <= Len(Payments)

\* The report is what the matcher says of the ledger, or the one by hand.
Handed ==
  IF program = "suite" THEN report = [i \in DOMAIN dataset |-> dataset[i].exception]
  ELSE /\ report = exceptions
       /\ ToSet(exceptions) = AllExceptions /\ ToSet(matches) = AllMatches

Statuses ==
  \A i \in DOMAIN report : status[i] \in {"OPEN", "AI_RESOLVED", "HUMAN_REVIEW"}

Asked == P!IInv /\ P!AuditInv /\ Statuses

PipelineInv ==
  /\ Planned /\ Loaded /\ EngineInv /\ Asked
  /\ step \in {"load", "match"} => report = <<>> /\ Unasked
  /\ step = "match" => program # "suite" /\ lastRun = NoRun /\ Measuring
  /\ step \in {"ask", "done"} => Handed

LEMMA ReportShape ==
  ASSUME NEW list
  PROVE  P!IsReport(list)
           <=> IsSequence(list) /\ \A e \in ToSet(list) : IsSequence(e.related)
BY DEF P!IsReport, P!IsSequence, IsSequence, P!ToSet, ToSet

\* With a fresh report the investigations' invariants hold.
LEMMA FreshReport == P!IsReport(report) /\ Unasked => Asked
<1> SUFFICES ASSUME P!IsReport(report), Unasked PROVE Asked
  OBVIOUS
<1>1. Len(report) \in Nat /\ DOMAIN report = 1 .. Len(report)
  BY ReportShape DEF IsSequence
<1>2. P!Shape
  BY <1>1 DEF Unasked, P!Shape
<1>3. P!IInv
  BY <1>2 DEF Unasked, P!IInv, P!EvidenceIsOwn, P!ResolvedOnOwnEvidence
<1>4. P!AuditInv
  BY <1>1, <1>2 DEF Unasked, P!AuditInv, P!OpenTrail, P!AuditAccountsForStatus
<1> QED BY <1>3, <1>4 DEF Asked, Statuses, Unasked

\* A loaded store is one the lemmas about matcher and controller speak of.
LEMMA LoadedStore ==
  Planned /\ Loaded /\ step # "load"
    => StoreInv /\ LedgerInv /\ CleanIndex /\ P!StoreIsIndexed
<1> SUFFICES ASSUME Planned, Loaded, step # "load"
             PROVE  StoreInv /\ LedgerInv /\ CleanIndex /\ P!StoreIsIndexed
  OBVIOUS
<1>1. /\ ledger \subseteq Records /\ IsFiniteSet(ledger)
      /\ \A r, s \in ledger : Key(r) = Key(s) => r = s
      /\ index = UNION {IndexEntries(r) : r \in ledger}
  BY DatasetsAssumption DEF Planned, Loaded
<1>2. ASSUME NEW e \in index
      PROVE  \E r \in ledger : e \in IndexEntries(r) /\ Key(r) = e.to
  <2>1. PICK r \in ledger : e \in IndexEntries(r)
    BY <1>1
  <2>2. e = [by |-> e.by, to |-> Key(r)]
    BY <2>1, EntryLeadsHome
  <2>3. e.to = Key(r)
    BY <2>2
  <2> QED BY <2>1, <2>3
<1>3. StoreInv /\ LedgerInv
  BY <1>1, <1>2 DEF StoreInv, LedgerInv
<1>4. CleanIndex
  <2>1. \A r \in ledger : Indexed(r)
    BY <1>1 DEF Indexed
  <2>2. ASSUME NEW e \in index PROVE ~Stale(e)
    <3>1. PICK r \in ledger : e \in IndexEntries(r) /\ Key(r) = e.to
      BY <1>2
    <3>2. Get(e.to) = r
      BY <1>3, <3>1, GetKey
    <3> QED BY <3>1, <3>2 DEF Stale
  <2> QED BY <2>1, <2>2 DEF CleanIndex
<1>5. P!StoreIsIndexed
  <2>1. \A r : P!Key(r) = Key(r) /\ P!IndexEntries(r) = IndexEntries(r)
    BY DEF P!Key, Key, P!IndexEntries, IndexEntries, P!OrderRef, OrderRef
  <2> QED BY <1>1, <2>1 DEF P!StoreIsIndexed, P!IsFiniteSet, IsFiniteSet
<1> QED BY <1>3, <1>4, <1>5

\* Before the data set is loaded there is nothing.
LEMMA NothingAtFirst == PipelineInit => PipelineInv
<1> SUFFICES ASSUME PipelineInit PROVE PipelineInv
  OBVIOUS
<1>1. /\ AtRest /\ ledger = {} /\ index = {} /\ step = "load"
  BY DEF PipelineInit, NewEngine, AtRest
<1>2. StoreInv /\ LedgerInv
  BY <1>1, FS_EmptySet DEF StoreInv, LedgerInv
<1>3. EngineInv
  BY <1>1, <1>2, UnusedEngine
<1>4. Planned /\ Loaded
  BY <1>1 DEF PipelineInit, Planned, Loaded, AtRest
<1>5. report = <<>> /\ Unasked
  BY DEF PipelineInit, Unasked
<1>6. P!IsReport(report)
  BY <1>5, ShortLists, ReportShape
<1> QED BY <1>1, <1>3, <1>4, <1>5, <1>6, FreshReport DEF PipelineInv

\* The store filled with a data set, and an engine not used on it yet.
LEMMA FillLoads ==
  ASSUME PipelineInv, step = "load", Fill,
         step' \in {"match", "ask"}
  PROVE  Planned' /\ Loaded' /\ EngineInv' /\ UNCHANGED <<program, dataset, engine, lastRun>>
<1>1. AtRest /\ ledger = {} /\ index = {} /\ Planned
  BY DEF PipelineInv, Loaded
<1>2. /\ UNCHANGED <<program, dataset, engine, lastRun, rules, puts>>
      /\ ledger' = RecordsIn(dataset)
      /\ index' = UNION {IndexEntries(r) : r \in RecordsIn(dataset)}
  BY <1>1 DEF Fill, PutAll, plan
<1>3. Planned' /\ Loaded'
  BY <1>1, <1>2 DEF Planned, Loaded, RulesOf
<1>4. AtRest'
  BY <1>1, <1>2 DEF AtRest, engine
<1>5. (step # "load")'
  OBVIOUS
<1>6. (StoreInv /\ LedgerInv)'
  BY <1>3, <1>5, LoadedStore, PTL
<1>7. EngineInv'
  BY <1>4, <1>6, UnusedEngine, PTL
<1> QED BY <1>2, <1>3, <1>7

LEMMA PaymentsAreCounted == StoreInv /\ LedgerInv => Len(Payments) \in Nat
BY PaymentsAreListed

LEMMA LoadKeepsPipeline ==
  ASSUME PipelineInv, Load
  PROVE  PipelineInv'
<1>1. /\ step = "load" /\ step' = "match" /\ program # "suite" /\ UNCHANGED asked
      /\ Fill
  BY DEF Load
<1>2. /\ Planned' /\ Loaded' /\ EngineInv'
      /\ UNCHANGED <<program, dataset, engine, lastRun>>
  BY <1>1, FillLoads
<1>3. report' = <<>> /\ Unasked'
  BY <1>1 DEF PipelineInv, asked, Unasked
<1>4. P!IsReport(report)'
  <2>1. P!IsReport(<<>>)
    BY ShortLists, ReportShape
  <2> QED BY <1>3, <2>1 DEF P!IsReport, P!IsSequence, P!ToSet
<1>5. Asked'
  BY <1>3, <1>4, FreshReport, PTL
<1>6. Measuring' /\ lastRun' = NoRun
  <2>1. /\ matches' = <<>> /\ exceptions' = <<>> /\ lastRun' = NoRun
    BY <1>1, <1>2 DEF PipelineInv, Loaded, AtRest, engine
  <2>2. (step # "load")'
    BY <1>1
  <2>3. (StoreInv /\ LedgerInv)'
    BY <1>2, <2>2, LoadedStore, PTL
  <2>4. (Len(Payments) \in Nat)'
    BY <2>3, PaymentsAreCounted, PTL
  <2> QED BY <2>1, <2>4 DEF Measuring
<1> QED BY <1>1, <1>2, <1>3, <1>5, <1>6 DEF PipelineInv

LEMMA LoadSuiteKeepsPipeline ==
  ASSUME PipelineInv, LoadSuite
  PROVE  PipelineInv'
<1> DEFINE list == [i \in DOMAIN dataset |-> dataset[i].exception]
<1>1. /\ step = "load" /\ step' = "ask" /\ program = "suite" /\ Hand(list)
      /\ Fill
  BY DEF LoadSuite
<1>2. /\ Planned' /\ Loaded' /\ EngineInv'
      /\ UNCHANGED <<program, dataset, engine, lastRun>>
  BY <1>1, FillLoads
<1>3. P!IsReport(list)
  <2>1. /\ Len(dataset) \in Nat /\ DOMAIN dataset = 1 .. Len(dataset)
        /\ \A i \in DOMAIN dataset : list[i].related \in Seq(ToSet(list[i].related))
    BY <1>1, DatasetsAssumption DEF PipelineInv, Planned
  <2>2. \A i \in DOMAIN list : list[i] \in ToSet(list)
    BY DEF ToSet
  <2>3. list \in [1 .. Len(dataset) -> ToSet(list)]
    BY <2>1, <2>2
  <2>4. IsSequence(list)
    <3> HIDE DEF list
    <3>1. list \in Seq(ToSet(list))
      BY <2>1, <2>3, SeqDef
    <3> QED BY <3>1, SequenceOfItsElements
  <2>5. \A e \in ToSet(list) : IsSequence(e.related)
    <3> SUFFICES ASSUME NEW e \in ToSet(list) PROVE IsSequence(e.related)
      OBVIOUS
    <3>1. PICK i \in DOMAIN dataset : e = list[i]
      BY DEF ToSet
    <3>2. e.related \in Seq(ToSet(e.related))
      BY <2>1, <3>1
    <3> QED BY <3>2, SequenceOfItsElements
  <2> QED BY <2>4, <2>5, ReportShape
<1>4. report' = list /\ Unasked'
  BY <1>1 DEF Hand, Unasked
<1>5. P!IsReport(report)'
  <2>1. report' = list /\ P!IsReport(list)
    BY <1>3, <1>4
  <2> HIDE DEF list
  <2> QED BY <2>1 DEF P!IsReport, P!IsSequence, P!ToSet
<1>6. Asked'
  BY <1>4, <1>5, FreshReport, PTL
<1>7. Handed'
  BY <1>1, <1>2, <1>4 DEF Handed
<1> QED BY <1>1, <1>2, <1>6, <1>7 DEF PipelineInv
-----------------------------------------------------------------------------
\* The matcher's steps are steps of Matcher.
LEMMA MatchingSteps ==
  ASSUME PipelineInv, Measure \/ ReconcileAll \/ Match \/ HandOver
  PROVE  Next /\ step = "match" /\ UNCHANGED <<stored, rules, plan>>
<1>1. step = "match"
  BY DEF Measure, ReconcileAll, Match, HandOver, Unrun
<1>2. StoreInv /\ LedgerInv
  BY <1>1, LoadedStore DEF PipelineInv
<1>3. CASE Measure
  <2> DEFINE n == Len(matches \o exceptions)
  <2>1. SingleOrder(Get(Payments[n + 1])) /\ program = "benchmark" /\ n # Len(Payments)
        /\ stage = "idle" /\ UNCHANGED plan
    BY <1>3 DEF Measure, Measured, Unrun
  <2>2. n = Len(matches) + Len(exceptions) /\ n \in Nat
    <3>1. IsSequence(matches) /\ IsSequence(exceptions)
      BY DEF PipelineInv, EngineInv, AllInv, MInv, ConsumedInv, RunInv
    <3> QED BY <3>1, ConcatProperties, LenProperties DEF IsSequence
  <2>3. n <= Len(Payments) /\ Len(Payments) \in Nat
    BY <1>1, <1>2, <2>1, <2>2, PaymentsAreListed DEF PipelineInv, Measuring
  <2> HIDE DEF n
  <2>4. n + 1 \in 1 .. Len(Payments)
    BY <2>1, <2>2, <2>3
  <2>5. Get(Payments[n + 1]) \in Of("PAYMENT")
    BY <1>2, <2>4, PaymentsAreListed
  <2>6. UNCHANGED <<stored, rules>>
    BY <2>1 DEF SingleOrder, ReconcileOrder
  <2> QED BY <1>1, <2>1, <2>5, <2>6 DEF Next
<1>4. CASE ReconcileAll
  <2>1. Payments \in SetToSeqs({Key(p) : p \in Of("PAYMENT")})
    BY <1>2, PaymentsAreListed
  <2> QED BY <1>1, <1>4, <2>1 DEF ReconcileAll, Begin, Next
<1>5. CASE Match
  BY <1>1, <1>5 DEF Match, Next, NextOrder, ReconcileOrder, OrdersDone, NextProcessor,
     ProcessorsDone, NextBatch
<1>6. CASE HandOver
  BY <1>1, <1>6 DEF HandOver, Next, Finish, plan
<1> QED BY <1>3, <1>4, <1>5, <1>6

\* A payment gets one answer more.
LEMMA OneMore ==
  ASSUME PipelineInv, NEW p, ReconcileOrder(p)
  PROVE  Len(matches') + Len(exceptions') = Len(matches) + Len(exceptions) + 1
<1>1. /\ IsSequence(matches) /\ IsSequence(exceptions)
      /\ matches' = matches \o Answer(p, consumed).match
      /\ exceptions' = exceptions \o Answer(p, consumed).exception
  BY DEF PipelineInv, EngineInv, AllInv, MInv, ConsumedInv, RunInv, ReconcileOrder
<1>2. \A s : IsSequence(s) =>
        s \o <<>> = s /\ Len(s) \in Nat /\ \A x : Len(s \o <<x>>) = Len(s) + 1
  BY DEF IsSequence
<1>3. CASE /\ Answer(p, consumed).match = <<>>
           /\ \E e : Answer(p, consumed).exception = <<e>>
  BY <1>1, <1>2, <1>3
<1>4. CASE Answer(p, consumed) = Matched(p, Get(First(Targets(p, consumed))))
  <2>1. \E m : Answer(p, consumed).match = <<m>>
    BY <1>4 DEF Matched
  <2>2. Answer(p, consumed).exception = <<>>
    BY <1>4 DEF Matched
  <2> QED BY <1>1, <1>2, <2>1, <2>2
<1> QED BY <1>3, <1>4, AnswerIsOne

LEMMA MatchingKeepsPipeline ==
  ASSUME PipelineInv, Measure \/ ReconcileAll \/ Match \/ HandOver
  PROVE  PipelineInv'
<1>1. Next /\ step = "match" /\ UNCHANGED <<stored, rules, plan>>
  BY MatchingSteps
<1>2. StoreInv /\ LedgerInv /\ CleanIndex /\ Loaded /\ rules.topology # "BANK_GL"
  <2>1. rules.topology # "BANK_GL"
    BY DEF PipelineInv, Planned, RulesOf, GatewaySettlement, DefaultRules, Rules
  <2> QED BY <1>1, <2>1, LoadedStore DEF PipelineInv
<1>3. EngineInv'
  BY <1>1, EngineStep DEF PipelineInv
<1>4. step' \in {"match", "ask"}
  BY <1>1 DEF Measure, ReconcileAll, Match, HandOver
<1>5. Planned' /\ Loaded'
  BY <1>1, <1>2, <1>4 DEF PipelineInv, Planned, Loaded, RulesOf, plan, stored
<1>6. CASE Measure \/ ReconcileAll \/ Match
  <2>1. step' = "match" /\ UNCHANGED <<asked, lastRun>>
    BY <1>1, <1>6 DEF Measure, ReconcileAll, Match, SingleOrder, ReconcileOrder, Begin,
       NextOrder, OrdersDone, NextProcessor, ProcessorsDone, NextBatch
  <2>2. report' = <<>> /\ Unasked'
    BY <1>1, <2>1 DEF PipelineInv, asked, Unasked
  <2>3. P!IsReport(report)'
    <3>1. P!IsReport(<<>>)
      BY ShortLists, ReportShape
    <3> QED BY <2>2, <3>1 DEF P!IsReport, P!IsSequence, P!ToSet
  <2>4. Asked'
    BY <2>2, <2>3, FreshReport, PTL
  <2>5. Measuring'
    <3>1. CASE Measure
      <4>1. /\ program = "benchmark" /\ stage = "idle"
            /\ Len(matches \o exceptions) # Len(Payments)
            /\ \E p : ReconcileOrder(p)
        BY <3>1 DEF Measure, Measured, Unrun, SingleOrder
      <4>2. Len(matches') + Len(exceptions') = Len(matches) + Len(exceptions) + 1
        BY <4>1, OneMore
      <4>3. /\ Len(matches \o exceptions) = Len(matches) + Len(exceptions)
            /\ Len(matches) \in Nat /\ Len(exceptions) \in Nat
        <5>1. IsSequence(matches) /\ IsSequence(exceptions)
          BY DEF PipelineInv, EngineInv, AllInv, MInv, ConsumedInv, RunInv
        <5> QED BY <5>1 DEF IsSequence
      <4>4. Payments' = Payments /\ Len(Payments) \in Nat
        BY <1>1, <1>2, PaymentsAreListed DEF Payments, Scan, Of, stored
      <4>5. Len(matches) + Len(exceptions) <= Len(Payments)
        BY <1>1, <4>1 DEF PipelineInv, Measuring
      <4> QED BY <4>1, <4>2, <4>3, <4>4, <4>5 DEF Measuring
    <3>2. CASE ReconcileAll \/ Match
      <4>1. stage' # "idle"
        BY <3>2 DEF ReconcileAll, Match, Begin, NextOrder, OrdersDone, NextProcessor,
           ProcessorsDone, NextBatch
      <4> QED BY <4>1 DEF Measuring
    <3> QED BY <1>6, <3>1, <3>2
  <2> QED BY <1>1, <1>3, <1>5, <2>1, <2>2, <2>4, <2>5 DEF PipelineInv, plan
<1>7. CASE HandOver
  <2>1. Finish /\ Hand(exceptions) /\ step' = "ask" /\ UNCHANGED <<exceptions, matches>>
    BY <1>7 DEF HandOver, Finish
  <2>2. /\ ToSet(matches) = AllMatches /\ ToSet(exceptions) = AllExceptions
    <3>1. /\ ToSet(lastRun'.matches) = AllMatches
          /\ ToSet(lastRun'.exceptions) = AllExceptions
      BY <1>2, <2>1, ReportIsAll DEF PipelineInv, EngineInv
    <3>2. lastRun'.matches = matches /\ lastRun'.exceptions = exceptions
      BY <2>1 DEF Finish
    <3> QED BY <3>1, <3>2
  <2>3. AllMatches' = AllMatches /\ AllExceptions' = AllExceptions
    BY <1>1, SameFixed DEF inputs, stored
  <2>4. report' = exceptions /\ Unasked'
    BY <2>1 DEF Hand, Unasked
  <2>5. Handed'
    <3>1. program' # "suite"
      BY <1>1 DEF PipelineInv, plan
    <3>2. ToSet(exceptions)' = ToSet(exceptions) /\ ToSet(matches)' = ToSet(matches)
      BY <2>1 DEF ToSet
    <3> QED BY <2>1, <2>2, <2>3, <2>4, <3>1, <3>2 DEF Handed
  <2>6. P!IsReport(report)'
    <3>1. IsSequence(exceptions)
      BY DEF PipelineInv, EngineInv, AllInv, RunInv
    <3>2. \A e \in ToSet(exceptions) : IsSequence(e.related)
      BY <1>2, <2>2, ReportTells
    <3>3. P!IsReport(exceptions)
      BY <3>1, <3>2, ReportShape
    <3> QED BY <2>4, <3>3 DEF P!IsReport, P!IsSequence, P!ToSet
  <2>7. Asked'
    BY <2>4, <2>6, FreshReport, PTL
  <2> QED BY <1>3, <1>5, <2>1, <2>5, <2>7 DEF PipelineInv
<1> QED BY <1>6, <1>7
-----------------------------------------------------------------------------
\* A step that leaves plan, store, engine and report alone keeps their parts.
LEMMA ReportStaysHanded ==
  ASSUME PipelineInv, step \in {"ask", "done"}, step' \in {"ask", "done"},
         UNCHANGED <<vars, plan, report>>, Asked'
  PROVE  PipelineInv'
<1>1. Planned' /\ Loaded'
  BY DEF PipelineInv, Planned, Loaded, RulesOf, plan, vars, stored
<1>2. EngineInv'
  BY EngineStep DEF PipelineInv
<1>3. Handed'
  <2>1. AllMatches' = AllMatches /\ AllExceptions' = AllExceptions
    BY SameFixed DEF inputs, vars, stored
  <2>2. ToSet(exceptions)' = ToSet(exceptions) /\ ToSet(matches)' = ToSet(matches)
    BY DEF vars, engine, ToSet
  <2> QED BY <2>1, <2>2 DEF PipelineInv, Handed, plan, vars, engine
<1> QED BY <1>1, <1>2, <1>3 DEF PipelineInv

LEMMA InvestigateKeepsPipeline ==
  ASSUME PipelineInv, Investigate
  PROVE  PipelineInv'
<1>1. /\ step = "ask" /\ UNCHANGED <<engine, rules, lastRun, puts, plan, step>>
      /\ P!Investigation
  BY AsksStep DEF Investigate
<1>2. UNCHANGED <<stored, report>>
  BY <1>1 DEF P!Investigation, P!Start, P!NoUsableReply, P!Decide, P!UnusableFields,
     P!stored, stored
<1>3. P!IInv' /\ P!AuditInv'
  BY <1>1, InvestigationsKeep DEF PipelineInv, Asked
<1>4. Statuses'
  <2>1. /\ DOMAIN status = DOMAIN report
        /\ \A i \in DOMAIN report : status[i] \in {"OPEN", "AI_RESOLVED", "HUMAN_REVIEW"}
    BY DEF PipelineInv, Asked, P!AuditInv, P!Shape, Statuses
  <2>2. \/ UNCHANGED status
        \/ \E s \in {"AI_RESOLVED", "HUMAN_REVIEW"} :
             status' = [status EXCEPT ![current] = s]
    BY <1>1 DEF P!Investigation, P!Start, P!NoUsableReply, P!Decide, P!UnusableFields,
       P!Outcome
  <2> QED BY <1>2, <2>1, <2>2 DEF Statuses
<1>5. Asked'
  BY <1>3, <1>4 DEF Asked
<1> QED BY <1>1, <1>2, <1>5, ReportStaysHanded DEF vars

LEMMA ScoreKeepsPipeline ==
  ASSUME PipelineInv, Score \/ Done
  PROVE  PipelineInv'
<1>1. /\ step \in {"ask", "done"} /\ step' \in {"ask", "done"}
      /\ UNCHANGED <<vars, plan, asked>>
  BY DEF Score, Done, pipelineVars
<1>2. Asked'
  <2>1. UNCHANGED P!vars
    BY <1>1 DEF P!vars, P!stored, vars, stored, asked
  <2>2. P!IInv' /\ P!AuditInv'
    BY <2>1, InvestigationsKeep DEF PipelineInv, Asked
  <2>3. Statuses'
    BY <1>1 DEF PipelineInv, Asked, Statuses, asked
  <2> QED BY <2>2, <2>3 DEF Asked
<1> QED BY <1>1, <1>2, ReportStaysHanded DEF asked

LEMMA StutterKeepsPipeline ==
  ASSUME PipelineInv, UNCHANGED pipelineVars
  PROVE  PipelineInv'
<1>1. UNCHANGED <<vars, plan, step, asked>>
  BY DEF pipelineVars
<1>2. CASE step \in {"ask", "done"}
  <2>1. Asked'
    <3>1. UNCHANGED P!vars
      BY <1>1 DEF P!vars, P!stored, vars, stored, asked
    <3>2. P!IInv' /\ P!AuditInv'
      BY <3>1, InvestigationsKeep DEF PipelineInv, Asked
    <3>3. Statuses'
      BY <1>1 DEF PipelineInv, Asked, Statuses, asked
    <3> QED BY <3>2, <3>3 DEF Asked
  <2> QED BY <1>1, <1>2, <2>1, ReportStaysHanded DEF asked
<1>3. CASE step \in {"load", "match"}
  <2>1. report' = <<>> /\ Unasked'
    BY <1>1, <1>3 DEF PipelineInv, asked, Unasked
  <2>2. P!IsReport(report)'
    <3>1. P!IsReport(<<>>)
      BY ShortLists, ReportShape
    <3> QED BY <2>1, <3>1 DEF P!IsReport, P!IsSequence, P!ToSet
  <2>3. Asked'
    BY <2>1, <2>2, FreshReport, PTL
  <2>4. EngineInv'
    BY <1>1, EngineStep DEF PipelineInv
  <2>5. Planned'
    BY <1>1 DEF PipelineInv, Planned, RulesOf, plan, vars
  <2>6. Loaded'
    BY <1>1 DEF PipelineInv, Loaded, AtRest, plan, vars, stored, engine
  <2>7. Measuring <=> Measuring'
    <3>1. Payments' = Payments
      BY <1>1 DEF Payments, Scan, Of, vars, stored
    <3> QED BY <1>1, <3>1 DEF Measuring, vars, engine, plan
  <2> QED BY <1>1, <1>3, <2>1, <2>3, <2>4, <2>5, <2>6, <2>7 DEF PipelineInv, plan, vars
<1> QED BY <1>2, <1>3 DEF PipelineInv, Planned

LEMMA PipelineInvariant == PipelineSpec => []PipelineInv
<1>1. PipelineInv /\ [PipelineNext]_pipelineVars => PipelineInv'
  BY LoadKeepsPipeline, LoadSuiteKeepsPipeline, MatchingKeepsPipeline,
     InvestigateKeepsPipeline, ScoreKeepsPipeline, StutterKeepsPipeline DEF PipelineNext
<1> QED BY <1>1, NothingAtFirst, PTL DEF PipelineSpec
-----------------------------------------------------------------------------
\* The evidence of an investigation under way shows the payment's order.
LEMMA OrderShown ==
  ASSUME PipelineInv, phase = "asking", program # "suite",
         report[current].payment.kind = "PAYMENT",
         report[current].type \notin {"DUPLICATE_INTERNAL", "DUPLICATE_PROCESSOR"},
         NEW kind \in {"PAYMENT", "INVOICE", "PROCESSOR", "REFUND"},
         NEW r \in OnOrder(kind, Get(report[current].payment).order)
  PROVE  Key(r) \in evidence
<1> DEFINE e == report[current]
<1>1. step \in {"ask", "done"} /\ report = exceptions
  BY DEF PipelineInv, Unasked, Planned, Handed
<1>2. StoreInv /\ LedgerInv /\ P!StoreIsIndexed
  BY <1>1, LoadedStore DEF PipelineInv
<1>3. current \in DOMAIN report /\ evidence = P!Gathered(e)
  BY DEF PipelineInv, Asked, P!IInv, P!Shape, P!EvidenceIsOwn
<1>4. e \in AllExceptions
  BY <1>1, <1>3 DEF PipelineInv, Handed, ToSet
<1>5. /\ IsSequence(e.related)
      /\ OrderRef(Get(e.payment).order) \in ToSet(e.related)
  BY <1>2, <1>4, ReportTells DEF Duplicates
<1>6. r \in ledger /\ r.kind = kind /\ r.order = Get(e.payment).order
  BY DEF OnOrder, Of
<1>7. P!IsSequence(e.related) /\ P!OrderRef(r.order) \in P!ToSet(e.related)
  BY <1>5, <1>6 DEF P!IsSequence, IsSequence, P!ToSet, ToSet, P!OrderRef, OrderRef
<1>8. P!Key(r) \in P!Gathered(e)
  <2> HIDE DEF e
  <2> QED BY <1>2, <1>6, <1>7, P!OrderIsShown, AssumedByAIProofs
<1> QED BY <1>3, <1>8 DEF P!Key, Key

(* EvidenceShowsTheOrder, for data sets of any number of cases: whatever   *)
(* else is stored, the provider never judges a payment's exception without *)
(* all records of the order in sight (the order references the matcher     *)
(* relates and search_by_order of investigate), duplicates excepted.       *)
THEOREM OrdersAreShown == PipelineSpec => []EvidenceShowsTheOrder
<1>1. PipelineInv => EvidenceShowsTheOrder
  BY OrderShown DEF EvidenceShowsTheOrder
<1> QED BY <1>1, PipelineInvariant, PTL

(* What the matcher and the controller promise each for itself they keep   *)
(* when run_stress_test and run_benchmark put them together: one match for *)
(* each target, no charge lost, resolutions on own evidence only, trails   *)
(* that account for every status.                                          *)
THEOREM PromisesAreKept ==
  PipelineSpec => [](/\ MatchesAreOneToOne /\ LeftoversAreReported
                     /\ DuplicateChargesNeverMatch
                     /\ AI!ResolvedOnOwnEvidence /\ AI!AuditAccountsForStatus)
<1>1. PipelineInv => /\ MatchesAreOneToOne /\ LeftoversAreReported
                     /\ DuplicateChargesNeverMatch
  BY LeftoversReported, DuplicatesSpared
     DEF PipelineInv, EngineInv, AllInv, MInv, ConsumedInv
<1>2. PipelineInv => AI!ResolvedOnOwnEvidence
  BY SameEvidence, SameOutcome
     DEF PipelineInv, Asked, P!IInv, P!ResolvedOnOwnEvidence, AI!ResolvedOnOwnEvidence
<1>3. PipelineInv => AI!AuditAccountsForStatus
  BY DEF PipelineInv, Asked, P!AuditInv, P!AuditAccountsForStatus,
         AI!AuditAccountsForStatus
<1> QED BY <1>1, <1>2, <1>3, PipelineInvariant, PTL
-----------------------------------------------------------------------------
(* A store of several cases, asked about the names of one of them, answers *)
(* as a store of that case alone.                                          *)

WholeStore ==
  StoreInv /\ LedgerInv /\ CleanIndex /\ index = UNION {IndexEntries(r) : r \in ledger}

\* No other record of the store goes by a name.
OnlyOf(C, n) == n \notin RecordNames(ledger \ C)

\* A record goes by its key and what it is indexed by.
LEMMA NamesOfRecord ==
  ASSUME NEW C, NEW r \in C
  PROVE  /\ Key(r) \in RecordNames(C)
         /\ \A e \in IndexEntries(r) : e.by \in RecordNames(C)
BY DEF RecordNames

LEMMA LookupsAlone ==
  ASSUME WholeStore, NEW C, C \subseteq ledger, NEW n, OnlyOf(C, n), NEW g, NEW R, NEW kind
  PROVE  /\ Alone(C, g, R)!Under(n, kind) = Under(n, kind)
         /\ Asking(C, g)!Under(n, kind) = Under(n, kind)
         /\ \A k \in Under(n, kind) : \E s \in C : k = Key(s)
         /\ \A r \in ledger : Key(r) = n => r \in C
<1> DEFINE there == UNION {IndexEntries(r) : r \in C}
           mine == {f \in there : f.by = n /\ f.to.kind = kind}
           all == {f \in index : f.by = n /\ f.to.kind = kind}
<1>1. ASSUME NEW e \in index, e.by = n
      PROVE  \E s \in C : e \in IndexEntries(s) /\ e.to = Key(s)
  <2>1. PICK s \in ledger : e \in IndexEntries(s)
    BY DEF WholeStore
  <2>2. s \in C
    BY <1>1, <2>1, NamesOfRecord DEF OnlyOf
  <2>3. e = [by |-> e.by, to |-> Key(s)]
    BY <2>1, EntryLeadsHome
  <2>4. e.to = Key(s)
    BY <2>3
  <2> QED BY <2>1, <2>2, <2>4
<1>2. there \subseteq index
  BY DEF WholeStore
<1>3. mine = all
  BY <1>1, <1>2
<1>4. Under(n, kind) = {f.to : f \in all}
  BY DEF Under
<1>5. Alone(C, g, R)!Under(n, kind) = {f.to : f \in mine}
  BY DEF Alone!Under
<1>6. Asking(C, g)!Under(n, kind) = {f.to : f \in mine}
  BY DEF Asking!Under
<1>7. \A k \in Under(n, kind) : \E s \in C : k = Key(s)
  <2> HIDE DEF mine, there
  <2> QED BY <1>1, <1>4
<1>8. \A r \in ledger : Key(r) = n => r \in C
  BY NamesOfRecord DEF OnlyOf
<1> QED BY <1>3, <1>4, <1>5, <1>6, <1>7, <1>8

LEMMA RecordsAlone ==
  ASSUME WholeStore, NEW C, C \subseteq ledger, NEW s \in C, NEW g, NEW R
  PROVE  /\ Get(Key(s)) = s /\ Alone(C, g, R)!Get(Key(s)) = s
         /\ Asking(C, g)!Get(Key(s)) = s
<1>1. Get(Key(s)) = s
  BY GetKey DEF WholeStore
<1>2. \A x \in C : Key(x) = Key(s) => x = s
  BY DEF WholeStore, LedgerInv
<1>3. Alone(C, g, R)!Get(Key(s)) = s
  BY <1>2 DEF Alone!Get, Alone!Key, Key
<1>4. Asking(C, g)!Get(Key(s)) = s
  BY <1>2 DEF Asking!Get, Asking!Key, Key
<1> QED BY <1>1, <1>3, <1>4

\* What does not depend on the store.
LEMMA ToolsAlone ==
  ASSUME NEW C, NEW g, NEW R
  PROVE  /\ \A keys : Alone(C, g, R)!Listed(keys) = Listed(keys)
         /\ \A keys : Alone(C, g, R)!First(keys) = First(keys)
         /\ \A o : Alone(C, g, R)!OrderRef(o) = OrderRef(o)
         /\ \A r : Alone(C, g, R)!Key(r) = Key(r)
         /\ \A a, b : Alone(C, g, R)!Gap(a, b) = Gap(a, b)
         /\ \A c, f : Alone(C, g, R)!When(c, f) = When(c, f)
         /\ \A keys : Alone(C, g, R)!PrimaryKeys(keys) = PrimaryKeys(keys)
         /\ \A t, k, p : Alone(C, g, R)!Finding(t, k, p) = Finding(t, k, p)
         /\ \A t, a, b, r, f : Alone(C, g, R)!Exception(t, a, b, r, f) = Exception(t, a, b, r, f)
<1>1. \A keys : Alone(C, g, R)!Listed(keys) = Listed(keys)
  BY DEF Alone!Listed, Listed, Alone!Before, Before, Alone!Cardinality, Cardinality
<1>2. \A keys : Alone(C, g, R)!First(keys) = First(keys)
  BY DEF Alone!First, First
<1>3. \A o : Alone(C, g, R)!OrderRef(o) = OrderRef(o)
  BY DEF Alone!OrderRef, OrderRef
<1>4. \A r : Alone(C, g, R)!Key(r) = Key(r)
  BY DEF Alone!Key, Key
<1>5. \A a, b : Alone(C, g, R)!Gap(a, b) = Gap(a, b)
  BY DEF Alone!Gap, Gap
<1>6. \A c, f : Alone(C, g, R)!When(c, f) = When(c, f)
  BY DEF Alone!When, When
<1>7. \A keys : Alone(C, g, R)!PrimaryKeys(keys) = PrimaryKeys(keys)
  BY DEF Alone!PrimaryKeys, PrimaryKeys
<1>8. \A t, k, p : Alone(C, g, R)!Finding(t, k, p) = Finding(t, k, p)
  BY <1>3 DEF Alone!Finding, Finding
<1>9. \A t, a, b, r, f : Alone(C, g, R)!Exception(t, a, b, r, f) = Exception(t, a, b, r, f)
  BY DEF Alone!Exception, Exception
<1> QED BY <1>1, <1>2, <1>3, <1>4, <1>5, <1>6, <1>7, <1>8, <1>9

\* What is said of a fee depends on registry and rules, not on the store.
LEMMA FeesAlone ==
  ASSUME NEW C, NEW p, NEW t
  PROVE  Alone(C, registry, rules)!FeeFindings(p, t) = FeeFindings(p, t)
<1> DEFINE G == registry
           R == rules
<1>1. \A g, n, c : Alone(C, G, R)!ExpectedPolicy(g, n, c) = ExpectedPolicy(g, n, c)
  <2>1. \A g, n : Alone(C, G, R)!GetPolicy(g, n) = GetPolicy(g, n)
    BY DEF Alone!GetPolicy, GetPolicy, Alone!NoPolicy, NoPolicy, Alone!None, None
  <2>2. \A g, c : Alone(C, G, R)!Fitting(g, c) = Fitting(g, c)
    BY DEF Alone!Fitting, Fitting, Alone!Applies, Applies, Alone!ForProcessor,
       ForProcessor, Alone!ForMethod, ForMethod, Alone!Tiers, Tiers, Alone!ANY, ANY,
       Alone!None, None
  <2>3. \A f : Alone(C, G, R)!BestTier(f) = BestTier(f)
    BY DEF Alone!BestTier, BestTier, Alone!Tiers, Tiers
  <2>4. ASSUME NEW g, NEW c
        PROVE  Alone(C, G, R)!MatchPolicy(g, c) = MatchPolicy(g, c)
    <3> DEFINE LastOf(best) == g[CHOOSE i \in best : \A j \in best : j <= i]
               Chosen(fit, tier) == IF \A t_1 \in 1 .. 4 : fit[t_1] = {} THEN NoPolicy
                                    ELSE LastOf(fit[tier])
    <3>1. MatchPolicy(g, c) = Chosen(Fitting(g, c), BestTier(Fitting(g, c)))
      BY DEF MatchPolicy, Tiers
    <3>2. Alone(C, G, R)!MatchPolicy(g, c)
            = Chosen(Alone(C, G, R)!Fitting(g, c),
                     Alone(C, G, R)!BestTier(Alone(C, G, R)!Fitting(g, c)))
      BY DEF Alone!MatchPolicy, Alone!Tiers, Alone!NoPolicy, NoPolicy, Alone!None, None
    <3> HIDE DEF Chosen
    <3> QED BY <2>2, <2>3, <3>1, <3>2
  <2> QED BY <2>1, <2>4 DEF Alone!ExpectedPolicy, ExpectedPolicy, Alone!None, None
<1>2. Alone(C, G, R)!PolicyFor(p, t) = PolicyFor(p, t)
  BY <1>1 DEF Alone!PolicyFor, PolicyFor, Alone!None, None
<1>3. \A q, n : Alone(C, G, R)!CalculateFee(q, n) = CalculateFee(q, n)
  BY DEF Alone!CalculateFee, CalculateFee
<1> QED BY <1>2, <1>3, ToolsAlone DEF Alone!FeeFindings, FeeFindings, Alone!NoPolicy, NoPolicy,
     Alone!None, None

\* Nor do currency and strategy.
LEMMA ComparisonAlone ==
  ASSUME NEW C, NEW p, NEW t, NEW before
  PROVE  Alone(C, registry, rules)!Compared(p, t, before) = Compared(p, t, before)
<1> DEFINE G == registry
           R == rules
<1>1. Alone(C, G, R)!Strategy(p, t) = Strategy(p, t)
  BY DEF Alone!Strategy, Strategy, Gap, Alone!Gap, Alone!DaysApart, DaysApart,
     SimilarEnough, Alone!SimilarEnough
<1>2. Alone(C, G, R)!Matched(p, t) = Matched(p, t)
  BY <1>1, ToolsAlone DEF Alone!Matched, Matched
<1>3. \A f, k : Alone(C, G, R)!Refused(p, f, k) = Refused(p, f, k)
  BY ToolsAlone DEF Alone!Refused, Refused
<1> QED BY <1>1, <1>2, <1>3, FeesAlone, ToolsAlone DEF Alone!Compared, Compared

\* No name of some records is another record's of the store.
Apart(C) == C \subseteq ledger /\ \A n \in RecordNames(C) : OnlyOf(C, n)

\* A name of the records leads in both stores to the same records.
LEMMA FoundAlone ==
  ASSUME WholeStore, NEW C, C \subseteq ledger, NEW n, OnlyOf(C, n), NEW g, NEW R, NEW kind
  PROVE  /\ Alone(C, g, R)!Under(n, kind) = Under(n, kind)
         /\ Alone(C, g, R)!Entries(n, kind) = Entries(n, kind)
         /\ \A k \in Under(n, kind) : Alone(C, g, R)!Get(k) = Get(k)
         /\ Entries(n, kind) # <<>> =>
              Alone(C, g, R)!Get(Entries(n, kind)[1]) = Get(Entries(n, kind)[1])
<1>1. Alone(C, g, R)!Under(n, kind) = Under(n, kind)
  BY LookupsAlone
<1>2. Alone(C, g, R)!Entries(n, kind) = Entries(n, kind)
  BY <1>1, ToolsAlone DEF Alone!Entries, Entries
<1>3. ASSUME NEW k \in Under(n, kind) PROVE Alone(C, g, R)!Get(k) = Get(k)
  <2>1. PICK s \in C : k = Key(s)
    BY LookupsAlone
  <2> QED BY <2>1, RecordsAlone
<1>4. Entries(n, kind) # <<>> => Entries(n, kind)[1] \in Under(n, kind)
  BY FirstEntry DEF WholeStore
<1> QED BY <1>1, <1>2, <1>3, <1>4

\* A payment gets the answer it gets from a store of the records alone.
LEMMA AnswerAlone ==
  ASSUME WholeStore, NEW C, Apart(C), NEW p \in C, p.kind = "PAYMENT"
  PROVE  Alone(C, registry, rules)!Answer(p, {}) = Answer(p, {})
<1> DEFINE G == registry
           R == rules
           c == OrderRef(p.order)
<1>a. C \subseteq ledger /\ OnlyOf(C, c) /\ OnlyOf(C, Key(p))
  <2>1. c \in RecordNames(C) /\ Key(p) \in RecordNames(C)
    <3>1. [by |-> c, to |-> Key(p)] \in IndexEntries(p)
      BY DEF IndexEntries
    <3>2. [by |-> c, to |-> Key(p)].by = c
      OBVIOUS
    <3> QED BY <3>1, <3>2, NamesOfRecord
  <2> QED BY <2>1 DEF Apart
<1>1. \A kind : /\ Alone(C, G, R)!Under(c, kind) = Under(c, kind)
                /\ Alone(C, G, R)!Entries(c, kind) = Entries(c, kind)
                /\ \A k \in Under(c, kind) : Alone(C, G, R)!Get(k) = Get(k)
                /\ Entries(c, kind) # <<>> =>
                     Alone(C, G, R)!Get(Entries(c, kind)[1]) = Get(Entries(c, kind)[1])
  <2> HIDE DEF c
  <2> TAKE kind
  <2>1. C \subseteq ledger /\ OnlyOf(C, c)
    BY <1>a
  <2>2. Alone(C, G, R)!Under(c, kind) = Under(c, kind)
    BY <2>1, FoundAlone
  <2>3. Alone(C, G, R)!Entries(c, kind) = Entries(c, kind)
    BY <2>1, FoundAlone
  <2>4. \A k \in Under(c, kind) : Alone(C, G, R)!Get(k) = Get(k)
    BY <2>1, FoundAlone
  <2>5. Entries(c, kind) # <<>> =>
          Alone(C, G, R)!Get(Entries(c, kind)[1]) = Get(Entries(c, kind)[1])
    BY <2>1, FoundAlone
  <2> QED BY <2>2, <2>3, <2>4, <2>5
<1>b. /\ Alone(C, G, R)!Under(Key(p), "SETTLEMENT") = Under(Key(p), "SETTLEMENT")
      /\ \A k \in Under(Key(p), "SETTLEMENT") : Alone(C, G, R)!Get(k) = Get(k)
  <2> HIDE DEF c
  <2> QED BY <1>a, FoundAlone
<1>2. Alone(C, G, R)!OrderRef(p.order) = c /\ Alone(C, G, R)!Key(p) = Key(p)
  BY ToolsAlone
<1> HIDE DEF c
<1>3. Alone(C, G, R)!RefundFindings(p) = RefundFindings(p)
  BY <1>1, <1>2, ToolsAlone DEF Alone!RefundFindings, RefundFindings, c
<1>4. Alone(C, G, R)!InvoiceFindings(p) = InvoiceFindings(p)
  BY <1>1, <1>2, ToolsAlone DEF Alone!InvoiceFindings, InvoiceFindings, c
<1>5. Alone(C, G, R)!Available(p, {}) = Available(p, {})
  BY <1>1, <1>2 DEF Alone!Available, Available, Alone!Free, Free, c
<1>6. Alone(C, G, R)!AvailableSettlements(p, {}) = AvailableSettlements(p, {})
  BY <1>1, <1>2, <1>b DEF Alone!AvailableSettlements, AvailableSettlements, Alone!Free, Free, c
<1>7. /\ Alone(C, G, R)!Targets(p, {}) = Targets(p, {})
      /\ \A k \in Targets(p, {}) : Alone(C, G, R)!Get(k) = Get(k)
  <2>1. Alone(C, G, R)!Targets(p, {}) = Targets(p, {})
    BY <1>5, <1>6 DEF Alone!Targets, Targets
  <2>2. Targets(p, {}) \subseteq Under(c, "PROCESSOR") \cup Under(c, "SETTLEMENT")
                                  \cup Under(Key(p), "SETTLEMENT")
    BY DEF Targets, Available, AvailableSettlements, Free, c
  <2> QED BY <1>1, <1>b, <2>1, <2>2
<1>8. Targets(p, {}) # {} =>
        Alone(C, G, R)!Get(Alone(C, G, R)!First(Targets(p, {}))) = Get(First(Targets(p, {})))
  <2> SUFFICES ASSUME Targets(p, {}) # {}
               PROVE  Alone(C, G, R)!Get(First(Targets(p, {}))) = Get(First(Targets(p, {})))
    BY ToolsAlone
  <2>1. \A k \in Targets(p, {}) : k.id \in Nat
    BY TargetsAreStored DEF WholeStore
  <2>2. First(Targets(p, {})) \in Targets(p, {})
    BY <2>1, FirstIsOne
  <2> QED BY <1>7, <2>2
<1>9. \A t, before : Alone(C, G, R)!Compared(p, t, before) = Compared(p, t, before)
  BY ComparisonAlone
<1>10. \A f, k : Alone(C, G, R)!Refused(p, f, k) = Refused(p, f, k)
  BY ToolsAlone DEF Alone!Refused, Refused
<1>11. \A r : Alone(C, G, R)!PostedTwice(p, r) = PostedTwice(p, r)
  BY ToolsAlone DEF Alone!PostedTwice, PostedTwice
<1>12. Alone(C, G, R)!Cardinality(Available(p, {})) = Cardinality(Available(p, {}))
  BY DEF Alone!Cardinality, Cardinality
<1> QED
  BY <1>1, <1>2, <1>3, <1>4, <1>5, <1>7, <1>8, <1>9, <1>10, <1>11, <1>12, ToolsAlone
     DEF Alone!Answer, Answer, c

\* A charge is or is not accounted for as there.
LEMMA OrphanAlone ==
  ASSUME WholeStore, NEW C, Apart(C), NEW q \in C, q.kind = "PROCESSOR", NEW g, NEW R
  PROVE  /\ Alone(C, g, R)!Orphan(Key(q), {}) = Orphan(Key(q), {})
         /\ Alone(C, g, R)!Unrecorded(Key(q)) = Unrecorded(Key(q))
<1>1. C \subseteq ledger /\ OnlyOf(C, OrderRef(q.order))
  <2>1. [by |-> OrderRef(q.order), to |-> Key(q)] \in IndexEntries(q)
    BY DEF IndexEntries
  <2>2. [by |-> OrderRef(q.order), to |-> Key(q)].by = OrderRef(q.order)
    OBVIOUS
  <2>3. OrderRef(q.order) \in RecordNames(C)
    BY <2>1, <2>2, NamesOfRecord
  <2> QED BY <2>3 DEF Apart
<1>2. Alone(C, g, R)!Get(Key(q)) = q /\ Get(Key(q)) = q
  BY <1>1, RecordsAlone
<1>3. Alone(C, g, R)!Entries(OrderRef(q.order), "PAYMENT") = Entries(OrderRef(q.order), "PAYMENT")
  BY <1>1, FoundAlone
<1> QED BY <1>2, <1>3, ToolsAlone DEF Alone!Orphan, Orphan, Alone!Unrecorded, Unrecorded

\* A batch gets the answer it gets there.
LEMMA BatchAlone ==
  ASSUME WholeStore, NEW C, Apart(C), NEW b \in C, b.kind = "BATCH"
  PROVE  Alone(C, registry, rules)!BatchAnswer(b) = BatchAnswer(b)
<1> DEFINE G == registry
           R == rules
           c == [kind |-> "REF", id |-> b.ref]
<1>1. C \subseteq ledger /\ OnlyOf(C, c)
  <2>1. [by |-> c, to |-> Key(b)] \in IndexEntries(b)
    BY DEF IndexEntries
  <2>2. [by |-> c, to |-> Key(b)].by = c
    OBVIOUS
  <2>3. c \in RecordNames(C)
    BY <2>1, <2>2, NamesOfRecord
  <2> QED BY <2>3 DEF Apart
<1>2. /\ Alone(C, G, R)!Entries(c, "BANK") = Entries(c, "BANK")
      /\ Entries(c, "BANK") # <<>> =>
           Alone(C, G, R)!Get(Entries(c, "BANK")[1]) = Get(Entries(c, "BANK")[1])
  <2> HIDE DEF c
  <2> QED BY <1>1, FoundAlone
<1>3. /\ Alone(C, G, R)!Key(b) = Key(b)
      /\ Alone(C, G, R)!PrimaryKeys(Entries(c, "BANK")) = PrimaryKeys(Entries(c, "BANK"))
      /\ \A x, y : Alone(C, G, R)!Gap(x, y) = Gap(x, y)
      /\ \A t, x, y, l, f : Alone(C, G, R)!Exception(t, x, y, l, f) = Exception(t, x, y, l, f)
      /\ Alone(C, G, R)!Key(Get(Entries(c, "BANK")[1])) = Key(Get(Entries(c, "BANK")[1]))
  BY ToolsAlone
<1>4. CASE Entries(c, "BANK") = <<>>
  BY <1>2, <1>3, <1>4 DEF Alone!BatchAnswer, BatchAnswer
<1>5. CASE Entries(c, "BANK") # <<>>
  BY <1>2, <1>3, <1>5 DEF Alone!BatchAnswer, BatchAnswer
<1> QED BY <1>4, <1>5
-----------------------------------------------------------------------------
(* The cases of a loaded data set are apart.                               *)

At(i) == dataset[i].records

\* What is loaded.
Stands == Planned /\ Loaded /\ step # "load"

LEMMA StoreStands ==
  ASSUME Stands
  PROVE  /\ WholeStore
         /\ ledger = UNION {At(i) : i \in DOMAIN dataset}
<1>1. WholeStore
  BY LoadedStore DEF Stands, Loaded, WholeStore
<1> QED BY <1>1 DEF Stands, Loaded, RecordsIn, At

LEMMA CasesApart ==
  ASSUME Stands, NEW i \in DOMAIN dataset
  PROVE  /\ Apart(At(i))
         /\ \A n \in NamesOf(program, dataset[i]) :
              OnlyOf(At(i), n) /\ n.kind # "PRIMARY_KEY"
<1>1. RecordNames(At(i)) \subseteq NamesOf(program, dataset[i])
  BY DEF NamesOf, At
<1>2. At(i) \subseteq ledger /\ \A r \in ledger : \E j \in DOMAIN dataset : r \in At(j)
  BY StoreStands
<1>3. ASSUME NEW n \in NamesOf(program, dataset[i]) PROVE OnlyOf(At(i), n)
  <2> SUFFICES ASSUME n \in RecordNames(ledger \ At(i)) PROVE FALSE
    BY DEF OnlyOf
  <2>1. PICK r \in ledger \ At(i) : n = Key(r) \/ \E e \in IndexEntries(r) : n = e.by
    BY DEF RecordNames
  <2>2. PICK j \in DOMAIN dataset : r \in At(j)
    BY <1>2, <2>1
  <2>3. n \in RecordNames(At(j))
    BY <2>1, <2>2, NamesOfRecord
  <2>4. i # j
    BY <2>1, <2>2
  <2> QED BY <2>3, <2>4, CasesApartAssumption DEF Stands, Planned, At
<1>4. \A n \in NamesOf(program, dataset[i]) : n.kind # "PRIMARY_KEY"
  BY CasesApartAssumption DEF Stands, Planned
<1> QED BY <1>1, <1>2, <1>3, <1>4 DEF Apart

\* A name of one case is no other's; full primary keys are no record's name.
LEMMA NamesApart ==
  ASSUME Stands, NEW i \in DOMAIN dataset
  PROVE  /\ \A n \in NamesOf(program, dataset[i]) : \A j \in DOMAIN dataset :
              n \in RecordNames(At(j)) => j = i
         /\ \A n : n.kind = "PRIMARY_KEY" => OnlyOf(At(i), n)
<1>1. \A n \in NamesOf(program, dataset[i]) : \A j \in DOMAIN dataset :
        n \in RecordNames(At(j)) => j = i
  BY CasesApartAssumption DEF Stands, Planned, At
<1>2. ASSUME NEW n, n.kind = "PRIMARY_KEY" PROVE OnlyOf(At(i), n)
  <2> SUFFICES ASSUME n \in RecordNames(ledger \ At(i)) PROVE FALSE
    BY DEF OnlyOf
  <2>1. PICK r \in ledger : n = Key(r) \/ \E e \in IndexEntries(r) : n = e.by
    BY DEF RecordNames
  <2>2. PICK j \in DOMAIN dataset : r \in At(j)
    BY <2>1, StoreStands
  <2>3. n \in RecordNames(At(j))
    BY <2>1, <2>2, NamesOfRecord
  <2>4. n \in NamesOf(program, dataset[j])
    BY <2>3 DEF NamesOf, At
  <2> QED BY <1>2, <2>4, CasesApart
<1> QED BY <1>1, <1>2

\* What is found with a payment goes by names of its case.
LEMMA AroundAtHome ==
  ASSUME Stands, NEW i \in DOMAIN dataset, NEW p \in At(i), p.kind = "PAYMENT"
  PROVE  Around(p) \subseteq RecordNames(At(i))
<1>1. Key(p) \in RecordNames(At(i)) /\ OrderRef(p.order) \in RecordNames(At(i))
  <2>1. [by |-> OrderRef(p.order), to |-> Key(p)] \in IndexEntries(p)
    BY DEF IndexEntries
  <2>2. [by |-> OrderRef(p.order), to |-> Key(p)].by = OrderRef(p.order)
    OBVIOUS
  <2> QED BY <2>1, <2>2, NamesOfRecord
<1>2. WholeStore /\ At(i) \subseteq ledger
  BY StoreStands, CasesApart DEF Apart
<1>3. ASSUME NEW n \in RecordNames(At(i)), NEW kind
      PROVE  Under(n, kind) \subseteq RecordNames(At(i))
  <2>1. OnlyOf(At(i), n)
    BY CasesApart DEF Apart
  <2>2. \A k \in Under(n, kind) : \E s \in At(i) : k = Key(s)
    BY <1>2, <2>1, LookupsAlone
  <2> QED BY <2>2, NamesOfRecord
<1> QED BY <1>1, <1>3 DEF Around

\* The same of a batch and its bank lines.
LEMMA LinesAtHome ==
  ASSUME Stands, NEW i \in DOMAIN dataset, NEW b \in At(i), b.kind = "BATCH"
  PROVE  Under([kind |-> "REF", id |-> b.ref], "BANK") \subseteq RecordNames(At(i))
<1> DEFINE n == [kind |-> "REF", id |-> b.ref]
<1>1. n \in RecordNames(At(i))
  <2>1. [by |-> n, to |-> Key(b)] \in IndexEntries(b)
    BY DEF IndexEntries
  <2>2. [by |-> n, to |-> Key(b)].by = n
    OBVIOUS
  <2> HIDE DEF n
  <2> QED BY <2>1, <2>2, NamesOfRecord
<1> HIDE DEF n
<1>2. WholeStore /\ At(i) \subseteq ledger /\ OnlyOf(At(i), n)
  BY <1>1, StoreStands, CasesApart DEF Apart
<1>3. \A k \in Under(n, "BANK") : \E s \in At(i) : k = Key(s)
  BY <1>2, LookupsAlone
<1> QED BY <1>3, NamesOfRecord DEF n
-----------------------------------------------------------------------------
(* The report on a data set is the reports on its cases.                   *)

\* A match of a payment is with one of its targets.
LEMMA MatchTells ==
  ASSUME StoreInv, NEW p, NEW m \in ToSet(Answer(p, {}).match)
  PROVE  m.payment = Key(p) /\ m.target \in Targets(p, {}) /\ m.target \in Own(p)
                            /\ m.target \in Around(p)
<1>1. Answer(p, {}).match # <<>>
  BY ShortLists
<1>2. Targets(p, {}) # {} /\ Answer(p, {}) = Matched(p, Get(First(Targets(p, {}))))
  BY <1>1, AnswerIsOne
<1>3. ASSUME NEW t
      PROVE  \E x : Matched(p, t).match = <<x>> /\ x.payment = Key(p) /\ x.target = Key(t)
  <2> DEFINE x == [payment |-> Key(p), target |-> Key(t), strategy |-> Strategy(p, t),
                   partial |-> p.partial = "true"]
  <2>1. Matched(p, t).match = <<x>>
    BY DEF Matched
  <2>2. x.payment = Key(p) /\ x.target = Key(t)
    OBVIOUS
  <2> HIDE DEF x
  <2> QED BY <2>1, <2>2
<1>4. m.payment = Key(p) /\ m.target = Key(Get(First(Targets(p, {}))))
  <2> DEFINE t == Get(First(Targets(p, {})))
  <2>1. PICK x : Matched(p, t).match = <<x>> /\ x.payment = Key(p) /\ x.target = Key(t)
    BY <1>3
  <2>2. ToSet(Answer(p, {}).match) = {x}
    BY <1>2, <2>1, ShortLists
  <2> QED BY <2>1, <2>2
<1>5. Key(Get(First(Targets(p, {})))) \in Targets(p, {})
  BY <1>2, TargetIsFree
<1>6. Targets(p, {}) \subseteq Own(p)
  BY DEF Targets, Available, AvailableSettlements, Free, Own
<1> QED BY <1>2, <1>4, <1>5, <1>6, TargetsAround

\* A locked charge has a payment in its order, so no orphan is let off by a lock.
LEMMA LocksAreNoOrphans ==
  ASSUME StoreInv, LedgerInv, CleanIndex, NEW q \in Of("PROCESSOR")
  PROVE  Orphan(Key(q), Locked) <=> Orphan(Key(q), {})
<1>1. CASE Key(q) \notin Locked
  BY <1>1 DEF Orphan
<1>2. CASE Key(q) \in Locked
  <2>1. PICK p \in Of("PAYMENT") : Key(q) \in Own(p)
    BY <1>2, MatchTells DEF Locked, AllMatches
  <2>2. q \in ledger /\ q.kind = "PROCESSOR" /\ Get(Key(q)) = q /\ Key(q).kind = "PROCESSOR"
    BY GetKey DEF Of, Key
  <2>3. \A by, kind : Key(q) \in Under(by, kind) => kind = "PROCESSOR"
    BY <2>2 DEF Under
  <2>4. Key(q) \in Under(OrderRef(p.order), "PROCESSOR")
    BY <2>1, <2>3 DEF Own
  <2>5. q.order = p.order
    BY <2>4, CleanCharges
  <2>6. Key(p) \in Under(OrderRef(p.order), "PAYMENT")
    <3>1. p \in ledger /\ p.kind = "PAYMENT"
      BY DEF Of
    <3>2. [by |-> OrderRef(p.order), to |-> Key(p)] \in IndexEntries(p)
      BY <3>1 DEF IndexEntries
    <3> QED BY <3>1, <3>2, CleanEntries
  <2>7. Entries(OrderRef(q.order), "PAYMENT") # <<>>
    BY <2>5, <2>6, NoEntries
  <2> QED BY <2>2, <2>7 DEF Orphan
<1> QED BY <1>1, <1>2

\* What is said of single records, payment, charge or batch.
Said(r) ==
  CASE r.kind = "PAYMENT"   -> ToSet(Answer(r, {}).exception)
    [] r.kind = "PROCESSOR" -> ToSet(When(Orphan(Key(r), {}), Unrecorded(Key(r))))
    [] r.kind = "BATCH"     -> ToSet(BatchAnswer(r).exception)
    [] OTHER                -> {}

LEMMA ExceptionsOfCase ==
  ASSUME Stands, NEW i \in DOMAIN dataset, NEW e
  PROVE  e \in ExceptionsAlone(At(i), registry, rules) <=> \E r \in At(i) : e \in Said(r)
<1> DEFINE G == registry
           R == rules
<1>1. WholeStore /\ Apart(At(i))
  BY StoreStands, CasesApart
<1>2. \A p \in OfType(At(i), "PAYMENT") :
        Said(p) = ToSet(Alone(At(i), G, R)!Answer(p, {}).exception)
  BY <1>1, AnswerAlone DEF OfType, Said
<1>3. \A q \in OfType(At(i), "PROCESSOR") :
        Said(q) = ToSet(When(Alone(At(i), G, R)!Orphan(Key(q), {}),
                             Alone(At(i), G, R)!Unrecorded(Key(q))))
  BY <1>1, OrphanAlone DEF OfType, Said
<1>4. \A b \in OfType(At(i), "BATCH") :
        Said(b) = ToSet(Alone(At(i), G, R)!BatchAnswer(b).exception)
  BY <1>1, BatchAlone DEF OfType, Said
<1>5. e \in ExceptionsAlone(At(i), G, R) <=>
        \/ \E p \in OfType(At(i), "PAYMENT") :
             e \in ToSet(Alone(At(i), G, R)!Answer(p, {}).exception)
        \/ \E q \in OfType(At(i), "PROCESSOR") :
             e \in ToSet(When(Alone(At(i), G, R)!Orphan(Key(q), {}),
                              Alone(At(i), G, R)!Unrecorded(Key(q))))
        \/ \E b \in OfType(At(i), "BATCH") :
             e \in ToSet(Alone(At(i), G, R)!BatchAnswer(b).exception)
  BY DEF ExceptionsAlone
<1>6. \A r : e \in Said(r) => r.kind \in {"PAYMENT", "PROCESSOR", "BATCH"}
  BY DEF Said
<1>7. e \in ExceptionsAlone(At(i), G, R) <=>
        \E kind \in {"PAYMENT", "PROCESSOR", "BATCH"} :
          \E r \in OfType(At(i), kind) : e \in Said(r)
  BY <1>2, <1>3, <1>4, <1>5
<1> QED BY <1>6, <1>7 DEF OfType

LEMMA ReportOfCases ==
  ASSUME Stands, NEW e
  PROVE  e \in AllExceptions
           <=> \E i \in DOMAIN dataset : e \in ExceptionsAlone(At(i), registry, rules)
<1>1. WholeStore /\ \A r : r \in ledger <=> \E i \in DOMAIN dataset : r \in At(i)
  BY StoreStands
<1>2. StoreInv /\ LedgerInv /\ CleanIndex
  BY <1>1 DEF WholeStore
<1>3. e \in AllRefusals <=> \E r \in Of("PAYMENT") : e \in Said(r)
  BY DEF AllRefusals, Said, Of
<1>4. e \in Orphans <=> \E r \in Of("PROCESSOR") : e \in Said(r)
  <2>1. \A r \in Of("PROCESSOR") : OrphanAt(Key(r)) = Said(r)
    BY <1>2, LocksAreNoOrphans DEF OrphanAt, Said, When, Of
  <2> QED BY <2>1 DEF Orphans, KeysOf
<1>5. e \in BatchRefusals <=> \E r \in Of("BATCH") : e \in Said(r)
  <2>1. \A r \in Of("BATCH") : BatchAt(Key(r)) = Said(r)
    BY <1>2, GetKey DEF BatchAt, Said, Of
  <2> QED BY <2>1 DEF BatchRefusals, KeysOf
<1>6. e \in AllExceptions <=> \E r \in ledger : e \in Said(r)
  <2>1. \A r \in ledger : e \in Said(r) => r \in Of("PAYMENT") \/ r \in Of("PROCESSOR")
                                            \/ r \in Of("BATCH")
    BY DEF Said, Of
  <2>2. e \in AllExceptions <=> e \in AllRefusals \/ e \in Orphans \/ e \in BatchRefusals
    BY DEF AllExceptions
  <2> QED BY <1>3, <1>4, <1>5, <2>1, <2>2 DEF Of
<1> QED BY <1>1, <1>6, ExceptionsOfCase

\* An exception about a case goes by names of that case, or full primary keys.
LEMMA ExceptionsAtHome ==
  ASSUME Stands, NEW i \in DOMAIN dataset, NEW e \in ExceptionsAlone(At(i), registry, rules)
  PROVE  e.primary \in RecordNames(At(i)) /\ Relates(e.related, RecordNames(At(i)))
<1>1. StoreInv /\ LedgerInv /\ At(i) \subseteq ledger
  BY StoreStands, CasesApart DEF WholeStore, Apart
<1>2. PICK r \in At(i) : e \in Said(r)
  BY ExceptionsOfCase
<1>3. CASE r.kind = "PAYMENT"
  <2>1. e \in ToSet(Answer(r, {}).exception)
    BY <1>2, <1>3 DEF Said
  <2>2. e.primary \in Around(r) /\ Relates(e.related, Around(r))
    BY <1>1, <2>1, AnswerTells DEF Tells
  <2>3. Around(r) \subseteq RecordNames(At(i))
    BY <1>3, AroundAtHome
  <2> QED BY <2>2, <2>3 DEF Relates
<1>4. CASE r.kind = "PROCESSOR"
  <2>1. e \in ToSet(When(Orphan(Key(r), {}), Unrecorded(Key(r))))
    BY <1>2, <1>4 DEF Said
  <2>2. e.primary = Key(r) /\ Relates(e.related, {OrderRef(Get(Key(r)).order)})
    BY <2>1, OrphanTells
  <2>3. Get(Key(r)) = r
    BY <1>1, GetKey
  <2>4. Key(r) \in RecordNames(At(i)) /\ OrderRef(r.order) \in RecordNames(At(i))
    <3>1. [by |-> OrderRef(r.order), to |-> Key(r)] \in IndexEntries(r)
      BY <1>4 DEF IndexEntries
    <3>2. [by |-> OrderRef(r.order), to |-> Key(r)].by = OrderRef(r.order)
      OBVIOUS
    <3> QED BY <3>1, <3>2, NamesOfRecord
  <2> QED BY <2>2, <2>3, <2>4 DEF Relates
<1>5. CASE r.kind = "BATCH"
  <2>1. e \in ToSet(BatchAnswer(r).exception)
    BY <1>2, <1>5 DEF Said
  <2>2. e.primary = Key(r) /\ Relates(e.related, Under([kind |-> "REF", id |-> r.ref], "BANK"))
    BY <1>1, <2>1, BatchTells
  <2>3. Under([kind |-> "REF", id |-> r.ref], "BANK") \subseteq RecordNames(At(i))
    BY <1>5, LinesAtHome
  <2>4. Key(r) \in RecordNames(At(i))
    BY NamesOfRecord
  <2> QED BY <2>2, <2>3, <2>4 DEF Relates
<1>6. r.kind \in {"PAYMENT", "PROCESSOR", "BATCH"}
  BY <1>2 DEF Said
<1> QED BY <1>3, <1>4, <1>5, <1>6

\* The payouts of all batches.
AllPayouts == UNION {ToSet(BatchAnswer(Get(k)).payout) : k \in KeysOf("BATCH")}

\* The names a match of a payment or a batch accounts for.
Settles(r) ==
  CASE r.kind = "PAYMENT" ->
         UNION {{m.payment, m.target, OrderRef(r.order)} : m \in ToSet(Answer(r, {}).match)}
    [] r.kind = "BATCH"   -> UNION {{m.batch, m.line} : m \in ToSet(BatchAnswer(r).payout)}
    [] OTHER              -> {}

LEMMA MatchesOfCase ==
  ASSUME Stands, NEW i \in DOMAIN dataset, NEW n
  PROVE  n \in MatchedAlone(At(i), registry, rules) <=> \E r \in At(i) : n \in Settles(r)
<1> DEFINE G == registry
           R == rules
           C == At(i)
           ofPayment(p) == UNION {{m.payment, m.target, OrderRef(p.order)}
                                    : m \in ToSet(Alone(C, G, R)!Answer(p, {}).match)}
           ofBatch(b) == UNION {{m.batch, m.line}
                                  : m \in ToSet(Alone(C, G, R)!BatchAnswer(b).payout)}
<1>1. WholeStore /\ Apart(At(i))
  BY StoreStands, CasesApart
<1>2. \A p \in OfType(C, "PAYMENT") : Settles(p) = ofPayment(p)
  BY <1>1, AnswerAlone DEF OfType, Settles
<1>3. \A b \in OfType(C, "BATCH") : Settles(b) = ofBatch(b)
  BY <1>1, BatchAlone DEF OfType, Settles
<1>4. MatchedAlone(C, G, R) = (UNION {ofPayment(p) : p \in OfType(C, "PAYMENT")})
                                \cup (UNION {ofBatch(b) : b \in OfType(C, "BATCH")})
  BY DEF MatchedAlone
<1> HIDE DEF ofPayment, ofBatch
<1>5. n \in MatchedAlone(C, G, R) <=>
        \/ \E p \in OfType(C, "PAYMENT") : n \in ofPayment(p)
        \/ \E b \in OfType(C, "BATCH") : n \in ofBatch(b)
  BY <1>4
<1>6. \A r : n \in Settles(r) => r.kind \in {"PAYMENT", "BATCH"}
  BY DEF Settles
<1>7. n \in MatchedAlone(C, G, R) <=>
        \E kind \in {"PAYMENT", "BATCH"} : \E r \in OfType(C, kind) : n \in Settles(r)
  BY <1>2, <1>3, <1>5
<1> QED BY <1>6, <1>7 DEF OfType

LEMMA MatchesOfCases ==
  ASSUME Stands, ToSet(matches) = AllMatches, ToSet(payouts) = AllPayouts, NEW n
  PROVE  n \in MatchedRefs
           <=> \E i \in DOMAIN dataset : n \in MatchedAlone(At(i), registry, rules)
<1>1. /\ StoreInv /\ LedgerInv
      /\ \A r : r \in ledger <=> \E i \in DOMAIN dataset : r \in At(i)
  BY StoreStands DEF WholeStore
<1>2. n \in MatchedRefs <=>
        \/ \E m \in AllMatches : n \in {m.payment, m.target, OrderRef(Get(m.payment).order)}
        \/ \E m \in AllPayouts : n \in {m.batch, m.line}
  BY DEF MatchedRefs
<1>3. (\E m \in AllMatches : n \in {m.payment, m.target, OrderRef(Get(m.payment).order)})
        <=> \E p \in Of("PAYMENT") : n \in Settles(p)
  <2>1. ASSUME NEW p \in Of("PAYMENT"), NEW m \in ToSet(Answer(p, {}).match)
        PROVE  Get(m.payment) = p
    BY <1>1, <2>1, MatchTells, GetKey DEF Of
  <2>2. \A p \in Of("PAYMENT") : n \in Settles(p) <=>
          \E m \in ToSet(Answer(p, {}).match) : n \in {m.payment, m.target, OrderRef(p.order)}
    BY DEF Settles, Of
  <2>3. \A m : m \in AllMatches <=> \E p \in Of("PAYMENT") : m \in ToSet(Answer(p, {}).match)
    BY DEF AllMatches
  <2> QED BY <2>1, <2>2, <2>3
<1>4. (\E m \in AllPayouts : n \in {m.batch, m.line}) <=> \E b \in Of("BATCH") : n \in Settles(b)
  <2>1. \A b \in Of("BATCH") : Get(Key(b)) = b
    BY <1>1, GetKey DEF Of
  <2>2. \A b \in Of("BATCH") : n \in Settles(b) <=>
          \E m \in ToSet(BatchAnswer(b).payout) : n \in {m.batch, m.line}
    BY DEF Settles, Of
  <2>3. \A m : m \in AllPayouts <=> \E b \in Of("BATCH") : m \in ToSet(BatchAnswer(b).payout)
    BY <2>1 DEF AllPayouts, KeysOf
  <2> QED BY <2>2, <2>3
<1>5. n \in MatchedRefs <=> \E r \in ledger : n \in Settles(r)
  <2>1. \A r \in ledger : n \in Settles(r) => r \in Of("PAYMENT") \/ r \in Of("BATCH")
    BY DEF Settles, Of
  <2> QED BY <1>2, <1>3, <1>4, <2>1 DEF Of
<1> QED BY <1>1, <1>5, MatchesOfCase

LEMMA MatchesAtHome ==
  ASSUME Stands, NEW i \in DOMAIN dataset,
         NEW n \in MatchedAlone(At(i), registry, rules)
  PROVE  n \in RecordNames(At(i))
<1>1. StoreInv /\ LedgerInv
  BY StoreStands DEF WholeStore
<1>2. PICK r \in At(i) : n \in Settles(r)
  BY MatchesOfCase
<1>3. CASE r.kind = "PAYMENT"
  <2>1. PICK m \in ToSet(Answer(r, {}).match) : n \in {m.payment, m.target, OrderRef(r.order)}
    BY <1>2, <1>3 DEF Settles
  <2>2. m.payment = Key(r) /\ m.target \in Around(r)
    BY <1>1, <2>1, MatchTells
  <2>3. Key(r) \in Around(r) /\ OrderRef(r.order) \in Around(r)
    BY DEF Around
  <2> QED BY <1>3, <2>1, <2>2, <2>3, AroundAtHome
<1>4. CASE r.kind = "BATCH"
  <2> DEFINE by == [kind |-> "REF", id |-> r.ref]
             lines == Entries(by, "BANK")
  <2>1. PICK m \in ToSet(BatchAnswer(r).payout) : n \in {m.batch, m.line}
    BY <1>2, <1>4 DEF Settles
  <2>2. BatchAnswer(r).payout # <<>>
    BY <2>1, ShortLists
  <2>3. /\ lines # <<>>
        /\ BatchAnswer(r).payout = <<[batch |-> Key(r), line |-> Key(Get(lines[1]))]>>
    BY <2>2 DEF BatchAnswer
  <2> HIDE DEF lines
  <2>4. m.batch = Key(r) /\ m.line = Key(Get(lines[1]))
    BY <2>1, <2>3, ShortLists
  <2>5. lines[1] \in Under(by, "BANK")
    BY <1>1, <2>3, FirstEntry DEF lines
  <2>6. Key(Get(lines[1])) = lines[1]
    BY <1>1, <2>5, KeysUnder, GetFinds
  <2>7. Under(by, "BANK") \subseteq RecordNames(At(i)) /\ Key(r) \in RecordNames(At(i))
    BY <1>4, LinesAtHome, NamesOfRecord
  <2> QED BY <2>1, <2>4, <2>5, <2>6, <2>7
<1>5. r.kind \in {"PAYMENT", "BATCH"}
  BY <1>2 DEF Settles
<1> QED BY <1>3, <1>4, <1>5
-----------------------------------------------------------------------------
(* What PipelineInv leaves out: payouts, registry, and the end.            *)

PayoutAt(k) == ToSet(BatchAnswer(Get(k)).payout)

\* The batches behind the queue have their payouts, and there are no others.
PayoutsSoFar ==
  /\ IsSequence(payouts)
  /\ step = "match" =>
       /\ stage \in {"orders", "processors"} => payouts = <<>>
       /\ stage = "batches" =>
            /\ ToSet(payouts) \subseteq AllPayouts
            /\ \A k \in KeysOf("BATCH") \ ToSet(queue) : PayoutAt(k) \subseteq ToSet(payouts)
  /\ step \in {"ask", "done"} /\ program # "suite" => ToSet(payouts) = AllPayouts

Registered ==
  IF step = "load" THEN registry \in FirstRegistries(program)
  ELSE registry \in RegistriesOf(program, dataset)

Ended == step = "done" => phase = "next" /\ current > Len(report)

LEMMA SamePayouts ==
  ASSUME UNCHANGED inputs
  PROVE  /\ AllPayouts' = AllPayouts
         /\ \A k : PayoutAt(k)' = PayoutAt(k)
         /\ KeysOf("BATCH")' = KeysOf("BATCH")
<1>1. \A k : PayoutAt(k)' = PayoutAt(k)
  <2> TAKE k
  <2>1. BatchAnswer(Get(k))' = BatchAnswer(Get(k))
    <3>1. \A b : BatchAnswer(b)' = BatchAnswer(b)
      BY SameAnswers
    <3>2. Get(k)' = Get(k)
      BY SameAnswers
    <3> QED BY <3>1, <3>2
  <2> QED BY <2>1 DEF PayoutAt, ToSet
<1>2. KeysOf("BATCH")' = KeysOf("BATCH")
  BY SameFixed
<1>3. AllPayouts = UNION {PayoutAt(k) : k \in KeysOf("BATCH")}
  BY DEF AllPayouts, PayoutAt
<1>4. AllPayouts' = UNION {PayoutAt(k)' : k \in KeysOf("BATCH")'}
  BY DEF AllPayouts, PayoutAt
<1> QED BY <1>1, <1>2, <1>3, <1>4

\* A batch adds its own payout.
LEMMA BatchIsPaid ==
  ASSUME PipelineInv, PayoutsSoFar, step = "match", step' = "match", NextBatch
  PROVE  PayoutsSoFar'
<1> DEFINE k == Head(queue)
           answer == BatchAnswer(Get(k))
<1>1. /\ UNCHANGED inputs /\ UNCHANGED stage
      /\ stage = "batches" /\ queue # <<>> /\ queue' = Tail(queue)
      /\ payouts' = payouts \o answer.payout
  BY DEF NextBatch, stored, inputs
<1>2. /\ k \in KeysOf("BATCH") /\ ToSet(queue) = {k} \cup ToSet(Tail(queue))
  BY <1>1, HeadOrTail DEF PipelineInv, EngineInv, AllInv, RunInv, Walked
<1>3. IsSequence(answer.payout) /\ ToSet(answer.payout) = PayoutAt(k)
  BY BatchAnswerIsShort DEF PayoutAt
<1>4. /\ IsSequence(payouts) /\ ToSet(payouts) \subseteq AllPayouts
      /\ \A j \in KeysOf("BATCH") \ ToSet(queue) : PayoutAt(j) \subseteq ToSet(payouts)
  BY <1>1 DEF PayoutsSoFar
<1>a. PayoutAt(k) \subseteq AllPayouts
  BY <1>2 DEF AllPayouts, PayoutAt
<1> HIDE DEF answer, k
<1>5. IsSequence(payouts') /\ ToSet(payouts') = ToSet(payouts) \cup PayoutAt(k)
  BY <1>1, <1>3, <1>4, ElementsOfConcat
<1>6. ToSet(payouts') \subseteq AllPayouts
  BY <1>4, <1>5, <1>a
<1>7. \A j \in KeysOf("BATCH") \ ToSet(queue') : PayoutAt(j) \subseteq ToSet(payouts')
  BY <1>1, <1>2, <1>4, <1>5
<1>8. /\ ToSet(payouts)' = ToSet(payouts') /\ ToSet(queue)' = ToSet(queue')
      /\ IsSequence(payouts)' <=> IsSequence(payouts')
  BY DEF ToSet, IsSequence
<1> QED BY <1>1, <1>5, <1>6, <1>7, <1>8, SamePayouts DEF PayoutsSoFar

LEMMA MatchingKeepsPaid ==
  ASSUME PipelineInv, PayoutsSoFar, Measure \/ ReconcileAll \/ Match \/ HandOver
  PROVE  PayoutsSoFar'
<1>1. step = "match" /\ UNCHANGED <<stored, rules, plan>> /\ UNCHANGED inputs
  BY MatchingSteps DEF inputs, stored
<1>a. /\ ToSet(payouts)' = ToSet(payouts') /\ ToSet(queue)' = ToSet(queue')
      /\ IsSequence(payouts)' <=> IsSequence(payouts')
  BY DEF ToSet, IsSequence
<1>b. IsSequence(<<>>) /\ ToSet(<<>>) = {} /\ IsSequence(payouts)
  BY ShortLists DEF PayoutsSoFar
<1>2. CASE Measure
  <2>1. step' = "match" /\ stage' = "idle" /\ payouts' = payouts
    BY <1>2, <1>1 DEF Measure, Unrun, SingleOrder, ReconcileOrder
  <2> QED BY <1>b, <2>1 DEF PayoutsSoFar, IsSequence, ToSet
<1>3. CASE ReconcileAll
  <2>1. step' = "match" /\ stage' = "orders" /\ payouts' = <<>>
    BY <1>3, <1>1 DEF ReconcileAll, Begin, Unrun
  <2> QED BY <1>a, <1>b, <2>1 DEF PayoutsSoFar
<1>4. CASE Match
  <2>1. step' = "match"
    BY <1>1, <1>4 DEF Match
  <2>2. CASE NextOrder
    <3>1. payouts' = payouts /\ stage' = stage /\ stage = "orders"
      BY <2>2 DEF NextOrder, ReconcileOrder
    <3> QED BY <1>1, <1>a, <1>b, <2>1, <3>1 DEF PayoutsSoFar
  <2>3. CASE OrdersDone
    <3>1. payouts' = payouts /\ stage' = "processors" /\ stage = "orders"
      BY <2>3 DEF OrdersDone
    <3> QED BY <1>1, <1>a, <1>b, <2>1, <3>1 DEF PayoutsSoFar
  <2>4. CASE NextProcessor
    <3>1. payouts' = payouts /\ stage' = stage /\ stage = "processors"
      BY <2>4 DEF NextProcessor
    <3> QED BY <1>1, <1>a, <1>b, <2>1, <3>1 DEF PayoutsSoFar
  <2>5. CASE ProcessorsDone
    <3>1. /\ payouts' = payouts /\ stage' = "batches" /\ stage = "processors"
          /\ queue' = Scan("BATCH")
      BY <2>5 DEF ProcessorsDone
    <3>2. ToSet(Scan("BATCH")) = KeysOf("BATCH")
      BY ScanEnumerates DEF PipelineInv, EngineInv, AllInv, MInv
    <3>3. payouts' = <<>>
      BY <1>1, <3>1 DEF PayoutsSoFar
    <3>4. KeysOf("BATCH")' \ ToSet(queue)' = {}
      BY <1>1, <1>a, <3>1, <3>2, SamePayouts
    <3> QED BY <1>a, <1>b, <2>1, <3>1, <3>3, <3>4 DEF PayoutsSoFar
  <2> QED BY <1>1, <1>4, <2>1, <2>2, <2>3, <2>4, <2>5, BatchIsPaid DEF Match
<1>5. CASE HandOver
  <2>1. /\ stage = "batches" /\ queue = <<>> /\ payouts' = payouts /\ step' = "ask"
    BY <1>5 DEF HandOver, Finish
  <2>2. ToSet(queue) = {}
    BY <2>1, <1>b
  <2>3. ToSet(payouts) \subseteq AllPayouts /\ \A k \in KeysOf("BATCH") : PayoutAt(k) \subseteq ToSet(payouts)
    BY <1>1, <2>1, <2>2 DEF PayoutsSoFar
  <2>4. ToSet(payouts) = AllPayouts
    BY <2>3 DEF AllPayouts, PayoutAt
  <2> QED BY <1>1, <1>a, <1>b, <2>1, <2>4, SamePayouts DEF PayoutsSoFar
<1> QED BY <1>2, <1>3, <1>4, <1>5

Side == PayoutsSoFar /\ Registered /\ Ended

\* A step that leaves store, engine and data set alone keeps them.
LEMMA SideStays ==
  ASSUME Side, UNCHANGED <<vars, plan>>, step' = step \/ (step = "ask" /\ step' = "done"),
         step' = "done" => phase' = "next" /\ current' > Len(report')
  PROVE  Side'
<1>1. UNCHANGED inputs
  BY DEF vars, stored, inputs
<1>2. PayoutsSoFar'
  <2>1. /\ ToSet(payouts)' = ToSet(payouts) /\ ToSet(queue)' = ToSet(queue)
        /\ IsSequence(payouts)' <=> IsSequence(payouts)
    BY DEF vars, engine, ToSet, IsSequence
  <2>2. UNCHANGED <<stage, payouts, program>>
    BY DEF vars, engine, plan
  <2> QED BY <1>1, <2>1, <2>2, SamePayouts DEF Side, PayoutsSoFar
<1>3. Registered'
  BY DEF Side, Registered, vars, stored, plan
<1>4. Ended'
  BY DEF Ended
<1> QED BY <1>2, <1>3, <1>4 DEF Side

LEMMA SideAtFirst == PipelineInit => Side
<1> SUFFICES ASSUME PipelineInit PROVE Side
  OBVIOUS
<1>1. step = "load" /\ payouts = <<>> /\ registry \in FirstRegistries(program)
  BY DEF PipelineInit, NewEngine
<1> QED BY <1>1, ShortLists DEF Side, PayoutsSoFar, Registered, Ended

LEMMA LoadingKeepsSide ==
  ASSUME PipelineInv, Side, Load \/ LoadSuite
  PROVE  Side'
<1>1. /\ step = "load" /\ Fill
      /\ \/ step' = "match" /\ program # "suite"
         \/ step' = "ask" /\ program = "suite"
  BY DEF Load, LoadSuite
<1>2. UNCHANGED <<program, dataset, engine>>
  BY <1>1 DEF Fill, plan
<1>3. stage' = "idle" /\ payouts' = <<>>
  BY <1>1, <1>2 DEF PipelineInv, Loaded, AtRest, engine
<1>4. PayoutsSoFar'
  <2>1. IsSequence(payouts)'
    BY <1>3, ShortLists DEF IsSequence, ToSet
  <2> QED BY <1>1, <1>2, <1>3, <2>1 DEF PayoutsSoFar
<1>5. Registered'
  <2>1. registry \in FirstRegistries(program)
    BY <1>1 DEF Side, Registered
  <2>2. registry' = RegisterAll(registry, PoliciesOf(program, dataset))
    BY <1>1 DEF Fill
  <2>3. registry' \in RegistriesOf(program, dataset)
    BY <2>1, <2>2 DEF RegistriesOf
  <2>4. RegistriesOf(program, dataset)' = RegistriesOf(program, dataset)
    BY <1>2
  <2> QED BY <1>1, <2>3, <2>4 DEF Registered
<1>6. Ended'
  BY <1>1 DEF Ended
<1> QED BY <1>4, <1>5, <1>6 DEF Side

LEMMA MatchingKeepsSide ==
  ASSUME PipelineInv, Side, Measure \/ ReconcileAll \/ Match \/ HandOver
  PROVE  Side'
<1>1. step = "match" /\ UNCHANGED <<stored, rules, plan>>
  BY MatchingSteps
<1>2. step' \in {"match", "ask"}
  BY <1>1 DEF Measure, ReconcileAll, Match, HandOver
<1>3. PayoutsSoFar'
  BY MatchingKeepsPaid DEF Side
<1>4. Registered'
  BY <1>1, <1>2 DEF Side, Registered, stored, plan
<1> QED BY <1>2, <1>3, <1>4 DEF Side, Ended

LEMMA InvestigatingKeepsSide ==
  ASSUME PipelineInv, Side, Investigate
  PROVE  Side'
<1>1. /\ step = "ask" /\ UNCHANGED <<engine, rules, lastRun, puts, plan, step>>
      /\ P!Investigation
  BY AsksStep DEF Investigate
<1>2. UNCHANGED stored
  BY <1>1 DEF P!Investigation, P!Start, P!NoUsableReply, P!Decide, P!UnusableFields,
     P!stored, stored
<1> QED BY <1>1, <1>2, SideStays DEF vars

LEMMA StepKeepsSide ==
  ASSUME PipelineInv, Side, [PipelineNext]_pipelineVars
  PROVE  Side'
<1>1. CASE Load \/ LoadSuite
  BY <1>1, LoadingKeepsSide
<1>2. CASE Measure \/ ReconcileAll \/ Match \/ HandOver
  BY <1>2, MatchingKeepsSide
<1>3. CASE Investigate
  BY <1>3, InvestigatingKeepsSide
<1>4. CASE Score
  BY <1>4, SideStays DEF Score, asked
<1>5. CASE Done \/ UNCHANGED pipelineVars
  BY <1>5, SideStays DEF Done, pipelineVars, asked, Side, Ended
<1> QED BY <1>1, <1>2, <1>3, <1>4, <1>5 DEF PipelineNext

LEMMA SideInvariant == PipelineSpec => [](PipelineInv /\ Side)
<1>1. PipelineInv /\ Side /\ [PipelineNext]_pipelineVars => Side'
  BY StepKeepsSide
<1> QED BY <1>1, SideAtFirst, PipelineInvariant, PTL DEF PipelineSpec

\* The policies of a registry in use have names of their own.
LEMMA PoliciesNamed ==
  ASSUME Planned, Registered, step # "load"
  PROVE  /\ IsSequence(registry)
         /\ \A i \in DOMAIN registry : registry[i].id \notin Kinds \cup {"PRIMARY_KEY"}
<1>1. registry \in RegistriesOf(program, dataset)
  BY DEF Registered
<1>2. /\ registry \in Seq(ToSet(registry))
      /\ \A policy \in ToSet(registry) : policy.id \notin Kinds \cup {"PRIMARY_KEY"}
  BY <1>1, CasesApartAssumption DEF Planned
<1> QED BY <1>2 DEF IsSequence, ToSet
-----------------------------------------------------------------------------
(* The evidence about a case.                                              *)

KeysIn(C) == {Key(r) : r \in C}

\* An exception that names nothing but what some records go by.
OfCase(C, e) ==
  /\ IsSequence(e.related) /\ OnlyOf(C, e.primary)
  /\ \A n \in ToSet(e.related) : OnlyOf(C, n)

LEMMA ToolsFindAlone ==
  ASSUME WholeStore, NEW C, C \subseteq ledger, NEW n, OnlyOf(C, n), NEW g
  PROVE  /\ Asking(C, g)!GetRecord(n) = P!GetRecord(n)
         /\ Asking(C, g)!SearchByOrder(n) = P!SearchByOrder(n)
         /\ Asking(C, g)!RelatedEvidence(n) = P!RelatedEvidence(n)
<1>1. \A kind : Asking(C, g)!Under(n, kind) = P!Under(n, kind)
  <2> TAKE kind
  <2>1. Asking(C, g)!Under(n, kind) = Under(n, kind)
    BY LookupsAlone
  <2> QED BY <2>1 DEF P!Under, Under
<1>2. \A kind : Asking(C, g)!Entries(n, kind) = P!Entries(n, kind)
  <2>1. \A keys : Asking(C, g)!Listed(keys) = P!Listed(keys)
    BY DEF Asking!Listed, P!Listed, Asking!Before, P!Before, Asking!Cardinality,
       P!Cardinality
  <2> QED BY <1>1, <2>1 DEF Asking!Entries, P!Entries
<1>3. Asking(C, g)!SearchByOrder(n) = P!SearchByOrder(n)
  BY <1>2 DEF Asking!SearchByOrder, P!SearchByOrder
<1>4. Asking(C, g)!GetRecord(n) = P!GetRecord(n)
  <2>1. \A r \in ledger : Key(r) = n => r \in C
    BY NamesOfRecord DEF OnlyOf
  <2>2. n \in {Key(r) : r \in C} <=> n \in {Key(r) : r \in ledger}
    BY <2>1
  <2>3. Asking(C, g)!GetRecord(n) = IF n \in {Key(r) : r \in C} THEN <<n>> ELSE <<>>
    BY DEF Asking!GetRecord, Asking!Key, Key
  <2>4. P!GetRecord(n) = IF n \in {Key(r) : r \in ledger} THEN <<n>> ELSE <<>>
    BY DEF P!GetRecord, P!Key, Key
  <2> QED BY <2>2, <2>3, <2>4
<1> QED BY <1>3, <1>4 DEF Asking!RelatedEvidence, P!RelatedEvidence

\* What the tools find is theirs.
LEMMA ToolsStayAlone ==
  ASSUME WholeStore, NEW C, C \subseteq ledger, NEW n, OnlyOf(C, n)
  PROVE  /\ ToSet(P!GetRecord(n)) \subseteq KeysIn(C)
         /\ ToSet(P!SearchByOrder(n)) \subseteq KeysIn(C)
         /\ ToSet(P!RelatedEvidence(n)) \subseteq KeysIn(C)
<1>1. ToSet(P!GetRecord(n)) \subseteq KeysIn(C)
  <2>1. \A r \in ledger : Key(r) = n => r \in C
    BY NamesOfRecord DEF OnlyOf
  <2>2. P!GetRecord(n) = <<>> \/ (P!GetRecord(n) = <<n>> /\ \E r \in ledger : Key(r) = n)
    BY DEF P!GetRecord, P!Key, Key
  <2> QED BY <2>1, <2>2, ShortLists DEF KeysIn
<1>2. \A kind : /\ IsSequence(P!Entries(n, kind))
                /\ ToSet(P!Entries(n, kind)) \subseteq KeysIn(C)
  <2> TAKE kind
  <2>1. P!Entries(n, kind) = Entries(n, kind)
    BY DEF P!Entries, Entries, P!Listed, Listed, P!Before, Before, P!Under, Under,
       P!Cardinality, Cardinality
  <2>2. IsSequence(Entries(n, kind)) /\ ToSet(Entries(n, kind)) = Under(n, kind)
    BY EntriesEnumerate DEF WholeStore
  <2>3. Under(n, kind) \subseteq KeysIn(C)
    <3>1. \A k \in Under(n, kind) : \E s \in C : k = Key(s)
      BY LookupsAlone
    <3> QED BY <3>1 DEF KeysIn
  <2> QED BY <2>1, <2>2, <2>3
<1>3. ToSet(P!SearchByOrder(n)) \subseteq KeysIn(C)
  <2> DEFINE a == P!Entries(n, "PAYMENT")
             b == P!Entries(n, "INVOICE")
             c == P!Entries(n, "PROCESSOR")
             d == P!Entries(n, "REFUND")
  <2>1. /\ IsSequence(a) /\ ToSet(a) \subseteq KeysIn(C)
        /\ IsSequence(b) /\ ToSet(b) \subseteq KeysIn(C)
        /\ IsSequence(c) /\ ToSet(c) \subseteq KeysIn(C)
        /\ IsSequence(d) /\ ToSet(d) \subseteq KeysIn(C)
    BY <1>2
  <2>2. P!SearchByOrder(n) = ((a \o b) \o c) \o d
    BY DEF P!SearchByOrder
  <2> HIDE DEF a, b, c, d
  <2>3. IsSequence(a \o b) /\ ToSet(a \o b) \subseteq KeysIn(C)
    BY <2>1, ElementsOfConcat
  <2>4. IsSequence((a \o b) \o c) /\ ToSet((a \o b) \o c) \subseteq KeysIn(C)
    BY <2>1, <2>3, ElementsOfConcat
  <2> QED BY <2>1, <2>2, <2>4, ElementsOfConcat
<1> QED BY <1>1, <1>3 DEF P!RelatedEvidence

LEMMA SameLists ==
  /\ \A s : P!ToSet(s) = ToSet(s) /\ P!Range(s) = ToSet(s)
  /\ \A s : P!IsSequence(s) <=> IsSequence(s)
BY DEF P!ToSet, ToSet, P!Range, P!IsSequence, IsSequence

LEMMA IndexedForAI == WholeStore => P!StoreIsIndexed
<1>1. \A r : P!Key(r) = Key(r) /\ P!IndexEntries(r) = IndexEntries(r)
  BY DEF P!Key, Key, P!IndexEntries, IndexEntries, P!OrderRef, OrderRef
<1> QED BY <1>1 DEF P!StoreIsIndexed, P!IsFiniteSet, IsFiniteSet, WholeStore, StoreInv, LedgerInv

\* What is found for an exception of the case is the case's.
LEMMA FoundStaysAlone ==
  ASSUME WholeStore, NEW C, C \subseteq ledger, NEW e, OfCase(C, e)
  PROVE  P!Contents(P!Found(e)) \subseteq KeysIn(C)
<1>1. \A n : OnlyOf(C, n) => /\ ToSet(P!GetRecord(n)) \subseteq KeysIn(C)
                             /\ ToSet(P!RelatedEvidence(n)) \subseteq KeysIn(C)
  BY ToolsStayAlone
<1>2. P!IsSequence(e.related)
  BY SameLists DEF OfCase
<1>3. \A x : x \in P!Contents(P!Found(e)) <=>
               \/ x \in P!ToSet(P!GetRecord(e.primary))
               \/ \E ref \in P!ToSet(e.related) : x \in P!ToSet(P!RelatedEvidence(ref))
  BY <1>2, P!FoundInLists, AssumedByAIProofs
<1>4. OnlyOf(C, e.primary) /\ \A n \in ToSet(e.related) : OnlyOf(C, n)
  BY DEF OfCase
<1>5. \A s : P!ToSet(s) = ToSet(s)
  BY SameLists
<1> QED BY <1>1, <1>3, <1>4, <1>5

\* The first of some positions is one of them.
LEMMA ForemostIsOne ==
  ASSUME NEW T, T \subseteq Nat, T # {}
  PROVE  P!Foremost(T) \in T
BY LeastNatural DEF P!Foremost

\* What is found first of a kind is found.
LEMMA FirstIsFound ==
  ASSUME WholeStore, NEW e, IsSequence(e.related), NEW kind
  PROVE  \/ P!FirstFound(P!Found(e), kind) = <<>>
         \/ \E x \in P!Contents(P!Found(e)) : P!FirstFound(P!Found(e), kind) = <<x>>
<1> DEFINE found == P!Found(e)
           having == {i \in DOMAIN found : P!OfKind(found[i], kind) # {}}
           list == found[P!Foremost(having)]
<1>0. P!IsSequence(e.related) /\ P!StoreIsIndexed
  BY SameLists, IndexedForAI
<1>1. DOMAIN found = 1 .. Len(e.related) + 1
  BY <1>0, P!FoundInLists, AssumedByAIProofs
<1>2. found[1] = P!GetRecord(e.primary)
  BY <1>0, P!FoundInLists, AssumedByAIProofs
<1>3. \A i \in DOMAIN e.related : found[i + 1] = P!RelatedEvidence(e.related[i])
  BY <1>0, P!FoundInLists, AssumedByAIProofs
<1>4. Len(e.related) \in Nat /\ DOMAIN e.related = 1 .. Len(e.related)
  BY DEF IsSequence
<1>5. \A ref : P!GetRecord(ref) \in Seq(P!Stored) /\ P!RelatedEvidence(ref) \in Seq(P!Stored)
  BY <1>0, P!ToolsShowStored, AssumedByAIProofs
<1>6. \A i \in DOMAIN found : found[i] \in Seq(P!Stored)
  <2> HIDE DEF found
  <2> SUFFICES ASSUME NEW i \in 1 .. Len(e.related) + 1 PROVE found[i] \in Seq(P!Stored)
    BY <1>1
  <2>1. i = 1 \/ (i - 1 \in DOMAIN e.related /\ found[i] = found[(i - 1) + 1])
    BY <1>4
  <2> QED BY <1>2, <1>3, <1>5, <2>1
<1>7. P!FirstFound(found, kind)
        = IF having = {} THEN <<>> ELSE <<list[P!Foremost(P!OfKind(list, kind))]>>
  BY DEF P!FirstFound
<1> SUFFICES ASSUME having # {}
             PROVE  list[P!Foremost(P!OfKind(list, kind))] \in P!Contents(found)
  BY <1>7
<1>8. P!Foremost(having) \in having
  <2>1. having \subseteq Nat
    <3> HIDE DEF found
    <3> QED BY <1>1, <1>4
  <2> HIDE DEF having
  <2> QED BY <2>1, ForemostIsOne
<1>9. list \in Seq(P!Stored) /\ P!OfKind(list, kind) # {} /\ list \in ToSet(found)
  <2> HIDE DEF found
  <2> QED BY <1>6, <1>8 DEF ToSet
<1> HIDE DEF list, having, found
<1>10. P!Foremost(P!OfKind(list, kind)) \in DOMAIN list
  <2>1. P!OfKind(list, kind) \subseteq DOMAIN list /\ DOMAIN list \subseteq Nat
    BY <1>9 DEF P!OfKind
  <2>2. P!Foremost(P!OfKind(list, kind)) \in P!OfKind(list, kind)
    BY <1>9, <2>1, ForemostIsOne
  <2> QED BY <2>1, <2>2
<1>11. list[P!Foremost(P!OfKind(list, kind))] \in ToSet(list)
  BY <1>10 DEF ToSet
<1> QED BY <1>9, <1>11, SameLists DEF P!Contents

\* The fee context of what is found is that of the case.
LEMMA ContextAlone ==
  ASSUME WholeStore, NEW C, C \subseteq ledger, NEW e, OfCase(C, e), NEW g
  PROVE  Asking(C, g)!FeeContext(P!Found(e)) = P!FeeContext(P!Found(e))
<1> DEFINE found == P!Found(e)
           pay == P!FirstFound(found, "PAYMENT")
           charge == P!FirstFound(found, "PROCESSOR")
           Fits(s) == s = <<>> \/ \E x \in KeysIn(C) : s = <<x>>
<1>1. \A kind : Asking(C, g)!FirstFound(found, kind) = P!FirstFound(found, kind)
  BY DEF Asking!FirstFound, P!FirstFound, Asking!OfKind, P!OfKind, Asking!Foremost, P!Foremost
<1>2. \A k \in KeysIn(C) : Asking(C, g)!Get(k) = P!Get(k)
  <2> TAKE k \in KeysIn(C)
  <2>1. PICK s \in C : k = Key(s)
    BY DEF KeysIn
  <2>2. P!Get(k) = Get(k)
    BY DEF P!Get, Get, P!Key, Key
  <2> QED BY <2>1, <2>2, RecordsAlone
<1>3. Fits(pay) /\ Fits(charge)
  <2>1. P!Contents(found) \subseteq KeysIn(C)
    BY FoundStaysAlone
  <2>2. \A kind : \/ P!FirstFound(found, kind) = <<>>
                  \/ \E x \in P!Contents(found) : P!FirstFound(found, kind) = <<x>>
    BY FirstIsFound DEF OfCase
  <2> HIDE DEF found
  <2> QED BY <2>1, <2>2
<1> HIDE DEF found
<1>4. /\ charge # <<>> => charge[1] \in KeysIn(C)
      /\ pay # <<>> => pay[1] \in KeysIn(C)
      /\ pay \o charge # <<>> => (pay \o charge)[1] \in KeysIn(C)
  <2> HIDE DEF pay, charge
  <2>1. CASE pay = <<>> /\ charge = <<>>
    BY <2>1
  <2>2. CASE pay = <<>> /\ \E x \in KeysIn(C) : charge = <<x>>
    BY <2>2
  <2>3. CASE (\E x \in KeysIn(C) : pay = <<x>>) /\ charge = <<>>
    BY <2>3
  <2>4. CASE (\E x \in KeysIn(C) : pay = <<x>>) /\ \E x \in KeysIn(C) : charge = <<x>>
    BY <2>4
  <2> QED BY <1>3, <2>1, <2>2, <2>3, <2>4
<1>5. Asking(C, g)!FeeContext(found)
        = [processor |-> IF charge = <<>> THEN None
                         ELSE Asking(C, g)!Get(charge[1]).processor,
           method |-> IF pay = <<>> THEN None ELSE Asking(C, g)!Get(pay[1]).method,
           currency |-> IF pay \o charge = <<>> THEN None
                        ELSE Asking(C, g)!Get((pay \o charge)[1]).currency]
  BY <1>1 DEF Asking!FeeContext, Asking!None, None
<1>6. P!FeeContext(found)
        = [processor |-> IF charge = <<>> THEN None ELSE P!Get(charge[1]).processor,
           method |-> IF pay = <<>> THEN None ELSE P!Get(pay[1]).method,
           currency |-> IF pay \o charge = <<>> THEN None
                        ELSE P!Get((pay \o charge)[1]).currency]
  BY DEF P!FeeContext, P!None, None
<1> HIDE DEF pay, charge
<1>7. (IF charge = <<>> THEN None ELSE Asking(C, g)!Get(charge[1]).processor)
        = IF charge = <<>> THEN None ELSE P!Get(charge[1]).processor
  BY <1>2, <1>4
<1>8. (IF pay = <<>> THEN None ELSE Asking(C, g)!Get(pay[1]).method)
        = IF pay = <<>> THEN None ELSE P!Get(pay[1]).method
  BY <1>2, <1>4
<1>9. (IF pay \o charge = <<>> THEN None ELSE Asking(C, g)!Get((pay \o charge)[1]).currency)
        = IF pay \o charge = <<>> THEN None ELSE P!Get((pay \o charge)[1]).currency
  <2> DEFINE both == pay \o charge
  <2>1. both # <<>> => both[1] \in KeysIn(C)
    BY <1>4
  <2> HIDE DEF both
  <2>2. (IF both = <<>> THEN None ELSE Asking(C, g)!Get(both[1]).currency)
          = IF both = <<>> THEN None ELSE P!Get(both[1]).currency
    BY <1>2, <2>1
  <2> QED BY <2>2 DEF both
<1> QED BY <1>5, <1>6, <1>7, <1>8, <1>9 DEF found

\* What is gathered for an exception of the case.
LEMMA GatheredAlone ==
  ASSUME WholeStore, NEW C, C \subseteq ledger, NEW e, OfCase(C, e)
  PROVE  Asking(C, registry)!Gathered(e) = P!Gathered(e)
<1> DEFINE G == registry
           found == P!Found(e)
<1>0. OnlyOf(C, e.primary) /\ \A n \in ToSet(e.related) : OnlyOf(C, n)
  BY DEF OfCase
<1>1. \A n : OnlyOf(C, n) =>
        /\ Asking(C, G)!GetRecord(n) = P!GetRecord(n)
        /\ Asking(C, G)!SearchByOrder(n) = P!SearchByOrder(n)
        /\ Asking(C, G)!RelatedEvidence(n) = P!RelatedEvidence(n)
  BY ToolsFindAlone
<1>2. Asking(C, G)!Found(e) = found
  <2>1. \A i \in DOMAIN e.related :
          Asking(C, G)!RelatedEvidence(e.related[i]) = P!RelatedEvidence(e.related[i])
    BY <1>0, <1>1 DEF ToSet
  <2>2. [i \in DOMAIN e.related |-> Asking(C, G)!RelatedEvidence(e.related[i])]
          = [i \in DOMAIN e.related |-> P!RelatedEvidence(e.related[i])]
    BY <2>1
  <2> QED BY <1>0, <1>1, <2>2 DEF Asking!Found, P!Found
<1>3. \A s : Asking(C, G)!Range(s) = P!Range(s)
  BY DEF Asking!Range, P!Range
<1>4. Asking(C, G)!Contents(found) = P!Contents(found)
  <2> HIDE DEF found
  <2>1. {Asking(C, G)!Range(list) : list \in P!Range(found)} = {P!Range(list) : list \in P!Range(found)}
    BY <1>3
  <2> QED BY <1>3, <2>1 DEF Asking!Contents, P!Contents
<1>5. \A g, c : Asking(C, G)!MatchPolicy(g, c) = P!MatchPolicy(g, c)
  <2>1. \A g, c : Asking(C, G)!Fitting(g, c) = P!Fitting(g, c)
    BY DEF Asking!Fitting, P!Fitting, Asking!Applies, P!Applies, Asking!ForProcessor,
       P!ForProcessor, Asking!ForMethod, P!ForMethod, Asking!Tiers, P!Tiers, Asking!ANY,
       P!ANY, Asking!None, P!None
  <2>2. \A f : Asking(C, G)!BestTier(f) = P!BestTier(f)
    BY DEF Asking!BestTier, P!BestTier, Asking!Tiers, P!Tiers
  <2> TAKE g, c
  <2> DEFINE LastOf(best) == g[CHOOSE i \in best : \A j \in best : j <= i]
             Chosen(fit, tier) == IF \A t \in 1 .. 4 : fit[t] = {} THEN NoPolicy
                                  ELSE LastOf(fit[tier])
  <2>3. Asking(C, G)!MatchPolicy(g, c)
          = Chosen(Asking(C, G)!Fitting(g, c),
                   Asking(C, G)!BestTier(Asking(C, G)!Fitting(g, c)))
    BY DEF Asking!MatchPolicy, Asking!Tiers, Asking!NoPolicy, NoPolicy, Asking!None, None
  <2>4. P!MatchPolicy(g, c) = Chosen(P!Fitting(g, c), P!BestTier(P!Fitting(g, c)))
    BY DEF P!MatchPolicy, P!Tiers, P!NoPolicy, NoPolicy, P!None, None
  <2> HIDE DEF Chosen
  <2> QED BY <2>1, <2>2, <2>3, <2>4
<1>6. Asking(C, G)!GetFeePolicy(e, found) = P!GetFeePolicy(e, found)
  <2>1. Asking(C, G)!FeeContext(found) = P!FeeContext(found)
    BY ContextAlone
  <2> HIDE DEF found
  <2> QED BY <1>5, <2>1 DEF Asking!GetFeePolicy, P!GetFeePolicy, Asking!FeeTypes, P!FeeTypes,
        Asking!PolicyEvidence, P!PolicyEvidence, Asking!NoPolicy, P!NoPolicy, Asking!None,
        P!None
<1>7. Asking(C, G)!GetSimilarCases(e) = P!GetSimilarCases(e)
  BY DEF Asking!GetSimilarCases, P!GetSimilarCases
<1>8. Asking(C, G)!CustomerEvidence(e) = P!CustomerEvidence(e)
  <2> DEFINE refs == {e.primary} \cup P!Range(e.related)
  <2>0. \A ref \in refs : OnlyOf(C, ref)
    BY <1>0, SameLists
  <2>1. {Asking(C, G)!Range(Asking(C, G)!SearchByOrder(ref)) : ref \in refs}
          = {P!Range(P!SearchByOrder(ref)) : ref \in refs}
    <3> HIDE DEF refs
    <3> QED BY <1>1, <1>3, <2>0
  <2>2. Asking(C, G)!CustomerEvidence(e)
          = IF e.type = "BUNDLED_PAYMENT"
            THEN UNION {Asking(C, G)!Range(Asking(C, G)!SearchByOrder(ref)) : ref \in refs}
            ELSE {}
    BY <1>3 DEF Asking!CustomerEvidence
  <2>3. P!CustomerEvidence(e)
          = IF e.type = "BUNDLED_PAYMENT"
            THEN UNION {P!Range(P!SearchByOrder(ref)) : ref \in refs} ELSE {}
    BY DEF P!CustomerEvidence
  <2> QED BY <2>1, <2>2, <2>3
<1> HIDE DEF found
<1>9. P!Found(e) = found
  BY DEF found
<1> QED BY <1>2, <1>4, <1>6, <1>7, <1>8, <1>9 DEF Asking!Gathered, P!Gathered
-----------------------------------------------------------------------------
(* The decision on an exception.                                           *)

\* Policies have names that no record has.
Distinct ==
  IsSequence(registry) /\ \A i \in DOMAIN registry : registry[i].id \notin Kinds

\* The status investigate gives an exception of the data set.
Decided(e) ==
  LET items == P!Gathered(e)
      reply == Provider!MockReply(e, items)
  IN  IF reply = Provider!NotJson THEN "HUMAN_REVIEW" ELSE P!Outcome(reply, items)

\* No record of another case is among the evidence.
LEMMA EvidenceIsAlone ==
  ASSUME WholeStore, Distinct, NEW C, C \subseteq ledger, NEW e, OfCase(C, e),
         NEW r \in ledger, Key(r) \in P!Gathered(e)
  PROVE  r \in C
<1>1. P!Contents(P!Found(e)) \subseteq KeysIn(C)
  BY FoundStaysAlone
<1>2. Key(r).kind \in Kinds
  BY RecordsAssumption DEF Key, WholeStore, StoreInv
<1>3. Key(r) \notin P!GetFeePolicy(e, P!Found(e))
  <2> DEFINE policy == P!MatchPolicy(registry, P!FeeContext(P!Found(e)))
  <2>1. P!IsSequence(registry)
    BY SameLists DEF Distinct
  <2>2. policy # P!NoPolicy => \E i \in DOMAIN registry : policy = registry[i]
    BY <2>1, P!PolicyIsRegistered, AssumedByAIProofs
  <2>3. P!GetFeePolicy(e, P!Found(e)) = {} \/
          (policy # P!NoPolicy /\ P!GetFeePolicy(e, P!Found(e)) = {[kind |-> policy.id, id |-> 0]})
    BY DEF P!GetFeePolicy, P!PolicyEvidence
  <2> HIDE DEF policy
  <2>4. policy # P!NoPolicy => policy.id \notin Kinds
    BY <2>2 DEF Distinct
  <2> QED BY <1>2, <2>3, <2>4
<1>4. Key(r) \notin P!GetSimilarCases(e)
  <2>1. "CASE_PRECEDENT" \notin Kinds
    BY DEF Kinds
  <2> QED BY <1>2, <2>1 DEF P!GetSimilarCases
<1>5. P!CustomerEvidence(e) \subseteq KeysIn(C)
  <2>1. \A ref \in {e.primary} \cup P!Range(e.related) :
          P!Range(P!SearchByOrder(ref)) \subseteq KeysIn(C)
    BY ToolsStayAlone, SameLists DEF OfCase
  <2> QED BY <2>1 DEF P!CustomerEvidence
<1>6. Key(r) \in KeysIn(C)
  BY <1>1, <1>3, <1>4, <1>5 DEF P!Gathered
<1> QED BY <1>6 DEF KeysIn, WholeStore, LedgerInv

\* The provider replies as it would there.
LEMMA ReplyAlone ==
  ASSUME NEW C, C \subseteq ledger, NEW items,
         \A r \in ledger : Key(r) \in items => r \in C, NEW e
  PROVE  /\ Asking(C, registry)!MockReply(e, items) = Provider!MockReply(e, items)
         /\ Asking(C, registry)!NotJson = Provider!NotJson
<1> DEFINE G == registry
<1>1. Asking(C, G)!Shown(items) = Provider!Shown(items)
  BY DEF Asking!Shown, Provider!Shown, Asking!Key, Provider!Key, Key
<1>2. Asking(C, G)!Words(e, items) = Provider!Words(e, items)
  BY <1>1 DEF Asking!Words, Provider!Words, Asking!Range, Provider!Range
<1>3. \A d, f, c, m : Asking(C, G)!Reply(d, f, c, m) = Provider!Reply(d, f, c, m)
  BY DEF Asking!Reply, Provider!Reply
<1>4. /\ Asking(C, G)!ToHuman = Provider!ToHuman
      /\ Asking(C, G)!NotJson = Provider!NotJson
      /\ \A c : Asking(C, G)!Resolve(c) = Provider!Resolve(c)
      /\ Asking(C, G)!Invented = Provider!Invented
  BY <1>3 DEF Asking!ToHuman, Provider!ToHuman, Asking!NotJson, Provider!NotJson,
     Asking!Resolve, Provider!Resolve, Asking!Invented, Provider!Invented
<1>5. \A o : Asking(C, G)!PolicyCited(items, o) = Provider!PolicyCited(items, o)
  BY DEF Asking!PolicyCited, Provider!PolicyCited, Asking!PolicyEvidence, Provider!PolicyEvidence
<1>6. Asking(C, G)!BundleReply(items) = Provider!BundleReply(items)
  BY <1>4 DEF Asking!BundleReply, Provider!BundleReply, Asking!Cardinality, Provider!Cardinality
<1>7. Asking(C, G)!LLMRules(items) = Provider!LLMRules(items)
  <2>1. /\ Asking(C, G)!FeeWords = Provider!FeeWords
        /\ Asking(C, G)!International = Provider!International
        /\ Asking(C, G)!HighVolume = Provider!HighVolume
        /\ Asking(C, G)!Undecided = Provider!Undecided
    BY SMT DEF Asking!FeeWords, Provider!FeeWords, Asking!International,
       Provider!International, Asking!HighVolume, Provider!HighVolume, Asking!Undecided,
       Provider!Undecided
  <2>2. /\ Asking(C, G)!Reply("AI_RESOLVED", "low", {}, {})
             = Provider!Reply("AI_RESOLVED", "low", {}, {})
        /\ Asking(C, G)!Reply("AI_RESOLVED", "high", {}, {999988})
             = Provider!Reply("AI_RESOLVED", "high", {}, {999988})
        /\ Asking(C, G)!Reply("HUMAN_REVIEW", "low", {}, {})
             = Provider!Reply("HUMAN_REVIEW", "low", {}, {})
    BY <1>3
  <2>3. /\ Asking(C, G)!Resolve({Asking(C, G)!Invented}) = Provider!Resolve({Provider!Invented})
        /\ Asking(C, G)!Resolve(Asking(C, G)!PolicyCited(items, "RULE_INTL_CARD_3.5"))
             = Provider!Resolve(Provider!PolicyCited(items, "RULE_INTL_CARD_3.5"))
        /\ Asking(C, G)!Resolve(Asking(C, G)!PolicyCited(items, "RULE_HIGH_VOLUME_DISCOUNT"))
             = Provider!Resolve(Provider!PolicyCited(items, "RULE_HIGH_VOLUME_DISCOUNT"))
    BY <1>4, <1>5
  <2> DEFINE Table(human, json, invented, low, claim, unsure, intl, volume, bundle, w, x, y, z) ==
               << [words |-> <<{"INJECTION"}>>, reply |-> human],
                  [words |-> <<{"HALLUCINATE"}>>, reply |-> invented],
                  [words |-> <<{"MALFORMED_JSON"}>>, reply |-> json],
                  [words |-> <<{"LOW_CONFIDENCE"}>>, reply |-> low],
                  [words |-> <<{"CONTRADICTION"}>>, reply |-> claim],
                  [words |-> <<w, x>>, reply |-> intl],
                  [words |-> <<w, y>>, reply |-> volume],
                  [words |-> <<w>>, reply |-> human],
                  [words |-> <<{"BUNDLED_PAYMENT"}>>, reply |-> bundle],
                  [words |-> <<z>>, reply |-> human],
                  [words |-> <<>>, reply |-> unsure] >>
  <2>4. Asking(C, G)!LLMRules(items)
          = Table(Asking(C, G)!ToHuman, Asking(C, G)!NotJson,
                  Asking(C, G)!Resolve({Asking(C, G)!Invented}),
                  Asking(C, G)!Reply("AI_RESOLVED", "low", {}, {}),
                  Asking(C, G)!Reply("AI_RESOLVED", "high", {}, {999988}),
                  Asking(C, G)!Reply("HUMAN_REVIEW", "low", {}, {}),
                  Asking(C, G)!Resolve(Asking(C, G)!PolicyCited(items, "RULE_INTL_CARD_3.5")),
                  Asking(C, G)!Resolve(Asking(C, G)!PolicyCited(items, "RULE_HIGH_VOLUME_DISCOUNT")),
                  Asking(C, G)!BundleReply(items), Asking(C, G)!FeeWords,
                  Asking(C, G)!International, Asking(C, G)!HighVolume, Asking(C, G)!Undecided)
    BY DEF Asking!LLMRules
  <2>5. Provider!LLMRules(items)
          = Table(Provider!ToHuman, Provider!NotJson, Provider!Resolve({Provider!Invented}),
                  Provider!Reply("AI_RESOLVED", "low", {}, {}),
                  Provider!Reply("AI_RESOLVED", "high", {}, {999988}),
                  Provider!Reply("HUMAN_REVIEW", "low", {}, {}),
                  Provider!Resolve(Provider!PolicyCited(items, "RULE_INTL_CARD_3.5")),
                  Provider!Resolve(Provider!PolicyCited(items, "RULE_HIGH_VOLUME_DISCOUNT")),
                  Provider!BundleReply(items), Provider!FeeWords, Provider!International,
                  Provider!HighVolume, Provider!Undecided)
    BY DEF Provider!LLMRules
  <2> HIDE DEF Table
  <2> QED BY SMT, <1>4, <1>6, <2>1, <2>2, <2>3, <2>4, <2>5
<1>8. \A rule, words : Asking(C, G)!Fires(rule, words) <=> Provider!Fires(rule, words)
  BY DEF Asking!Fires, Provider!Fires
<1>9. \A s : Asking(C, G)!Foremost(s) = Provider!Foremost(s)
  BY DEF Asking!Foremost, Provider!Foremost
<1>10. Asking(C, G)!MockReply(e, items) = Provider!MockReply(e, items)
  <2> DEFINE all == Provider!LLMRules(items)
             words == Provider!Words(e, items)
             there == {i \in DOMAIN all : Asking(C, G)!Fires(all[i], words)}
             here == {i \in DOMAIN all : Provider!Fires(all[i], words)}
  <2>1. there = here
    <3> HIDE DEF all, words
    <3> QED BY <1>8
  <2>2. Asking(C, G)!MockReply(e, items) = all[Asking(C, G)!Foremost(there)].reply
    BY <1>2, <1>7 DEF Asking!MockReply
  <2>3. Provider!MockReply(e, items) = all[Provider!Foremost(here)].reply
    BY DEF Provider!MockReply
  <2> HIDE DEF all, words, there, here
  <2> QED BY <1>9, <2>1, <2>2, <2>3
<1> QED BY <1>4, <1>10

\* So do the guardrails judge.
LEMMA OutcomeAlone ==
  ASSUME NEW C, C \subseteq ledger, NEW items,
         \A r \in ledger : Key(r) \in items => r \in C, NEW reply, NEW g
  PROVE  Asking(C, g)!Outcome(reply, items) = P!Outcome(reply, items)
<1> DEFINE Told(r) == {r.amount} \cup (IF r.kind \in {"PROCESSOR", "SETTLEMENT"}
                                       THEN {r.fee, Gap(r.amount, r.fee)} ELSE {})
<1>1. Asking(C, g)!Amounts(items) = P!Amounts(items)
  <2>1. {s \in C : Key(s) \in items} = {s \in ledger : Key(s) \in items}
    OBVIOUS
  <2>2. Asking(C, g)!Amounts(items) = UNION {Told(r) : r \in {s \in C : Key(s) \in items}}
    BY DEF Asking!Amounts, Asking!Gap, Gap, Asking!Key, Key
  <2>3. P!Amounts(items) = UNION {Told(r) : r \in {s \in ledger : Key(s) \in items}}
    BY DEF P!Amounts, P!Gap, Gap, P!Key, Key
  <2> HIDE DEF Told
  <2> QED BY <2>1, <2>2, <2>3
<1>2. \A claims : Asking(C, g)!Contradicted(claims, items) <=> P!Contradicted(claims, items)
  BY <1>1 DEF Asking!Contradicted, P!Contradicted, Asking!Near, P!Near, Asking!Gap, P!Gap
<1> QED BY <1>2 DEF Asking!Outcome, P!Outcome, Asking!Passes, P!Passes

LEMMA DecisionAlone ==
  ASSUME WholeStore, Distinct, NEW C, C \subseteq ledger, NEW e, OfCase(C, e)
  PROVE  DecidedAlone(e, C, registry) = Decided(e)
<1> DEFINE G == registry
           items == P!Gathered(e)
<1>1. Asking(C, G)!Gathered(e) = items
  BY GatheredAlone
<1>2. \A r \in ledger : Key(r) \in items => r \in C
  BY EvidenceIsAlone
<1> HIDE DEF items
<1>3. /\ Asking(C, G)!MockReply(e, items) = Provider!MockReply(e, items)
      /\ Asking(C, G)!NotJson = Provider!NotJson
  BY <1>2, ReplyAlone
<1>4. \A reply : Asking(C, G)!Outcome(reply, items) = P!Outcome(reply, items)
  BY <1>2, OutcomeAlone
<1>5. P!Gathered(e) = items
  BY DEF items
<1> QED BY <1>1, <1>3, <1>4, <1>5 DEF DecidedAlone, DecidedOn, StatusFrom, Decided
-----------------------------------------------------------------------------
(* Exceptions investigated have the status decided on what is stored.      *)

DecidedSoFar ==
  \A j \in DOMAIN report : j < current => status[j] = DecidedAlone(report[j], ledger, registry)

Answers == step \in {"ask", "done"} => DecidedSoFar

LEMMA DecidedOnAll ==
  ASSUME WholeStore, Distinct, NEW e, IsSequence(e.related)
  PROVE  DecidedAlone(e, ledger, registry) = Decided(e)
<1>1. \A n : OnlyOf(ledger, n)
  BY DEF OnlyOf, RecordNames
<1>2. OfCase(ledger, e)
  BY <1>1 DEF OfCase
<1> QED BY <1>2, DecisionAlone

LEMMA AnsweredDecides ==
  ASSUME PipelineInv, Side, step = "ask", Answered
  PROVE  /\ current \in DOMAIN report /\ current' = current + 1
         /\ UNCHANGED <<stored, report>>
         /\ status' = [status EXCEPT ![current] =
                         DecidedAlone(report[current], ledger, registry)]
<1> DEFINE e == report[current]
           reply == Provider!MockReply(e, evidence)
<1>1. phase = "asking" /\ IF reply = Provider!NotJson THEN AI!NoUsableReply ELSE AI!Decide(reply)
  BY DEF Answered
<1>2. /\ current \in DOMAIN report /\ evidence = P!Gathered(e) /\ P!IsReport(report)
  BY <1>1 DEF PipelineInv, Asked, P!IInv, P!Shape, P!EvidenceIsOwn
<1>3. IsSequence(e.related)
  <2>1. \A x \in ToSet(report) : IsSequence(x.related)
    BY <1>2, ReportShape
  <2>2. e \in ToSet(report)
    BY <1>2 DEF ToSet
  <2> QED BY <2>1, <2>2
<1>4. WholeStore /\ Distinct
  <2>1. Planned /\ Loaded /\ Registered /\ step # "load"
    BY DEF PipelineInv, Side
  <2> QED BY <2>1, StoreStands, PoliciesNamed DEF Stands, Distinct
<1>5. DecidedAlone(e, ledger, registry)
        = IF reply = Provider!NotJson THEN "HUMAN_REVIEW" ELSE P!Outcome(reply, evidence)
  <2>1. DecidedAlone(e, ledger, registry) = Decided(e)
    <3> HIDE DEF e
    <3> QED BY <1>3, <1>4, DecidedOnAll
  <2> QED BY <1>2, <2>1 DEF Decided
<1>6. CASE reply = Provider!NotJson
  <2>1. AI!NoUsableReply
    BY <1>1, <1>6
  <2> QED BY <1>2, <1>5, <1>6, <2>1 DEF AI!NoUsableReply, AI!stored, stored
<1>7. CASE reply # Provider!NotJson
  <2>1. AI!Decide(reply)
    BY <1>1, <1>7
  <2>2. AI!Outcome(reply, evidence) = P!Outcome(reply, evidence)
    BY SameOutcome
  <2> HIDE DEF reply
  <2> QED BY <1>2, <1>5, <1>7, <2>1, <2>2 DEF AI!Decide, AI!stored, stored
<1> QED BY <1>6, <1>7

LEMMA InvestigatingKeepsAnswers ==
  ASSUME PipelineInv, Side, Answers, Investigate
  PROVE  Answers'
<1>1. step = "ask" /\ (AI!Start \/ Answered) /\ DecidedSoFar
  BY DEF Investigate, Answers
<1>2. /\ DOMAIN status = DOMAIN report /\ DOMAIN report = 1 .. Len(report)
      /\ Len(report) \in Nat /\ current \in Nat
  BY P!ReportsAreLists, AssumedByAIProofs DEF PipelineInv, Asked, P!IInv, P!Shape
<1>3. CASE AI!Start
  <2>1. UNCHANGED <<ledger, registry, report, current, status>>
    BY <1>3 DEF AI!Start, AI!stored
  <2> QED BY <1>1, <2>1 DEF Answers, DecidedSoFar
<1>4. CASE Answered
  <2>1. /\ current \in DOMAIN report /\ current' = current + 1
        /\ UNCHANGED <<ledger, registry, report>>
        /\ status' = [status EXCEPT ![current] =
                        DecidedAlone(report[current], ledger, registry)]
    BY <1>1, <1>4, AnsweredDecides DEF stored
  <2>2. ASSUME NEW j \in DOMAIN report, j < current + 1
        PROVE  status'[j] = DecidedAlone(report[j], ledger, registry)
    <3>1. CASE j = current
      BY <1>2, <2>1, <3>1
    <3>2. CASE j # current
      <4>1. j < current
        BY <1>2, <2>2, <3>2
      <4> QED BY <1>1, <1>2, <2>1, <3>2, <4>1 DEF DecidedSoFar
    <3> QED BY <3>1, <3>2
  <2> QED BY <2>1, <2>2 DEF Answers, DecidedSoFar
<1> QED BY <1>1, <1>3, <1>4

\* Nothing is decided on a fresh report.
LEMMA NothingDecided ==
  ASSUME PipelineInv, current = 1
  PROVE  Answers
<1>1. DOMAIN report = 1 .. Len(report) /\ Len(report) \in Nat
  BY P!ReportsAreLists, AssumedByAIProofs DEF PipelineInv, Asked, P!IInv, P!Shape
<1> QED BY <1>1 DEF Answers, DecidedSoFar

LEMMA FreshAnswers == PipelineInv /\ current = 1 => Answers
BY NothingDecided

LEMMA StepKeepsAnswers ==
  ASSUME PipelineInv, Side, Answers, [PipelineNext]_pipelineVars, PipelineInv'
  PROVE  Answers'
<1>1. CASE LoadSuite \/ HandOver
  <2>1. (current = 1)'
    BY <1>1 DEF LoadSuite, HandOver, Hand
  <2> QED BY <2>1, FreshAnswers, PTL
<1>2. CASE Load \/ Measure \/ ReconcileAll \/ Match
  BY <1>2 DEF Load, Measure, ReconcileAll, Match, Unrun, Answers
<1>3. CASE Investigate
  BY <1>3, InvestigatingKeepsAnswers
<1>4. CASE Score \/ Done \/ UNCHANGED pipelineVars
  <2>1. /\ UNCHANGED <<ledger, registry, report, current, status>>
        /\ step' \in {"ask", "done"} => step \in {"ask", "done"}
    BY <1>4 DEF Score, Done, pipelineVars, vars, stored, asked
  <2> QED BY <2>1 DEF Answers, DecidedSoFar
<1> QED BY <1>1, <1>2, <1>3, <1>4 DEF PipelineNext

LEMMA AnswersAtFirst == PipelineInit => Answers
BY DEF PipelineInit, Answers

LEMMA AnswersInvariant == PipelineSpec => [](PipelineInv /\ Side /\ Answers)
<1>1. PipelineInv /\ Side /\ Answers /\ [PipelineNext]_pipelineVars /\ PipelineInv' => Answers'
  BY StepKeepsAnswers
<1> QED BY <1>1, AnswersAtFirst, SideInvariant, PTL DEF PipelineSpec
-----------------------------------------------------------------------------
(* The verdicts.                                                           *)

RunEnded == PipelineInv /\ Side /\ Answers /\ step = "done"

\* At the end the whole report is decided on, each exception as in its case.
LEMMA SettledReport ==
  ASSUME RunEnded
  PROVE  /\ Stands /\ IsSequence(report) /\ DOMAIN report = 1 .. Len(report)
         /\ \A j \in DOMAIN report : IsSequence(report[j].related)
         /\ \A j \in DOMAIN report, i \in DOMAIN dataset :
              OfCase(At(i), report[j])
                => status[j] = DecidedAlone(report[j], At(i), registry)
<1>1. Stands /\ PipelineInv /\ Side /\ Answers /\ step = "done"
  BY DEF RunEnded, PipelineInv, Stands
<1>2. DOMAIN report = 1 .. Len(report) /\ Len(report) \in Nat /\ current \in Nat
      /\ P!IsReport(report)
  BY <1>1, P!ReportsAreLists, AssumedByAIProofs DEF PipelineInv, Asked, P!IInv, P!Shape
<1>3. IsSequence(report) /\ \A e \in ToSet(report) : IsSequence(e.related)
  BY <1>2, ReportShape
<1>4. \A j \in DOMAIN report : IsSequence(report[j].related)
  BY <1>3 DEF ToSet
<1>5. WholeStore /\ Distinct /\ \A i \in DOMAIN dataset : At(i) \subseteq ledger
  <2>1. Planned /\ Registered /\ step # "load"
    BY <1>1 DEF PipelineInv, Side
  <2>2. Distinct
    BY <2>1, PoliciesNamed DEF Distinct
  <2> QED BY <1>1, <2>2, StoreStands
<1>6. \A j \in DOMAIN report : status[j] = DecidedAlone(report[j], ledger, registry)
  <2>1. current > Len(report)
    BY <1>1 DEF Side, Ended
  <2> QED BY <1>1, <1>2, <2>1 DEF Answers, DecidedSoFar
<1>7. ASSUME NEW j \in DOMAIN report, NEW i \in DOMAIN dataset, OfCase(At(i), report[j])
      PROVE  status[j] = DecidedAlone(report[j], At(i), registry)
  <2> DEFINE e == report[j]
  <2>1. DecidedAlone(e, ledger, registry) = Decided(e)
    <3>1. IsSequence(e.related)
      BY <1>4
    <3> HIDE DEF e
    <3> QED BY <1>5, <3>1, DecidedOnAll
  <2>2. DecidedAlone(e, At(i), registry) = Decided(e)
    <3> HIDE DEF e
    <3> QED BY <1>5, <1>7, DecisionAlone DEF e
  <2> QED BY <1>6, <2>1, <2>2
<1> QED BY <1>1, <1>2, <1>3, <1>4, <1>7

\* Exceptions that name something of a case are that case's.
LEMMA NamedIsHere ==
  ASSUME RunEnded, program # "suite", NEW i \in DOMAIN dataset,
         NEW n \in NamesOf(program, dataset[i]), NEW j \in DOMAIN report,
         j \in IsPrimary(n) \cup IsRelated(n)
  PROVE  /\ report[j] \in ExceptionsAlone(At(i), registry, rules)
         /\ status[j] = DecidedAlone(report[j], At(i), registry)
<1> DEFINE e == report[j]
<1>1. /\ Stands /\ IsSequence(e.related) /\ (e.primary = n \/ n \in ToSet(e.related))
      /\ (OfCase(At(i), e) => status[j] = DecidedAlone(e, At(i), registry))
  BY SettledReport DEF IsPrimary, IsRelated
<1>2. e \in AllExceptions
  <2>1. Handed
    BY DEF RunEnded, PipelineInv
  <2> QED BY <2>1 DEF Handed, ToSet
<1> HIDE DEF e
<1>3. PICK k \in DOMAIN dataset : e \in ExceptionsAlone(At(k), registry, rules)
  BY <1>1, <1>2, ReportOfCases
<1>4. e.primary \in RecordNames(At(k)) /\ Relates(e.related, RecordNames(At(k)))
  BY <1>1, <1>3, ExceptionsAtHome
<1>5. n \in RecordNames(At(k))
  BY <1>1, <1>4, CasesApart DEF Relates
<1>6. k = i
  BY <1>1, <1>5, NamesApart
<1>7. OfCase(At(i), e)
  <2>1. \A x \in RecordNames(At(i)) : OnlyOf(At(i), x)
    BY <1>1, CasesApart DEF Apart
  <2>2. \A x : x.kind = "PRIMARY_KEY" => OnlyOf(At(i), x)
    BY <1>1, NamesApart
  <2> QED BY <1>1, <1>4, <1>6, <2>1, <2>2 DEF OfCase, Relates
<1> QED BY <1>1, <1>3, <1>6, <1>7 DEF e

LEMMA ReportedHere ==
  ASSUME RunEnded, program # "suite", NEW i \in DOMAIN dataset,
         NEW e \in ExceptionsAlone(At(i), registry, rules)
  PROVE  \E j \in DOMAIN report : report[j] = e
<1>1. Handed /\ Stands
  BY SettledReport DEF RunEnded, PipelineInv
<1>2. e \in AllExceptions
  BY <1>1, ReportOfCases
<1> QED BY <1>1, <1>2 DEF Handed, ToSet

LEMMA MatchedHere ==
  ASSUME RunEnded, program # "suite", NEW i \in DOMAIN dataset,
         NEW n \in NamesOf(program, dataset[i])
  PROVE  n \in MatchedRefs <=> n \in MatchedAlone(At(i), registry, rules)
<1>1. Stands /\ ToSet(matches) = AllMatches /\ ToSet(payouts) = AllPayouts
  BY SettledReport DEF RunEnded, PipelineInv, Handed, Side, PayoutsSoFar
<1>2. \A k \in DOMAIN dataset : n \in MatchedAlone(At(k), registry, rules) => k = i
  BY <1>1, MatchesAtHome, NamesApart
<1> QED BY <1>1, <1>2, MatchesOfCases

\* Some places of the report have a first and a last.
LEMMA FirstAndLast ==
  ASSUME DOMAIN report = 1 .. Len(report), IsSequence(report), NEW S,
         S \subseteq DOMAIN report, S # {}
  PROVE  Earliest(S) \in S /\ Latest(S) \in S
<1> DEFINE N == Len(report)
<1>1. N \in Nat
  BY DEF IsSequence
<1> HIDE DEF N
<1>2. S \subseteq 1 .. N
  BY DEF N
<1>3. Earliest(S) \in S
  <2>1. S \subseteq Nat
    BY <1>1, <1>2
  <2>2. \E n \in S : \A m \in S : n <= m
    BY <2>1, LeastNatural
  <2> QED BY <2>2 DEF Earliest
<1>4. Latest(S) \in S
  <2> DEFINE back == {N - i : i \in S}
  <2>1. back \in SUBSET Nat /\ back # {}
    BY <1>1, <1>2
  <2>2. PICK n \in back : \A m \in back : n <= m
    BY <2>1, LeastNatural
  <2>3. PICK i \in S : n = N - i
    BY <2>2
  <2>4. ASSUME NEW j \in S PROVE j <= i
    <3>1. N - i <= N - j
      BY <2>2, <2>3
    <3> QED BY <1>1, <1>2, <3>1
  <2> QED BY <2>3, <2>4 DEF Latest
<1> QED BY <1>3, <1>4

\* What a scorer finds by a name of a case is what the case alone has there.
LEMMA OutcomeHere ==
  ASSUME RunEnded, program # "suite", NEW i \in DOMAIN dataset,
         NEW n \in NamesOf(program, dataset[i])
  PROVE  Outcome(n) \in OutcomesAlone(n, At(i), registry, rules)
<1> DEFINE all == ExceptionsAlone(At(i), registry, rules)
           primary == {e \in all : e.primary = n}
           related == {e \in all : n \in ToSet(e.related)}
<1>1. DOMAIN report = 1 .. Len(report) /\ IsSequence(report)
  BY SettledReport
<1>2. \A j \in IsPrimary(n) \cup IsRelated(n) :
        report[j] \in all /\ status[j] = DecidedAlone(report[j], At(i), registry)
  BY NamedIsHere DEF IsPrimary, IsRelated
<1>3. \A e \in all : \E j \in DOMAIN report : report[j] = e
  BY ReportedHere
<1> HIDE DEF all
<1>4. IsPrimary(n) # {} <=> primary # {}
  BY <1>2, <1>3 DEF IsPrimary
<1>5. IsRelated(n) # {} <=> related # {}
  BY <1>2, <1>3 DEF IsRelated
<1>6. ASSUME NEW j \in IsPrimary(n)
      PROVE  status[j] \in StatusesAlone(primary, At(i), registry)
  BY <1>2 DEF IsPrimary, StatusesAlone
<1>7. ASSUME NEW j \in IsRelated(n)
      PROVE  status[j] \in StatusesAlone(related, At(i), registry)
  BY <1>2 DEF IsRelated, StatusesAlone
<1>8. IsPrimary(n) # {} => Latest(IsPrimary(n)) \in IsPrimary(n)
  BY <1>1, FirstAndLast DEF IsPrimary
<1>9. IsRelated(n) # {} => Earliest(IsRelated(n)) \in IsRelated(n)
  BY <1>1, FirstAndLast DEF IsRelated
<1>10. n \in MatchedRefs <=> n \in MatchedAlone(At(i), registry, rules)
  BY MatchedHere
<1>11. OutcomesAlone(n, At(i), registry, rules)
         = IF primary # {} THEN StatusesAlone(primary, At(i), registry)
           ELSE IF n \in MatchedAlone(At(i), registry, rules) THEN {"MATCHED"}
           ELSE IF related # {} THEN StatusesAlone(related, At(i), registry)
           ELSE {"UNSEEN"}
  BY DEF OutcomesAlone, OutcomesAmong, all
<1> HIDE DEF primary, related
<1> QED BY <1>4, <1>5, <1>6, <1>7, <1>8, <1>9, <1>10, <1>11 DEF Outcome

LEMMA StressHere ==
  ASSUME RunEnded, program = "stress", NEW i \in DOMAIN dataset
  PROVE  Verdict(i) \in VerdictsAlone(program, dataset[i], registry)
<1> DEFINE refs == dataset[i].refs
           of(j) == OutcomesAlone(refs[j], At(i), registry, rules)
<1>1. Planned /\ rules = RulesOf("stress")
  BY DEF RunEnded, PipelineInv, Planned
<1>2. refs[1] \in NamesOf(program, dataset[i]) /\ refs[2] \in NamesOf(program, dataset[i])
  <2>1. {1, 2} \subseteq DOMAIN refs
    BY <1>1, CasesApartAssumption DEF Planned
  <2>2. refs[1] \in ToSet(refs) /\ refs[2] \in ToSet(refs)
    BY <2>1 DEF ToSet
  <2> QED BY <2>2 DEF NamesOf
<1>3. Outcome(refs[1]) \in of(1) /\ Outcome(refs[2]) \in of(2)
  BY <1>2, OutcomeHere
<1>4. Verdict(i) = IF Outcome(refs[1]) # "UNSEEN" THEN Outcome(refs[1]) ELSE Outcome(refs[2])
  BY DEF Verdict, StressVerdict
<1>5. VerdictsAlone(program, dataset[i], registry)
        = UNION {IF outcome = "UNSEEN" THEN of(2) ELSE {outcome} : outcome \in of(1)}
  BY <1>1 DEF VerdictsAlone, StressVerdicts, At
<1> HIDE DEF of
<1> QED BY <1>3, <1>4, <1>5

LEMMA BenchmarkHere ==
  ASSUME RunEnded, program = "benchmark", NEW i \in DOMAIN dataset
  PROVE  Verdict(i) \in VerdictsAlone(program, dataset[i], registry)
<1> DEFINE refs == ToSet(dataset[i].refs)
           all == ExceptionsAlone(At(i), registry, rules)
           about == {e \in all : ({e.primary} \cup ToSet(e.related)) \cap refs # {}}
           places == UNION {IsPrimary(ref) \cup IsRelated(ref) : ref \in refs}
           matched == MatchedAlone(At(i), registry, rules)
<1>1. rules = RulesOf("benchmark") /\ refs \subseteq NamesOf(program, dataset[i])
  BY DEF RunEnded, PipelineInv, Planned, NamesOf
<1>2. refs \cap MatchedRefs = refs \cap matched
  BY <1>1, MatchedHere
<1>3. \A j \in places :
        j \in DOMAIN report /\ report[j] \in all
                            /\ status[j] = DecidedAlone(report[j], At(i), registry)
  <2>1. \A j \in places : \E ref \in refs :
          j \in DOMAIN report /\ j \in IsPrimary(ref) \cup IsRelated(ref)
    BY DEF IsPrimary, IsRelated
  <2> HIDE DEF places
  <2> QED BY <1>1, <2>1, NamedIsHere
<1>4. \A e \in all : \E j \in DOMAIN report : report[j] = e
  BY ReportedHere
<1>5. \A j : j \in places <=> j \in DOMAIN report
                 /\ ({report[j].primary} \cup ToSet(report[j].related)) \cap refs # {}
  BY DEF IsPrimary, IsRelated
<1>6. Verdict(i) = IF refs \cap MatchedRefs # {} THEN "MATCHED"
                   ELSE IF places # {} THEN status[Earliest(places)] ELSE "UNSEEN"
  BY DEF Verdict, BenchmarkVerdict
<1>7. VerdictsAlone(program, dataset[i], registry)
        = IF refs \cap matched # {} THEN {"MATCHED"}
          ELSE IF about # {} THEN StatusesAlone(about, At(i), registry) ELSE {"UNSEEN"}
  BY <1>1 DEF VerdictsAlone, BenchmarkVerdicts, At
<1> HIDE DEF all, places, matched, refs
<1>8. places # {} <=> about # {}
  BY <1>3, <1>4, <1>5
<1>9. \A j \in places : status[j] \in StatusesAlone(about, At(i), registry)
  BY <1>3, <1>5 DEF StatusesAlone
<1>10. places # {} => Earliest(places) \in places
  BY <1>3, SettledReport, FirstAndLast
<1> HIDE DEF about
<1> QED BY <1>2, <1>6, <1>7, <1>8, <1>9, <1>10

LEMMA SuiteHere ==
  ASSUME RunEnded, program = "suite", NEW i \in DOMAIN dataset
  PROVE  Verdict(i) \in VerdictsAlone(program, dataset[i], registry)
<1> DEFINE e == dataset[i].exception
<1>1. /\ i \in DOMAIN report /\ report[i] = e
      /\ Stands /\ IsSequence(e.related)
  <2>1. Handed
    BY DEF RunEnded, PipelineInv
  <2>2. i \in DOMAIN report /\ report[i] = e
    BY <2>1 DEF Handed
  <2> QED BY <2>2, SettledReport
<1>2. OfCase(At(i), e)
  <2>1. e.primary \in NamesOf(program, dataset[i])
          /\ ToSet(e.related) \subseteq NamesOf(program, dataset[i])
    BY DEF NamesOf
  <2> QED BY <1>1, <2>1, CasesApart DEF OfCase
<1>3. status[i] = DecidedAlone(e, At(i), registry)
  BY <1>1, <1>2, SettledReport
<1>4. Verdict(i) = status[i]
  BY DEF Verdict
<1>5. VerdictsAlone(program, dataset[i], registry) = {DecidedAlone(e, At(i), registry)}
  BY DEF VerdictsAlone, StatusesAlone, At
<1> QED BY <1>3, <1>4, <1>5

LEMMA VerdictsStandAlone == PipelineInv /\ Side /\ Answers => CasesJudgedAlone
<1> SUFFICES ASSUME PipelineInv, Side, Answers, step = "done", NEW i \in DOMAIN dataset
             PROVE  Verdict(i) \in VerdictsAlone(program, dataset[i], registry)
  BY DEF CasesJudgedAlone
<1>1. RunEnded
  BY DEF RunEnded
<1>2. program \in {"stress", "benchmark", "suite"}
  BY CasesApartAssumption DEF PipelineInv, Planned
<1> QED BY <1>1, <1>2, StressHere, BenchmarkHere, SuiteHere

(* Every verdict on a case of a data set, however long, is one on that     *)
(* case alone.                                                             *)
THEOREM CasesAreJudgedAlone == PipelineSpec => []CasesJudgedAlone
BY AnswersInvariant, VerdictsStandAlone, PTL
-----------------------------------------------------------------------------
(* What is right case by case is right of the whole data set.              *)

\* Only the end has scores, and they are those of the scorers.
Classed ==
  IF step = "done" THEN scores = [i \in DOMAIN dataset |-> Class(i)] ELSE scores = <<>>

LEMMA SameClasses ==
  ASSUME UNCHANGED <<vars, plan, asked>>
  PROVE  \A i : Class(i)' = Class(i)
<1>1. UNCHANGED <<program, dataset, report, status, matches, payouts, ledger>>
  BY DEF vars, plan, asked, engine, stored
<1>2. MatchedRefs' = MatchedRefs
  BY <1>1 DEF MatchedRefs, Get, ToSet
<1>3. \A n : Outcome(n)' = Outcome(n)
  <2> TAKE n
  <2>1. IsPrimary(n)' = IsPrimary(n) /\ IsRelated(n)' = IsRelated(n)
    BY <1>1 DEF IsPrimary, IsRelated, ToSet
  <2> QED BY <1>1, <1>2, <2>1 DEF Outcome, Latest, Earliest
<1>4. \A i : Verdict(i)' = Verdict(i)
  <2> TAKE i
  <2>1. StressVerdict(dataset[i])' = StressVerdict(dataset[i])
    BY <1>1, <1>3 DEF StressVerdict
  <2>2. BenchmarkVerdict(dataset[i])' = BenchmarkVerdict(dataset[i])
    <3>1. \A n : IsPrimary(n)' = IsPrimary(n) /\ IsRelated(n)' = IsRelated(n)
      BY <1>1 DEF IsPrimary, IsRelated, ToSet
    <3> DEFINE refs == ToSet(dataset[i].refs)
               places == UNION {IsPrimary(ref) \cup IsRelated(ref) : ref \in refs}
               Judged(s, S) == IF refs \cap MatchedRefs # {} THEN "MATCHED"
                               ELSE IF S # {} THEN s[Earliest(S)] ELSE "UNSEEN"
    <3>2. refs' = refs
      BY <1>1 DEF ToSet
    <3>3. places' = places
      BY <3>1, <3>2
    <3>4. BenchmarkVerdict(dataset[i]) = Judged(status, places)
      BY DEF BenchmarkVerdict
    <3>5. BenchmarkVerdict(dataset[i])' = Judged(status, places)'
      BY DEF BenchmarkVerdict
    <3> HIDE DEF places
    <3>6. Judged(status, places)' = Judged(status, places)
      BY <1>1, <1>2, <3>2, <3>3 DEF Earliest
    <3> QED BY <3>4, <3>5, <3>6
  <2> QED BY <1>1, <2>1, <2>2 DEF Verdict
<1> QED BY <1>1, <1>4 DEF Class

LEMMA StepKeepsClassed ==
  ASSUME Classed, [PipelineNext]_pipelineVars
  PROVE  Classed'
<1>1. CASE Score
  <2>1. /\ UNCHANGED <<vars, plan, asked>> /\ step' = "done"
        /\ scores' = [i \in DOMAIN dataset |-> Class(i)]
    BY <1>1 DEF Score
  <2>2. dataset' = dataset
    BY <2>1 DEF plan
  <2> QED BY <2>1, <2>2, SameClasses DEF Classed
<1>2. CASE Done \/ UNCHANGED pipelineVars
  <2>1. UNCHANGED <<vars, plan, asked, step, scores>>
    BY <1>2 DEF Done, pipelineVars
  <2>2. dataset' = dataset
    BY <2>1 DEF plan
  <2> QED BY <2>1, <2>2, SameClasses DEF Classed
<1>3. CASE Load \/ LoadSuite \/ Measure \/ ReconcileAll \/ Match \/ HandOver \/ Investigate
  <2>1. scores' = scores /\ step # "done" /\ step' # "done"
    BY <1>3 DEF Load, LoadSuite, Fill, Measure, ReconcileAll, Match, HandOver, Investigate, Unrun
  <2> QED BY <2>1 DEF Classed
<1> QED BY <1>1, <1>2, <1>3 DEF PipelineNext

LEMMA ScoredInvariant == PipelineSpec => [](PipelineInv /\ Side /\ Answers /\ Classed)
<1>1. Classed /\ [PipelineNext]_pipelineVars => Classed'
  BY StepKeepsClassed
<1>2. PipelineInit => Classed
  BY DEF PipelineInit, Classed
<1> QED BY <1>1, <1>2, AnswersInvariant, PTL DEF PipelineSpec

\* The exceptions about a case are those about it alone.
LEMMA AboutIsHere ==
  ASSUME RunEnded, NEW i \in DOMAIN dataset, NEW j \in About(i)
  PROVE  /\ report[j] \in AboutAlone(program, dataset[i], registry)
         /\ status[j] = DecidedAlone(report[j], At(i), registry)
<1> DEFINE all == IF program = "suite" THEN {dataset[i].exception}
                  ELSE ExceptionsAlone(At(i), registry, rules)
<1>1. PICK r \in At(i) : j \in DOMAIN report /\ report[j].primary = Key(r)
  BY DEF About, At
<1>2. Key(r) \in RecordNames(At(i)) /\ Key(r) \in NamesOf(program, dataset[i])
  BY NamesOfRecord DEF NamesOf, At
<1>3. report[j] \in all /\ status[j] = DecidedAlone(report[j], At(i), registry)
  <2>1. CASE program # "suite"
    <3>1. j \in IsPrimary(Key(r))
      BY <1>1 DEF IsPrimary
    <3> QED BY <1>1, <1>2, <2>1, <3>1, NamedIsHere
  <2>2. CASE program = "suite"
    <3>1. Handed /\ Stands
      BY SettledReport DEF RunEnded, PipelineInv
    <3>2. j \in DOMAIN dataset /\ report[j] = dataset[j].exception
      BY <1>1, <2>2, <3>1 DEF Handed
    <3>3. Key(r) \in NamesOf(program, dataset[j])
      BY <1>1, <2>2, <3>2 DEF NamesOf
    <3>4. j = i
      BY <1>2, <3>1, <3>2, <3>3, NamesApart
    <3>5. OfCase(At(i), report[i])
      <4> DEFINE e == dataset[i].exception
      <4>1. e.primary \in NamesOf(program, dataset[i])
              /\ ToSet(e.related) \subseteq NamesOf(program, dataset[i])
        BY <2>2 DEF NamesOf
      <4>2. IsSequence(e.related) /\ report[i] = e
        BY <1>1, <3>2, <3>4, SettledReport
      <4> QED BY <3>1, <4>1, <4>2, CasesApart DEF OfCase
    <3> QED BY <1>1, <2>2, <3>2, <3>4, <3>5, SettledReport
  <2> QED BY <2>1, <2>2
<1>4. AboutAlone(program, dataset[i], registry)
        = {e \in all : e.primary \in {Key(s) : s \in At(i)}}
  BY DEF AboutAlone, At, RunEnded, PipelineInv, Planned
<1> HIDE DEF all
<1> QED BY <1>1, <1>3, <1>4

\* At the end.
LEMMA RightTogether ==
  ASSUME RunEnded, Classed, CasesAreRightAlone
  PROVE  NoFalseResolution /\ ResolvableIsResolved /\ EveryCaseIsSeen /\ ExpectedTypes
<1> DEFINE resolved == {"MATCHED", "AI_RESOLVED"}
           verdicts(i) == VerdictsAlone(program, dataset[i], registry)
           about(i) == AboutAlone(program, dataset[i], registry)
<1>1. /\ step = "done" /\ rules = RulesOf(program)
      /\ scores = [i \in DOMAIN dataset |-> Class(i)]
  BY DEF RunEnded, Classed, PipelineInv, Planned
<1>2. \A i \in DOMAIN dataset : Verdict(i) \in verdicts(i)
  BY <1>1, VerdictsStandAlone DEF RunEnded, CasesJudgedAlone
<1>3. \A i \in DOMAIN dataset : \A j \in About(i) :
        report[j] \in about(i) /\ status[j] = DecidedAlone(report[j], At(i), registry)
  BY AboutIsHere
<1>4. ASSUME NEW i \in DOMAIN dataset
      PROVE  /\ \A verdict \in verdicts(i) :
                  RightVerdict(program, dataset[i], registry, verdict)
             /\ \A e \in about(i) : RightException(program, dataset[i], registry, e)
  BY <1>1 DEF CasesAreRightAlone, RightAlone
<1>5. \A pay, t : \A i \in DOMAIN dataset :
        Alone(At(i), registry, RulesOf(program))!FeeFindings(pay, t) = FeeFindings(pay, t)
  BY <1>1, FeesAlone
<1> HIDE DEF verdicts, about
<1>6. \A i \in DOMAIN dataset : RightVerdict(program, dataset[i], registry, Verdict(i))
  BY <1>2, <1>4
<1>7. \A i \in DOMAIN dataset : \A j \in About(i) :
        RightException(program, dataset[i], registry, report[j])
  BY <1>3, <1>4
<1>8. \A i \in DOMAIN dataset :
        /\ Class(i) = "FP" => ~dataset[i].resolvable /\ Verdict(i) \in resolved
        /\ Class(i) = "FN" => dataset[i].resolvable /\ Verdict(i) \notin resolved
  BY DEF Class
<1>9. NoFalseResolution
  <2> SUFFICES ASSUME NEW i \in Scored("FP")
               PROVE  /\ \A j \in About(i) : status[j] # "AI_RESOLVED"
                      /\ \E p, t \in dataset[i].records :
                           /\ p.kind = "PAYMENT" /\ t.kind = "PROCESSOR"
                           /\ dataset[i].type = "FEE_MISMATCH" /\ FeeFindings(p, t) = <<>>
    BY DEF NoFalseResolution
  <2>1. i \in DOMAIN dataset /\ ~dataset[i].resolvable /\ Verdict(i) \in resolved
    BY <1>1, <1>8 DEF Scored
  <2>2. \A j \in About(i) : status[j] # "AI_RESOLVED"
    BY <1>3, <1>7, <2>1 DEF RightException, At
  <2>3. \E p, t \in At(i) :
          /\ p.kind = "PAYMENT" /\ t.kind = "PROCESSOR" /\ dataset[i].type = "FEE_MISMATCH"
          /\ Alone(At(i), registry, RulesOf(program))!FeeFindings(p, t) = <<>>
    BY <1>6, <2>1 DEF RightVerdict, At
  <2>4. \E p, t \in At(i) :
          /\ p.kind = "PAYMENT" /\ t.kind = "PROCESSOR" /\ dataset[i].type = "FEE_MISMATCH"
          /\ FeeFindings(p, t) = <<>>
    BY <1>5, <2>1, <2>3
  <2> QED BY <2>2, <2>4 DEF At
<1>10. ResolvableIsResolved
  BY <1>1, <1>6, <1>8 DEF ResolvableIsResolved, Scored, RightVerdict
<1>11. EveryCaseIsSeen
  BY <1>6 DEF EveryCaseIsSeen, RightVerdict
<1>12. ExpectedTypes
  BY <1>7 DEF ExpectedTypes, RightException
<1> QED BY <1>9, <1>10, <1>11, <1>12

LEMMA RightIfRightAlone ==
  PipelineInv /\ Side /\ Answers /\ Classed =>
    (CasesAreRightAlone =>
       NoFalseResolution /\ ResolvableIsResolved /\ EveryCaseIsSeen /\ ExpectedTypes)
<1>1. CASE step = "done"
  BY <1>1, RightTogether DEF RunEnded
<1>2. CASE step # "done"
  BY <1>2 DEF Classed, NoFalseResolution, ResolvableIsResolved, EveryCaseIsSeen,
     ExpectedTypes, Scored
<1> QED BY <1>1, <1>2

(* A data set of any length is scored as it should be if its cases are,    *)
(* one by one: no false resolution, no case missed, and the types expected.*)
THEOREM RightCasesAreRightTogether ==
  PipelineSpec =>
    [](CasesAreRightAlone =>
         NoFalseResolution /\ ResolvableIsResolved /\ EveryCaseIsSeen /\ ExpectedTypes)
BY ScoredInvariant, RightIfRightAlone, PTL
-----------------------------------------------------------------------------
(* Types.                                                                  *)

\* An exception of the matcher is about a record of the ledger.
LEMMA PrimaryIsStored ==
  ASSUME StoreInv, LedgerInv, NEW e \in AllExceptions
  PROVE  \E r \in ledger : e.primary = Key(r)
<1>1. CASE e \in AllRefusals
  <2>1. PICK p \in Of("PAYMENT") : e \in ToSet(Answer(p, {}).exception)
    BY <1>1 DEF AllRefusals
  <2>2. ASSUME NEW a, NEW findings, e \in ToSet(Refused(p, findings, a).exception)
        PROVE  e.primary = a
    <3>1. e = Exception(findings[1].type, a, Key(p), findings[1].related,
                        [i \in DOMAIN findings |-> findings[i].type])
      BY <2>2, ShortLists DEF Refused
    <3> QED BY <3>1 DEF Exception
  <2>3. ASSUME NEW related, e \in ToSet(PostedTwice(p, related).exception)
        PROVE  e.primary = Key(p)
    <3>1. e = Exception("DUPLICATE_INTERNAL", Key(p), Key(p), related, <<>>)
      BY <2>3, ShortLists DEF PostedTwice
    <3> QED BY <3>1 DEF Exception
  <2>4. ASSUME NEW t, NEW before, e \in ToSet(Compared(p, t, before).exception)
        PROVE  e.primary \in {Key(t), Key(p)}
    <3>1. ToSet(Matched(p, t).exception) = {}
      BY ShortLists DEF Matched
    <3>2. \E findings : \E a \in {Key(t), Key(p)} :
            Compared(p, t, before) \in {Refused(p, findings, a), Matched(p, t)}
      BY DEF Compared
    <3> QED BY <2>2, <2>4, <3>1, <3>2
  <2>5. \/ \E findings : Answer(p, {}) = Refused(p, findings, Key(p))
        \/ \E related : Answer(p, {}) = PostedTwice(p, related)
        \/ /\ Targets(p, {}) # {}
           /\ \E before : Answer(p, {}) = Compared(p, Get(First(Targets(p, {}))), before)
    BY DEF Answer
  <2>6. p \in ledger /\ (Targets(p, {}) # {} => Get(First(Targets(p, {}))) \in ledger)
    BY TargetIsFree DEF Of
  <2> QED BY <2>1, <2>2, <2>3, <2>4, <2>5, <2>6
<1>2. CASE e \in Orphans
  <2>1. PICK k \in KeysOf("PROCESSOR") : e \in OrphanAt(k)
    BY <1>2 DEF Orphans
  <2>2. e.primary = k
    BY <2>1, OrphanTells DEF OrphanAt
  <2> QED BY <2>2 DEF KeysOf, Of
<1>3. CASE e \in BatchRefusals
  <2>1. PICK k \in KeysOf("BATCH") : e \in ToSet(BatchAnswer(Get(k)).exception)
    BY <1>3 DEF BatchRefusals, BatchAt
  <2>2. PICK b \in Of("BATCH") : k = Key(b) /\ Get(k) = b
    BY GetKey DEF KeysOf, Of
  <2>3. e.primary = Key(b)
    BY <2>1, <2>2, BatchTells
  <2> QED BY <2>3 DEF Of
<1> QED BY <1>1, <1>2, <1>3 DEF AllExceptions

LEMMA PipelineIsTyped == PipelineInv /\ Classed => PipelineTypeOK
<1> SUFFICES ASSUME PipelineInv, Classed PROVE PipelineTypeOK
  OBVIOUS
<1>1. Planned /\ Loaded /\ Asked /\ P!Shape /\ Statuses
  BY DEF PipelineInv, Asked, P!IInv
<1>2. ledger \subseteq Records /\ step \in {"load", "match", "ask", "done"}
  <2>1. CASE step = "load"
    BY <1>1, <2>1 DEF Loaded
  <2>2. CASE step # "load"
    BY <1>1, <2>2, LoadedStore DEF StoreInv, Planned
  <2> QED BY <1>1, <2>1, <2>2 DEF Planned
<1>3. DOMAIN status = DOMAIN report /\ DOMAIN audit = DOMAIN report
  BY <1>1 DEF P!Shape
<1>4. ASSUME NEW j \in DOMAIN report PROVE report[j].primary \in Nameable
  <2>1. step \in {"ask", "done"} /\ Handed
    BY <1>2, <1>4 DEF PipelineInv
  <2>2. CASE program = "suite"
    BY <1>1, <1>4, <2>1, <2>2, DatasetsAssumption DEF Handed, Planned
  <2>3. CASE program # "suite"
    <3>1. report[j] \in AllExceptions
      BY <1>4, <2>1, <2>3 DEF Handed, ToSet
    <3>2. StoreInv /\ LedgerInv
      BY <1>1, <2>1, LoadedStore
    <3>3. PICK r \in ledger : report[j].primary = Key(r)
      BY <3>1, <3>2, PrimaryIsStored
    <3> QED BY <1>2, <3>3 DEF Nameable
  <2> QED BY <2>2, <2>3
<1>5. \A i \in DOMAIN scores : scores[i] \in {"TP", "TN", "FP", "FN", "NONE"}
  <2>1. \A i : Class(i) \in {"TP", "TN", "FP", "FN", "NONE"}
    BY DEF Class
  <2> QED BY <2>1 DEF Classed
<1> QED BY <1>1, <1>2, <1>3, <1>4, <1>5 DEF PipelineTypeOK, Statuses

(* PipelineTypeOK, for data sets of any number of cases: what the          *)
(* controller is asked about are exceptions about records, each with a     *)
(* status and a trail, and every score is one of the scorers' classes.     *)
THEOREM PipelineTypesHold == PipelineSpec => []PipelineTypeOK
BY ScoredInvariant, PipelineIsTyped, PTL
=============================================================================
