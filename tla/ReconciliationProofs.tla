------------------------ MODULE ReconciliationProofs ------------------------
(***************************************************************************)
(* Proofs about the programs that share a store.  First, a run finds what  *)
(* it has loaded (LoadedRecordsAreFound), and the store stays one of the   *)
(* files (ReconTypeOK), for every set of files, limits and kills.  Then    *)
(* that a verdict depends on the records of one order or reference only    *)
(* (WholeVerdict), that what earlier payments lock changes no verdict      *)
(* (OthersLockNothing), that a run therefore says on every record what it  *)
(* would say of it alone (SoFar), and from this that runs on the kept      *)
(* store agree with run_default_pipeline on an empty one                   *)
(* (WholeCasesAreJudgedAlike, FullRunsAgree).                              *)
(***************************************************************************)
EXTENDS Reconciliation, MatcherProofs

\* A limit leaves rows out at the end and adds none.
LEMMA RowsRead ==
  ASSUME NEW rows, IsSequence(rows), NEW k \in Nat
  PROVE  /\ DOMAIN UpTo(rows, 0) = 1 .. Len(rows)
         /\ \E n \in 0 .. Len(rows) : DOMAIN UpTo(rows, k) = 1 .. n
         /\ DOMAIN UpTo(rows, k) \subseteq DOMAIN UpTo(rows, 0)
<1>1. UpTo(rows, 0) = rows /\ DOMAIN rows = 1 .. Len(rows) /\ Len(rows) \in Nat
  BY DEF UpTo, IsSequence
<1>2. CASE k = 0 \/ Len(rows) <= k
  <2>1. UpTo(rows, k) = rows
    BY <1>2 DEF UpTo
  <2>2. Len(rows) \in 0 .. Len(rows)
    BY <1>1
  <2> QED BY <1>1, <2>1, <2>2
<1>3. CASE ~(k = 0 \/ Len(rows) <= k)
  <2>1. UpTo(rows, k) = SubSeq(rows, 1, k)
    BY <1>3 DEF UpTo
  <2>2. DOMAIN SubSeq(rows, 1, k) = 1 .. k
    BY <1>1, <1>3 DEF IsSequence
  <2>3. k \in 0 .. Len(rows) /\ 1 .. k \subseteq 1 .. Len(rows)
    BY <1>1, <1>3
  <2> QED BY <1>1, <2>1, <2>2, <2>3
<1> QED BY <1>2, <1>3

\* What a limit leaves of a file are elements of the file.
LEMMA CutFile ==
  ASSUME NEW rows, IsSequence(rows), NEW k \in Nat, NEW t,
         t = [i \in DOMAIN UpTo(rows, 0) |-> t[i]],
         NEW s, s = [i \in DOMAIN UpTo(rows, k) |-> t[i]]
  PROVE  IsSequence(s) /\ ToSet(s) \subseteq ToSet(t)
<1>1. PICK n \in 0 .. Len(rows) : DOMAIN UpTo(rows, k) = 1 .. n
  BY RowsRead
<1>2. DOMAIN t = 1 .. Len(rows) /\ Len(rows) \in Nat
  BY RowsRead DEF IsSequence
<1>3. n \in Nat /\ s = [i \in 1 .. n |-> t[i]]
  BY <1>1, <1>2
<1>4. \A i \in 1 .. n : s[i] \in ToSet(s)
  BY <1>3 DEF ToSet
<1>5. s \in Seq(ToSet(s))
  <2>1. s \in [1 .. n -> ToSet(s)]
    BY <1>3, <1>4
  <2> QED BY <1>3, <2>1, SeqDef
<1>6. ToSet(s) \subseteq ToSet(t)
  BY <1>2, <1>3 DEF ToSet
<1> QED BY <1>5, <1>6 DEF IsSequence

FilesOf(dir, k) ==
  << Converted(Files[dir].invoices, k, InvoiceOf), Listing(dir, k),
     Converted(Files[dir].charges, k, ChargeOf),
     Converted(Files[dir].settlements, k, BatchOf),
     Converted(Files[dir].bank, k, BankLineOf),
     Converted(Files[dir].refunds, k, RefundOf) >>

\* So are the records of each file.
LEMMA CutFiles ==
  ASSUME NEW dir \in Dirs, NEW k \in Nat, NEW i \in 1 .. 6
  PROVE  /\ IsSequence(FilesOf(dir, k)[i])
         /\ ToSet(FilesOf(dir, k)[i]) \subseteq ToSet(FilesOf(dir, 0)[i])
<1> DEFINE file == Files[dir]
<1>1. \A f \in FileNames : IsSequence(file[f])
  BY FilesAssumption DEF IsSequence
<1>2. /\ IsSequence(file.invoices) /\ IsSequence(file.payments)
      /\ IsSequence(file.charges) /\ IsSequence(file.settlements)
      /\ IsSequence(file.bank) /\ IsSequence(file.refunds)
  BY <1>1 DEF FileNames
<1>3. CASE i = 1
  <2> DEFINE t == Converted(file.invoices, 0, InvoiceOf)
             s == Converted(file.invoices, k, InvoiceOf)
  <2>1. FilesOf(dir, k)[i] = s /\ FilesOf(dir, 0)[i] = t
    BY <1>3 DEF FilesOf
  <2>2. t = [j \in DOMAIN UpTo(file.invoices, 0) |-> t[j]]
    BY DEF Converted
  <2>3. DOMAIN UpTo(file.invoices, k) \subseteq DOMAIN UpTo(file.invoices, 0)
    BY <1>2, RowsRead
  <2>4. s = [j \in DOMAIN UpTo(file.invoices, k) |-> t[j]]
    BY <2>3 DEF Converted
  <2> HIDE DEF s, t
  <2> QED BY <1>2, <2>1, <2>2, <2>4, CutFile
<1>4. CASE i = 2
  <2> DEFINE t == Converted(file.payments, 0, PaymentOf)
             s == Converted(file.payments, k, PaymentOf)
  <2>1. FilesOf(dir, k)[i] = s /\ FilesOf(dir, 0)[i] = t
    BY <1>4 DEF FilesOf, Listing
  <2>2. t = [j \in DOMAIN UpTo(file.payments, 0) |-> t[j]]
    BY DEF Converted
  <2>3. DOMAIN UpTo(file.payments, k) \subseteq DOMAIN UpTo(file.payments, 0)
    BY <1>2, RowsRead
  <2>4. s = [j \in DOMAIN UpTo(file.payments, k) |-> t[j]]
    BY <2>3 DEF Converted
  <2> HIDE DEF s, t
  <2> QED BY <1>2, <2>1, <2>2, <2>4, CutFile
<1>5. CASE i = 3
  <2> DEFINE t == Converted(file.charges, 0, ChargeOf)
             s == Converted(file.charges, k, ChargeOf)
  <2>1. FilesOf(dir, k)[i] = s /\ FilesOf(dir, 0)[i] = t
    BY <1>5 DEF FilesOf
  <2>2. t = [j \in DOMAIN UpTo(file.charges, 0) |-> t[j]]
    BY DEF Converted
  <2>3. DOMAIN UpTo(file.charges, k) \subseteq DOMAIN UpTo(file.charges, 0)
    BY <1>2, RowsRead
  <2>4. s = [j \in DOMAIN UpTo(file.charges, k) |-> t[j]]
    BY <2>3 DEF Converted
  <2> HIDE DEF s, t
  <2> QED BY <1>2, <2>1, <2>2, <2>4, CutFile
<1>6. CASE i = 4
  <2> DEFINE t == Converted(file.settlements, 0, BatchOf)
             s == Converted(file.settlements, k, BatchOf)
  <2>1. FilesOf(dir, k)[i] = s /\ FilesOf(dir, 0)[i] = t
    BY <1>6 DEF FilesOf
  <2>2. t = [j \in DOMAIN UpTo(file.settlements, 0) |-> t[j]]
    BY DEF Converted
  <2>3. DOMAIN UpTo(file.settlements, k) \subseteq DOMAIN UpTo(file.settlements, 0)
    BY <1>2, RowsRead
  <2>4. s = [j \in DOMAIN UpTo(file.settlements, k) |-> t[j]]
    BY <2>3 DEF Converted
  <2> HIDE DEF s, t
  <2> QED BY <1>2, <2>1, <2>2, <2>4, CutFile
<1>7. CASE i = 5
  <2> DEFINE t == Converted(file.bank, 0, BankLineOf)
             s == Converted(file.bank, k, BankLineOf)
  <2>1. FilesOf(dir, k)[i] = s /\ FilesOf(dir, 0)[i] = t
    BY <1>7 DEF FilesOf
  <2>2. t = [j \in DOMAIN UpTo(file.bank, 0) |-> t[j]]
    BY DEF Converted
  <2>3. DOMAIN UpTo(file.bank, k) \subseteq DOMAIN UpTo(file.bank, 0)
    BY <1>2, RowsRead
  <2>4. s = [j \in DOMAIN UpTo(file.bank, k) |-> t[j]]
    BY <2>3 DEF Converted
  <2> HIDE DEF s, t
  <2> QED BY <1>2, <2>1, <2>2, <2>4, CutFile
<1>8. CASE i = 6
  <2> DEFINE t == Converted(file.refunds, 0, RefundOf)
             s == Converted(file.refunds, k, RefundOf)
  <2>1. FilesOf(dir, k)[i] = s /\ FilesOf(dir, 0)[i] = t
    BY <1>8 DEF FilesOf
  <2>2. t = [j \in DOMAIN UpTo(file.refunds, 0) |-> t[j]]
    BY DEF Converted
  <2>3. DOMAIN UpTo(file.refunds, k) \subseteq DOMAIN UpTo(file.refunds, 0)
    BY <1>2, RowsRead
  <2>4. s = [j \in DOMAIN UpTo(file.refunds, k) |-> t[j]]
    BY <2>3 DEF Converted
  <2> HIDE DEF s, t
  <2> QED BY <1>2, <2>1, <2>2, <2>4, CutFile
<1> QED BY <1>3, <1>4, <1>5, <1>6, <1>7, <1>8

\* What a run reads is what the six files hold up to the limit.
LEMMA LoadedFiles ==
  ASSUME NEW dir \in Dirs, NEW n \in Nat
  PROVE  /\ IsSequence(LoadOrder(dir, n))
         /\ ToSet(LoadOrder(dir, n)) = UNION {ToSet(FilesOf(dir, n)[i]) : i \in 1 .. 6}
<1> DEFINE F == FilesOf(dir, n)
           Two == F[1] \o F[2]
           Three == Two \o F[3]
           Four == Three \o F[4]
           Five == Four \o F[5]
           Six == Five \o F[6]
<1>1. \A i \in 1 .. 6 : IsSequence(F[i])
  BY CutFiles
<1>2. IsSequence(Two) /\ ToSet(Two) = ToSet(F[1]) \cup ToSet(F[2])
  BY <1>1, ElementsOfConcat
<1>3. IsSequence(Three) /\ ToSet(Three) = ToSet(Two) \cup ToSet(F[3])
  BY <1>1, <1>2, ElementsOfConcat
<1>4. IsSequence(Four) /\ ToSet(Four) = ToSet(Three) \cup ToSet(F[4])
  BY <1>1, <1>3, ElementsOfConcat
<1>5. IsSequence(Five) /\ ToSet(Five) = ToSet(Four) \cup ToSet(F[5])
  BY <1>1, <1>4, ElementsOfConcat
<1>6. IsSequence(Six) /\ ToSet(Six) = ToSet(Five) \cup ToSet(F[6])
  BY <1>1, <1>5, ElementsOfConcat
<1>7. LoadOrder(dir, n) = Six
  BY DEF LoadOrder, FilesOf
<1> HIDE DEF F, Two, Three, Four, Five, Six
<1>8. 1 .. 6 = {1, 2, 3, 4, 5, 6}
  OBVIOUS
<1>9. ToSet(Six) = UNION {ToSet(F[i]) : i \in 1 .. 6}
  BY <1>2, <1>3, <1>4, <1>5, <1>6, <1>8
<1> QED BY <1>6, <1>7, <1>9 DEF F

\* A run reads records of its directory, in a sequence.
LEMMA LoadIsCut ==
  ASSUME NEW dir \in Dirs, NEW k \in Nat
  PROVE  /\ IsSequence(LoadOrder(dir, k))
         /\ ToSet(LoadOrder(dir, k)) \subseteq RecordsOf(dir)
<1>1. 0 \in Nat /\ \A i \in 1 .. 6 : ToSet(FilesOf(dir, k)[i]) \subseteq ToSet(FilesOf(dir, 0)[i])
  BY CutFiles
<1>2. ToSet(LoadOrder(dir, 0)) = UNION {ToSet(FilesOf(dir, 0)[i]) : i \in 1 .. 6}
  BY LoadedFiles
<1>3. /\ IsSequence(LoadOrder(dir, k))
      /\ ToSet(LoadOrder(dir, k)) = UNION {ToSet(FilesOf(dir, k)[i]) : i \in 1 .. 6}
  BY LoadedFiles
<1> QED BY <1>1, <1>2, <1>3 DEF RecordsOf

\* The kinds of records the files hold: no settlements, and one file has the payments.
LEMMA KindsRead ==
  ASSUME NEW dir \in Dirs, NEW k \in Nat, NEW r \in ToSet(LoadOrder(dir, k))
  PROVE  /\ r.kind \in {"PAYMENT", "INVOICE", "REFUND", "PROCESSOR", "BATCH", "BANK"}
         /\ r.kind = "PAYMENT" => r \in ToSet(Listing(dir, k))
<1>1. PICK i \in 1 .. 6 : r \in ToSet(FilesOf(dir, k)[i])
  BY LoadedFiles
<1>2. CASE i = 1
  BY <1>1, <1>2 DEF FilesOf, ToSet, Converted, InvoiceOf
<1>3. CASE i = 2
  BY <1>1, <1>3 DEF FilesOf, ToSet, Listing, Converted, PaymentOf
<1>4. CASE i = 3
  BY <1>1, <1>4 DEF FilesOf, ToSet, Converted, ChargeOf
<1>5. CASE i = 4
  BY <1>1, <1>5 DEF FilesOf, ToSet, Converted, BatchOf
<1>6. CASE i = 5
  BY <1>1, <1>6 DEF FilesOf, ToSet, Converted, BankLineOf
<1>7. CASE i = 6
  BY <1>1, <1>7 DEF FilesOf, ToSet, Converted, RefundOf
<1> QED BY <1>2, <1>3, <1>4, <1>5, <1>6, <1>7

\* The payments a run is about: read by it, and none of them twice.
LEMMA PaymentsRead ==
  ASSUME NEW dir \in Dirs, NEW k \in Nat
  PROVE  /\ \A p \in ToSet(Listing(dir, k)) :
              p.kind = "PAYMENT" /\ p \in ToSet(LoadOrder(dir, k)) /\ p \in RecordsOf(dir)
         /\ IsSequence(Listing(dir, k)) /\ IsInjective(Listing(dir, k))
<1>1. FilesOf(dir, k)[2] = Listing(dir, k)
  BY DEF FilesOf
<1>2. ToSet(Listing(dir, k)) \subseteq ToSet(LoadOrder(dir, k))
  BY <1>1, LoadedFiles
<1>3. IsSequence(Listing(dir, k))
  BY <1>1, CutFiles
<1>4. \A p \in ToSet(Listing(dir, k)) : p.kind = "PAYMENT"
  BY DEF ToSet, Listing, Converted, PaymentOf
<1>5. IsInjective(Listing(dir, k))
  <2> DEFINE rows == Files[dir].payments
             t == Converted(rows, 0, PaymentOf)
             s == Converted(rows, k, PaymentOf)
  <2>1. IsSequence(rows)
    BY FilesAssumption DEF FileNames, IsSequence
  <2>2. DOMAIN UpTo(rows, k) \subseteq DOMAIN UpTo(rows, 0)
    BY <2>1, RowsRead
  <2>3. /\ DOMAIN s = DOMAIN UpTo(rows, k) /\ DOMAIN t = DOMAIN UpTo(rows, 0)
        /\ \A i \in DOMAIN s : s[i] = t[i]
    BY <2>2 DEF Converted
  <2>4. IsInjective(t)
    BY FilesAssumption DEF Listing
  <2> HIDE DEF s, t
  <2>5. IsInjective(s)
    BY <2>2, <2>3, <2>4 DEF IsInjective
  <2> QED BY <2>5 DEF s, Listing
<1> QED BY <1>2, <1>3, <1>4, <1>5, LoadIsCut
-----------------------------------------------------------------------------
(* Between Start and the end of a run, what is still to be stored is a     *)
(* sequence of records of the run, and the rest is stored and indexed.     *)
Loading ==
  phase # "ready" =>
    /\ run.dir \in Dirs /\ run.limit \in Nat
    /\ IsSequence(toLoad)
    /\ ToSet(toLoad) \subseteq ToSet(LoadOrder(run.dir, run.limit))

LInv == Loading /\ LoadedRecordsAreFound

\* A process starts with everything still to be stored.
LEMMA StartKeeps ==
  ASSUME NEW program, NEW dir \in Dirs, NEW limit \in Nat,
         Start(program, dir, limit)
  PROVE  LInv'
<1>1. /\ run'.dir = dir /\ run'.limit = limit
      /\ toLoad' = LoadOrder(dir, limit)
  BY DEF Start
<1>2. IsSequence(LoadOrder(dir, limit))
  BY LoadIsCut
<1> QED BY <1>1, <1>2 DEF LInv, Loading, LoadedRecordsAreFound

\* put_record replaces nothing but what has the record's key.
LEMMA LoadRecordKeeps ==
  ASSUME LInv, LoadRecord
  PROVE  LInv'
<1> DEFINE all == LoadOrder(run.dir, run.limit)
           h == Head(toLoad)
<1>1. /\ phase = "load" /\ toLoad # <<>> /\ PutRecord(h)
      /\ toLoad' = Tail(toLoad) /\ run' = run /\ phase' = phase
  BY DEF LoadRecord
<1>2. /\ run.dir \in Dirs /\ run.limit \in Nat /\ IsSequence(toLoad)
      /\ ToSet(toLoad) \subseteq ToSet(all)
      /\ \A r \in ToSet(all) \ ToSet(toLoad) : r \in ledger /\ Indexed(r)
  BY <1>1 DEF LInv, Loading, LoadedRecordsAreFound
<1>3. /\ IsSequence(Tail(toLoad)) /\ h \in ToSet(toLoad)
      /\ ToSet(toLoad) = {h} \cup ToSet(Tail(toLoad))
  BY <1>1, <1>2, HeadOrTail
<1>4. ToSet(all) \subseteq RecordsOf(run.dir)
  BY <1>2, LoadIsCut
<1>5. /\ ledger' = {s \in ledger : Key(s) # Key(h)} \cup {h}
      /\ index' = index \cup IndexEntries(h)
  BY <1>1 DEF PutRecord
<1>6. ASSUME NEW r \in ToSet(all) \ ToSet(Tail(toLoad))
      PROVE  r \in ledger' /\ IndexEntries(r) \subseteq index'
  <2>1. CASE r = h
    BY <1>5, <2>1
  <2>2. CASE r # h
    <3>1. r \in ledger /\ Indexed(r)
      BY <1>2, <1>3, <2>2
    <3>2. Key(r) # Key(h)
      BY <1>2, <1>3, <1>4, <2>2, FilesAssumption
    <3> QED BY <1>5, <3>1, <3>2 DEF Indexed
  <2> QED BY <2>1, <2>2
<1> HIDE DEF all
<1>7. Loading'
  BY <1>1, <1>2, <1>3 DEF Loading, all
<1>8. LoadedRecordsAreFound'
  BY <1>1, <1>6 DEF LoadedRecordsAreFound, Indexed, all
<1> QED BY <1>7, <1>8 DEF LInv

\* Nothing else a run does touches the store before it ends.
LEMMA OthersKeep ==
  ASSUME LInv, UNCHANGED <<ledger, index, run, toLoad>>,
         phase' # "ready" => phase # "ready"
  PROVE  LInv'
BY DEF LInv, Loading, LoadedRecordsAreFound, Indexed

\* A run that has ended claims nothing.
LEMMA ReadyKeeps ==
  ASSUME phase' = "ready"
  PROVE  LInv'
BY DEF LInv, Loading, LoadedRecordsAreFound

\* Every step keeps LInv.
LEMMA StepKeepsLoaded == ASSUME LInv, [ReconNext]_reconVars PROVE LInv'
<1>1. ASSUME NEW dir \in Dirs, RunDefault(dir) PROVE LInv'
  BY <1>1, StartKeeps DEF RunDefault
<1>2. ASSUME NEW dir \in Dirs, NEW limit \in Limits, RunMain(dir, limit)
      PROVE  LInv'
  BY <1>2, StartKeeps, LimitsAssumption DEF RunMain
<1>3. CASE LoadRecord
  BY <1>3, LoadRecordKeeps
<1>4. CASE RegisterContracts
  BY <1>4, OthersKeep DEF RegisterContracts
<1>5. CASE Reconcile
  <2>1. UNCHANGED <<ledger, index, run, toLoad>> /\ phase # "ready"
    BY <1>5 DEF Reconcile, Begin, stored
  <2> QED BY <2>1, OthersKeep
<1>6. CASE MatchStep
  <2>1. UNCHANGED <<ledger, index>>
    BY <1>6 DEF MatchStep, NextOrder, ReconcileOrder, OrdersDone,
       NextProcessor, ProcessorsDone, NextBatch, stored
  <2>2. UNCHANGED <<run, toLoad, phase>>
    BY <1>6 DEF MatchStep, programVars
  <2> QED BY <2>1, <2>2, OthersKeep
<1>7. CASE Report
  <2>1. UNCHANGED <<ledger, index, run, toLoad>> /\ phase # "ready"
    BY <1>7 DEF Report, Finish, stored
  <2> QED BY <2>1, OthersKeep
<1>8. CASE DeleteStore
  BY <1>8, ReadyKeeps DEF DeleteStore
<1>9. CASE Killed
  BY <1>9, ReadyKeeps DEF Killed
<1>10. CASE UNCHANGED reconVars
  BY <1>10, OthersKeep DEF reconVars, vars, stored, programVars
<1> QED
  BY <1>1, <1>2, <1>3, <1>4, <1>5, <1>6, <1>7, <1>8, <1>9, <1>10 DEF ReconNext

(* LoadedRecordsAreFound, the property of the Reconciliation run: what a   *)
(* run has loaded is stored as read and indexed, for any files with unique *)
(* identifiers, any limits, and any history of killed and limited runs.    *)
THEOREM LoadRepairsTheStore == ReconSpec => []LoadedRecordsAreFound
<1>1. ReconInit => LInv
  BY DEF ReconInit, LInv, Loading, LoadedRecordsAreFound
<1>2. LInv /\ [ReconNext]_reconVars => LInv'
  BY StepKeepsLoaded
<1>3. LInv => LoadedRecordsAreFound
  BY DEF LInv
<1> QED BY <1>1, <1>2, <1>3, PTL DEF ReconSpec
-----------------------------------------------------------------------------
(* The store between and within runs: what ReconTypeOK says of it does not *)
(* depend on what the run in progress is, as the identifiers of all files  *)
(* are unique.                                                             *)
FromFiles ==
  /\ ledger \subseteq UNION {RecordsOf(d) : d \in Dirs}
  /\ \A e \in index : \E r \in ledger : e \in IndexEntries(r)

\* Storing a record of the files leaves every entry with the record it is for.
LEMMA PuttingKeepsEntries ==
  ASSUME FromFiles, NEW d \in Dirs, NEW h \in RecordsOf(d),
         ledger' = {s \in ledger : Key(s) # Key(h)} \cup {h},
         index' \subseteq index \cup IndexEntries(h)
  PROVE  FromFiles'
<1>1. ledger' \subseteq UNION {RecordsOf(c) : c \in Dirs}
  BY DEF FromFiles
<1>2. ASSUME NEW e \in index'
      PROVE  \E r \in ledger' : e \in IndexEntries(r)
  <2>1. CASE e \in IndexEntries(h)
    BY <2>1
  <2>2. CASE e \in index
    <3>1. PICK r \in ledger : e \in IndexEntries(r)
      BY <2>2 DEF FromFiles
    <3>2. Key(r) = Key(h) => r = h
      <4>1. PICK c \in Dirs : r \in RecordsOf(c)
        BY DEF FromFiles
      <4> QED BY <4>1, FilesAssumption
    <3> QED BY <3>1, <3>2
  <2> QED BY <1>2, <2>1, <2>2
<1>3. \A d_1 \in Dirs : RecordsOf(d_1)' = RecordsOf(d_1)
  OBVIOUS
<1> QED BY <1>1, <1>2, <1>3 DEF FromFiles

\* The engine works in one phase only.
AtRest == phase # "match" => stage = "idle"

\* What a run still has to load is in the files of its directory.
LEMMA ToLoadFromFiles ==
  ASSUME Loading, phase # "ready"
  PROVE  /\ run.dir \in Dirs
         /\ ToSet(toLoad) \subseteq RecordsOf(run.dir)
         /\ toLoad # <<>> => Head(toLoad) \in RecordsOf(run.dir)
<1>1. /\ run.dir \in Dirs /\ run.limit \in Nat /\ IsSequence(toLoad)
      /\ ToSet(toLoad) \subseteq ToSet(LoadOrder(run.dir, run.limit))
  BY DEF Loading
<1>2. ToSet(LoadOrder(run.dir, run.limit)) \subseteq RecordsOf(run.dir)
  BY <1>1, LoadIsCut
<1>3. toLoad # <<>> => Head(toLoad) \in ToSet(toLoad)
  BY <1>1, HeadOrTail
<1> QED BY <1>1, <1>2, <1>3

\* Every step of a run keeps the types.
LEMMA StepKeepsReconTypes ==
  ASSUME LInv, ReconTypeOK, AtRest, [ReconNext]_reconVars
  PROVE  ReconTypeOK'
<1>1. /\ FromFiles /\ Loading
      /\ phase # "ready" =>
           /\ run.program \in {"run_default_pipeline", "run_reconciliation"}
           /\ run.dir \in Dirs /\ run.limit \in Limits \cup {0}
      /\ ToSet(toLoad) \subseteq Records
      /\ phase \notin {"match", "close"} => stage = "idle"
  BY DEF ReconTypeOK, FromFiles, LInv
<1>2. ASSUME NEW program \in {"run_default_pipeline", "run_reconciliation"},
             NEW dir \in Dirs, NEW limit \in Limits \cup {0},
             Start(program, dir, limit)
      PROVE  ReconTypeOK'
  <2>1. limit \in Nat
    BY LimitsAssumption
  <2>2. ToSet(LoadOrder(dir, limit)) \subseteq Records
    BY <2>1, LoadIsCut, FilesAssumption
  <2>3. /\ phase' = "load" /\ stage' = "idle"
        /\ run' = [program |-> program, dir |-> dir, limit |-> limit]
        /\ toLoad' = LoadOrder(dir, limit) /\ UNCHANGED <<ledger, index>>
    BY <1>2 DEF Start
  <2> QED BY <1>1, <2>2, <2>3 DEF ReconTypeOK, FromFiles
<1>3. ASSUME NEW dir \in Dirs, RunDefault(dir) PROVE ReconTypeOK'
  BY <1>2, <1>3 DEF RunDefault
<1>4. ASSUME NEW dir \in Dirs, NEW limit \in Limits, RunMain(dir, limit)
      PROVE  ReconTypeOK'
  BY <1>2, <1>4 DEF RunMain
<1>5. CASE LoadRecord
  <2>1. /\ phase = "load" /\ toLoad # <<>> /\ PutRecord(Head(toLoad))
        /\ toLoad' = Tail(toLoad) /\ UNCHANGED <<run, phase, stage>>
    BY <1>5 DEF LoadRecord, engine
  <2>2. run.dir \in Dirs /\ Head(toLoad) \in RecordsOf(run.dir)
    BY <1>1, <2>1, ToLoadFromFiles
  <2>3. FromFiles'
    BY <1>1, <2>1, <2>2, PuttingKeepsEntries DEF PutRecord
  <2>4. ToSet(toLoad') \subseteq ToSet(toLoad)
    BY <1>1, <2>1, HeadOrTail DEF Loading
  <2> QED BY <1>1, <2>1, <2>3, <2>4 DEF ReconTypeOK, FromFiles
<1>6. CASE RegisterContracts
  BY <1>1, <1>6 DEF RegisterContracts, engine, ReconTypeOK, FromFiles
<1>7. CASE Reconcile
  BY <1>1, <1>7 DEF Reconcile, Begin, stored, ReconTypeOK, FromFiles
<1>8. CASE MatchStep
  <2>1. UNCHANGED <<ledger, index>>
    BY <1>8 DEF MatchStep, NextOrder, ReconcileOrder, OrdersDone,
       NextProcessor, ProcessorsDone, NextBatch, stored
  <2>2. UNCHANGED <<run, toLoad, phase>> /\ phase = "match"
    BY <1>8 DEF MatchStep, programVars
  <2> QED BY <1>1, <2>1, <2>2 DEF ReconTypeOK, FromFiles
<1>9. CASE Report
  BY <1>1, <1>9 DEF Report, Finish, stored, ReconTypeOK, FromFiles
<1>10. CASE DeleteStore
  <2>1. stage = "idle" => stage' = "idle"
    BY <1>10 DEF DeleteStore, engine
  <2> QED BY <1>1, <1>10, <2>1 DEF DeleteStore, AtRest, ReconTypeOK
<1>11. CASE Killed
  <2>1. /\ phase' = "ready" /\ toLoad' = <<>> /\ stage' = "idle"
    BY <1>11 DEF Killed
  <2>2. CASE UNCHANGED <<ledger, index>>
    BY <1>1, <2>1, <2>2 DEF ReconTypeOK, FromFiles, ToSet
  <2>3. CASE phase = "load" /\ toLoad # <<>> /\ PutPrimaryOnly(Head(toLoad))
    <3>1. run.dir \in Dirs /\ Head(toLoad) \in RecordsOf(run.dir)
      BY <1>1, <2>3, ToLoadFromFiles
    <3>2. FromFiles'
      BY <1>1, <2>3, <3>1, PuttingKeepsEntries DEF PutPrimaryOnly
    <3> QED BY <2>1, <3>2 DEF ReconTypeOK, FromFiles, ToSet
  <2> QED BY <1>11, <2>2, <2>3 DEF Killed
<1>12. CASE UNCHANGED reconVars
  BY <1>1, <1>12 DEF reconVars, vars, engine, stored, programVars, ReconTypeOK, FromFiles
<1> QED BY <1>3, <1>4, <1>5, <1>6, <1>7, <1>8, <1>9, <1>10, <1>11, <1>12
        DEF ReconNext

\* The engine is at rest between its runs.
LEMMA StepKeepsRest ==
  ASSUME AtRest, [ReconNext]_reconVars
  PROVE  AtRest'
<1>1. ASSUME NEW program, NEW dir, NEW limit, Start(program, dir, limit)
      PROVE  AtRest'
  BY <1>1 DEF Start, AtRest
<1>2. CASE \/ \E dir \in Dirs : RunDefault(dir)
           \/ \E dir \in Dirs, limit \in Limits : RunMain(dir, limit)
  BY <1>1, <1>2 DEF RunDefault, RunMain
<1>3. CASE LoadRecord
  BY <1>3 DEF LoadRecord, engine, AtRest
<1>4. CASE RegisterContracts
  BY <1>4 DEF RegisterContracts, engine, AtRest
<1>5. CASE Reconcile
  BY <1>5 DEF Reconcile, AtRest
<1>6. CASE MatchStep
  BY <1>6 DEF MatchStep, programVars, AtRest
<1>7. CASE Report
  BY <1>7 DEF Report, Finish, AtRest
<1>8. CASE DeleteStore
  BY <1>8 DEF DeleteStore, engine, AtRest
<1>9. CASE Killed
  BY <1>9 DEF Killed, AtRest
<1>10. CASE UNCHANGED reconVars
  BY <1>10 DEF reconVars, vars, engine, programVars, AtRest
<1> QED BY <1>2, <1>3, <1>4, <1>5, <1>6, <1>7, <1>8, <1>9, <1>10 DEF ReconNext

(* ReconTypeOK, the types of the Reconciliation run, among them that the   *)
(* store holds records of the files only and no index entry but those of   *)
(* records it holds, whatever was killed inside a put_record.              *)
THEOREM StoreStaysConsistent == ReconSpec => []ReconTypeOK
<1>1. ReconInit => LInv /\ ReconTypeOK /\ AtRest
  <2>1. ReconInit => LInv
    BY DEF ReconInit, LInv, Loading, LoadedRecordsAreFound
  <2>2. ReconInit => ReconTypeOK /\ AtRest
    BY DEF ReconInit, NewEngine, ReconTypeOK, AtRest, ToSet
  <2> QED BY <2>1, <2>2
<1>2. LInv /\ ReconTypeOK /\ AtRest /\ [ReconNext]_reconVars
        => (LInv /\ ReconTypeOK /\ AtRest)'
  BY StepKeepsLoaded, StepKeepsReconTypes, StepKeepsRest
<1> QED BY <1>1, <1>2, PTL DEF ReconSpec
-----------------------------------------------------------------------------
(* What a run says, record by record.  Nothing has been locked before the  *)
(* answers are given: that no payment loses its charge to another is part  *)
(* of what is shown below.                                                 *)
Saying(key, verdicts) == {[on |-> key, is |-> v] : v \in verdicts}

OnPayment(p) ==
  Saying(Key(p), ToSet(Answer(p, {}).match) \cup ToSet(Answer(p, {}).exception))
OnCharge(k) == Saying(k, ToSet(When(Orphan(k, {}), Unrecorded(k))))
OnBatch(b) ==
  Saying(Key(b), ToSet(BatchAnswer(b).payout) \cup ToSet(BatchAnswer(b).exception))

VerdictOn(r) ==
  CASE r.kind = "PAYMENT"   -> OnPayment(r)
    [] r.kind = "PROCESSOR" -> OnCharge(Key(r))
    [] r.kind = "BATCH"     -> OnBatch(r)
    [] OTHER                -> {}

(* A store that holds nothing but one directory, whole: the one            *)
(* run_default_pipeline fills.                                             *)
EntriesOf(d) == UNION {IndexEntries(r) : r \in RecordsOf(d)}
RegistryOf(d) == FoldLeft(Register, BuiltIn, Contracts(d, 0))

Fresh(d, theRules) ==
  INSTANCE Orders WITH ledger <- RecordsOf(d), index <- EntriesOf(d),
                       registry <- RegistryOf(d), rules <- theRules

FreshVerdictOn(d, R, r) ==
  CASE r.kind = "PAYMENT" ->
         Saying(Key(r), ToSet(Fresh(d, R)!Answer(r, {}).match)
                          \cup ToSet(Fresh(d, R)!Answer(r, {}).exception))
    [] r.kind = "PROCESSOR" ->
         Saying(Key(r), ToSet(When(Fresh(d, R)!Orphan(Key(r), {}),
                                   Fresh(d, R)!Unrecorded(Key(r)))))
    [] r.kind = "BATCH" ->
         Saying(Key(r), ToSet(Fresh(d, R)!BatchAnswer(r).payout)
                          \cup ToSet(Fresh(d, R)!BatchAnswer(r).exception))
    [] OTHER -> {}

FreshVerdicts(d, R) == UNION {FreshVerdictOn(d, R, r) : r \in RecordsOf(d)}

\* The payments a run reads, and all it has to say something on.
Paid == ToSet(Listing(run.dir, run.limit))
Subjects == Paid \cup Of("PROCESSOR") \cup Of("BATCH")
Says == UNION {VerdictOn(r) : r \in Subjects}

\* What the run in progress has said so far.
Said == Verdicts([matches |-> matches, exceptions |-> exceptions,
                  payouts |-> payouts])

\* The kinds of records whose turn comes later.
Ahead == [orders |-> {"PROCESSOR", "BATCH"}, processors |-> {"BATCH"},
          batches |-> {}]

(* reconcile_all in progress: on what is behind it, it has said what it    *)
(* would say with nothing locked, and it has said nothing else.  What is   *)
(* locked could be the target of a payment behind it.                      *)
SoFar ==
  /\ stage \in DOMAIN Walked
  /\ IsSequence(queue) /\ IsSequence(matches)
  /\ IsSequence(exceptions) /\ IsSequence(payouts)
  /\ ToSet(listed) = {Key(p) : p \in Paid}
  /\ ToSet(queue) \subseteq {Key(r) : r \in {s \in Subjects : s.kind = Walked[stage]}}
  /\ stage = "orders" => Once(queue)
  /\ \A k \in consumed : \E p \in Paid : Key(p) \notin ToSet(queue) /\ k \in Own(p)
  /\ Said \subseteq Says
  /\ \A r \in Subjects :
       (r.kind \notin Ahead[stage] /\ Key(r) \notin ToSet(queue))
         => VerdictOn(r) \subseteq Said

Judging == phase = "match" => SoFar

(* A finished run that the store still stands behind: its report says all  *)
(* there is to say, and everything it read is stored.                      *)
Judged ==
  /\ run.dir \in Dirs /\ run.limit \in Nat /\ registry = RegistryOf(run.dir)
  /\ ToSet(lastRun.list) = {Key(p) : p \in Paid}
  /\ Verdicts(lastRun) = Says
  /\ \A r \in ToSet(LoadOrder(run.dir, run.limit)) : r \in ledger /\ Indexed(r)

Judges ==
  /\ phase \in {"load", "registered", "match"} => lastRun = NoRun
  /\ phase = "load" => registry = BuiltIn
  /\ phase \in {"registered", "match", "close"} =>
       registry = RegistryOf(run.dir) /\ toLoad = <<>>
  /\ phase = "close" => run.program = "run_default_pipeline"
  /\ phase = "close" \/ Finished => Judged

(* While a directory is without a report, run_default_pipeline has the     *)
(* store to itself, and deletes it; its reports are those of fresh stores. *)
FreshStores ==
  /\ reported = [d \in Dirs |-> reported[d]]
  /\ run.program = "run_reconciliation" => \A d \in Dirs : reported[d] # NoRun
  /\ (phase = "ready" /\ \E d \in Dirs : reported[d] = NoRun)
       => ledger = {} /\ index = {}
  /\ (phase # "ready" /\ run.program = "run_default_pipeline") =>
       /\ run.limit = 0
       /\ ledger \subseteq RecordsOf(run.dir) /\ index \subseteq EntriesOf(run.dir)
  /\ \A d \in Dirs : reported[d] # NoRun =>
       Verdicts(reported[d]) = FreshVerdicts(d, rules)

StoreIsFinite == IsFiniteSet(ledger) /\ rules \in RuleSets
-----------------------------------------------------------------------------
\* Between runs and within, the store is one the matcher's lemmas speak of.
LEMMA StoreOfFiles ==
  ASSUME FromFiles, IsFiniteSet(ledger)
  PROVE  /\ StoreInv /\ LedgerInv
         /\ \A r \in ledger : \E d \in Dirs : r \in RecordsOf(d)
         /\ \A r \in ledger : Get(Key(r)) = r
<1>1. \A r \in ledger : \E d \in Dirs : r \in RecordsOf(d)
  BY DEF FromFiles
<1>2. ledger \subseteq Records
  BY <1>1, FilesAssumption
<1>3. \A e \in index : \E r \in ledger : Key(r) = e.to /\ e \in IndexEntries(r)
  <2> SUFFICES ASSUME NEW e \in index
               PROVE  \E r \in ledger : Key(r) = e.to /\ e \in IndexEntries(r)
    OBVIOUS
  <2>1. PICK r \in ledger : e \in IndexEntries(r)
    BY DEF FromFiles
  <2>2. e = [by |-> e.by, to |-> Key(r)]
    BY <2>1, EntryLeadsHome
  <2>3. e.to = Key(r)
    BY <2>2
  <2> QED BY <2>1, <2>3
<1>4. \A r, s \in ledger : Key(r) = Key(s) => r = s
  BY <1>1, FilesAssumption
<1>5. StoreInv /\ LedgerInv
  BY <1>2, <1>3, <1>4 DEF StoreInv, LedgerInv
<1> QED BY <1>1, <1>5, GetKey

\* A lookup under the case of a whole case finds what it finds in a fresh store.
LEMMA SameLookups ==
  ASSUME NEW R, NEW kind, FromFiles, NEW d \in Dirs, NEW r \in RecordsOf(d),
         NEW c \in FiledUnder(r), Whole(d, c)
  PROVE  /\ Fresh(d, R)!Under(c, kind) = Under(c, kind)
         /\ \A k \in Under(c, kind) : \E s \in RecordsOf(d) \cap ledger : k = Key(s)
<1> DEFINE here == {f \in index : f.by = c /\ f.to.kind = kind}
           there == {f \in EntriesOf(d) : f.by = c /\ f.to.kind = kind}
<1>1. PICK x \in IndexEntries(r) : x.by = c
  BY DEF FiledUnder
<1>2. ASSUME NEW e \in index, e.by = c
      PROVE  \E s \in RecordsOf(d) \cap ledger : e \in IndexEntries(s) /\ e.to = Key(s)
  <2>1. PICK s \in ledger : e \in IndexEntries(s)
    BY DEF FromFiles
  <2>2. PICK b \in Dirs : s \in RecordsOf(b)
    BY DEF FromFiles
  <2>3. b = d
    BY <1>1, <1>2, <2>1, <2>2, FilesAssumption
  <2>4. e = [by |-> e.by, to |-> Key(s)]
    BY <2>1, EntryLeadsHome
  <2>5. e.to = Key(s)
    BY <2>4
  <2> QED BY <2>1, <2>2, <2>3, <2>5
<1>3. ASSUME NEW e \in EntriesOf(d), e.by = c
      PROVE  e \in index
  <2>1. PICK s \in RecordsOf(d) : e \in IndexEntries(s)
    BY DEF EntriesOf
  <2>2. c \in FiledUnder(s)
    BY <1>3, <2>1 DEF FiledUnder
  <2> QED BY <2>1, <2>2 DEF Whole, Indexed
<1>4. here = there
  BY <1>2, <1>3 DEF EntriesOf
<1>5. Under(c, kind) = {e.to : e \in here}
  BY DEF Under
<1>6. Fresh(d, R)!Under(c, kind) = {e.to : e \in there}
  BY DEF Fresh!Under
<1> QED BY <1>2, <1>4, <1>5, <1>6

\* No record of the files is a settlement, so none is found.
LEMMA NoSettlements ==
  ASSUME NEW R, NEW by, FromFiles, NEW d \in Dirs
  PROVE  /\ Under(by, "SETTLEMENT") = {}
         /\ Fresh(d, R)!Under(by, "SETTLEMENT") = {}
<1>1. ASSUME NEW b \in Dirs, NEW s \in RecordsOf(b), NEW e \in IndexEntries(s)
      PROVE  e.to.kind # "SETTLEMENT"
  <2>1. s.kind # "SETTLEMENT"
    BY KindsRead DEF RecordsOf
  <2>2. e = [by |-> e.by, to |-> Key(s)]
    BY EntryLeadsHome
  <2>3. e.to = Key(s)
    BY <2>2
  <2> QED BY <2>1, <2>3 DEF Key
<1>2. \A e \in index : e.to.kind # "SETTLEMENT"
  BY <1>1 DEF FromFiles
<1>3. \A e \in EntriesOf(d) : e.to.kind # "SETTLEMENT"
  BY <1>1 DEF EntriesOf
<1>4. Under(by, "SETTLEMENT") = {}
  BY <1>2 DEF Under
<1>5. Fresh(d, R)!Under(by, "SETTLEMENT") = {}
  BY <1>3 DEF Fresh!Under
<1> QED BY <1>4, <1>5

\* What does not depend on the store is the same.
LEMMA SameTools ==
  ASSUME NEW d, NEW R
  PROVE  /\ \A keys : Fresh(d, R)!Listed(keys) = Listed(keys)
         /\ \A keys : Fresh(d, R)!First(keys) = First(keys)
         /\ \A o : Fresh(d, R)!OrderRef(o) = OrderRef(o)
         /\ \A r : Fresh(d, R)!Key(r) = Key(r)
         /\ \A a, b : Fresh(d, R)!Gap(a, b) = Gap(a, b)
         /\ \A c, f : Fresh(d, R)!When(c, f) = When(c, f)
         /\ \A keys : Fresh(d, R)!PrimaryKeys(keys) = PrimaryKeys(keys)
         /\ \A t, k, p : Fresh(d, R)!Finding(t, k, p) = Finding(t, k, p)
         /\ \A t, a, b, r, f : Fresh(d, R)!Exception(t, a, b, r, f) = Exception(t, a, b, r, f)
<1>1. \A keys : Fresh(d, R)!Listed(keys) = Listed(keys)
  BY DEF Fresh!Listed, Listed, Fresh!Before, Before, Fresh!Cardinality, Cardinality
<1>2. \A keys : Fresh(d, R)!First(keys) = First(keys)
  BY DEF Fresh!First, First
<1>3. \A o : Fresh(d, R)!OrderRef(o) = OrderRef(o)
  BY DEF Fresh!OrderRef, OrderRef
<1>4. \A r : Fresh(d, R)!Key(r) = Key(r)
  BY DEF Fresh!Key, Key
<1>5. \A a, b : Fresh(d, R)!Gap(a, b) = Gap(a, b)
  BY DEF Fresh!Gap, Gap
<1>6. \A c, f : Fresh(d, R)!When(c, f) = When(c, f)
  BY DEF Fresh!When, When
<1>7. \A keys : Fresh(d, R)!PrimaryKeys(keys) = PrimaryKeys(keys)
  BY DEF Fresh!PrimaryKeys, PrimaryKeys
<1>8. \A t, k, p : Fresh(d, R)!Finding(t, k, p) = Finding(t, k, p)
  BY <1>3 DEF Fresh!Finding, Finding
<1>9. \A t, a, b, r, f : Fresh(d, R)!Exception(t, a, b, r, f) = Exception(t, a, b, r, f)
  BY DEF Fresh!Exception, Exception
<1> QED BY <1>1, <1>2, <1>3, <1>4, <1>5, <1>6, <1>7, <1>8, <1>9

\* A stored record of the directory is got from both stores.
LEMMA SameRecords ==
  ASSUME NEW R, FromFiles, IsFiniteSet(ledger), NEW d \in Dirs,
         NEW s \in RecordsOf(d) \cap ledger
  PROVE  Get(Key(s)) = s /\ Fresh(d, R)!Get(Key(s)) = s
<1>1. Get(Key(s)) = s
  BY StoreOfFiles
<1>2. \A x \in RecordsOf(d) : Key(x) = Key(s) => x = s
  BY FilesAssumption
<1>3. Fresh(d, R)!Get(Key(s)) = s
  BY <1>2 DEF Fresh!Get, Fresh!Key, Key
<1> QED BY <1>1, <1>3

\* So are those a lookup under the case of a whole case lists.
LEMMA SameGets ==
  ASSUME NEW R, NEW kind, NEW k, FromFiles, IsFiniteSet(ledger), NEW d \in Dirs,
         NEW r \in RecordsOf(d), NEW c \in FiledUnder(r), Whole(d, c), k \in Under(c, kind)
  PROVE  Fresh(d, R)!Get(k) = Get(k)
<1>1. PICK s \in RecordsOf(d) \cap ledger : k = Key(s)
  BY SameLookups
<1> QED BY <1>1, SameRecords

\* The lists are the same too.
LEMMA SameEntries ==
  ASSUME NEW R, NEW kind, FromFiles, IsFiniteSet(ledger), NEW d \in Dirs,
         NEW r \in RecordsOf(d), NEW c \in FiledUnder(r), Whole(d, c)
  PROVE  Fresh(d, R)!Entries(c, kind) = Entries(c, kind)
<1>1. Fresh(d, R)!Under(c, kind) = Under(c, kind)
  BY SameLookups
<1> QED BY <1>1, SameTools DEF Fresh!Entries, Entries

\* A list begins with one of the keys looked up.
LEMMA FirstEntry ==
  ASSUME NEW by, NEW kind, StoreInv, LedgerInv, Entries(by, kind) # <<>>
  PROVE  Entries(by, kind)[1] \in Under(by, kind)
<1> DEFINE s == Entries(by, kind)
<1>1. IsSequence(s) /\ ToSet(s) = Under(by, kind)
  BY EntriesEnumerate
<1> HIDE DEF s
<1>2. s \in Seq(ToSet(s)) /\ DOMAIN s = 1 .. Len(s) /\ s # <<>>
  BY <1>1 DEF IsSequence, s
<1>3. 1 \in DOMAIN s
  BY <1>2
<1>4. s[1] \in ToSet(s)
  BY <1>3 DEF ToSet
<1> QED BY <1>1, <1>4 DEF s

\* Findings about fees, currency and strategy need the registry, not the ledger.
LEMMA SameComparison ==
  ASSUME NEW d, registry = RegistryOf(d), NEW p, NEW t, NEW before
  PROVE  Fresh(d, rules)!Compared(p, t, before) = Compared(p, t, before)
<1> DEFINE R == rules
<1>1. Fresh(d, R)!Strategy(p, t) = Strategy(p, t)
  BY DEF Fresh!Strategy, Strategy, Gap, Fresh!Gap, Fresh!DaysApart, DaysApart,
     SimilarEnough, Fresh!SimilarEnough
<1>2. \A g, n, c : Fresh(d, R)!ExpectedPolicy(g, n, c) = ExpectedPolicy(g, n, c)
  <2>1. \A g, n : Fresh(d, R)!GetPolicy(g, n) = GetPolicy(g, n)
    BY DEF Fresh!GetPolicy, GetPolicy, Fresh!NoPolicy, NoPolicy, Fresh!None, None
  <2>2. \A g, c : Fresh(d, R)!Fitting(g, c) = Fitting(g, c)
    BY DEF Fresh!Fitting, Fitting, Fresh!Applies, Applies, Fresh!ForProcessor,
       ForProcessor, Fresh!ForMethod, ForMethod, Fresh!Tiers, Tiers, Fresh!ANY, ANY,
       Fresh!None, None
  <2>3. \A f : Fresh(d, R)!BestTier(f) = BestTier(f)
    BY DEF Fresh!BestTier, BestTier, Fresh!Tiers, Tiers
  <2>4. ASSUME NEW g, NEW c
        PROVE  Fresh(d, R)!MatchPolicy(g, c) = MatchPolicy(g, c)
    <3> DEFINE LastOf(best) == g[CHOOSE i \in best : \A j \in best : j <= i]
               Found(fit, tier) == IF \A t_1 \in 1 .. 4 : fit[t_1] = {} THEN NoPolicy
                                   ELSE LastOf(fit[tier])
    <3>1. MatchPolicy(g, c) = Found(Fitting(g, c), BestTier(Fitting(g, c)))
      BY DEF MatchPolicy, Tiers
    <3>2. Fresh(d, R)!MatchPolicy(g, c)
            = Found(Fresh(d, R)!Fitting(g, c),
                    Fresh(d, R)!BestTier(Fresh(d, R)!Fitting(g, c)))
      BY DEF Fresh!MatchPolicy, Fresh!Tiers, Fresh!NoPolicy, NoPolicy, Fresh!None, None
    <3> HIDE DEF Found
    <3> QED BY <2>2, <2>3, <3>1, <3>2
  <2> QED BY <2>1, <2>4 DEF Fresh!ExpectedPolicy, ExpectedPolicy, Fresh!None, None
<1>3. Fresh(d, R)!PolicyFor(p, t) = PolicyFor(p, t)
  BY <1>2 DEF Fresh!PolicyFor, PolicyFor, Fresh!None, None
<1>4. \A q, n : Fresh(d, R)!CalculateFee(q, n) = CalculateFee(q, n)
  BY DEF Fresh!CalculateFee, CalculateFee
<1>5. Fresh(d, R)!FeeFindings(p, t) = FeeFindings(p, t)
  BY <1>3, <1>4, SameTools DEF Fresh!FeeFindings, FeeFindings, Fresh!NoPolicy, NoPolicy,
     Fresh!None, None
<1>6. Fresh(d, R)!Matched(p, t) = Matched(p, t)
  BY <1>1, SameTools DEF Fresh!Matched, Matched
<1>7. \A f, k : Fresh(d, R)!Refused(p, f, k) = Refused(p, f, k)
  BY SameTools DEF Fresh!Refused, Refused
<1> QED BY <1>1, <1>5, <1>6, <1>7, SameTools DEF Fresh!Compared, Compared

\* A payment of a whole order gets the answer it gets from a fresh store.
LEMMA SameAnswer ==
  ASSUME FromFiles, IsFiniteSet(ledger), NEW d \in Dirs, registry = RegistryOf(d),
         NEW p \in RecordsOf(d), OrderRef(p.order) \in FiledUnder(p),
         Whole(d, OrderRef(p.order))
  PROVE  Fresh(d, rules)!Answer(p, {}) = Answer(p, {})
<1> DEFINE R == rules
           c == OrderRef(p.order)
<1>1. \A kind : /\ Fresh(d, R)!Under(c, kind) = Under(c, kind)
                /\ Fresh(d, R)!Entries(c, kind) = Entries(c, kind)
                /\ \A k \in Under(c, kind) : Fresh(d, R)!Get(k) = Get(k)
                /\ Entries(c, kind) # <<>> =>
                     Fresh(d, R)!Get(Entries(c, kind)[1]) = Get(Entries(c, kind)[1])
  <2>1. c \in FiledUnder(p) /\ Whole(d, c)
    OBVIOUS
  <2> HIDE DEF c, R
  <2> TAKE kind
  <2>2. Fresh(d, R)!Under(c, kind) = Under(c, kind)
    BY <2>1, SameLookups
  <2>3. Fresh(d, R)!Entries(c, kind) = Entries(c, kind)
    BY <2>1, SameEntries
  <2>4. ASSUME NEW k \in Under(c, kind) PROVE Fresh(d, R)!Get(k) = Get(k)
    BY <2>1, SameGets
  <2>5. Entries(c, kind) # <<>> => Entries(c, kind)[1] \in Under(c, kind)
    BY StoreOfFiles, FirstEntry
  <2> QED BY <2>2, <2>3, <2>4, <2>5
<1>2. Fresh(d, R)!OrderRef(p.order) = c /\ Fresh(d, R)!Key(p) = Key(p)
  BY SameTools
<1> HIDE DEF c
<1>3. Fresh(d, R)!RefundFindings(p) = RefundFindings(p)
  BY <1>1, <1>2, SameTools DEF Fresh!RefundFindings, RefundFindings, c
<1>4. Fresh(d, R)!InvoiceFindings(p) = InvoiceFindings(p)
  BY <1>1, <1>2, SameTools DEF Fresh!InvoiceFindings, InvoiceFindings, c
<1>5. Fresh(d, R)!Available(p, {}) = Available(p, {})
  BY <1>1, <1>2 DEF Fresh!Available, Available, Fresh!Free, Free, c
<1>6. Fresh(d, R)!AvailableSettlements(p, {}) = {} /\ AvailableSettlements(p, {}) = {}
  <2>1. \A by : /\ Under(by, "SETTLEMENT") = {}
               /\ Fresh(d, R)!Under(by, "SETTLEMENT") = {}
    BY NoSettlements
  <2> QED BY <2>1 DEF Fresh!AvailableSettlements, AvailableSettlements, Fresh!Free, Free
<1>7. /\ Fresh(d, R)!Targets(p, {}) = Targets(p, {})
      /\ Targets(p, {}) = Under(c, "PROCESSOR")
  BY <1>5, <1>6 DEF Fresh!Targets, Targets, Available, Free, c
<1>8. Targets(p, {}) # {} =>
        Fresh(d, R)!Get(Fresh(d, R)!First(Targets(p, {}))) = Get(First(Targets(p, {})))
  <2> SUFFICES ASSUME Targets(p, {}) # {}
               PROVE  Fresh(d, R)!Get(First(Targets(p, {}))) = Get(First(Targets(p, {})))
    BY SameTools
  <2>1. \A k \in Targets(p, {}) : k.id \in Nat
    BY StoreOfFiles, TargetsAreStored
  <2>2. First(Targets(p, {})) \in Targets(p, {})
    BY <2>1, FirstIsOne
  <2> QED BY <1>1, <1>7, <2>2
<1>9. \A t, before : Fresh(d, R)!Compared(p, t, before) = Compared(p, t, before)
  BY SameComparison
<1>10. \A f, k : Fresh(d, R)!Refused(p, f, k) = Refused(p, f, k)
  BY SameTools DEF Fresh!Refused, Refused
<1>11. \A r : Fresh(d, R)!PostedTwice(p, r) = PostedTwice(p, r)
  BY SameTools DEF Fresh!PostedTwice, PostedTwice
<1>12. Fresh(d, R)!Cardinality(Available(p, {})) = Cardinality(Available(p, {}))
  BY DEF Fresh!Cardinality, Cardinality
<1> QED
  BY <1>1, <1>2, <1>3, <1>4, <1>5, <1>7, <1>8, <1>9, <1>10, <1>11, <1>12, SameTools
     DEF Fresh!Answer, Answer, c

\* A charge of a whole order is or is not accounted for as in a fresh store.
LEMMA SameOrphan ==
  ASSUME NEW R, FromFiles, IsFiniteSet(ledger), NEW d \in Dirs,
         NEW q \in RecordsOf(d) \cap ledger, OrderRef(q.order) \in FiledUnder(q),
         Whole(d, OrderRef(q.order))
  PROVE  /\ Fresh(d, R)!Orphan(Key(q), {}) = Orphan(Key(q), {})
         /\ Fresh(d, R)!Unrecorded(Key(q)) = Unrecorded(Key(q))
<1>1. Fresh(d, R)!Get(Key(q)) = q /\ Get(Key(q)) = q
  BY SameRecords
<1>2. /\ Fresh(d, R)!Entries(OrderRef(q.order), "PAYMENT")
          = Entries(OrderRef(q.order), "PAYMENT")
  BY SameEntries
<1> QED BY <1>1, <1>2, SameTools DEF Fresh!Orphan, Orphan, Fresh!Unrecorded, Unrecorded

\* A batch whose reference is whole gets the answer it gets from a fresh store.
LEMMA SameBatch ==
  ASSUME FromFiles, IsFiniteSet(ledger), NEW d \in Dirs, NEW b \in RecordsOf(d),
         [kind |-> "REF", id |-> b.ref] \in FiledUnder(b),
         Whole(d, [kind |-> "REF", id |-> b.ref])
  PROVE  Fresh(d, rules)!BatchAnswer(b) = BatchAnswer(b)
<1> DEFINE R == rules
           c == [kind |-> "REF", id |-> b.ref]
<1>1. /\ Fresh(d, R)!Entries(c, "BANK") = Entries(c, "BANK")
      /\ Entries(c, "BANK") # <<>> =>
           Fresh(d, R)!Get(Entries(c, "BANK")[1]) = Get(Entries(c, "BANK")[1])
  <2>1. c \in FiledUnder(b) /\ Whole(d, c)
    OBVIOUS
  <2> HIDE DEF c
  <2>2. Fresh(d, R)!Entries(c, "BANK") = Entries(c, "BANK")
    BY <2>1, SameEntries
  <2>3. Entries(c, "BANK") # <<>> => Entries(c, "BANK")[1] \in Under(c, "BANK")
    BY StoreOfFiles, FirstEntry
  <2> QED BY <2>1, <2>2, <2>3, SameGets
<1>2. /\ Fresh(d, R)!Key(b) = Key(b)
      /\ Fresh(d, R)!PrimaryKeys(Entries(c, "BANK")) = PrimaryKeys(Entries(c, "BANK"))
      /\ \A x, y : Fresh(d, R)!Gap(x, y) = Gap(x, y)
      /\ \A t, x, y, l, f : Fresh(d, R)!Exception(t, x, y, l, f) = Exception(t, x, y, l, f)
      /\ Fresh(d, R)!Key(Get(Entries(c, "BANK")[1])) = Key(Get(Entries(c, "BANK")[1]))
  BY SameTools
<1>3. CASE Entries(c, "BANK") = <<>>
  BY <1>1, <1>2, <1>3 DEF Fresh!BatchAnswer, BatchAnswer
<1>4. CASE Entries(c, "BANK") # <<>>
  BY <1>1, <1>2, <1>4 DEF Fresh!BatchAnswer, BatchAnswer
<1> QED BY <1>3, <1>4

\* Each record is filed under one case, by its kind.
LEMMA FiledOnce ==
  ASSUME NEW r, r.kind \in {"PAYMENT", "INVOICE", "REFUND", "PROCESSOR", "BATCH", "BANK"}
  PROVE  FiledUnder(r) = IF r.kind \in {"BATCH", "BANK"}
                         THEN {[kind |-> "REF", id |-> r.ref]} ELSE {OrderRef(r.order)}
<1>1. CASE r.kind \in {"BATCH", "BANK"}
  <2>1. IndexEntries(r) = {[by |-> [kind |-> "REF", id |-> r.ref], to |-> Key(r)]}
    BY <1>1 DEF IndexEntries
  <2> QED BY <1>1, <2>1 DEF FiledUnder
<1>2. CASE r.kind \notin {"BATCH", "BANK"}
  <2>1. IndexEntries(r) = {[by |-> OrderRef(r.order), to |-> Key(r)]}
    BY <1>2 DEF IndexEntries
  <2> QED BY <1>2, <2>1 DEF FiledUnder
<1> QED BY <1>1, <1>2

(* On a record whose case is whole, a store says what a fresh one says: the *)
(* rest of the store, other directories and incomplete orders, is not asked. *)
LEMMA WholeVerdict ==
  ASSUME FromFiles, IsFiniteSet(ledger), NEW d \in Dirs, NEW r \in RecordsOf(d),
         \A c \in FiledUnder(r) : Whole(d, c),
         r.kind = "PAYMENT" => registry = RegistryOf(d)
  PROVE  VerdictOn(r) = FreshVerdictOn(d, rules, r)
<1>1. r.kind \in {"PAYMENT", "INVOICE", "REFUND", "PROCESSOR", "BATCH", "BANK"}
  BY KindsRead DEF RecordsOf
<1>2. CASE r.kind = "PAYMENT"
  <2>1. FiledUnder(r) = {OrderRef(r.order)}
    BY <1>1, <1>2, FiledOnce
  <2>2. Fresh(d, rules)!Answer(r, {}) = Answer(r, {})
    BY <1>2, <2>1, SameAnswer
  <2> QED BY <1>2, <2>2 DEF VerdictOn, FreshVerdictOn, OnPayment
<1>3. CASE r.kind = "PROCESSOR"
  <2>1. FiledUnder(r) = {OrderRef(r.order)}
    BY <1>1, <1>3, FiledOnce
  <2>2. r \in ledger
    BY <2>1 DEF Whole
  <2>3. /\ Fresh(d, rules)!Orphan(Key(r), {}) = Orphan(Key(r), {})
        /\ Fresh(d, rules)!Unrecorded(Key(r)) = Unrecorded(Key(r))
    BY <2>1, <2>2, SameOrphan
  <2> QED BY <1>3, <2>3 DEF VerdictOn, FreshVerdictOn, OnCharge
<1>4. CASE r.kind = "BATCH"
  <2>1. FiledUnder(r) = {[kind |-> "REF", id |-> r.ref]}
    BY <1>1, <1>4, FiledOnce
  <2>2. Fresh(d, rules)!BatchAnswer(r) = BatchAnswer(r)
    BY <2>1, SameBatch
  <2> QED BY <1>4, <2>2 DEF VerdictOn, FreshVerdictOn, OnBatch
<1>5. CASE r.kind \notin {"PAYMENT", "PROCESSOR", "BATCH"}
  BY <1>5 DEF VerdictOn, FreshVerdictOn
<1> QED BY <1>2, <1>3, <1>4, <1>5
-----------------------------------------------------------------------------
(* What a run on the kept store can rely on when it reconciles: the store  *)
(* is one of the files, the payments read are in it, and the two programs  *)
(* use an engine that does not pass for a ledger of bank entries.          *)
Ready ==
  /\ FromFiles /\ IsFiniteSet(ledger)
  /\ rules.topology # "BANK_GL"
  /\ run.dir \in Dirs /\ run.limit \in Nat
  /\ \A p \in Paid : p \in ledger /\ Indexed(p)

\* Every verdict is on the record it is given for.
LEMMA VerdictsAreOn ==
  \A r : \A v \in VerdictOn(r) : v.on = Key(r)
BY DEF VerdictOn, OnPayment, OnCharge, OnBatch, Saying

\* All there is to say something on is stored, a record for each key.
LEMMA SubjectsAreStored ==
  ASSUME Ready
  PROVE  /\ StoreInv /\ LedgerInv
         /\ \A r \in Subjects : r \in ledger /\ Get(Key(r)) = r
         /\ \A r, s \in Subjects : Key(r) = Key(s) => r = s
         /\ \A r \in Subjects : /\ r.kind \in {"PAYMENT", "PROCESSOR", "BATCH"}
                                /\ r.kind = "PAYMENT" => r \in Paid
         /\ \A p \in Paid : p.kind = "PAYMENT"
<1>1. StoreInv /\ LedgerInv
  BY StoreOfFiles DEF Ready
<1>2. \A r \in ledger : Get(Key(r)) = r
  BY StoreOfFiles DEF Ready
<1>3. \A p \in Paid : p.kind = "PAYMENT" /\ p \in ledger
  BY PaymentsRead DEF Ready, Paid
<1>4. \A r \in Subjects : r \in ledger
  BY <1>3 DEF Subjects, Of
<1>5. ASSUME NEW r \in Subjects
      PROVE  r.kind \in {"PAYMENT", "PROCESSOR", "BATCH"} /\ (r.kind = "PAYMENT" => r \in Paid)
  <2>1. CASE r \in Paid
    BY <1>3, <2>1
  <2>2. CASE r \notin Paid
    <3>1. r \in Of("PROCESSOR") \cup Of("BATCH")
      BY <2>2 DEF Subjects
    <3>2. r.kind \in {"PROCESSOR", "BATCH"}
      BY <3>1 DEF Of
    <3> QED BY <3>2
  <2> QED BY <2>1, <2>2
<1>6. \A r, s \in Subjects : Key(r) = Key(s) => r = s
  BY <1>1, <1>4 DEF LedgerInv
<1> QED BY <1>1, <1>2, <1>3, <1>4, <1>5, <1>6

\* A payment's targets are the charges of its order.
LEMMA OwnAreCharges ==
  ASSUME Ready, NEW p \in Paid, NEW k \in Own(p)
  PROVE  /\ k \in Under(OrderRef(p.order), "PROCESSOR")
         /\ OrderRef(Get(k).order) = OrderRef(p.order)
<1>1. \A by : Under(by, "SETTLEMENT") = {}
  BY NoSettlements DEF Ready
<1>2. k \in Under(OrderRef(p.order), "PROCESSOR")
  BY <1>1 DEF Own
<1>3. PICK e \in index : e.by = OrderRef(p.order) /\ e.to = k /\ k.kind = "PROCESSOR"
  BY <1>2 DEF Under
<1>4. PICK s \in ledger : e \in IndexEntries(s)
  BY DEF Ready, FromFiles
<1>5. e = [by |-> e.by, to |-> Key(s)]
  BY <1>4, EntryLeadsHome
<1>6. k = Key(s)
  BY <1>3, <1>5
<1>7. s.kind = "PROCESSOR"
  BY <1>3, <1>6 DEF Key
<1>8. IndexEntries(s) = {[by |-> OrderRef(s.order), to |-> Key(s)]}
  BY <1>7 DEF IndexEntries
<1>9. OrderRef(s.order) = OrderRef(p.order)
  BY <1>3, <1>4, <1>8
<1>10. Get(k) = s
  BY <1>6, StoreOfFiles DEF Ready
<1> QED BY <1>2, <1>9, <1>10

\* A payment read is found under its order.
LEMMA PaidAreListed ==
  ASSUME Ready, NEW p \in Paid
  PROVE  Key(p) \in Under(OrderRef(p.order), "PAYMENT")
<1>1. p.kind = "PAYMENT"
  BY PaymentsRead DEF Ready, Paid
<1>2. [by |-> OrderRef(p.order), to |-> Key(p)] \in IndexEntries(p)
  BY <1>1 DEF IndexEntries
<1>3. [by |-> OrderRef(p.order), to |-> Key(p)] \in index
  BY <1>2 DEF Ready, Indexed
<1> QED BY <1>1, <1>3 DEF Under, Key

(* What the payments before have locked changes no answer: either it is    *)
(* none of the payment's charges, or the order has been paid twice.        *)
LEMMA OthersLockNothing ==
  ASSUME Ready, NEW p \in Paid, NEW taken,
         \A k \in taken : \E q \in Paid : q # p /\ k \in Own(q)
  PROVE  Answer(p, taken) = Answer(p, {})
<1>1. CASE Len(Entries(OrderRef(p.order), "PAYMENT")) > 1
  BY <1>1 DEF Answer, Ready
<1>2. CASE ~(Len(Entries(OrderRef(p.order), "PAYMENT")) > 1)
  <2>1. Own(p) \cap taken = {}
    <3> SUFFICES ASSUME NEW k \in Own(p), k \in taken PROVE FALSE
      OBVIOUS
    <3>1. PICK q \in Paid : q # p /\ k \in Own(q)
      OBVIOUS
    <3>2. OrderRef(p.order) = OrderRef(q.order)
      <4>1. OrderRef(Get(k).order) = OrderRef(p.order)
        BY OwnAreCharges
      <4>2. OrderRef(Get(k).order) = OrderRef(q.order)
        BY <3>1, OwnAreCharges
      <4> QED BY <4>1, <4>2
    <3>3. /\ Key(p) \in Under(OrderRef(p.order), "PAYMENT")
          /\ Key(q) \in Under(OrderRef(p.order), "PAYMENT")
      BY <3>2, PaidAreListed
    <3>4. StoreInv /\ LedgerInv /\ Key(p) # Key(q)
      BY <3>1, SubjectsAreStored DEF Subjects
    <3> QED BY <1>2, <3>3, <3>4, TwoEntries
  <2> QED BY <2>1, AnswerAsksForOwn
<1> QED BY <1>1, <1>2

\* Nor do locked charges count as unaccounted for without being locked.
LEMMA LockedAreNoOrphans ==
  ASSUME Ready, NEW taken, NEW k, \A j \in taken : \E p \in Paid : j \in Own(p)
  PROVE  Orphan(k, taken) <=> Orphan(k, {})
<1>1. CASE k \notin taken
  BY <1>1 DEF Orphan
<1>2. CASE k \in taken
  <2>1. PICK p \in Paid : k \in Own(p)
    BY <1>2
  <2>2. OrderRef(Get(k).order) = OrderRef(p.order)
    BY <2>1, OwnAreCharges
  <2>3. Under(OrderRef(Get(k).order), "PAYMENT") # {}
    BY <2>2, PaidAreListed
  <2>4. Entries(OrderRef(Get(k).order), "PAYMENT") # <<>>
    BY <2>3, SubjectsAreStored, NoEntries
  <2> QED BY <2>4 DEF Orphan
<1> QED BY <1>1, <1>2
-----------------------------------------------------------------------------
\* What has been said grows with the outcomes.
LEMMA MoreIsSaid ==
  ASSUME IsSequence(matches), IsSequence(exceptions), IsSequence(payouts),
         NEW a, NEW b, NEW c, IsSequence(a), IsSequence(b), IsSequence(c),
         matches' = matches \o a, exceptions' = exceptions \o b, payouts' = payouts \o c
  PROVE  /\ IsSequence(matches') /\ IsSequence(exceptions') /\ IsSequence(payouts')
         /\ Said' = Said \cup Verdicts([matches |-> a, exceptions |-> b, payouts |-> c])
<1>1. /\ IsSequence(matches') /\ ToSet(matches') = ToSet(matches) \cup ToSet(a)
      /\ IsSequence(exceptions') /\ ToSet(exceptions') = ToSet(exceptions) \cup ToSet(b)
      /\ IsSequence(payouts') /\ ToSet(payouts') = ToSet(payouts) \cup ToSet(c)
  BY ElementsOfConcat
<1>2. Said' = {[on |-> v.payment, is |-> v] :
                 v \in (ToSet(matches) \cup ToSet(a))
                         \cup (ToSet(exceptions) \cup ToSet(b))}
              \cup {[on |-> v.batch, is |-> v] : v \in ToSet(payouts) \cup ToSet(c)}
  BY <1>1 DEF Said, Verdicts
<1> QED BY <1>1, <1>2 DEF Said, Verdicts

\* The outcomes of one payment are what is said on it,
LEMMA AnswerSays ==
  ASSUME NEW p, p.kind = "PAYMENT"
  PROVE  Verdicts([matches |-> Answer(p, {}).match, exceptions |-> Answer(p, {}).exception,
                   payouts |-> <<>>]) = VerdictOn(p)
<1> DEFINE answer == Answer(p, {})
<1>1. \A t : \E m : Matched(p, t) = [match |-> <<m>>, exception |-> <<>>] /\ m.payment = Key(p)
  <2> SUFFICES ASSUME NEW t
               PROVE  \E m : /\ Matched(p, t) = [match |-> <<m>>, exception |-> <<>>]
                             /\ m.payment = Key(p)
    OBVIOUS
  <2> DEFINE given == p.partial = "true"
             it == [payment |-> Key(p), target |-> Key(t),
                    strategy |-> Strategy(p, t), partial |-> given]
  <2>1. Matched(p, t) = [match |-> <<it>>, exception |-> <<>>]
    BY Zenon DEF Matched
  <2> HIDE DEF given
  <2>2. it.payment = Key(p)
    OBVIOUS
  <2> QED BY <2>1, <2>2, Zenon
<1>2. \/ answer.match = <<>> /\ \E e : answer.exception = <<e>> /\ e.payment = Key(p)
      \/ answer.exception = <<>> /\ \E m : answer.match = <<m>> /\ m.payment = Key(p)
  <2>1. CASE answer.match = <<>> /\ \E e : answer.exception = <<e>> /\ e.payment = Key(p)
    BY <2>1
  <2>2. CASE answer = Matched(p, Get(First(Targets(p, {}))))
    <3>1. PICK m : /\ Matched(p, Get(First(Targets(p, {}))))
                        = [match |-> <<m>>, exception |-> <<>>]
                   /\ m.payment = Key(p)
      BY <1>1
    <3> HIDE DEF answer
    <3>2. answer.exception = <<>> /\ answer.match = <<m>>
      BY <2>2, <3>1
    <3> QED BY <3>1, <3>2
  <2> QED BY <2>1, <2>2, AnswerIsOne
<1>3. ToSet(<<>>) = {} /\ \A x : ToSet(<<x>>) = {x}
  BY DEF ToSet
<1>4. \A v \in ToSet(answer.match) \cup ToSet(answer.exception) : v.payment = Key(p)
  <2> HIDE DEF answer
  <2>1. CASE answer.match = <<>> /\ \E e : answer.exception = <<e>> /\ e.payment = Key(p)
    <3>1. PICK e : answer.exception = <<e>> /\ e.payment = Key(p)
      BY <2>1
    <3>2. ToSet(answer.match) = {} /\ ToSet(answer.exception) = {e}
      BY <1>3, <2>1, <3>1
    <3> QED BY <3>1, <3>2
  <2>2. CASE answer.exception = <<>> /\ \E m : answer.match = <<m>> /\ m.payment = Key(p)
    <3>1. PICK m : answer.match = <<m>> /\ m.payment = Key(p)
      BY <2>2
    <3>2. ToSet(answer.exception) = {} /\ ToSet(answer.match) = {m}
      BY <1>3, <2>2, <3>1
    <3> QED BY <3>1, <3>2
  <2> QED BY <1>2, <2>1, <2>2
<1>5. VerdictOn(p) = Saying(Key(p), ToSet(answer.match) \cup ToSet(answer.exception))
  BY DEF VerdictOn, OnPayment
<1> HIDE DEF answer
<1>6. Saying(Key(p), ToSet(answer.match) \cup ToSet(answer.exception))
        = {[on |-> v.payment, is |-> v] :
             v \in ToSet(answer.match) \cup ToSet(answer.exception)}
  BY <1>4 DEF Saying
<1>7. Verdicts([matches |-> answer.match, exceptions |-> answer.exception, payouts |-> <<>>])
        = {[on |-> v.payment, is |-> v] :
             v \in ToSet(answer.match) \cup ToSet(answer.exception)}
  BY <1>3 DEF Verdicts
<1> QED BY <1>5, <1>6, <1>7 DEF answer

\* those of one charge what is said on the charge,
LEMMA OrphanSays ==
  ASSUME NEW q, q.kind = "PROCESSOR"
  PROVE  LET found == When(Orphan(Key(q), {}), Unrecorded(Key(q)))
         IN  /\ IsSequence(found)
             /\ Verdicts([matches |-> <<>>, exceptions |-> found, payouts |-> <<>>])
                  = VerdictOn(q)
<1> DEFINE found == When(Orphan(Key(q), {}), Unrecorded(Key(q)))
<1>1. ToSet(<<>>) = {} /\ \A x : ToSet(<<x>>) = {x}
  BY DEF ToSet
<1>2. Unrecorded(Key(q)).payment = Key(q)
  BY DEF Unrecorded, Exception
<1>3. \A v \in ToSet(found) : v.payment = Key(q)
  BY <1>1, <1>2 DEF When
<1>4. VerdictOn(q) = Saying(Key(q), ToSet(found))
  BY DEF VerdictOn, OnCharge
<1>5. IsSequence(found)
  BY FindingsAreSequences
<1> HIDE DEF found
<1>6. Saying(Key(q), ToSet(found)) = {[on |-> v.payment, is |-> v] : v \in ToSet(found)}
  BY <1>3 DEF Saying
<1>7. Verdicts([matches |-> <<>>, exceptions |-> found, payouts |-> <<>>])
        = {[on |-> v.payment, is |-> v] : v \in ToSet(found)}
  BY <1>1 DEF Verdicts
<1> QED BY <1>4, <1>5, <1>6, <1>7 DEF found

\* and those of one batch what is said on the batch.
LEMMA BatchSays ==
  ASSUME NEW b, b.kind = "BATCH"
  PROVE  /\ IsSequence(BatchAnswer(b).payout) /\ IsSequence(BatchAnswer(b).exception)
         /\ Verdicts([matches |-> <<>>, exceptions |-> BatchAnswer(b).exception,
                      payouts |-> BatchAnswer(b).payout]) = VerdictOn(b)
<1> DEFINE answer == BatchAnswer(b)
<1>1. ToSet(<<>>) = {} /\ \A x : ToSet(<<x>>) = {x}
  BY DEF ToSet
<1>2. \A type, related, c :
        [Exception(type, Key(b), Key(b), related, <<>>) EXCEPT !.created = c].payment
          = Key(b)
  BY DEF Exception
<1>3. \/ answer.payout = <<>> /\ \E e : answer.exception = <<e>> /\ e.payment = Key(b)
      \/ answer.exception = <<>> /\ \E m : answer.payout = <<m>> /\ m.batch = Key(b)
  <2> DEFINE lines == Entries([kind |-> "REF", id |-> b.ref], "BANK")
             line == Get(lines[1])
             Failure(type, related) ==
               [Exception(type, Key(b), Key(b), related, <<>>)
                  EXCEPT !.created = type # "CURRENCY_MISMATCH"]
             Fails(type, related) ==
               [payout |-> <<>>, exception |-> <<Failure(type, related)>>]
             payout == [batch |-> Key(b), line |-> Key(line)]
  <2>1. \/ \E type, related : answer = Fails(type, related)
        \/ answer = [payout |-> <<payout>>, exception |-> <<>>]
    BY DEF BatchAnswer
  <2>2. payout.batch = Key(b)
    OBVIOUS
  <2>3. \A type, related : Failure(type, related).payment = Key(b)
    BY <1>2
  <2> HIDE DEF answer, Failure, payout
  <2>4. CASE \E type, related : answer = Fails(type, related)
    BY <2>3, <2>4
  <2>5. CASE answer = [payout |-> <<payout>>, exception |-> <<>>]
    BY <2>2, <2>5
  <2> QED BY <2>1, <2>4, <2>5
<1>4. VerdictOn(b) = Saying(Key(b), ToSet(answer.payout) \cup ToSet(answer.exception))
  BY DEF VerdictOn, OnBatch
<1>5. IsSequence(answer.payout) /\ IsSequence(answer.exception)
  BY <1>3, FindingsAreSequences
<1> HIDE DEF answer
<1>6. /\ \A v \in ToSet(answer.exception) : v.payment = Key(b)
      /\ \A v \in ToSet(answer.payout) : v.batch = Key(b)
  BY <1>1, <1>3
<1>7. Verdicts([matches |-> <<>>, exceptions |-> answer.exception, payouts |-> answer.payout])
        = {[on |-> v.payment, is |-> v] : v \in ToSet(answer.exception)}
          \cup {[on |-> v.batch, is |-> v] : v \in ToSet(answer.payout)}
  BY <1>1 DEF Verdicts
<1>8. Saying(Key(b), ToSet(answer.payout) \cup ToSet(answer.exception))
        = {[on |-> v.payment, is |-> v] : v \in ToSet(answer.exception)}
          \cup {[on |-> v.batch, is |-> v] : v \in ToSet(answer.payout)}
  BY <1>6 DEF Saying
<1> QED BY <1>4, <1>5, <1>7, <1>8 DEF answer

\* While the store, the registry and the run stay, so does all it has to say.
LEMMA SameSubjects ==
  ASSUME UNCHANGED <<ledger, index, registry, rules, run>>
  PROVE  /\ Paid' = Paid /\ Subjects' = Subjects /\ Says' = Says
         /\ \A r : VerdictOn(r)' = VerdictOn(r)
         /\ \A p : Own(p)' = Own(p)
         /\ \A kind : Scan(kind)' = Scan(kind)
<1>0. UNCHANGED inputs
  BY DEF inputs
<1>1. Paid' = Paid
  BY DEF Paid
<1>2. /\ \A kind : Of(kind)' = Of(kind)
      /\ \A p, taken : Answer(p, taken)' = Answer(p, taken)
      /\ \A k, taken : Orphan(k, taken)' = Orphan(k, taken)
      /\ \A k : Unrecorded(k)' = Unrecorded(k)
      /\ \A b : BatchAnswer(b)' = BatchAnswer(b)
      /\ \A by, kind : Under(by, kind)' = Under(by, kind)
  BY <1>0, SameAnswers
<1>3. Subjects' = Subjects
  BY <1>1, <1>2 DEF Subjects
<1>4. \A r : VerdictOn(r)' = VerdictOn(r)
  BY <1>2 DEF VerdictOn, OnPayment, OnCharge, OnBatch
<1>5. Says' = Says
  BY <1>3, <1>4 DEF Says
<1>6. \A p : Own(p)' = Own(p)
  BY <1>2 DEF Own
<1>7. \A kind : Scan(kind)' = Scan(kind)
  BY <1>2 DEF Scan
<1> QED BY <1>1, <1>3, <1>4, <1>5, <1>6, <1>7
-----------------------------------------------------------------------------
\* What is at the head of the queue is the turn of one record.
LEMMA HeadSubject ==
  ASSUME Ready, SoFar, queue # <<>>
  PROVE  \E r \in Subjects : /\ r.kind = Walked[stage] /\ Key(r) = Head(queue)
                             /\ Get(Head(queue)) = r
<1>1. Head(queue) \in ToSet(queue)
  BY HeadOrTail DEF SoFar
<1>2. PICK r \in Subjects : r.kind = Walked[stage] /\ Key(r) = Head(queue)
  BY <1>1 DEF SoFar
<1>3. Get(Key(r)) = r
  BY SubjectsAreStored
<1> QED BY <1>2, <1>3

\* Its turn taken and its verdict given, the engine is one record further.
LEMMA TurnTaken ==
  ASSUME Ready, SoFar, queue # <<>>, NEW r \in Subjects, Key(r) = Head(queue),
         UNCHANGED <<ledger, index, registry, rules, run, stage, listed>>,
         queue' = Tail(queue),
         IsSequence(matches'), IsSequence(exceptions'), IsSequence(payouts'),
         Said' = Said \cup VerdictOn(r),
         \A k \in consumed' : \E p \in Paid : Key(p) \notin ToSet(queue') /\ k \in Own(p)
  PROVE  SoFar'
<1>1. /\ Paid' = Paid /\ Subjects' = Subjects /\ Says' = Says
      /\ \A s : VerdictOn(s)' = VerdictOn(s)
      /\ \A p : Own(p)' = Own(p)
  BY SameSubjects
<1>2. IsSequence(queue') /\ ToSet(queue) = {Head(queue)} \cup ToSet(queue')
  BY HeadOrTail DEF SoFar
<1>3. stage' = "orders" => Once(queue')
  BY OnceTail DEF SoFar
<1>4. Said' \subseteq Says
  BY DEF Says, SoFar
<1>5. ASSUME NEW s \in Subjects, s.kind \notin Ahead[stage], Key(s) \notin ToSet(queue')
      PROVE  VerdictOn(s) \subseteq Said'
  <2>1. CASE Key(s) = Head(queue)
    <3>1. s = r
      BY <2>1, SubjectsAreStored
    <3> QED BY <3>1
  <2>2. CASE Key(s) # Head(queue)
    <3>1. Key(s) \notin ToSet(queue)
      BY <1>2, <1>5, <2>2
    <3> QED BY <1>5, <3>1 DEF SoFar
  <2> QED BY <2>1, <2>2
<1>6. /\ stage' \in DOMAIN Walked
      /\ ToSet(listed') = {Key(p) : p \in Paid'}
      /\ ToSet(queue') \subseteq {Key(s) : s \in {t \in Subjects' : t.kind = Walked[stage']}}
  BY <1>1, <1>2 DEF SoFar
<1>7. \A k \in consumed' : \E p \in Paid' : Key(p) \notin ToSet(queue') /\ k \in Own(p)'
  BY <1>1
<1>8. /\ Said' \subseteq Says'
      /\ \A s \in Subjects' :
           (s.kind \notin Ahead[stage'] /\ Key(s) \notin ToSet(queue'))
             => VerdictOn(s)' \subseteq Said'
  BY <1>1, <1>4, <1>5
<1> QED BY <1>2, <1>3, <1>6, <1>7, <1>8 DEF SoFar

\* reconcile_order is called for a payment read.
LEMMA NextOrderSays ==
  ASSUME Ready, SoFar, NextOrder, run' = run
  PROVE  SoFar'
<1>1. /\ stage = "orders" /\ queue # <<>> /\ ReconcileOrder(Get(Head(queue)))
      /\ queue' = Tail(queue) /\ UNCHANGED <<stage, listed>>
  BY DEF NextOrder
<1>2. PICK p \in Subjects : /\ p.kind = Walked[stage] /\ Key(p) = Head(queue)
                            /\ Get(Head(queue)) = p
  BY <1>1, HeadSubject
<1>3. p.kind = "PAYMENT" /\ p \in Paid
  BY <1>1, <1>2, SubjectsAreStored DEF Walked
<1>4. /\ IsSequence(queue) /\ IsSequence(matches) /\ IsSequence(exceptions)
      /\ IsSequence(payouts) /\ Once(queue)
      /\ \A k \in consumed : \E q \in Paid : Key(q) \notin ToSet(queue) /\ k \in Own(q)
  BY <1>1 DEF SoFar
<1>5. /\ Head(queue) \in ToSet(queue) /\ ToSet(Tail(queue)) \subseteq ToSet(queue)
      /\ Head(queue) \notin ToSet(Tail(queue))
  BY <1>1, <1>4, HeadOrTail, OnceTail
<1>6. Answer(p, consumed) = Answer(p, {})
  <2>1. \A k \in consumed : \E q \in Paid : q # p /\ k \in Own(q)
    BY <1>2, <1>4, <1>5
  <2> QED BY <1>3, <2>1, OthersLockNothing
<1>7. /\ consumed' = Consume(Answer(p, consumed))
      /\ matches' = matches \o Answer(p, {}).match
      /\ exceptions' = exceptions \o Answer(p, {}).exception
      /\ payouts' = payouts \o <<>>
      /\ UNCHANGED <<ledger, index, registry, rules>>
  <2>1. payouts \o <<>> = payouts
    BY <1>4 DEF IsSequence
  <2> QED BY <1>1, <1>2, <1>6, <2>1 DEF ReconcileOrder, stored
<1>8. /\ IsSequence(matches') /\ IsSequence(exceptions') /\ IsSequence(payouts')
      /\ Said' = Said \cup VerdictOn(p)
  <2> DEFINE a == Answer(p, {}).match
             b == Answer(p, {}).exception
  <2>1. IsSequence(a) /\ IsSequence(b) /\ IsSequence(<<>>)
    BY AnswerIsShort, FindingsAreSequences
  <2>2. Verdicts([matches |-> a, exceptions |-> b, payouts |-> <<>>]) = VerdictOn(p)
    BY <1>3, AnswerSays
  <2>3. /\ matches' = matches \o a /\ exceptions' = exceptions \o b
        /\ payouts' = payouts \o <<>>
    BY <1>7
  <2> HIDE DEF a, b
  <2> QED BY <1>4, <2>1, <2>2, <2>3, MoreIsSaid
<1>9. ASSUME NEW k \in consumed'
      PROVE  \E q \in Paid : Key(q) \notin ToSet(queue') /\ k \in Own(q)
  <2>1. CASE k \in consumed
    BY <1>1, <1>4, <1>5, <2>1
  <2>2. CASE k \notin consumed
    <3>1. k \in {m.target : m \in ToSet(Answer(p, consumed).match)}
      BY <1>7, <1>9, <2>2 DEF Consume
    <3>2. /\ k = Key(Get(First(Targets(p, consumed))))
          /\ Answer(p, consumed).match # <<>>
      BY <3>1, AnswerConsumes
    <3>3. Targets(p, consumed) # {}
      BY <3>2, AnswerIsOne
    <3>4. k \in Targets(p, consumed)
      BY <3>2, <3>3, SubjectsAreStored, TargetIsFree
    <3>5. k \in Own(p)
      BY <3>4 DEF Targets, Available, AvailableSettlements, Free, Own
    <3> QED BY <1>1, <1>2, <1>3, <1>5, <3>5
  <2> QED BY <2>1, <2>2
<1> QED BY <1>1, <1>2, <1>7, <1>8, <1>9, TurnTaken

\* A charge left over is looked at.
LEMMA NextProcessorSays ==
  ASSUME Ready, SoFar, NextProcessor, run' = run
  PROVE  SoFar'
<1> DEFINE found == When(Orphan(Head(queue), {}), Unrecorded(Head(queue)))
<1>1. /\ stage = "processors" /\ queue # <<>> /\ queue' = Tail(queue)
      /\ exceptions' = exceptions \o When(Orphan(Head(queue), consumed),
                                          Unrecorded(Head(queue)))
      /\ UNCHANGED <<ledger, index, registry, rules, stage, listed, consumed,
                     matches, payouts>>
  BY DEF NextProcessor, stored
<1>2. PICK q \in Subjects : q.kind = Walked[stage] /\ Key(q) = Head(queue)
  BY <1>1, HeadSubject
<1>3. q.kind = "PROCESSOR"
  BY <1>1, <1>2 DEF Walked
<1>4. /\ IsSequence(queue) /\ IsSequence(matches) /\ IsSequence(exceptions)
      /\ IsSequence(payouts)
      /\ \A k \in consumed : \E p \in Paid : Key(p) \notin ToSet(queue) /\ k \in Own(p)
  BY DEF SoFar
<1>5. ToSet(Tail(queue)) \subseteq ToSet(queue)
  BY <1>1, <1>4, HeadOrTail
<1>6. When(Orphan(Head(queue), consumed), Unrecorded(Head(queue))) = found
  <2>1. Orphan(Head(queue), consumed) <=> Orphan(Head(queue), {})
    BY <1>4, LockedAreNoOrphans
  <2> QED BY <2>1 DEF When
<1>7. /\ IsSequence(found) /\ IsSequence(<<>>)
      /\ Verdicts([matches |-> <<>>, exceptions |-> found, payouts |-> <<>>]) = VerdictOn(q)
  BY <1>2, <1>3, OrphanSays, FindingsAreSequences
<1>8. /\ exceptions' = exceptions \o found
      /\ matches' = matches \o <<>> /\ payouts' = payouts \o <<>>
  <2>1. matches \o <<>> = matches /\ payouts \o <<>> = payouts
    BY <1>4 DEF IsSequence
  <2> QED BY <1>1, <1>6, <2>1
<1> HIDE DEF found
<1>9. /\ IsSequence(matches') /\ IsSequence(exceptions') /\ IsSequence(payouts')
      /\ Said' = Said \cup VerdictOn(q)
  BY <1>4, <1>7, <1>8, MoreIsSaid
<1>10. \A k \in consumed' : \E p \in Paid : Key(p) \notin ToSet(queue') /\ k \in Own(p)
  BY <1>1, <1>4, <1>5
<1> QED BY <1>1, <1>2, <1>9, <1>10, TurnTaken

\* A batch is compared with the bank.
LEMMA NextBatchSays ==
  ASSUME Ready, SoFar, NextBatch, run' = run
  PROVE  SoFar'
<1>1. /\ stage = "batches" /\ queue # <<>> /\ queue' = Tail(queue)
      /\ exceptions' = exceptions \o BatchAnswer(Get(Head(queue))).exception
      /\ payouts' = payouts \o BatchAnswer(Get(Head(queue))).payout
      /\ UNCHANGED <<ledger, index, registry, rules, stage, listed, consumed, matches>>
  BY DEF NextBatch, stored
<1>2. PICK b \in Subjects : /\ b.kind = Walked[stage] /\ Key(b) = Head(queue)
                            /\ Get(Head(queue)) = b
  BY <1>1, HeadSubject
<1>3. b.kind = "BATCH"
  BY <1>1, <1>2 DEF Walked
<1>4. /\ IsSequence(queue) /\ IsSequence(matches) /\ IsSequence(exceptions)
      /\ IsSequence(payouts)
      /\ \A k \in consumed : \E p \in Paid : Key(p) \notin ToSet(queue) /\ k \in Own(p)
  BY DEF SoFar
<1>5. ToSet(Tail(queue)) \subseteq ToSet(queue)
  BY <1>1, <1>4, HeadOrTail
<1>6. /\ IsSequence(BatchAnswer(b).payout) /\ IsSequence(BatchAnswer(b).exception)
      /\ IsSequence(<<>>)
      /\ Verdicts([matches |-> <<>>, exceptions |-> BatchAnswer(b).exception,
                   payouts |-> BatchAnswer(b).payout]) = VerdictOn(b)
  BY <1>3, BatchSays, FindingsAreSequences
<1>7. matches' = matches \o <<>>
  <2>1. matches \o <<>> = matches
    BY <1>4 DEF IsSequence
  <2> QED BY <1>1, <2>1
<1>8. /\ IsSequence(matches') /\ IsSequence(exceptions') /\ IsSequence(payouts')
      /\ Said' = Said \cup VerdictOn(b)
  <2> DEFINE c == BatchAnswer(b).payout
             e == BatchAnswer(b).exception
  <2>1. /\ IsSequence(c) /\ IsSequence(e) /\ IsSequence(<<>>)
        /\ Verdicts([matches |-> <<>>, exceptions |-> e, payouts |-> c]) = VerdictOn(b)
    BY <1>6
  <2>2. /\ matches' = matches \o <<>> /\ exceptions' = exceptions \o e
        /\ payouts' = payouts \o c
    BY <1>1, <1>2, <1>7
  <2> HIDE DEF c, e
  <2> QED BY <1>4, <2>1, <2>2, MoreIsSaid
<1>9. \A k \in consumed' : \E p \in Paid : Key(p) \notin ToSet(queue') /\ k \in Own(p)
  BY <1>1, <1>4, <1>5
<1> QED BY <1>1, <1>2, <1>8, <1>9, TurnTaken

\* One stage is over: the next walks what a scan lists of its kind.
LEMMA StageDone ==
  ASSUME Ready, SoFar, queue = <<>>, NEW next \in {"processors", "batches"},
         stage' = next, Ahead[stage] = {Walked[next]} \cup Ahead[next],
         queue' = Scan(Walked[next]),
         UNCHANGED <<ledger, index, registry, rules, run, listed, consumed, matches,
                     exceptions, payouts>>
  PROVE  SoFar'
<1>1. /\ Paid' = Paid /\ Subjects' = Subjects /\ Says' = Says
      /\ \A s : VerdictOn(s)' = VerdictOn(s)
      /\ \A p : Own(p)' = Own(p)
  BY SameSubjects
<1>2. Walked[next] \in {"PROCESSOR", "BATCH"}
  BY DEF Walked
<1>3. /\ IsSequence(queue')
      /\ ToSet(queue') = {Key(s) : s \in {t \in Subjects : t.kind = Walked[next]}}
  <2>1. IsSequence(queue') /\ ToSet(queue') = {Key(s) : s \in Of(Walked[next])}
    BY SubjectsAreStored, ScanEnumerates DEF KeysOf
  <2>2. \A p \in Paid : p.kind = "PAYMENT"
    BY SubjectsAreStored
  <2>3. Of(Walked[next]) = {t \in Subjects : t.kind = Walked[next]}
    BY <1>2, <2>2 DEF Subjects, Of
  <2> QED BY <2>1, <2>3
<1>4. Said' = Said
  BY DEF Said
<1>5. ASSUME NEW s \in Subjects, s.kind \notin Ahead[next], Key(s) \notin ToSet(queue')
      PROVE  VerdictOn(s) \subseteq Said
  <2>1. s.kind # Walked[next]
    BY <1>3, <1>5
  <2>2. s.kind \notin Ahead[stage] /\ Key(s) \notin ToSet(queue)
    BY <1>5, <2>1 DEF ToSet
  <2> QED BY <2>2 DEF SoFar
<1>6. \A k \in consumed : \E p \in Paid : Key(p) \notin ToSet(queue') /\ k \in Own(p)
  <2> SUFFICES ASSUME NEW k \in consumed
               PROVE  \E p \in Paid : Key(p) \notin ToSet(queue') /\ k \in Own(p)
    OBVIOUS
  <2>1. PICK p \in Paid : k \in Own(p)
    BY DEF SoFar
  <2>2. Key(p).kind = "PAYMENT"
    BY SubjectsAreStored DEF Key
  <2>3. \A s \in {t \in Subjects : t.kind = Walked[next]} : Key(s).kind # "PAYMENT"
    BY <1>2 DEF Key
  <2>4. Key(p) \notin ToSet(queue')
    BY <1>3, <2>2, <2>3
  <2> QED BY <2>1, <2>4
<1>7. /\ stage' \in DOMAIN Walked /\ stage' # "orders"
      /\ IsSequence(matches') /\ IsSequence(exceptions') /\ IsSequence(payouts')
      /\ ToSet(listed') = {Key(p) : p \in Paid'}
      /\ ToSet(queue') \subseteq {Key(s) : s \in {t \in Subjects' : t.kind = Walked[stage']}}
  BY <1>1, <1>3 DEF SoFar, Walked
<1>8. \A k \in consumed' : \E p \in Paid' : Key(p) \notin ToSet(queue') /\ k \in Own(p)'
  BY <1>1, <1>6
<1>9. /\ Said' \subseteq Says'
      /\ \A s \in Subjects' :
           (s.kind \notin Ahead[stage'] /\ Key(s) \notin ToSet(queue'))
             => VerdictOn(s)' \subseteq Said'
  BY <1>1, <1>4, <1>5 DEF SoFar
<1> QED BY <1>3, <1>7, <1>8, <1>9 DEF SoFar

\* A step of reconcile_all is a turn taken or a stage done.
LEMMA MatchStepSays ==
  ASSUME Ready, SoFar, MatchStep
  PROVE  SoFar'
<1>1. run' = run
  BY DEF MatchStep, programVars
<1>2. CASE NextOrder
  BY <1>1, <1>2, NextOrderSays
<1>3. CASE OrdersDone
  <2>1. Ahead["orders"] = {Walked["processors"]} \cup Ahead["processors"]
    BY DEF Ahead, Walked
  <2>2. Walked["processors"] = "PROCESSOR"
    BY DEF Walked
  <2> QED BY <1>1, <1>3, <2>1, <2>2, StageDone DEF OrdersDone, stored
<1>4. CASE NextProcessor
  BY <1>1, <1>4, NextProcessorSays
<1>5. CASE ProcessorsDone
  <2>1. Ahead["processors"] = {Walked["batches"]} \cup Ahead["batches"]
    BY DEF Ahead, Walked
  <2>2. Walked["batches"] = "BATCH"
    BY DEF Walked
  <2> QED BY <1>1, <1>5, <2>1, <2>2, StageDone DEF ProcessorsDone, stored
<1>6. CASE NextBatch
  BY <1>1, <1>6, NextBatchSays
<1> QED BY <1>2, <1>3, <1>4, <1>5, <1>6 DEF MatchStep

\* The engine is given the payments read, and has said nothing.
LEMMA ReconcileSays ==
  ASSUME Ready, Reconcile
  PROVE  SoFar'
<1> DEFINE payments == Listing(run.dir, run.limit)
           list == [i \in DOMAIN payments |-> Key(payments[i])]
<1>1. /\ stage' = "orders" /\ queue' = list /\ listed' = list
      /\ consumed' = {} /\ matches' = <<>> /\ exceptions' = <<>> /\ payouts' = <<>>
      /\ UNCHANGED <<ledger, index, registry, rules, run>>
  BY DEF Reconcile, Begin, stored
<1>2. /\ Paid' = Paid /\ Subjects' = Subjects /\ Says' = Says
  BY <1>1, SameSubjects
<1>3. IsSequence(payments) /\ IsInjective(payments)
  BY PaymentsRead DEF Ready
<1>4. Paid = ToSet(payments)
  BY DEF Paid
<1> HIDE DEF payments
<1>5. ToSet(list) = {Key(p) : p \in Paid}
  BY <1>4 DEF ToSet
<1>6. IsSequence(list)
  <2>1. DOMAIN payments = 1 .. Len(payments) /\ Len(payments) \in Nat
    BY <1>3 DEF IsSequence
  <2>2. \A i \in 1 .. Len(payments) : list[i] \in ToSet(list)
    BY <2>1 DEF ToSet
  <2>3. list \in [1 .. Len(payments) -> ToSet(list)]
    BY <2>1, <2>2
  <2>4. list \in Seq(ToSet(list))
    BY <2>1, <2>3, SeqDef
  <2> QED BY <2>4 DEF IsSequence
<1>7. Once(list)
  <2>1. \A i, j \in DOMAIN payments : Key(payments[i]) = Key(payments[j])
          => payments[i] = payments[j]
    <3>1. \A i \in DOMAIN payments : payments[i] \in Subjects
      BY <1>4 DEF ToSet, Subjects
    <3> QED BY <3>1, SubjectsAreStored
  <2> QED BY <1>3, <2>1 DEF Once, IsInjective
<1> HIDE DEF list
<1>8. Said' = {}
  BY <1>1 DEF Said, Verdicts, ToSet
<1>9. ToSet(queue') \subseteq {Key(s) : s \in {t \in Subjects : t.kind = "PAYMENT"}}
  <2>1. \A p \in Paid : p \in Subjects /\ p.kind = "PAYMENT"
    BY SubjectsAreStored DEF Subjects
  <2> QED BY <1>1, <1>5, <2>1
<1>10. ASSUME NEW s \in Subjects, s.kind \notin {"PROCESSOR", "BATCH"}
       PROVE  Key(s) \in ToSet(queue')
  <2>1. s \in Paid
    BY <1>10, SubjectsAreStored
  <2> QED BY <1>1, <1>5, <2>1
<1>11. IsSequence(<<>>)
  BY FindingsAreSequences
<1>12. /\ stage' \in DOMAIN Walked /\ Walked[stage'] = "PAYMENT"
       /\ Ahead[stage'] = {"PROCESSOR", "BATCH"}
  BY <1>1 DEF Walked, Ahead
<1> QED
  BY <1>1, <1>2, <1>5, <1>6, <1>7, <1>8, <1>9, <1>10, <1>11, <1>12 DEF SoFar
-----------------------------------------------------------------------------
\* The store and the phases in order; and what no engine of the programs is given.
Orderly == LInv /\ ReconTypeOK /\ AtRest /\ StoreIsFinite

NoBankLedgers == \A r \in RuleSets : r.topology # "BANK_GL"

\* Once all is loaded, a run is ready to reconcile.
LEMMA ReadyOnceLoaded ==
  ASSUME NoBankLedgers, Orderly, phase # "ready", toLoad = <<>>
  PROVE  /\ Ready
         /\ \A r \in ToSet(LoadOrder(run.dir, run.limit)) : r \in ledger /\ Indexed(r)
<1>1. /\ run.dir \in Dirs /\ run.limit \in Nat
      /\ \A r \in ToSet(LoadOrder(run.dir, run.limit)) \ ToSet(toLoad) :
           r \in ledger /\ Indexed(r)
  BY DEF Orderly, LInv, Loading, LoadedRecordsAreFound
<1>2. ToSet(toLoad) = {}
  BY DEF ToSet
<1>3. \A r \in ToSet(LoadOrder(run.dir, run.limit)) : r \in ledger /\ Indexed(r)
  BY <1>1, <1>2
<1>4. \A p \in Paid : p \in ledger /\ Indexed(p)
  BY <1>1, <1>3, PaymentsRead DEF Paid
<1>5. FromFiles /\ IsFiniteSet(ledger) /\ rules.topology # "BANK_GL"
  BY DEF Orderly, ReconTypeOK, FromFiles, StoreIsFinite, NoBankLedgers
<1> QED BY <1>1, <1>3, <1>4, <1>5 DEF Ready

\* put_record stores one record more.
LEMMA StepKeepsFinite ==
  ASSUME StoreIsFinite, [ReconNext]_reconVars
  PROVE  StoreIsFinite'
<1>1. ASSUME UNCHANGED <<ledger, rules>> PROVE StoreIsFinite'
  BY <1>1 DEF StoreIsFinite
<1>2. ASSUME NEW r, ledger' = {s \in ledger : Key(s) # Key(r)} \cup {r}, rules' = rules
      PROVE  StoreIsFinite'
  <2>1. IsFiniteSet({s \in ledger : Key(s) # Key(r)})
    BY FS_Subset DEF StoreIsFinite
  <2>2. IsFiniteSet({s \in ledger : Key(s) # Key(r)} \cup {r})
    BY <2>1, FS_AddElement
  <2> QED BY <1>2, <2>2 DEF StoreIsFinite
<1>3. ASSUME NEW dir \in Dirs, RunDefault(dir) PROVE StoreIsFinite'
  BY <1>1, <1>3 DEF RunDefault, Start
<1>4. ASSUME NEW dir \in Dirs, NEW limit \in Limits, RunMain(dir, limit)
      PROVE  StoreIsFinite'
  BY <1>1, <1>4 DEF RunMain, Start
<1>5. CASE LoadRecord
  BY <1>2, <1>5 DEF LoadRecord, PutRecord
<1>6. CASE RegisterContracts
  BY <1>1, <1>6 DEF RegisterContracts
<1>7. CASE Reconcile
  BY <1>1, <1>7 DEF Reconcile, Begin, stored
<1>8. CASE MatchStep
  BY <1>1, <1>8 DEF MatchStep, NextOrder, ReconcileOrder, OrdersDone,
     NextProcessor, ProcessorsDone, NextBatch, stored
<1>9. CASE Report
  BY <1>1, <1>9 DEF Report, Finish, stored
<1>10. CASE DeleteStore
  <2>1. ledger' = {} /\ rules' = rules
    BY <1>10 DEF DeleteStore
  <2> QED BY <2>1, FS_EmptySet DEF StoreIsFinite
<1>11. CASE Killed
  <2>1. rules' = rules
    BY <1>11 DEF Killed
  <2> QED BY <1>1, <1>2, <1>11, <2>1 DEF Killed, PutPrimaryOnly
<1>12. CASE UNCHANGED reconVars
  BY <1>1, <1>12 DEF reconVars, vars, stored
<1> QED BY <1>3, <1>4, <1>5, <1>6, <1>7, <1>8, <1>9, <1>10, <1>11, <1>12
        DEF ReconNext

\* What reconcile_all has said stays what it should have said.
LEMMA StepKeepsJudging ==
  ASSUME NoBankLedgers, Orderly, Judging, Judges, [ReconNext]_reconVars
  PROVE  Judging'
<1>1. ASSUME phase' # "match" PROVE Judging'
  BY <1>1 DEF Judging
<1>2. ASSUME NEW dir \in Dirs, RunDefault(dir) PROVE Judging'
  BY <1>1, <1>2 DEF RunDefault, Start
<1>3. ASSUME NEW dir \in Dirs, NEW limit \in Limits, RunMain(dir, limit)
      PROVE  Judging'
  BY <1>1, <1>3 DEF RunMain, Start
<1>4. CASE LoadRecord
  BY <1>1, <1>4 DEF LoadRecord
<1>5. CASE RegisterContracts
  BY <1>1, <1>5 DEF RegisterContracts
<1>6. CASE Reconcile
  <2>1. phase = "registered" /\ toLoad = <<>>
    BY <1>6 DEF Reconcile, Judges
  <2>2. Ready
    BY <2>1, ReadyOnceLoaded
  <2> QED BY <1>6, <2>2, ReconcileSays DEF Judging
<1>7. CASE MatchStep
  <2>1. phase = "match" /\ toLoad = <<>>
    BY <1>7 DEF MatchStep, Judges
  <2>2. Ready
    BY <2>1, ReadyOnceLoaded
  <2> QED BY <1>7, <2>1, <2>2, MatchStepSays DEF Judging
<1>8. CASE Report
  BY <1>1, <1>8 DEF Report
<1>9. CASE DeleteStore
  BY <1>1, <1>9 DEF DeleteStore
<1>10. CASE Killed
  BY <1>1, <1>10 DEF Killed
<1>11. CASE UNCHANGED reconVars
  <2>1. CASE phase = "match"
    <3>1. UNCHANGED <<ledger, index, registry, rules, run, phase, consumed, stage,
                      queue, listed, matches, exceptions, payouts>>
      BY <1>11 DEF reconVars, vars, stored, engine, programVars
    <3>2. /\ Paid' = Paid /\ Subjects' = Subjects /\ Says' = Says
          /\ \A r : VerdictOn(r)' = VerdictOn(r)
          /\ \A p : Own(p)' = Own(p)
      BY <3>1, SameSubjects
    <3>3. Said' = Said
      BY <3>1 DEF Said
    <3>4. SoFar
      BY <2>1 DEF Judging
    <3>5. SoFar'
      BY <3>1, <3>2, <3>3, <3>4 DEF SoFar
    <3> QED BY <3>5 DEF Judging
  <2>2. CASE phase # "match"
    BY <1>1, <1>11, <2>2 DEF reconVars, programVars
  <2> QED BY <2>1, <2>2
<1> QED BY <1>2, <1>3, <1>4, <1>5, <1>6, <1>7, <1>8, <1>9, <1>10, <1>11
        DEF ReconNext

\* A report says all there is to say.
LEMMA ReportSays ==
  ASSUME NoBankLedgers, Orderly, Judging, Judges, Report
  PROVE  Judged'
<1>1. /\ phase = "match" /\ stage = "batches" /\ queue = <<>>
      /\ lastRun' = [list |-> listed, matches |-> matches,
                     exceptions |-> exceptions, payouts |-> payouts]
      /\ UNCHANGED <<ledger, index, registry, rules, run>>
  BY DEF Report, Finish, stored
<1>2. toLoad = <<>> /\ registry = RegistryOf(run.dir)
  BY <1>1 DEF Judges
<1>3. /\ Ready
      /\ \A r \in ToSet(LoadOrder(run.dir, run.limit)) : r \in ledger /\ Indexed(r)
  BY <1>1, <1>2, ReadyOnceLoaded
<1>4. Paid' = Paid /\ Says' = Says
  BY <1>1, SameSubjects
<1>5. SoFar
  BY <1>1 DEF Judging
<1>6. Said = Says
  <2>1. Ahead[stage] = {} /\ ToSet(queue) = {}
    BY <1>1 DEF Ahead, ToSet
  <2>2. \A r \in Subjects : VerdictOn(r) \subseteq Said
    BY <1>5, <2>1 DEF SoFar
  <2> QED BY <1>5, <2>2 DEF SoFar, Says
<1>7. Verdicts(lastRun') = Said
  BY <1>1 DEF Verdicts, Said
<1>8. ToSet(lastRun'.list) = {Key(p) : p \in Paid}
  BY <1>1, <1>5 DEF SoFar
<1>9. \A r \in ToSet(LoadOrder(run'.dir, run'.limit)) : r \in ledger' /\ Indexed(r)'
  BY <1>1, <1>3 DEF Indexed
<1>10. run'.dir \in Dirs /\ run'.limit \in Nat /\ registry' = RegistryOf(run'.dir)
  BY <1>1, <1>2, <1>3 DEF Ready
<1> QED BY <1>1, <1>4, <1>6, <1>7, <1>8, <1>9, <1>10 DEF Judged

\* A report stays true while nothing is stored.
LEMMA JudgedStays ==
  ASSUME Judged, UNCHANGED <<ledger, index, registry, rules, run, lastRun>>
  PROVE  Judged'
<1>1. Paid' = Paid /\ Says' = Says
  BY SameSubjects
<1>2. \A r : Indexed(r)' <=> Indexed(r)
  BY DEF Indexed
<1>3. Verdicts(lastRun)' = Verdicts(lastRun)
  BY DEF Verdicts
<1> QED BY <1>1, <1>2, <1>3 DEF Judged

LEMMA StepKeepsJudges ==
  ASSUME NoBankLedgers, Orderly, Judging, Judges, [ReconNext]_reconVars
  PROVE  Judges'
<1>1. ASSUME NEW program, NEW dir, NEW limit, Start(program, dir, limit)
      PROVE  Judges'
  BY <1>1 DEF Start, Judges, Finished
<1>2. CASE \/ \E dir \in Dirs : RunDefault(dir)
           \/ \E dir \in Dirs, limit \in Limits : RunMain(dir, limit)
  BY <1>1, <1>2 DEF RunDefault, RunMain
<1>3. CASE LoadRecord
  BY <1>3 DEF LoadRecord, Judges, Finished
<1>4. CASE RegisterContracts
  <2>1. /\ phase = "load" /\ toLoad = <<>> /\ phase' = "registered"
        /\ registry' = FoldLeft(Register, registry, Contracts(run.dir, run.limit))
        /\ UNCHANGED <<lastRun, run, toLoad>>
    BY <1>4 DEF RegisterContracts
  <2>2. registry' = RegistryOf(run.dir)
    BY <2>1 DEF Judges, RegistryOf, Contracts
  <2> QED BY <2>1, <2>2 DEF Judges, Finished
<1>5. CASE Reconcile
  <2>1. /\ phase = "registered" /\ phase' = "match"
        /\ UNCHANGED <<registry, lastRun, run, toLoad>>
    BY <1>5 DEF Reconcile, Begin, stored
  <2> QED BY <2>1 DEF Judges, Finished
<1>6. CASE MatchStep
  <2>1. phase = "match" /\ UNCHANGED <<run, toLoad, phase>>
    BY <1>6 DEF MatchStep, programVars
  <2>2. UNCHANGED <<registry, lastRun>>
    BY <1>6 DEF MatchStep, NextOrder, ReconcileOrder, OrdersDone,
       NextProcessor, ProcessorsDone, NextBatch, stored
  <2> QED BY <2>1, <2>2 DEF Judges, Finished
<1>7. CASE Report
  <2>1. /\ phase = "match"
        /\ phase' = IF run.program = "run_default_pipeline" THEN "close" ELSE "ready"
        /\ UNCHANGED <<run, toLoad, registry>>
    BY <1>7 DEF Report, Finish, stored
  <2>2. Judged'
    BY <1>7, ReportSays
  <2> QED BY <2>1, <2>2 DEF Judges
<1>8. CASE DeleteStore
  BY <1>8 DEF DeleteStore, Judges, Finished
<1>9. CASE Killed
  <2>1. lastRun = NoRun
    <3>1. run.program = "run_reconciliation" /\ phase # "ready"
      BY <1>9 DEF Killed
    <3>2. phase \in {"load", "registered", "match", "close"}
      BY <3>1 DEF Orderly, ReconTypeOK
    <3> QED BY <3>1, <3>2 DEF Judges
  <2>2. phase' = "ready" /\ lastRun' = lastRun
    BY <1>9 DEF Killed
  <2> QED BY <2>1, <2>2 DEF Judges, Finished
<1>10. CASE UNCHANGED reconVars
  <2>1. UNCHANGED <<ledger, index, registry, rules, run, lastRun, phase, toLoad>>
    BY <1>10 DEF reconVars, vars, stored, programVars
  <2>2. Judged => Judged'
    BY <2>1, JudgedStays
  <2> QED BY <2>1, <2>2 DEF Judges, Finished
<1> QED BY <1>2, <1>3, <1>4, <1>5, <1>6, <1>7, <1>8, <1>9, <1>10 DEF ReconNext

\* In a store that holds one directory, a run without limit says what a fresh one says.
LEMMA FreshRun ==
  ASSUME NoBankLedgers, Orderly, Judged, run.limit = 0,
         ledger \subseteq RecordsOf(run.dir)
  PROVE  Verdicts(lastRun) = FreshVerdicts(run.dir, rules)
<1> DEFINE d == run.dir
<1>1. d \in Dirs /\ registry = RegistryOf(d)
  BY DEF Judged
<1>2. \A r \in RecordsOf(d) : r \in ledger /\ Indexed(r)
  BY DEF Judged, RecordsOf
<1>3. FromFiles /\ IsFiniteSet(ledger)
  BY DEF Orderly, ReconTypeOK, FromFiles, StoreIsFinite
<1>4. \A c : Whole(d, c)
  BY <1>2 DEF Whole
<1>5. \A r \in RecordsOf(d) : VerdictOn(r) = FreshVerdictOn(d, rules, r)
  BY <1>1, <1>3, <1>4, WholeVerdict
<1>6. Subjects \subseteq RecordsOf(d)
  <2>1. Paid \subseteq RecordsOf(d)
    <3>1. \A p \in ToSet(Listing(d, 0)) : p \in RecordsOf(d)
      BY <1>1, PaymentsRead
    <3> QED BY <3>1 DEF Paid
  <2> QED BY <2>1 DEF Subjects, Of
<1>7. \A r \in RecordsOf(d) \ Subjects : VerdictOn(r) = {}
  <2> SUFFICES ASSUME NEW r \in RecordsOf(d), r \notin Subjects
               PROVE  VerdictOn(r) = {}
    OBVIOUS
  <2>1. r.kind \notin {"PROCESSOR", "BATCH"}
    BY <1>2 DEF Subjects, Of
  <2>2. r.kind # "PAYMENT"
    <3>1. r.kind = "PAYMENT" => r \in ToSet(Listing(d, 0))
      BY <1>1, KindsRead DEF RecordsOf
    <3> QED BY <3>1 DEF Subjects, Paid
  <2> QED BY <2>1, <2>2 DEF VerdictOn
<1>8. Says = UNION {VerdictOn(r) : r \in RecordsOf(d)}
  BY <1>6, <1>7 DEF Says
<1>9. Says = FreshVerdicts(d, rules)
  BY <1>5, <1>8 DEF FreshVerdicts
<1> QED BY <1>9 DEF Judged

\* Every step leaves the reports of run_default_pipeline those of fresh stores.
LEMMA StepKeepsFresh ==
  ASSUME NoBankLedgers, Orderly, Judges, FreshStores, [ReconNext]_reconVars
  PROVE  FreshStores'
<1> USE DEF FreshStores
<1>1. ASSUME NEW dir \in Dirs, RunDefault(dir) PROVE FreshStores'
  <2>1. /\ phase = "ready" /\ phase' = "load" /\ reported[dir] = NoRun
        /\ run' = [program |-> "run_default_pipeline", dir |-> dir, limit |-> 0]
        /\ UNCHANGED <<ledger, index, rules, reported>>
    BY <1>1 DEF RunDefault, Start
  <2>2. ledger' = {} /\ index' = {}
    BY <2>1
  <2> QED BY <2>1, <2>2
<1>2. ASSUME NEW dir \in Dirs, NEW limit \in Limits, RunMain(dir, limit)
      PROVE  FreshStores'
  <2>1. /\ phase = "ready" /\ phase' = "load" /\ \A d \in Dirs : reported[d] # NoRun
        /\ run' = [program |-> "run_reconciliation", dir |-> dir, limit |-> limit]
        /\ UNCHANGED <<ledger, index, rules, reported>>
    BY <1>2 DEF RunMain, Start
  <2> QED BY <2>1
<1>3. CASE LoadRecord
  <2>1. /\ phase = "load" /\ toLoad # <<>> /\ PutRecord(Head(toLoad))
        /\ UNCHANGED <<rules, run, phase, reported>>
    BY <1>3 DEF LoadRecord
  <2>2. run.dir \in Dirs /\ Head(toLoad) \in RecordsOf(run.dir)
    BY <2>1, ToLoadFromFiles DEF Orderly, LInv
  <2>3. IndexEntries(Head(toLoad)) \subseteq EntriesOf(run.dir)
    BY <2>2 DEF EntriesOf
  <2> QED BY <2>1, <2>2, <2>3 DEF PutRecord
<1>4. CASE RegisterContracts
  BY <1>4 DEF RegisterContracts
<1>5. CASE Reconcile
  <2>1. /\ phase = "registered" /\ phase' = "match"
        /\ UNCHANGED <<ledger, index, rules, run, reported>>
    BY <1>5 DEF Reconcile, Begin, stored
  <2> QED BY <2>1
<1>6. CASE MatchStep
  <2>1. phase = "match" /\ UNCHANGED <<run, reported, phase>>
    BY <1>6 DEF MatchStep, programVars
  <2>2. UNCHANGED <<ledger, index, rules>>
    BY <1>6 DEF MatchStep, NextOrder, ReconcileOrder, OrdersDone,
       NextProcessor, ProcessorsDone, NextBatch, stored
  <2> QED BY <2>1, <2>2
<1>7. CASE Report
  <2>1. /\ phase = "match"
        /\ phase' = IF run.program = "run_default_pipeline" THEN "close" ELSE "ready"
        /\ UNCHANGED <<ledger, index, rules, run, reported>>
    BY <1>7 DEF Report, Finish, stored
  <2>2. phase' = "ready" => run.program = "run_reconciliation"
    BY <2>1 DEF Orderly, ReconTypeOK
  <2> QED BY <2>1, <2>2
<1>8. CASE DeleteStore
  <2>1. /\ phase = "close" /\ phase' = "ready"
        /\ reported' = [reported EXCEPT ![run.dir] = lastRun]
        /\ ledger' = {} /\ index' = {} /\ UNCHANGED <<rules, run>>
    BY <1>8 DEF DeleteStore
  <2>2. run.program = "run_default_pipeline" /\ Judged
    BY <2>1 DEF Judges
  <2>3. Verdicts(lastRun) = FreshVerdicts(run.dir, rules)
    BY <2>1, <2>2, FreshRun
  <2>4. reported' = [d \in Dirs |-> IF d = run.dir THEN lastRun ELSE reported[d]]
    BY <2>1
  <2>5. ASSUME NEW d \in Dirs, reported'[d] # NoRun
        PROVE  Verdicts(reported'[d]) = FreshVerdicts(d, rules)
    BY <2>3, <2>4, <2>5
  <2>6. \A d \in Dirs : reported'[d] # NoRun =>
          Verdicts(reported'[d]) = FreshVerdicts(d, rules)'
    BY <2>1, <2>5
  <2>7. reported' = [d \in Dirs |-> reported'[d]]
    BY <2>4
  <2>8. run'.program # "run_reconciliation"
    BY <2>1, <2>2
  <2> QED BY <2>1, <2>6, <2>7, <2>8
<1>9. CASE Killed
  <2>1. /\ run.program = "run_reconciliation" /\ phase' = "ready"
        /\ UNCHANGED <<rules, run, reported>>
    BY <1>9 DEF Killed
  <2> QED BY <2>1
<1>10. CASE UNCHANGED reconVars
  BY <1>10 DEF reconVars, vars, stored, programVars
<1> QED BY <1>1, <1>2, <1>3, <1>4, <1>5, <1>6, <1>7, <1>8, <1>9, <1>10 DEF ReconNext

\* Verdicts of a fresh store are on the records they are given for, of three kinds.
LEMMA FreshVerdictsAreOn ==
  ASSUME NEW d, NEW R, NEW r, NEW v \in FreshVerdictOn(d, R, r)
  PROVE  v.on = Key(r) /\ r.kind \in {"PAYMENT", "PROCESSOR", "BATCH"}
<1>1. r.kind \in {"PAYMENT", "PROCESSOR", "BATCH"}
  BY DEF FreshVerdictOn
<1>2. \E S : v \in Saying(Key(r), S)
  BY <1>1 DEF FreshVerdictOn
<1> QED BY <1>1, <1>2 DEF Saying

\* A finished run and the store it has left.
LEMMA AfterRun ==
  ASSUME NoBankLedgers, Orderly, Judges, FreshStores, Finished
  PROVE  /\ FromFiles /\ IsFiniteSet(ledger)
         /\ run.dir \in Dirs /\ run.limit \in Nat /\ registry = RegistryOf(run.dir)
         /\ ToSet(lastRun.list) = {Key(p) : p \in Paid}
         /\ Verdicts(lastRun) = Says
         /\ \A r \in ToSet(LoadOrder(run.dir, run.limit)) : r \in ledger /\ Indexed(r)
         /\ \A d \in Dirs : Verdicts(reported[d]) = FreshVerdicts(d, rules)
         /\ \A p \in Paid : p.kind = "PAYMENT" /\ p \in RecordsOf(run.dir)
         /\ \A s \in Subjects : \E d \in Dirs : s \in RecordsOf(d)
<1>1. FromFiles /\ IsFiniteSet(ledger)
  BY DEF Orderly, ReconTypeOK, FromFiles, StoreIsFinite
<1>2. Judged /\ run.program = "run_reconciliation"
  BY DEF Finished, Judges
<1>3. \A d \in Dirs : Verdicts(reported[d]) = FreshVerdicts(d, rules)
  BY <1>2 DEF FreshStores
<1>4. \A p \in Paid : p.kind = "PAYMENT" /\ p \in RecordsOf(run.dir)
  BY <1>2, PaymentsRead DEF Judged, Paid
<1>5. \A s \in Subjects : \E d \in Dirs : s \in RecordsOf(d)
  BY <1>1, <1>2, <1>4 DEF Subjects, Of, FromFiles, Judged
<1> QED BY <1>1, <1>2, <1>3, <1>4, <1>5 DEF Judged

\* On whole cases all runs agree,
LEMMA WholeCases ==
  ASSUME NoBankLedgers, Orderly, Judges, FreshStores
  PROVE  WholeCasesAreJudgedAlike
<1> SUFFICES ASSUME Finished, NEW dir \in Dirs, NEW case \in Cases(dir), Whole(dir, case)
             PROVE  VerdictsOn(dir, case, lastRun) =
                      {v \in VerdictsOn(dir, case, reported[dir]) :
                         v.on.kind = "PAYMENT" => v.on \in ToSet(lastRun.list)}
  BY DEF WholeCasesAreJudgedAlike
<1>1. /\ FromFiles /\ IsFiniteSet(ledger)
      /\ run.dir \in Dirs /\ run.limit \in Nat /\ registry = RegistryOf(run.dir)
      /\ ToSet(lastRun.list) = {Key(p) : p \in Paid}
      /\ Verdicts(lastRun) = Says
      /\ Verdicts(reported[dir]) = FreshVerdicts(dir, rules)
      /\ \A p \in Paid : p.kind = "PAYMENT" /\ p \in RecordsOf(run.dir)
      /\ \A s \in Subjects : \E d \in Dirs : s \in RecordsOf(d)
  BY AfterRun
<1>2. ASSUME NEW r \in RecordsOf(dir), case \in FiledUnder(r),
             r.kind = "PAYMENT" => r \in Paid
      PROVE  /\ VerdictOn(r) = FreshVerdictOn(dir, rules, r)
             /\ r.kind \in {"PAYMENT", "PROCESSOR", "BATCH"} => r \in Subjects
  <2>1. \A c \in FiledUnder(r) : c = case
    <3>1. r.kind \in {"PAYMENT", "INVOICE", "REFUND", "PROCESSOR", "BATCH", "BANK"}
      BY KindsRead DEF RecordsOf
    <3> QED BY <1>2, <3>1, FiledOnce
  <2>2. r.kind = "PAYMENT" => dir = run.dir
    <3>1. PICK x \in IndexEntries(r) : x.by = case
      BY <1>2 DEF FiledUnder
    <3>2. r.kind = "PAYMENT" => r \in RecordsOf(run.dir)
      BY <1>1, <1>2
    <3> QED BY <1>1, <3>1, <3>2, FilesAssumption
  <2>3. VerdictOn(r) = FreshVerdictOn(dir, rules, r)
    BY <1>1, <2>1, <2>2, WholeVerdict
  <2>4. r \in ledger
    BY <1>2 DEF Whole
  <2> QED BY <1>2, <2>3, <2>4 DEF Subjects, Of
<1>3. ASSUME NEW v \in VerdictsOn(dir, case, lastRun)
      PROVE  /\ v \in VerdictsOn(dir, case, reported[dir])
             /\ v.on.kind = "PAYMENT" => v.on \in ToSet(lastRun.list)
  <2>1. PICK r \in RecordsOf(dir) : Key(r) = v.on /\ case \in FiledUnder(r)
    BY DEF VerdictsOn
  <2>2. v \in Says
    BY <1>1 DEF VerdictsOn
  <2>3. PICK s \in Subjects : v \in VerdictOn(s)
    BY <2>2 DEF Says
  <2>4. v.on = Key(s)
    BY <2>3, VerdictsAreOn
  <2>5. s = r
    BY <1>1, <2>1, <2>4, FilesAssumption
  <2>6. r.kind = "PAYMENT" => r \in Paid
    BY <2>5 DEF Subjects, Of
  <2>7. v \in FreshVerdictOn(dir, rules, r)
    BY <1>2, <2>1, <2>3, <2>5, <2>6
  <2>8. v \in Verdicts(reported[dir])
    BY <1>1, <2>7 DEF FreshVerdicts
  <2>9. v.on.kind = "PAYMENT" => v.on \in ToSet(lastRun.list)
    BY <1>1, <2>1, <2>6 DEF Key
  <2> QED BY <2>1, <2>8, <2>9 DEF VerdictsOn
<1>4. ASSUME NEW v \in VerdictsOn(dir, case, reported[dir]),
             v.on.kind = "PAYMENT" => v.on \in ToSet(lastRun.list)
      PROVE  v \in VerdictsOn(dir, case, lastRun)
  <2>1. PICK r \in RecordsOf(dir) : Key(r) = v.on /\ case \in FiledUnder(r)
    BY DEF VerdictsOn
  <2>2. v \in FreshVerdicts(dir, rules)
    BY <1>1 DEF VerdictsOn
  <2>3. PICK s \in RecordsOf(dir) : v \in FreshVerdictOn(dir, rules, s)
    BY <2>2 DEF FreshVerdicts
  <2>4. v.on = Key(s) /\ s.kind \in {"PAYMENT", "PROCESSOR", "BATCH"}
    BY <2>3, FreshVerdictsAreOn
  <2>5. s = r
    BY <2>1, <2>4, FilesAssumption
  <2>6. r.kind = "PAYMENT" => r \in Paid
    <3> SUFFICES ASSUME r.kind = "PAYMENT" PROVE r \in Paid
      OBVIOUS
    <3>1. PICK p \in Paid : v.on = Key(p)
      BY <1>1, <1>4, <2>1 DEF Key
    <3>2. p = r
      BY <1>1, <2>1, <3>1, FilesAssumption
    <3> QED BY <3>2
  <2>7. v \in VerdictOn(r) /\ r \in Subjects
    BY <1>2, <2>1, <2>3, <2>4, <2>5, <2>6
  <2>8. v \in Verdicts(lastRun)
    BY <1>1, <2>7 DEF Says
  <2> QED BY <2>1, <2>8 DEF VerdictsOn
<1> QED BY <1>3, <1>4

\* and a run without limit leaves no case of its directory incomplete.
LEMMA FullRuns ==
  ASSUME NoBankLedgers, Orderly, Judges, FreshStores
  PROVE  FullRunsAgree
<1> SUFFICES ASSUME Finished, run.limit = 0
             PROVE  /\ Verdicts(reported[run.dir]) \subseteq Verdicts(lastRun)
                    /\ \A v \in Verdicts(lastRun) \ Verdicts(reported[run.dir]) :
                         /\ v.on.kind \in {"PROCESSOR", "BATCH"}
                         /\ \A r \in RecordsOf(run.dir) : Key(r) # v.on
  BY DEF FullRunsAgree
<1> DEFINE d == run.dir
<1>1. /\ FromFiles /\ IsFiniteSet(ledger)
      /\ d \in Dirs /\ registry = RegistryOf(d)
      /\ Verdicts(lastRun) = Says
      /\ \A r \in RecordsOf(d) : r \in ledger /\ Indexed(r)
      /\ Verdicts(reported[d]) = FreshVerdicts(d, rules)
      /\ \A p \in Paid : p.kind = "PAYMENT" /\ p \in RecordsOf(d)
      /\ \A s \in Subjects : \E e \in Dirs : s \in RecordsOf(e)
  BY AfterRun DEF RecordsOf
<1>2. \A r \in RecordsOf(d) : VerdictOn(r) = FreshVerdictOn(d, rules, r)
  <2>1. \A c : Whole(d, c)
    BY <1>1 DEF Whole
  <2> QED BY <1>1, <2>1, WholeVerdict
<1>3. ASSUME NEW v \in Verdicts(reported[d])
      PROVE  v \in Verdicts(lastRun)
  <2>1. PICK r \in RecordsOf(d) : v \in FreshVerdictOn(d, rules, r)
    BY <1>1 DEF FreshVerdicts
  <2>2. r.kind \in {"PAYMENT", "PROCESSOR", "BATCH"}
    BY <2>1, FreshVerdictsAreOn
  <2>3. r.kind = "PAYMENT" => r \in Paid
    <3>1. r.kind = "PAYMENT" => r \in ToSet(Listing(d, 0))
      BY <1>1, KindsRead DEF RecordsOf
    <3> QED BY <3>1 DEF Paid
  <2>4. r \in Subjects
    BY <1>1, <2>2, <2>3 DEF Subjects, Of
  <2> QED BY <1>1, <1>2, <2>1, <2>4 DEF Says
<1>4. ASSUME NEW v \in Verdicts(lastRun), v \notin Verdicts(reported[d])
      PROVE  /\ v.on.kind \in {"PROCESSOR", "BATCH"}
             /\ \A r \in RecordsOf(d) : Key(r) # v.on
  <2>1. PICK s \in Subjects : v \in VerdictOn(s)
    BY <1>1 DEF Says
  <2>2. v.on = Key(s)
    BY <2>1, VerdictsAreOn
  <2>3. s \notin RecordsOf(d)
    BY <1>1, <1>2, <1>4, <2>1 DEF FreshVerdicts
  <2>4. s.kind \in {"PROCESSOR", "BATCH"}
    BY <1>1, <2>3 DEF Subjects, Of
  <2>5. \A r \in RecordsOf(d) : Key(r) # v.on
    BY <1>1, <2>2, <2>3, FilesAssumption
  <2> QED BY <2>2, <2>4, <2>5 DEF Key
<1> QED BY <1>3, <1>4

ReconInv == Orderly /\ Judging /\ Judges /\ FreshStores

\* The invariant of both programs holds throughout.
LEMMA RunsAreJudged ==
  ASSUME NoBankLedgers
  PROVE  ReconSpec => []ReconInv
<1>1. ReconInit => ReconInv
  <2> SUFFICES ASSUME ReconInit PROVE ReconInv
    OBVIOUS
  <2>1. LInv
    BY DEF ReconInit, LInv, Loading, LoadedRecordsAreFound
  <2>2. ReconTypeOK /\ AtRest
    BY DEF ReconInit, NewEngine, ReconTypeOK, AtRest, ToSet
  <2>3. StoreIsFinite
    BY FS_EmptySet DEF ReconInit, NewEngine, StoreIsFinite
  <2>4. Judging /\ Judges
    BY DEF ReconInit, NewEngine, Judging, Judges, Finished
  <2>5. FreshStores
    <3>1. run.program # "run_reconciliation"
      BY DEF ReconInit, None
    <3> QED BY <3>1 DEF ReconInit, NewEngine, FreshStores
  <2> QED BY <2>1, <2>2, <2>3, <2>4, <2>5 DEF ReconInv, Orderly
<1>2. ReconInv /\ [ReconNext]_reconVars => ReconInv'
  <2> SUFFICES ASSUME ReconInv, [ReconNext]_reconVars PROVE ReconInv'
    OBVIOUS
  <2>1. Orderly'
    BY StepKeepsLoaded, StepKeepsReconTypes, StepKeepsRest, StepKeepsFinite
       DEF ReconInv, Orderly
  <2>2. Judging' /\ Judges' /\ FreshStores'
    BY StepKeepsJudging, StepKeepsJudges, StepKeepsFresh DEF ReconInv
  <2> QED BY <2>1, <2>2 DEF ReconInv
<1> QED BY <1>1, <1>2, PTL DEF ReconSpec

(* WholeCasesAreJudgedAlike, the property of the Reconciliation run: on an *)
(* order or reference whose records are all stored, a run says what        *)
(* run_default_pipeline says on an empty store, whatever earlier, limited  *)
(* and killed runs left behind; for any files with unique identifiers, any *)
(* limits and any fee policies.  No engine of the two programs is given    *)
(* the topology BANK_GL.                                                   *)
THEOREM WholeCasesAgree ==
  ASSUME NoBankLedgers
  PROVE  ReconSpec => []WholeCasesAreJudgedAlike
<1>1. ReconInv => WholeCasesAreJudgedAlike
  BY WholeCases DEF ReconInv
<1> QED BY <1>1, RunsAreJudged, PTL

(* FullRunsAgree: a run without limit repairs the store; it says of its    *)
(* directory what run_default_pipeline says, and beyond that speaks of     *)
(* charges and batches of other directories only.                          *)
THEOREM FullRunsRepair ==
  ASSUME NoBankLedgers
  PROVE  ReconSpec => []FullRunsAgree
<1>1. ReconInv => FullRunsAgree
  BY FullRuns DEF ReconInv
<1> QED BY <1>1, RunsAreJudged, PTL
=============================================================================
