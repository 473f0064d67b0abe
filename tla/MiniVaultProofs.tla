-------------------------- MODULE MiniVaultProofs --------------------------
(***************************************************************************)
(* Theorems about MiniVaultDB, for every value of its constants.           *)
(***************************************************************************)
EXTENDS MiniVaultPromise, FiniteSetTheorems, WellFoundedInduction, TLAPS

\* A nonempty set of naturals below a bound has a last element.
LEMMA LastOfIsLast ==
  ASSUME NEW n \in Nat, NEW I \in SUBSET (0..n), I # {}
  PROVE  LastOf(I) \in I /\ \A j \in I : j <= LastOf(I)
<1> DEFINE T == {n - i : i \in I}
<1>0. \A i \in I : n - i \in Nat
  OBVIOUS
<1>1. T \subseteq Nat /\ T # {}
  BY <1>0
<1>2. \E x \in T : \A y \in T : ~ (<<y, x>> \in OpToRel(<, Nat))
  <2> HIDE DEF T
  <2> QED BY <1>1, NatLessThanWellFounded, WFMin
<1>3. PICK x \in T : \A y \in T : ~ (y < x)
  <2> HIDE DEF T
  <2> QED BY <1>1, <1>2 DEF OpToRel
<1>4. PICK i \in I : x = n - i
  BY <1>3
<1>5. ASSUME NEW j \in I PROVE j <= i
  <2>1. ~ (n - j < n - i)
    BY <1>3, <1>4
  <2> QED BY <2>1
<1> QED BY <1>5 DEF LastOf
-----------------------------------------------------------------------------
(***************************************************************************)
(* Type correctness.  The types depend on what the phases say of the other *)
(* variables (there is a record to apply only in the write phases, a       *)
(* frozen memtable only in a flush), so PhaseInv is part of the induction. *)
(***************************************************************************)
PhaseInv ==
  /\ phase \in {"log", "apply"} <=> op # NoOp
  /\ FrozenOnlyDuringFlush
  /\ phase \in {"log", "apply", "build"} => nextId < MaxSst
  /\ phase = "install" => nextId > 0
  /\ phase \in {"down", "build", "install", "rotate"} => active = EmptyTable

\* sst_files_ lists what is on disk, except the file being built, whose
\* number is the last one given out; higher numbers have never been used.
Listed ==
  IF phase = "down" THEN {}
  ELSE IF phase = "install" THEN OnDisk(sst) \ {nextId - 1}
  ELSE OnDisk(sst)

FilesInv ==
  /\ {files[i] : i \in DOMAIN files} = Listed
  /\ phase # "down" => \A i \in Ids : i >= nextId => sst[i] = NoFile
  /\ phase = "install" => sst[nextId - 1] = TornFile

IInv == TypeOK /\ PhaseInv /\ FilesInv

\* What a record does to a memtable is a memtable again.
LEMMA ApplyRecordType ==
  ASSUME NEW mt \in Table, NEW r \in Record, NEW t \in Int, NEW now \in Int
  PROVE  ApplyRecord(mt, r, t, now) \in Table /\ RecordBytes(mt, r) \in Nat
<1>1. ExpireTs(t, now) \in Int
  BY MemTableAssumption DEF MemTableAssumption, ExpireTs
<1>2. r.key \in Keys /\ (r.type = "PUT" => r.val \in Vals)
  BY DEF Record, PutRecord, DelRecord
<1>3. RecordBytes(mt, r) \in Nat
  BY MemTableAssumption DEF MemTableAssumption, RecordBytes, PutBytes, DelBytes
<1>4. CASE r.type = "PUT"
  <2>1. [val |-> r.val, exp |-> ExpireTs(t, now)] \in Entry
    BY <1>1, <1>2, <1>4 DEF Entry
  <2> QED BY <1>2, <1>3, <1>4, <2>1 DEF ApplyRecord, MtPut, Table
<1>5. CASE r.type # "PUT"
  BY <1>2, <1>3, <1>5 DEF ApplyRecord, MtDel, Table
<1> QED BY <1>4, <1>5

\* The empty reply is a reply.
LEMMA NoReplyType == NoReply \in UNION {[P -> Answer] : P \in SUBSET Keys}
<1>1. NoReply \in [{} -> Answer] /\ {} \in SUBSET Keys
  BY DEF NoReply
<1> QED BY <1>1

\* The TTL of a record is a natural number.
LEMMA TtlType == ASSUME NEW r \in Record PROVE r.ttl \in Nat
<1>1. CASE r \in PutRecord
  BY <1>1, LogAssumption DEF PutRecord, LogAssumption
<1>2. CASE r \in DelRecord
  BY <1>2 DEF DelRecord
<1> QED BY <1>1, <1>2 DEF Record

\* A lookup in the files answers a value, Missing, or meets a torn file.
LEMMA LookupType ==
  ASSUME TypeOK, NEW k \in Keys, \A i \in DOMAIN files : sst[files[i]] # NoFile
  PROVE  Lookup(sst, files, k) \in Answer \union {TornFile}
<1> DEFINE I == Answers(sst, files, k)
<1>1. Len(files) \in Nat /\ DOMAIN files = 1..Len(files)
  BY DEF TypeOK
<1>2. I \subseteq 0..Len(files)
  BY <1>1 DEF Answers
<1>3. CASE I = {}
  BY <1>3 DEF Lookup, Answer
<1>4. CASE I # {}
  <2>1. LastOf(I) \in DOMAIN files
    <3>1. LastOf(I) \in I
      <4> HIDE DEF I
      <4> QED BY <1>1, <1>2, <1>4, LastOfIsLast
    <3> QED BY <3>1 DEF Answers
  <2>2. files[LastOf(I)] \in Ids
    BY <2>1 DEF TypeOK
  <2>3. sst[files[LastOf(I)]] \in {TornFile} \union Contents
    BY <2>1, <2>2 DEF TypeOK, Disk
  <2>4. Lookup(sst, files, k) = IF sst[files[LastOf(I)]] = TornFile THEN TornFile
                                ELSE sst[files[LastOf(I)]][k]
    BY <1>4 DEF Lookup
  <2> HIDE DEF I
  <2> QED BY <2>3, <2>4 DEF Contents, Answer
<1> QED BY <1>3, <1>4

\* A lookup is stopped only by a torn file in the list.
LEMMA ScanFindsNoTornFile ==
  ASSUME TypeOK, NEW k \in Keys, ~ScanAborts, \A i \in DOMAIN files : sst[files[i]] # NoFile
  PROVE  Lookup(sst, files, k) # TornFile
<1> DEFINE I == Answers(sst, files, k)
<1>1. Len(files) \in Nat /\ DOMAIN files = 1..Len(files)
  BY DEF TypeOK
<1>2. I \subseteq 0..Len(files)
  BY <1>1 DEF Answers
<1>3. CASE I = {}
  BY <1>3, SstAssumption DEF Lookup, SstAssumption
<1>4. CASE I # {}
  <2>1. LastOf(I) \in DOMAIN files
    <3>1. LastOf(I) \in I
      <4> HIDE DEF I
      <4> QED BY <1>1, <1>2, <1>4, LastOfIsLast
    <3> QED BY <3>1 DEF Answers
  <2>2. sst[files[LastOf(I)]] \in Contents
    BY <2>1 DEF TypeOK, Disk, ScanAborts
  <2>3. Lookup(sst, files, k) = sst[files[LastOf(I)]][k]
    BY <1>4, <2>1 DEF Lookup, ScanAborts
  <2> HIDE DEF I
  <2> QED BY <2>2, <2>3, SstAssumption DEF Contents, SstAssumption
<1> QED BY <1>3, <1>4

\* A new directory satisfies the invariant.
LEMMA InitIInv == Init => IInv
<1> SUFFICES ASSUME Init PROVE IInv
  OBVIOUS
<1>1. TypeOK
  <2>1. EmptyTable \in Table
    BY DEF EmptyTable, Table
  <2>2. sst \in Disk
    BY DEF Init, Disk
  <2>3. nextId \in 0..MaxSst
    BY SstAssumption DEF Init, SstAssumption
  <2> QED BY <2>1, <2>2, <2>3, NoReplyType, DbAssumption DEF Init, TypeOK, Phases, DbAssumption
<1>2. PhaseInv
  BY DEF Init, PhaseInv, FrozenOnlyDuringFlush
<1>3. FilesInv
  BY DEF Init, FilesInv, Listed
<1> QED BY <1>1, <1>2, <1>3 DEF IInv

\* The end of the process leaves a state of the right shape.
LEMMA StopIInv ==
  ASSUME IInv, Stop, sst' = sst, clock' = clock, intended' = intended,
         wal' \in Seq(Record \union {TornRecord})
  PROVE  IInv'
<1>1. TypeOK'
  <2>1. EmptyTable \in Table
    BY DEF EmptyTable, Table
  <2>2. 0 \in 0..MaxSst
    BY SstAssumption DEF SstAssumption
  <2> QED BY <2>1, <2>2, NoReplyType DEF IInv, TypeOK, Stop, Phases
<1>2. PhaseInv'
  BY DEF Stop, PhaseInv, FrozenOnlyDuringFlush
<1>3. FilesInv'
  BY DEF Stop, FilesInv, Listed
<1> QED BY <1>1, <1>2, <1>3 DEF IInv

\* Every action keeps the invariant: one step per action of Next.
LEMMA NextIInv == IInv /\ [Next]_vars => IInv'
<1> SUFFICES ASSUME IInv, [Next]_vars PROVE IInv'
  OBVIOUS
<1> USE DEF IInv
<1>1. ASSUME NEW r \in Record, Call(r) PROVE IInv'
  <2>2. TypeOK'
    BY <1>1, NoReplyType DEF Call, TypeOK, Phases, disk, memory
  <2>3. PhaseInv'
    BY <1>1, DbAssumption DEF Call, PhaseInv, FrozenOnlyDuringFlush, disk, memory, DbAssumption
  <2>4. FilesInv'
    BY <1>1 DEF Call, FilesInv, Listed, disk, memory
  <2> QED BY <2>2, <2>3, <2>4
<1>2. CASE AppendRecord
  <2>1. op \in Record
    BY <1>2 DEF AppendRecord, PhaseInv, TypeOK
  <2>2. ApplyRecord(intended, op, op.ttl, clock) \in Table
    <3>1. op.ttl \in Int /\ clock \in Int
      BY <2>1, TtlType DEF TypeOK
    <3> QED BY <2>1, <3>1, ApplyRecordType DEF TypeOK
  <2>3. TypeOK'
    BY <1>2, <2>1, <2>2 DEF AppendRecord, TypeOK, Phases, memory
  <2>4. PhaseInv'
    BY <1>2 DEF AppendRecord, PhaseInv, FrozenOnlyDuringFlush, memory
  <2>5. FilesInv'
    BY <1>2 DEF AppendRecord, FilesInv, Listed, memory
  <2> QED BY <2>3, <2>4, <2>5
<1>3. CASE ApplyToMemTable
  <2> DEFINE mt == ApplyRecord(active, op, op.ttl, clock)
             size == bytes + RecordBytes(active, op)
  <2>1. op \in Record
    BY <1>3 DEF ApplyToMemTable, PhaseInv, TypeOK
  <2>2. mt \in Table /\ size \in Nat
    <3>1. op.ttl \in Int /\ clock \in Int
      BY <2>1, TtlType DEF TypeOK
    <3>2. mt \in Table /\ RecordBytes(active, op) \in Nat
      BY <2>1, <3>1, ApplyRecordType DEF TypeOK
    <3> QED BY <3>2 DEF TypeOK
  <2>3. EmptyTable \in Table /\ NoTable \notin Table
    BY DbAssumption DEF EmptyTable, Table, DbAssumption
  <2>4. \/ immutable' = mt /\ active' = EmptyTable /\ bytes' = 0 /\ phase' = "build"
        \/ active' = mt /\ bytes' = size /\ phase' = "idle" /\ immutable' = immutable
    BY <1>3 DEF ApplyToMemTable
  <2> HIDE DEF mt, size
  <2>5. TypeOK'
    BY <1>3, <2>2, <2>3, <2>4 DEF ApplyToMemTable, TypeOK, Phases, disk
  <2>6. PhaseInv'
    BY <1>3, <2>2, <2>3, <2>4 DEF ApplyToMemTable, PhaseInv, FrozenOnlyDuringFlush, disk
  <2>7. FilesInv'
    BY <1>3, <2>4 DEF ApplyToMemTable, FilesInv, Listed, disk
  <2> QED BY <2>5, <2>6, <2>7
<1>4. CASE CreateSst
  <2>1. nextId \in Ids
    BY <1>4, SstAssumption DEF CreateSst, PhaseInv, TypeOK, Ids, SstAssumption
  <2>2. TypeOK'
    <3>1. sst' \in Disk
      BY <1>4, <2>1 DEF CreateSst, TypeOK, Disk
    <3>2. nextId' \in 0..MaxSst
      BY <1>4, <2>1, SstAssumption DEF CreateSst, Ids, SstAssumption
    <3> QED BY <1>4, <3>1, <3>2 DEF CreateSst, TypeOK, Phases
  <2>3. PhaseInv'
    BY <1>4, <2>1 DEF CreateSst, PhaseInv, FrozenOnlyDuringFlush, Ids
  <2>4. FilesInv'
    <3>1. sst[nextId] = NoFile
      BY <1>4, <2>1 DEF CreateSst, FilesInv, Ids
    <3>2. sst' = [sst EXCEPT ![nextId] = TornFile] /\ nextId' = nextId + 1 /\ nextId \in Nat
      BY <1>4, <2>1 DEF CreateSst, Ids
    <3>3. OnDisk(sst)' \ {nextId' - 1} = OnDisk(sst)
      BY <2>1, <3>1, <3>2 DEF OnDisk, TypeOK, Disk
    <3>4. \A i \in Ids : i >= nextId' => sst'[i] = NoFile
      BY <1>4, <2>1, <3>2 DEF CreateSst, FilesInv, TypeOK, Disk, Ids
    <3>5. sst'[nextId' - 1] = TornFile
      BY <2>1, <3>2 DEF TypeOK, Disk
    <3>6. {files[i] : i \in DOMAIN files} = OnDisk(sst)
      BY <1>4 DEF CreateSst, FilesInv, Listed
    <3>7. {files'[i] : i \in DOMAIN files'} = Listed'
      BY <1>4, <3>3, <3>6 DEF CreateSst, Listed
    <3> QED BY <1>4, <3>4, <3>5, <3>7 DEF CreateSst, FilesInv
  <2> QED BY <2>2, <2>3, <2>4
<1>5. CASE InstallSst
  <2>1. nextId - 1 \in Ids
    BY <1>5, SstAssumption DEF InstallSst, PhaseInv, TypeOK, Ids, SstAssumption
  <2>2. FlushContents(immutable, clock) \in Contents
    <3>1. immutable \in Table
      BY <1>5 DEF InstallSst, PhaseInv, FrozenOnlyDuringFlush, TypeOK
    <3> QED BY <3>1 DEF FlushContents, Contents, Table, Entry, Live
  <2>3. TypeOK'
    BY <1>5, <2>1, <2>2 DEF InstallSst, TypeOK, Phases, Disk
  <2>4. PhaseInv'
    BY <1>5 DEF InstallSst, PhaseInv, FrozenOnlyDuringFlush
  <2>5. FilesInv'
    <3> DEFINE n == nextId - 1
    <3>1. FlushContents(immutable, clock) # NoFile
      BY <2>2, SstAssumption DEF SstAssumption
    <3>2. sst' = [sst EXCEPT ![n] = FlushContents(immutable, clock)] /\ nextId' = nextId
      BY <1>5 DEF InstallSst
    <3>3. OnDisk(sst)' = OnDisk(sst) /\ n \in OnDisk(sst)
      BY <1>5, <2>1, <3>1, <3>2, SstAssumption
      DEF InstallSst, FilesInv, OnDisk, TypeOK, Disk, SstAssumption
    <3>4. {files'[i] : i \in DOMAIN files'} = {files[i] : i \in DOMAIN files} \union {n}
      <4>1. files' = Append(files, n) /\ files \in Seq(Ids)
        BY <1>5 DEF InstallSst, TypeOK
      <4>2. /\ DOMAIN files' = 1..Len(files) + 1 /\ DOMAIN files = 1..Len(files)
            /\ Len(files) \in Nat
            /\ \A i \in 1..Len(files) : files'[i] = files[i]
            /\ files'[Len(files) + 1] = n
        BY <2>1, <4>1
      <4>3. DOMAIN files' = DOMAIN files \union {Len(files) + 1}
        BY <4>2
      <4> QED BY <4>2, <4>3
    <3>5. {files[i] : i \in DOMAIN files} = OnDisk(sst) \ {n}
      BY <1>5 DEF InstallSst, FilesInv, Listed
    <3>6. \A i \in Ids : i >= nextId' => sst'[i] = NoFile
      BY <1>5, <2>1, <3>2 DEF InstallSst, FilesInv, TypeOK, Disk, Ids
    <3> QED BY <1>5, <3>3, <3>4, <3>5, <3>6 DEF InstallSst, FilesInv, Listed
  <2> QED BY <2>3, <2>4, <2>5
<1>6. CASE RotateWal
  <2>1. TypeOK'
    BY <1>6 DEF RotateWal, TypeOK, Phases, memory
  <2>2. PhaseInv'
    BY <1>6 DEF RotateWal, PhaseInv, FrozenOnlyDuringFlush, memory
  <2>3. FilesInv'
    BY <1>6 DEF RotateWal, FilesInv, Listed, memory
  <2> QED BY <2>1, <2>2, <2>3
<1>7. CASE ReplayRecord
  <2>1. wal[pos] \in Record
    BY <1>7 DEF ReplayRecord, Readable, TypeOK
  <2>2. ReplayTtl(wal[pos].ttl, clock) \in Int /\ clock \in Int
    <3>1. wal[pos].ttl \in Nat
      BY <2>1, TtlType
    <3> QED BY <3>1, MemTableAssumption DEF ReplayTtl, TypeOK, MemTableAssumption
  <2>3. /\ active' \in Table
        /\ RecordBytes(active, wal[pos]) \in Nat
    BY <1>7, <2>1, <2>2, ApplyRecordType DEF ReplayRecord, TypeOK
  <2>4. TypeOK'
    BY <1>7, <2>3 DEF ReplayRecord, TypeOK, disk
  <2>5. PhaseInv'
    BY <1>7 DEF ReplayRecord, PhaseInv, FrozenOnlyDuringFlush
  <2>6. FilesInv'
    BY <1>7 DEF ReplayRecord, FilesInv, Listed, disk
  <2> QED BY <2>4, <2>5, <2>6
<1>8. CASE ReplayEnds
  <2>1. TypeOK'
    BY <1>8 DEF ReplayEnds, TypeOK, Phases, disk, memory
  <2>2. PhaseInv'
    BY <1>8 DEF ReplayEnds, PhaseInv, FrozenOnlyDuringFlush, memory
  <2>3. FilesInv'
    BY <1>8 DEF ReplayEnds, FilesInv, Listed, disk, memory
  <2> QED BY <2>1, <2>2, <2>3
<1>9. ASSUME NEW k \in Keys, ReadKey(k) PROVE IInv'
  <2>1. Get(k) \in Answer
    <3>1. Lookup(sst, files, k) \in Answer \union {TornFile}
      <4>1. \A i \in DOMAIN files : sst[files[i]] # NoFile
        BY <1>9 DEF ReadKey, FilesInv, Listed, OnDisk
      <4> QED BY <4>1, LookupType
    <3> QED BY <1>9, <3>1 DEF ReadKey, Get, Live, TypeOK, Table, Entry, Answer
  <2>2. reply' \in UNION {[P -> Answer] : P \in SUBSET Keys}
    BY <1>9, <2>1 DEF ReadKey
  <2>3. active' \in Table
    BY <1>9 DEF ReadKey, MtAfterGet, MtDel, TypeOK, Table
  <2>4. TypeOK'
    BY <1>9, <2>2, <2>3 DEF ReadKey, TypeOK, disk
  <2>5. PhaseInv'
    BY <1>9 DEF ReadKey, PhaseInv, FrozenOnlyDuringFlush
  <2>6. FilesInv'
    BY <1>9 DEF ReadKey, FilesInv, Listed, disk
  <2> QED BY <2>4, <2>5, <2>6
<1>10. ASSUME NEW P \in SUBSET Keys, ScanKeys(P) PROVE IInv'
  <2>1. ASSUME NEW k \in Keys PROVE Scan(k) \in Answer
    <3>1. \A i \in DOMAIN files : sst[files[i]] # NoFile
      BY <1>10 DEF ScanKeys, FilesInv, Listed, OnDisk
    <3>2. Lookup(sst, files, k) \in Answer \union {TornFile}
      BY <3>1, LookupType
    <3>3. Lookup(sst, files, k) # TornFile
      BY <1>10, <3>1, ScanFindsNoTornFile DEF ScanKeys
    <3> QED BY <3>2, <3>3 DEF Scan, TypeOK, Table, Entry, Answer
  <2>2. reply' \in UNION {[Q -> Answer] : Q \in SUBSET Keys}
    BY <1>10, <2>1 DEF ScanKeys
  <2>3. TypeOK'
    BY <1>10, <2>2 DEF ScanKeys, TypeOK, disk, memory
  <2>4. PhaseInv'
    BY <1>10 DEF ScanKeys, PhaseInv, FrozenOnlyDuringFlush, memory
  <2>5. FilesInv'
    BY <1>10 DEF ScanKeys, FilesInv, Listed, disk, memory
  <2> QED BY <2>3, <2>4, <2>5
<1>11. CASE Crash
  <2>1. wal' \in Seq(Record \union {TornRecord})
    BY <1>11 DEF Crash, TypeOK
  <2> QED BY <1>11, <2>1, StopIInv DEF Crash
<1>12. CASE Close
  BY <1>12, StopIInv DEF Close, TypeOK, disk
<1>13. CASE ReadAborts
  BY <1>13, StopIInv DEF ReadAborts, TypeOK, disk
<1>14. CASE Open
  <2> DEFINE S == OnDisk(sst)
  <2>1. Cardinality(S) \in Nat
    <3>1. IsFiniteSet(Ids)
      BY FS_Interval, SstAssumption DEF Ids, SstAssumption
    <3>2. S \in SUBSET Ids
      BY DEF OnDisk
    <3> QED BY <3>1, <3>2, FS_Subset, FS_CardinalityType
  <2>2. /\ files' \in [1..Cardinality(S) -> S]
        /\ \A x \in S : \E i \in DOMAIN files' : files'[i] = x
    BY <1>14 DEF Open, SortedListings
  <2>3. files' \in Seq(Ids)
    <3>1. S \subseteq Ids
      BY DEF OnDisk
    <3> HIDE DEF S
    <3> QED BY <2>1, <2>2, <3>1
  <2>4. {files'[i] : i \in DOMAIN files'} = S
    BY <2>2
  <2>5. TypeOK'
    BY <1>14, <2>3 DEF Open, TypeOK, Phases, disk
  <2>6. PhaseInv'
    BY <1>14 DEF Open, PhaseInv, FrozenOnlyDuringFlush
  <2>7. FilesInv'
    <3>1. \A i \in Ids : i >= nextId' => sst'[i] = NoFile
      BY <1>14 DEF Open, OnDisk, disk, Ids, TypeOK
    <3> QED BY <1>14, <2>4, <3>1 DEF Open, FilesInv, Listed, disk
  <2> QED BY <2>5, <2>6, <2>7
<1>15. CASE Tick
  <2>1. TypeOK'
    BY <1>15 DEF Tick, TypeOK, disk, memory
  <2>2. PhaseInv'
    BY <1>15 DEF Tick, PhaseInv, FrozenOnlyDuringFlush, memory
  <2>3. FilesInv'
    BY <1>15 DEF Tick, FilesInv, Listed, disk, memory
  <2> QED BY <2>1, <2>2, <2>3
<1>16. CASE UNCHANGED vars
  BY <1>16 DEF vars, TypeOK, PhaseInv, FrozenOnlyDuringFlush, FilesInv, Listed
<1> QED
  BY <1>1, <1>2, <1>3, <1>4, <1>5, <1>6, <1>7, <1>8, <1>9, <1>10, <1>11, <1>12,
     <1>13, <1>14, <1>15, <1>16 DEF Next, Step

\* Every variable keeps its type: in particular the engine never gives out a
\* file number beyond the bound and every read answers a value or Missing.
THEOREM TypeCorrect == Spec => []TypeOK
<1>1. Spec => []IInv
  BY InitIInv, NextIInv, PTL DEF Spec
<1>2. IInv => TypeOK
  BY DEF IInv
<1> QED BY <1>1, <1>2, PTL

\* The frozen memtable exists only inside a flush, so the reads never see it.
THEOREM FrozenTableIsPrivate == Spec => []FrozenOnlyDuringFlush
<1>1. Spec => []IInv
  BY InitIInv, NextIInv, PTL DEF Spec
<1>2. IInv => FrozenOnlyDuringFlush
  BY DEF IInv, PhaseInv
<1> QED BY <1>1, <1>2, PTL

\* A step writes to a file only to create one under a fresh number, or to
\* complete the one it has just created.
LEMMA StepKeepsFiles == IInv /\ [Next]_vars => KeepsFiles
<1> SUFFICES ASSUME IInv, [Next]_vars, NEW i \in Ids
             PROVE  /\ Complete(sst, i) => sst'[i] = sst[i]
                    /\ sst[i] = TornFile /\ phase # "install" => sst'[i] = TornFile
  BY DEF KeepsFiles
<1>1. CASE CreateSst
  <2>1. nextId \in Ids
    BY <1>1, SstAssumption DEF CreateSst, IInv, PhaseInv, TypeOK, Ids, SstAssumption
  <2>2. sst[nextId] = NoFile
    BY <1>1, <2>1 DEF CreateSst, IInv, FilesInv, Ids
  <2>3. i # nextId => sst'[i] = sst[i]
    BY <1>1, <2>1 DEF CreateSst, IInv, TypeOK, Disk
  <2> QED BY <2>2, <2>3, SstAssumption DEF Complete, SstAssumption
<1>2. CASE InstallSst
  <2>1. sst[nextId - 1] = TornFile /\ phase = "install"
    BY <1>2 DEF InstallSst, IInv, FilesInv
  <2>2. i # nextId - 1 => sst'[i] = sst[i]
    BY <1>2 DEF InstallSst, IInv, TypeOK, Disk
  <2> QED BY <2>1, <2>2 DEF Complete
<1>3. CASE UNCHANGED sst
  BY <1>3
<1>4. CreateSst \/ InstallSst \/ UNCHANGED sst
  BY DEF Next, Step, vars, disk, Call, AppendRecord, ApplyToMemTable, RotateWal, ReplayRecord,
         ReplayEnds, ReadKey, ScanKeys, Crash, Close, ReadAborts, Open, Tick
<1> QED BY <1>1, <1>2, <1>3, <1>4

\* SSTables are immutable, and no file number is used twice: not even that
\* of a file a crash has cut short.
THEOREM FilesStayAsWritten == Spec => FilesAreImmutable
<1>1. Spec => []IInv
  BY InitIInv, NextIInv, PTL DEF Spec
<1>2. IInv /\ [Next]_vars => [KeepsFiles]_vars
  BY StepKeepsFiles
<1> QED BY <1>1, <1>2, PTL DEF Spec, FilesAreImmutable
-----------------------------------------------------------------------------
(***************************************************************************)
(* The order of sst_files_.  Sorting the paths sorts the numbers as long   *)
(* as they have one digit, that is for MaxSst <= Radix.                    *)
(***************************************************************************)
ByAge == \A i, j \in DOMAIN files : i < j => files[i] < files[j]

\* Every step keeps the listed files in the order of their numbers.
LEMMA StepByAge ==
  ASSUME MaxSst <= Radix, IInv, ByAge, [Next]_vars
  PROVE  ByAge'
<1> USE DEF IInv
<1>1. CASE InstallSst
  <2> DEFINE n == nextId - 1
  <2>1. n \in Int /\ files \in Seq(Ids) /\ files' = Append(files, n)
    BY <1>1 DEF InstallSst, TypeOK
  <2>2. \A i \in DOMAIN files : files[i] < n
    <3>1. {files[i] : i \in DOMAIN files} = OnDisk(sst) \ {n}
      BY <1>1 DEF InstallSst, FilesInv, Listed
    <3>2. \A x \in OnDisk(sst) : x < nextId /\ x \in Int
      BY <1>1 DEF InstallSst, FilesInv, OnDisk, Ids, TypeOK
    <3>3. ASSUME NEW i \in DOMAIN files PROVE files[i] < n
      <4>1. files[i] \in OnDisk(sst) /\ files[i] # n
        <5> HIDE DEF n
        <5> QED BY <3>1
      <4>2. nextId \in Int
        BY DEF TypeOK
      <4> QED BY <3>2, <4>1, <4>2
    <3> QED BY <3>3
  <2>3. /\ DOMAIN files' = 1..Len(files) + 1 /\ DOMAIN files = 1..Len(files)
        /\ Len(files) \in Nat
        /\ \A i \in 1..Len(files) : files'[i] = files[i]
        /\ files'[Len(files) + 1] = n
    BY <2>1
  <2> HIDE DEF n
  <2> QED BY <2>2, <2>3 DEF ByAge
<1>2. CASE Open
  <2>1. \A i, j \in DOMAIN files' : i < j => PathLess(files'[i], files'[j])
    BY <1>2 DEF Open, SortedListings
  <2>2. \A i \in DOMAIN files' : files'[i] \in Ids
    BY <1>2 DEF Open, SortedListings, OnDisk
  <2>3. \A a, b \in Ids : PathLess(a, b) => a < b
    BY SstAssumption DEF PathLess, LeadingDigit, Ids, SstAssumption
  <2> QED BY <2>1, <2>2, <2>3 DEF ByAge
<1>3. CASE files' = <<>>
  BY <1>3 DEF ByAge
<1>4. CASE files' = files
  BY <1>4 DEF ByAge
<1>5. InstallSst \/ Open \/ files' = <<>> \/ files' = files
  BY DEF Next, Step, Stop, vars, memory, Call, AppendRecord, ApplyToMemTable, CreateSst,
         RotateWal, ReplayRecord, ReplayEnds, ReadKey, ScanKeys, Crash, Close, ReadAborts, Tick
<1> QED BY <1>1, <1>2, <1>3, <1>4, <1>5

\* With at most Radix files, a lookup meets the files newest first.
THEOREM FilesAreListedByAge ==
  ASSUME MaxSst <= Radix PROVE Spec => []FilesListedByAge
<1>1. Init => IInv /\ ByAge
  BY InitIInv DEF Init, ByAge
<1>2. IInv /\ ByAge /\ [Next]_vars => (IInv /\ ByAge)'
  BY NextIInv, StepByAge
<1>3. IInv /\ ByAge => FilesListedByAge
  BY DEF IInv, FilesInv, Listed, ByAge, FilesListedByAge
<1> QED BY <1>1, <1>2, <1>3, PTL DEF Spec
-----------------------------------------------------------------------------
(***************************************************************************)
(* The memtable and the log.  What is needed besides the types: where      *)
(* replay stands, that the record being applied is the last of the log,    *)
(* and the range of the clock, which decides what an expiry time of 0      *)
(* means after a replay.                                                   *)
(***************************************************************************)
LogInv ==
  /\ pos >= 1
  /\ phase = "apply" => Len(wal) > 0 /\ wal[Len(wal)] = op
  /\ clock \in Epoch .. MaxClock

MirrorInv == LogInv /\ MemTableMirrorsLog

\* Arithmetic modulo the word size, as far as expiry times need it.
LEMMA ModFacts ==
  ASSUME NEW w \in Nat \ {0}, NEW a \in 0 .. w - 1
  PROVE  a % w = a /\ (a + w) % w = a /\ (a - w) % w = a
OBVIOUS

\* An expiry time of 0 is computed only for a TTL of 0, by put and by replay.
LEMMA ExpiryIsZeroOnlyWithoutTtl ==
  ASSUME NEW t \in Ttls, NEW now \in Epoch .. MaxClock
  PROVE  /\ ExpireTs(t, now) = 0 <=> t = 0
         /\ ExpireTs(ReplayTtl(t, now), now) = 0 <=> t = 0
<1> DEFINE w == WordMod
<1>1. /\ w \in Nat \ {0} /\ t \in Nat /\ now \in Nat
      /\ t < now /\ now + t < w /\ now > 0
  BY MemTableAssumption, LogAssumption, DbAssumption
  DEF MemTableAssumption, LogAssumption, DbAssumption
<1>2. (now + t) % w = now + t /\ (t + w) % w = t
  <2>1. now + t \in 0 .. w - 1 /\ t \in 0 .. w - 1
    BY <1>1
  <2> HIDE DEF w
  <2> QED BY <1>1, <2>1, ModFacts
<1>3. CASE t = 0
  BY <1>3 DEF ExpireTs, ReplayTtl
<1>4. CASE t # 0
  <2>1. ExpireTs(t, now) # 0
    BY <1>1, <1>2, <1>4 DEF ExpireTs
  <2> DEFINE a == t - now + w
  <2>2. a \in 0 .. w - 1 /\ a # 0 /\ a - w = t - now /\ now + a = t + w
    BY <1>1, <1>4
  <2>3. (a - w) % w = a
    <3> HIDE DEF a, w
    <3> QED BY <1>1, <2>2, ModFacts
  <2>4. ReplayTtl(t, now) = a
    BY <1>4, <2>2, <2>3 DEF ReplayTtl
  <2>5. ExpireTs(a, now) = t
    <3>1. (now + a) % w = t
      BY <1>2, <2>2
    <3> QED BY <2>2, <3>1 DEF ExpireTs
  <2> QED BY <1>4, <2>1, <2>4, <2>5
<1> QED BY <1>3, <1>4

\* Applying the record that follows all of I keeps the mirror.
LEMMA MirrorStep ==
  ASSUME NEW mt \in Table, NEW log, NEW I \in SUBSET Int, NEW n \in Int,
         \A i \in I : i < n,
         log[n] \in Record, NEW t \in Int, NEW now \in Int,
         ExpireTs(t, now) = 0 <=> log[n].ttl = 0,
         Mirrors(mt, log, I)
  PROVE  Mirrors(ApplyRecord(mt, log[n], t, now), log, I \union {n})
<1> DEFINE r == log[n]
           J == I \union {n}
           nt == ApplyRecord(mt, r, t, now)
<1>1. LastFor(log, J, r.key, n) /\ \A i \in J : LastFor(log, J, r.key, i) => i = n
  BY DEF LastFor
<1>2. \A k \in Keys : k # r.key =>
         \A i \in J : LastFor(log, J, k, i) <=> i \in I /\ LastFor(log, I, k, i)
  BY DEF LastFor
<1>3. r.key \in Keys /\ (r.type = "PUT" => r.val \in Vals)
  BY DEF Record, PutRecord, DelRecord
<1>4. nt[r.key] = IF r.type = "PUT" THEN [val |-> r.val, exp |-> ExpireTs(t, now)] ELSE NoEntry
  BY <1>3 DEF ApplyRecord, MtPut, MtDel, Table
<1>5. \A k \in Keys : k # r.key => nt[k] = mt[k]
  BY <1>3 DEF ApplyRecord, MtPut, MtDel, Table
<1>6. r.type = "PUT" => nt[r.key] # NoEntry
  <2>1. ExpireTs(t, now) \in Int
    BY MemTableAssumption DEF MemTableAssumption, ExpireTs
  <2> QED BY <1>3, <1>4, <2>1, MemTableAssumption DEF MemTableAssumption
<1> SUFFICES ASSUME NEW k \in Keys
             PROVE  /\ nt[k] # NoEntry =>
                         \E i \in J :
                            /\ LastFor(log, J, k, i)
                            /\ log[i].type = "PUT"
                            /\ nt[k].val = log[i].val
                            /\ nt[k].exp = 0 <=> log[i].ttl = 0
                    /\ \A i \in J :
                         LastFor(log, J, k, i) /\ log[i].type = "PUT" /\ log[i].ttl = 0
                           => nt[k] # NoEntry
  BY DEF Mirrors
<1>7. CASE k = r.key
  <2> HIDE DEF nt, J
  <2>1. nt[k] # NoEntry =>
          /\ r.type = "PUT" /\ nt[k].val = r.val
          /\ nt[k].exp = 0 <=> r.ttl = 0
    BY <1>4, <1>7
  <2>2. n \in J
    BY DEF J
  <2> QED BY <1>1, <1>6, <1>7, <2>1, <2>2
<1>8. CASE k # r.key
  <2> HIDE DEF nt
  <2>1. nt[k] = mt[k]
    BY <1>5, <1>8
  <2>2. \A i \in J : LastFor(log, J, k, i) <=> i \in I /\ LastFor(log, I, k, i)
    BY <1>2, <1>8
  <2> QED BY <2>1, <2>2 DEF Mirrors
<1> QED BY <1>7, <1>8

\* An empty memtable mirrors no records at all.
LEMMA MirrorsEmpty == ASSUME NEW log PROVE Mirrors(EmptyTable, log, {})
BY DEF Mirrors, EmptyTable

\* Only the records of I matter.
LEMMA MirrorsSame ==
  ASSUME NEW mt, NEW log, NEW log2, NEW I, \A i \in I : log2[i] = log[i], Mirrors(mt, log, I)
  PROVE  Mirrors(mt, log2, I)
<1>1. \A k \in Keys, i \in I : LastFor(log2, I, k, i) <=> LastFor(log, I, k, i)
  BY DEF LastFor
<1>2. \A i \in I : log2[i].type = log[i].type /\ log2[i].val = log[i].val /\ log2[i].ttl = log[i].ttl
  OBVIOUS
<1> SUFFICES ASSUME NEW k \in Keys
             PROVE  /\ mt[k] # NoEntry =>
                         \E i \in I :
                            /\ LastFor(log2, I, k, i)
                            /\ log2[i].type = "PUT"
                            /\ mt[k].val = log2[i].val
                            /\ mt[k].exp = 0 <=> log2[i].ttl = 0
                    /\ \A i \in I :
                         (LastFor(log2, I, k, i) /\ log2[i].type = "PUT" /\ log2[i].ttl = 0)
                           => mt[k] # NoEntry
  BY DEF Mirrors
<1> QED BY <1>1, <1>2 DEF Mirrors

\* A lookup removes only an entry that expires, so one put with a TTL.
LEMMA MirrorsGet ==
  ASSUME NEW mt \in Table, NEW log, NEW I \in SUBSET Int, NEW k \in Keys, NEW now \in Int,
         Mirrors(mt, log, I)
  PROVE  Mirrors(MtAfterGet(mt, k, now), log, I)
<1> DEFINE nt == MtAfterGet(mt, k, now)
<1>1. CASE nt = mt
  BY <1>1
<1>2. CASE nt # mt
  <2>1. nt = [mt EXCEPT ![k] = NoEntry] /\ mt[k] # NoEntry /\ mt[k].exp # 0
    BY <1>2 DEF MtAfterGet, MtDel, Live, Expired, Table
  <2>2. nt[k] = NoEntry /\ \A x \in Keys : x # k => nt[x] = mt[x]
    BY <2>1 DEF Table
  <2>3. PICK l \in I : LastFor(log, I, k, l) /\ log[l].ttl # 0
    BY <2>1 DEF Mirrors
  <2>4. \A i \in I : LastFor(log, I, k, i) => i = l
    BY <2>3 DEF LastFor
  <2>5. \A i \in I : LastFor(log, I, k, i) => log[i].ttl # 0
    BY <2>3, <2>4
  <2> HIDE DEF nt
  <2> SUFFICES ASSUME NEW x \in Keys
               PROVE  /\ nt[x] # NoEntry =>
                           \E i \in I :
                              /\ LastFor(log, I, x, i)
                              /\ log[i].type = "PUT"
                              /\ nt[x].val = log[i].val
                              /\ nt[x].exp = 0 <=> log[i].ttl = 0
                      /\ \A i \in I :
                           (LastFor(log, I, x, i) /\ log[i].type = "PUT" /\ log[i].ttl = 0)
                             => nt[x] # NoEntry
    BY DEF Mirrors, nt
  <2>6. CASE x = k
    BY <2>2, <2>5, <2>6
  <2>7. CASE x # k
    BY <2>2, <2>7 DEF Mirrors
  <2> QED BY <2>6, <2>7
<1> QED BY <1>1, <1>2

\* What put and replay make of a record's TTL is 0 only if the TTL is.
LEMMA RecordExpiry ==
  ASSUME NEW r \in Record, NEW now \in Epoch .. MaxClock
  PROVE  /\ ExpireTs(r.ttl, now) = 0 <=> r.ttl = 0
         /\ ExpireTs(ReplayTtl(r.ttl, now), now) = 0 <=> r.ttl = 0
         /\ r.ttl \in Int /\ ReplayTtl(r.ttl, now) \in Int /\ now \in Int
<1>1. CASE r.ttl = 0
  BY <1>1, DbAssumption DEF ExpireTs, ReplayTtl, DbAssumption
<1>2. CASE r.ttl # 0
  <2>1. r.ttl \in Ttls
    BY <1>2 DEF Record, PutRecord, DelRecord
  <2>2. r.ttl \in Int /\ ReplayTtl(r.ttl, now) \in Int /\ now \in Int
    <3>1. r.ttl \in Int
      BY TtlType
    <3>2. now \in Int /\ WordMod \in Nat \ {0}
      BY DbAssumption, MemTableAssumption DEF DbAssumption, MemTableAssumption
    <3> QED BY <3>1, <3>2 DEF ReplayTtl
  <2> QED BY <2>1, <2>2, ExpiryIsZeroOnlyWithoutTtl
<1> QED BY <1>1, <1>2

\* Every step keeps what LogInv says of the log and of the replay position.
LEMMA StepLogInv == IInv /\ LogInv /\ [Next]_vars => LogInv'
<1> SUFFICES ASSUME IInv, LogInv, [Next]_vars PROVE LogInv'
  OBVIOUS
<1>1. CASE AppendRecord
  <2>1. wal \in Seq(Record \union {TornRecord}) /\ wal' = Append(wal, op)
    BY <1>1 DEF AppendRecord, IInv, TypeOK
  <2>2. Len(wal') > 0 /\ wal'[Len(wal')] = op
    <3>1. Len(wal') = Len(wal) + 1 /\ Len(wal) \in Nat
      BY <2>1
    <3>2. wal'[Len(wal) + 1] = op
      BY <2>1
    <3> QED BY <3>1, <3>2
  <2> QED BY <1>1, <2>2 DEF AppendRecord, LogInv
<1>2. CASE ReplayRecord
  BY <1>2 DEF ReplayRecord, LogInv, IInv, TypeOK, disk
<1>3. CASE Tick
  BY <1>3, DbAssumption DEF Tick, LogInv, disk, DbAssumption
<1>4. CASE phase' # "apply" /\ pos' \in {pos, 1} /\ clock' = clock
  BY <1>4 DEF LogInv
<1>5. CASE UNCHANGED vars
  BY <1>5 DEF vars, LogInv
<1>6. \/ AppendRecord \/ ReplayRecord \/ Tick \/ UNCHANGED vars
      \/ phase' # "apply" /\ pos' \in {pos, 1} /\ clock' = clock
  BY DEF Next, Step, Stop, Call, ApplyToMemTable, CreateSst, InstallSst, RotateWal,
         ReplayEnds, ReadKey, ScanKeys, Crash, Close, ReadAborts, Open
<1> QED BY <1>1, <1>2, <1>3, <1>4, <1>5, <1>6

\* The memtable after the record in hand mirrors the whole log.
LEMMA ApplyMirrors ==
  ASSUME IInv, MirrorInv, phase = "apply", Undamaged(wal)
  PROVE  Mirrors(ApplyRecord(active, op, op.ttl, clock), wal, DOMAIN wal)
<1> DEFINE N == Len(wal)
           I == DOMAIN wal \ {N}
<1>0. /\ N \in Nat /\ DOMAIN wal = 1..N /\ clock \in Epoch .. MaxClock
      /\ active \in Table
  BY DEF IInv, TypeOK, MirrorInv, LogInv
<1>1. N > 0 /\ wal[N] = op /\ op \in Record
  BY DEF MirrorInv, LogInv, IInv, PhaseInv, TypeOK
<1>2. Mirrors(active, wal, I)
  BY DEF MirrorInv, MemTableMirrorsLog, AppliedRecords
<1>3. I \in SUBSET Int /\ (\A i \in I : i < N) /\ DOMAIN wal = I \union {N}
  BY <1>0, <1>1
<1>4. /\ ExpireTs(wal[N].ttl, clock) = 0 <=> wal[N].ttl = 0
      /\ wal[N].ttl \in Int /\ clock \in Int
  BY <1>0, <1>1, RecordExpiry
<1>5. wal[N] \in Record /\ N \in Int
  BY <1>0, <1>1
<1> HIDE DEF N, I
<1>6. Mirrors(ApplyRecord(active, wal[N], wal[N].ttl, clock), wal, I \union {N})
  BY <1>0, <1>2, <1>3, <1>4, <1>5, MirrorStep
<1> QED BY <1>1, <1>3, <1>6

\* Every step keeps the active memtable a mirror of the log.
LEMMA StepMirrors ==
  ASSUME IInv, MirrorInv, [Next]_vars PROVE MemTableMirrorsLog'
<1> USE DEF IInv, MirrorInv
<1> DEFINE N == Len(wal)
<1>0. N \in Nat /\ DOMAIN wal = 1..N /\ clock \in Epoch .. MaxClock
  BY DEF TypeOK, LogInv
<1>1. CASE AppendRecord
  <2> SUFFICES ASSUME Undamaged(wal)' PROVE Mirrors(active', wal', AppliedRecords')
    BY <1>1 DEF AppendRecord, MemTableMirrorsLog
  <2>1. wal \in Seq(Record \union {TornRecord}) /\ wal' = Append(wal, op)
    BY <1>1 DEF AppendRecord, TypeOK
  <2>2. Len(wal') = N + 1 /\ DOMAIN wal' = 1..N+1 /\ \A i \in 1..N : wal'[i] = wal[i]
    BY <2>1
  <2>3. Undamaged(wal)
    BY <1>0, <2>2 DEF Undamaged
  <2>4. Mirrors(active, wal, DOMAIN wal)
    BY <1>1, <2>3 DEF AppendRecord, MemTableMirrorsLog, AppliedRecords
  <2>5. AppliedRecords' = DOMAIN wal
    BY <1>0, <1>1, <2>2 DEF AppendRecord, AppliedRecords
  <2>6. Mirrors(active, wal', DOMAIN wal)
    BY <1>0, <2>2, <2>4, MirrorsSame
  <2> QED BY <1>1, <2>5, <2>6 DEF AppendRecord, memory
<1>2. CASE ApplyToMemTable
  <2> SUFFICES ASSUME phase' = "idle", Undamaged(wal)
               PROVE  Mirrors(active', wal', AppliedRecords')
    BY <1>2 DEF ApplyToMemTable, MemTableMirrorsLog, disk
  <2>1. phase = "apply" /\ active' = ApplyRecord(active, op, op.ttl, clock)
    BY <1>2 DEF ApplyToMemTable
  <2>2. wal' = wal /\ AppliedRecords' = DOMAIN wal
    BY <1>2 DEF ApplyToMemTable, AppliedRecords, disk
  <2> QED BY <2>1, <2>2, ApplyMirrors
<1>3. CASE RotateWal
  <2>1. active' = EmptyTable
    BY <1>3 DEF RotateWal, PhaseInv, memory
  <2>2. AppliedRecords' = {}
    BY <1>3 DEF RotateWal, AppliedRecords
  <2> QED BY <2>1, <2>2, MirrorsEmpty DEF MemTableMirrorsLog
<1>4. CASE Open
  <2>1. active' = EmptyTable
    BY <1>4 DEF Open, PhaseInv
  <2>2. AppliedRecords' = {}
    BY <1>0, <1>4 DEF Open, AppliedRecords, Readable, disk
  <2> QED BY <2>1, <2>2, MirrorsEmpty DEF MemTableMirrorsLog
<1>5. CASE ReplayRecord
  <2> DEFINE I == {i \in Readable(wal) : i < pos}
             r == wal[pos]
  <2>1. pos \in Readable(wal) /\ pos \in 1..N /\ r \in Record /\ wal' = wal /\ pos' = pos + 1
    BY <1>0, <1>5 DEF ReplayRecord, Readable, TypeOK, disk
  <2>2. active' = ApplyRecord(active, r, ReplayTtl(r.ttl, clock), clock)
    BY <1>5 DEF ReplayRecord
  <2>3. Mirrors(active, wal, I)
    BY <1>5 DEF ReplayRecord, MemTableMirrorsLog, AppliedRecords
  <2>4. I \in SUBSET Int /\ \A i \in I : i < pos
    BY <1>0 DEF Readable
  <2>5. AppliedRecords' = I \union {pos}
    BY <1>0, <1>5, <2>1 DEF ReplayRecord, AppliedRecords, Readable
  <2>6. Mirrors(active', wal, I \union {pos})
    <3> HIDE DEF I, r
    <3>1. active \in Table
      BY DEF TypeOK
    <3>2. /\ ExpireTs(ReplayTtl(r.ttl, clock), clock) = 0 <=> r.ttl = 0
          /\ ReplayTtl(r.ttl, clock) \in Int /\ clock \in Int
      BY <1>0, <2>1, RecordExpiry
    <3>3. wal[pos] \in Record /\ pos \in Int /\ wal[pos] = r
      BY <2>1 DEF r
    <3>4. Mirrors(ApplyRecord(active, wal[pos], ReplayTtl(r.ttl, clock), clock), wal, I \union {pos})
      BY <2>3, <2>4, <3>1, <3>2, <3>3, MirrorStep
    <3> QED BY <2>2, <3>3, <3>4
  <2> QED BY <2>1, <2>5, <2>6 DEF MemTableMirrorsLog
<1>6. CASE ReplayEnds
  <2> SUFFICES ASSUME Undamaged(wal) PROVE Mirrors(active', wal', AppliedRecords')
    BY <1>6 DEF ReplayEnds, MemTableMirrorsLog, disk
  <2>1. Readable(wal) = 1..N
    BY <1>0 DEF Readable, Undamaged
  <2>2. pos > N
    BY <1>0, <1>6, <2>1 DEF ReplayEnds, LogInv, TypeOK
  <2>3. AppliedRecords = 1..N /\ AppliedRecords' = 1..N
    BY <1>0, <1>6, <2>1, <2>2 DEF ReplayEnds, AppliedRecords, TypeOK, disk
  <2>4. Mirrors(active, wal, 1..N)
    BY <1>6, <2>3 DEF ReplayEnds, MemTableMirrorsLog
  <2> QED BY <1>6, <2>3, <2>4 DEF ReplayEnds, disk, memory
<1>7. ASSUME NEW k \in Keys, ReadKey(k) PROVE MemTableMirrorsLog'
  <2> SUFFICES ASSUME Undamaged(wal) PROVE Mirrors(active', wal', AppliedRecords')
    BY <1>7 DEF ReadKey, MemTableMirrorsLog, disk
  <2>1. Mirrors(active, wal, DOMAIN wal) /\ active \in Table /\ clock \in Int
    BY <1>7, <1>0, DbAssumption DEF ReadKey, MemTableMirrorsLog, AppliedRecords, TypeOK, DbAssumption
  <2>2. Mirrors(MtAfterGet(active, k, clock), wal, DOMAIN wal)
    BY <1>0, <2>1, MirrorsGet
  <2> QED BY <1>7, <2>2 DEF ReadKey, AppliedRecords, disk
<1>8. CASE phase' \notin {"replay", "idle", "log", "apply"}
  BY <1>8 DEF MemTableMirrorsLog
<1>9. CASE /\ wal' = wal /\ active' = active /\ pos' = pos
           /\ (phase' = phase \/ (phase = "idle" /\ phase' = "log"))
  BY <1>9 DEF MemTableMirrorsLog, AppliedRecords
<1>10. \/ AppendRecord \/ ApplyToMemTable \/ RotateWal \/ Open \/ ReplayRecord \/ ReplayEnds
       \/ \E k \in Keys : ReadKey(k)
       \/ phase' \notin {"replay", "idle", "log", "apply"}
       \/ /\ wal' = wal /\ active' = active /\ pos' = pos
          /\ (phase' = phase \/ (phase = "idle" /\ phase' = "log"))
  BY DEF Next, Step, Stop, vars, disk, memory, Call, CreateSst, InstallSst, ScanKeys,
         Crash, Close, ReadAborts, Tick
<1> QED BY <1>1, <1>2, <1>3, <1>4, <1>5, <1>6, <1>7, <1>8, <1>9, <1>10

\* While the log is undamaged a crash loses nothing that is in memory: the
\* memtable is, key by key, what the records in the log make of it.
THEOREM MemTableIsInTheLog == Spec => []MemTableMirrorsLog
<1>1. Init => IInv /\ MirrorInv
  BY InitIInv, DbAssumption DEF Init, MirrorInv, LogInv, MemTableMirrorsLog, DbAssumption
<1>2. IInv /\ MirrorInv /\ [Next]_vars => (IInv /\ MirrorInv)'
  BY NextIInv, StepLogInv, StepMirrors DEF MirrorInv
<1>3. MirrorInv => MemTableMirrorsLog
  BY DEF MirrorInv
<1> QED BY <1>1, <1>2, <1>3, PTL DEF Spec
=============================================================================
