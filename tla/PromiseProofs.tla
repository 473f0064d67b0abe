---------------------------- MODULE PromiseProofs ----------------------------
(***************************************************************************)
(* What a flush and a crash keep: NothingLostByRotation for every value of *)
(* the constants, and that the engine implements KVStore (KeepsPromise)    *)
(* when no TTL is set and file numbers have one digit.                     *)
(***************************************************************************)
EXTENDS MiniVaultProofs

\* The files that answer a key have a newest one.
LEMMA NewestHolder ==
  ASSUME NEW d, NEW k, Holders(d, k) # {}
  PROVE  /\ LastOf(Holders(d, k)) \in Holders(d, k)
         /\ \A j \in Holders(d, k) : j <= LastOf(Holders(d, k))
<1>1. MaxSst \in Nat /\ Holders(d, k) \in SUBSET (0 .. MaxSst)
  BY SstAssumption DEF Holders, Ids, SstAssumption
<1> QED BY <1>1, LastOfIsLast

\* With the same holders and contents, the files answer alike.
LEMMA SameHoldersAnswerAlike ==
  ASSUME NEW d, NEW e, NEW k,
         Holders(e, k) = Holders(d, k),
         \A i \in Holders(d, k) : e[i] = d[i]
  PROVE  FileValue(e, k) = FileValue(d, k)
BY NewestHolder DEF FileValue

\* A new, complete file of the highest number answers for the keys it has.
LEMMA FlushedFileAnswers ==
  ASSUME NEW d \in Disk, NEW n \in Ids, NEW c \in Contents, NEW k \in Keys,
         d[n] \in {NoFile, TornFile}, \A i \in Ids : i > n => d[i] = NoFile
  PROVE  FileValue([d EXCEPT ![n] = c], k)
           = IF c[k] # Missing THEN c[k] ELSE FileValue(d, k)
<1> DEFINE e == [d EXCEPT ![n] = c]
<1>1. e[n] = c /\ c \notin {NoFile, TornFile} /\ \A i \in Ids : i # n => e[i] = d[i]
  BY SstAssumption DEF Disk, SstAssumption
<1>2. n \notin Holders(d, k)
  BY DEF Holders, Complete
<1> HIDE DEF e
<1>3. CASE c[k] # Missing
  <2>1. n \in Holders(e, k)
    BY <1>1, <1>3 DEF Holders, Complete
  <2>2. \A i \in Holders(e, k) : i <= n
    BY <1>1 DEF Holders, Complete, Ids
  <2>3. LastOf(Holders(e, k)) = n
    <3>1. \A i \in Holders(e, k) : i \in Int
      BY DEF Holders, Ids
    <3>2. LastOf(Holders(e, k)) \in Holders(e, k) /\ n <= LastOf(Holders(e, k))
      BY <2>1, NewestHolder
    <3> QED BY <2>1, <2>2, <3>1, <3>2
  <2>4. FileValue(e, k) = c[k]
    BY <1>1, <2>1, <2>3 DEF FileValue
  <2> QED BY <1>3, <2>4 DEF e
<1>4. CASE c[k] = Missing
  <2>1. Holders(e, k) = Holders(d, k)
    BY <1>1, <1>2, <1>4 DEF Holders, Complete
  <2>2. \A i \in Holders(d, k) : e[i] = d[i]
    BY <1>1, <1>2 DEF Holders
  <2>3. FileValue(e, k) = FileValue(d, k)
    BY <2>1, <2>2, SameHoldersAnswerAlike
  <2> QED BY <1>4, <2>3 DEF e
<1> QED BY <1>3, <1>4

\* A file without footer answers nothing.
LEMMA TornFileAnswersNothing ==
  ASSUME NEW d \in Disk, NEW n \in Ids, NEW k \in Keys, d[n] = NoFile
  PROVE  FileValue([d EXCEPT ![n] = TornFile], k) = FileValue(d, k)
<1> DEFINE e == [d EXCEPT ![n] = TornFile]
<1>1. e[n] = TornFile /\ \A i \in Ids : i # n => e[i] = d[i]
  BY DEF Disk
<1> HIDE DEF e
<1>2. n \notin Holders(d, k) /\ n \notin Holders(e, k)
  BY <1>1 DEF Holders, Complete
<1>3. Holders(e, k) = Holders(d, k) /\ \A i \in Holders(d, k) : e[i] = d[i]
  BY <1>1, <1>2 DEF Holders, Complete
<1> QED BY <1>3, SameHoldersAnswerAlike DEF e

\* The file an InstallSst completes is the newest, and it was torn before.
LEMMA InstallAnswers ==
  ASSUME IInv, InstallSst, NEW k \in Keys
  PROVE  /\ immutable \in Table /\ clock \in Nat
         /\ FileValue(sst', k) = IF Live(immutable, k, clock) THEN immutable[k].val
                                                              ELSE FileValue(sst, k)
<1> DEFINE n == nextId - 1
           c == FlushContents(immutable, clock)
<1>1. n \in Ids /\ sst \in Disk /\ clock \in Nat
  BY SstAssumption DEF InstallSst, IInv, PhaseInv, TypeOK, Ids, SstAssumption
<1>2. immutable \in Table
  BY DEF InstallSst, IInv, PhaseInv, FrozenOnlyDuringFlush, TypeOK
<1>3. c \in Contents
  BY <1>2 DEF FlushContents, Contents, Table, Entry, Live
<1>4. sst[n] = TornFile /\ \A i \in Ids : i > n => sst[i] = NoFile
  <2>1. nextId \in Int
    BY DEF IInv, TypeOK
  <2> QED BY <2>1 DEF InstallSst, IInv, FilesInv, Ids
<1>5. sst' = [sst EXCEPT ![n] = c]
  BY DEF InstallSst
<1>6. c[k] # Missing <=> Live(immutable, k, clock)
  BY <1>2, MemTableAssumption DEF FlushContents, Table, Entry, Live, MemTableAssumption
<1>7. Live(immutable, k, clock) => c[k] = immutable[k].val
  BY DEF FlushContents
<1> HIDE DEF n, c
<1>8. FileValue(sst', k) = IF c[k] # Missing THEN c[k] ELSE FileValue(sst, k)
  BY <1>1, <1>3, <1>4, <1>5, FlushedFileAnswers
<1> QED BY <1>1, <1>2, <1>6, <1>7, <1>8
-----------------------------------------------------------------------------
(***************************************************************************)
(* Rotation.  From the freezing of the memtable to the rotation of the log *)
(* the frozen table is the one that mirrors the log.                       *)
(***************************************************************************)
FlushInv ==
  /\ phase \in {"build", "install"} /\ Undamaged(wal)
       => Mirrors(immutable, wal, DOMAIN wal)
  /\ NothingLostByRotation

\* Every step keeps what a flush relies on.
LEMMA StepFlushInv ==
  ASSUME IInv, MirrorInv, FlushInv, [Next]_vars
  PROVE  FlushInv'
<1>1. CASE ApplyToMemTable
  <2>1. /\ phase = "apply" /\ wal' = wal /\ phase' \in {"build", "idle"}
        /\ phase' = "build" => immutable' = ApplyRecord(active, op, op.ttl, clock)
    BY <1>1 DEF ApplyToMemTable, disk
  <2> QED BY <2>1, ApplyMirrors DEF FlushInv, NothingLostByRotation
<1>2. CASE CreateSst
  BY <1>2 DEF CreateSst, FlushInv, NothingLostByRotation
<1>3. CASE InstallSst
  <2>1. phase = "install" /\ phase' = "rotate" /\ wal' = wal
    BY <1>3 DEF InstallSst
  <2> SUFFICES ASSUME Undamaged(wal), NEW i \in DOMAIN wal,
                      LastFor(wal, DOMAIN wal, wal[i].key, i),
                      wal[i].type = "PUT", wal[i].ttl = 0
               PROVE  FileValue(sst', wal[i].key) = wal[i].val
    BY <2>1 DEF FlushInv, NothingLostByRotation
  <2> DEFINE k == wal[i].key
  <2>2. wal \in Seq(Record \union {TornRecord}) /\ wal[i] # TornRecord
    BY DEF IInv, TypeOK, Undamaged
  <2>3. wal[i] \in Record
    BY <2>2
  <2>4. k \in Keys
    BY <2>3 DEF Record, PutRecord, DelRecord
  <2>5. Mirrors(immutable, wal, DOMAIN wal)
    BY <2>1 DEF FlushInv
  <2>6. immutable[k] # NoEntry
    BY <2>4, <2>5 DEF Mirrors
  <2>7. PICK j \in DOMAIN wal : /\ LastFor(wal, DOMAIN wal, k, j)
                                /\ immutable[k].val = wal[j].val
                                /\ immutable[k].exp = 0 <=> wal[j].ttl = 0
    BY <2>4, <2>5, <2>6 DEF Mirrors
  <2>8. j = i
    <3>1. i \in Int /\ j \in Int
      BY <2>2
    <3>2. i <= j /\ j <= i
      BY <2>7 DEF LastFor
    <3> QED BY <3>1, <3>2
  <2>9. Live(immutable, k, clock)
    BY <2>6, <2>7, <2>8 DEF Live, Expired
  <2> QED BY <1>3, <2>4, <2>7, <2>8, <2>9, InstallAnswers
<1>4. CASE phase' \notin {"build", "install", "rotate"}
  BY <1>4 DEF FlushInv, NothingLostByRotation
<1>5. CASE UNCHANGED vars
  BY <1>5 DEF vars, FlushInv, NothingLostByRotation
<1>6. \/ ApplyToMemTable \/ CreateSst \/ InstallSst \/ UNCHANGED vars
      \/ phase' \notin {"build", "install", "rotate"}
  BY DEF Next, Step, Stop, disk, memory, Call, AppendRecord, RotateWal, ReplayRecord,
         ReplayEnds, ReadKey, ScanKeys, Crash, Close, ReadAborts, Open, Tick
<1> QED BY <1>1, <1>2, <1>3, <1>4, <1>5, <1>6

\* flush_immutable leaves no key behind, whatever the log, the memtable and
\* the files held: the log may be emptied.
THEOREM RotationLosesNothing == Spec => []NothingLostByRotation
<1>1. Init => IInv /\ MirrorInv /\ FlushInv
  BY InitIInv, DbAssumption
  DEF Init, MirrorInv, LogInv, MemTableMirrorsLog, FlushInv, NothingLostByRotation, DbAssumption
<1>2. IInv /\ MirrorInv /\ FlushInv /\ [Next]_vars => (IInv /\ MirrorInv /\ FlushInv)'
  BY NextIInv, StepLogInv, StepMirrors, StepFlushInv DEF MirrorInv
<1>3. FlushInv => NothingLostByRotation
  BY DEF FlushInv
<1> QED BY <1>1, <1>2, <1>3, PTL DEF Spec
-----------------------------------------------------------------------------
(***************************************************************************)
(* The refinement, for a store without TTLs.  First the operators the      *)
(* refinement mapping is made of, then its steps in terms of what they     *)
(* answer, then the steps of the engine.                                   *)
(***************************************************************************)

\* The last record about a key decides.
LEMMA LastDecides ==
  ASSUME NEW log, NEW I \in SUBSET Int, NEW k, NEW base,
         NEW i \in I, LastFor(log, I, k, i)
  PROVE  LoggedOver(log, I, k, base) = IF log[i].type = "PUT" THEN log[i].val ELSE base
<1>1. \A j \in I : LastFor(log, I, k, j) => j = i
  BY DEF LastFor
<1>2. (CHOOSE j \in I : LastFor(log, I, k, j)) = i
  BY <1>1
<1> QED BY <1>1, <1>2 DEF LoggedOver

\* Without one, the base does.
LEMMA NoneDecides ==
  ASSUME NEW log, NEW I, NEW k, NEW base, \A i \in I : ~LastFor(log, I, k, i)
  PROVE  LoggedOver(log, I, k, base) = base
BY DEF LoggedOver

\* Logs that have the same last records about a key answer alike.
LEMMA SameLastDecides ==
  ASSUME NEW log, NEW log2, NEW I \in SUBSET Int, NEW J \in SUBSET Int, NEW k, NEW base,
         \A i \in J : LastFor(log2, J, k, i) <=> i \in I /\ LastFor(log, I, k, i),
         \A i \in I : LastFor(log, I, k, i) => i \in J /\ log2[i] = log[i]
  PROVE  LoggedOver(log2, J, k, base) = LoggedOver(log, I, k, base)
<1>1. ASSUME NEW i \in I, LastFor(log, I, k, i)
      PROVE  LoggedOver(log2, J, k, base) = LoggedOver(log, I, k, base)
  <2>1. i \in J /\ log2[i] = log[i] /\ LastFor(log2, J, k, i)
    BY <1>1
  <2>2. LoggedOver(log, I, k, base) = IF log[i].type = "PUT" THEN log[i].val ELSE base
    BY <1>1, LastDecides
  <2>3. LoggedOver(log2, J, k, base) = IF log2[i].type = "PUT" THEN log2[i].val ELSE base
    BY <2>1, LastDecides
  <2> QED BY <2>1, <2>2, <2>3
<1>2. CASE \A i \in I : ~LastFor(log, I, k, i)
  <2>1. \A i \in J : ~LastFor(log2, J, k, i)
    BY <1>2
  <2> QED BY <1>2, <2>1, NoneDecides
<1> QED BY <1>1, <1>2

\* A whole record behind an undamaged log is the last word on its key.
LEMMA AppendDecides ==
  ASSUME NEW log \in Seq(Record \union {TornRecord}), NEW r \in Record,
         Undamaged(log), NEW k, NEW base
  PROVE  /\ Undamaged(Append(log, r))
         /\ LoggedOver(Append(log, r), Readable(Append(log, r)), k, base)
              = IF k # r.key THEN LoggedOver(log, Readable(log), k, base)
                ELSE IF r.type = "PUT" THEN r.val ELSE base
<1> DEFINE N == Len(log)
           log2 == Append(log, r)
<1>1. /\ N \in Nat /\ DOMAIN log = 1 .. N /\ DOMAIN log2 = 1 .. N + 1
      /\ \A i \in 1 .. N : log2[i] = log[i]
      /\ log2[N + 1] = r
  OBVIOUS
<1>2. r # TornRecord
  BY LogAssumption DEF LogAssumption
<1> HIDE DEF N, log2
<1>3. Undamaged(log2)
  BY <1>1, <1>2 DEF Undamaged
<1>4. Readable(log) = 1 .. N /\ Readable(log2) = 1 .. N + 1
  BY <1>1, <1>3 DEF Readable, Undamaged
<1>5. 1 .. N \in SUBSET Int /\ 1 .. N + 1 \in SUBSET Int
  BY <1>1
<1>6. CASE k = r.key
  <2>1. N + 1 \in 1 .. N + 1 /\ LastFor(log2, 1 .. N + 1, k, N + 1)
    BY <1>1, <1>6 DEF LastFor
  <2>2. LoggedOver(log2, 1 .. N + 1, k, base)
          = IF log2[N + 1].type = "PUT" THEN log2[N + 1].val ELSE base
    BY <1>5, <2>1, LastDecides
  <2> QED BY <1>1, <1>3, <1>4, <1>6, <2>2 DEF log2
<1>7. CASE k # r.key
  <2> DEFINE I == 1 .. N
             J == 1 .. N + 1
  <2>1. \A i \in J : LastFor(log2, J, k, i) <=> i \in I /\ LastFor(log, I, k, i)
    BY <1>1, <1>7 DEF LastFor
  <2>2. \A i \in I : LastFor(log, I, k, i) => i \in J /\ log2[i] = log[i]
    BY <1>1
  <2>3. LoggedOver(log2, J, k, base) = LoggedOver(log, I, k, base)
    <3> HIDE DEF I, J
    <3>1. I \in SUBSET Int /\ J \in SUBSET Int
      BY <1>5 DEF I, J
    <3> QED BY <2>1, <2>2, <3>1, SameLastDecides
  <2> QED BY <1>3, <1>4, <1>7, <2>3 DEF log2
<1> QED BY <1>6, <1>7

\* A record behind a torn one, and a torn one anywhere, are not read.
LEMMA AppendUnread ==
  ASSUME NEW log \in Seq(Record \union {TornRecord}), NEW r \in Record \union {TornRecord},
         ~Undamaged(log) \/ r = TornRecord, NEW k, NEW base
  PROVE  /\ ~Undamaged(Append(log, r))
         /\ LoggedOver(Append(log, r), Readable(Append(log, r)), k, base)
              = LoggedOver(log, Readable(log), k, base)
<1> DEFINE N == Len(log)
           log2 == Append(log, r)
<1>1. /\ N \in Nat /\ DOMAIN log = 1 .. N /\ DOMAIN log2 = 1 .. N + 1
      /\ \A i \in 1 .. N : log2[i] = log[i]
      /\ log2[N + 1] = r
  OBVIOUS
<1> HIDE DEF N, log2
<1>2. ~Undamaged(log2)
  BY <1>1 DEF Undamaged
<1>3. N + 1 \notin Readable(log2)
  BY <1>1 DEF Readable, Undamaged
<1>4. Readable(log2) = Readable(log)
  <2>1. ASSUME NEW i \in 1 .. N PROVE i \in Readable(log2) <=> i \in Readable(log)
    BY <1>1 DEF Readable
  <2> QED BY <1>1, <1>3, <2>1 DEF Readable
<1>5. Readable(log) \in SUBSET Int /\ \A i \in Readable(log) : log2[i] = log[i]
  BY <1>1 DEF Readable
<1>6. \A i \in Readable(log) :
        LastFor(log2, Readable(log), k, i) <=> LastFor(log, Readable(log), k, i)
  BY <1>5 DEF LastFor
<1>7. LoggedOver(log2, Readable(log), k, base) = LoggedOver(log, Readable(log), k, base)
  BY <1>5, <1>6, SameLastDecides
<1> QED BY <1>2, <1>4, <1>7 DEF log2

\* No record of I sets a TTL.
NoTtl(log, I) == \A i \in I : log[i].ttl = 0

\* A memtable that mirrors records without TTL answers as they do.
LEMMA MirrorAnswers ==
  ASSUME NEW mt \in Table, NEW log, NEW I \in SUBSET Int, NEW base, NEW k \in Keys,
         Mirrors(mt, log, I), NoTtl(log, I)
  PROVE  /\ mt[k] # NoEntry => LoggedOver(log, I, k, base) = mt[k].val
         /\ mt[k] = NoEntry => LoggedOver(log, I, k, base) = base
<1>1. CASE mt[k] # NoEntry
  <2>1. PICK i \in I : /\ LastFor(log, I, k, i) /\ log[i].type = "PUT"
                       /\ mt[k].val = log[i].val
    BY <1>1 DEF Mirrors
  <2>2. LoggedOver(log, I, k, base) = IF log[i].type = "PUT" THEN log[i].val ELSE base
    BY <2>1, LastDecides
  <2> QED BY <1>1, <2>1, <2>2
<1>2. CASE mt[k] = NoEntry
  <2>1. ASSUME NEW i \in I, LastFor(log, I, k, i)
        PROVE  LoggedOver(log, I, k, base) = base
    <3>1. log[i].type # "PUT"
      BY <1>2, <2>1 DEF Mirrors, NoTtl
    <3> QED BY <2>1, <3>1, LastDecides
  <2> QED BY <1>2, <2>1, NoneDecides
<1> QED BY <1>1, <1>2

\* With the files listed by age, a lookup that meets no torn file answers
\* as the files do.
LEMMA LookupAnswers ==
  ASSUME IInv, ByAge, phase = "idle", NEW k \in Keys, Lookup(sst, files, k) # TornFile
  PROVE  Lookup(sst, files, k) = FileValue(sst, k)
<1> DEFINE I == Answers(sst, files, k)
           H == Holders(sst, k)
<1>1. /\ Len(files) \in Nat /\ DOMAIN files = 1 .. Len(files)
      /\ \A i \in DOMAIN files : files[i] \in Ids /\ files[i] \in Int
  <2>1. files \in Seq(Ids)
    BY DEF IInv, TypeOK
  <2>2. /\ Len(files) \in Nat /\ DOMAIN files = 1 .. Len(files)
        /\ \A i \in DOMAIN files : files[i] \in Ids
    BY <2>1
  <2>3. \A n \in Ids : n \in Int
    BY DEF Ids
  <2> QED BY <2>2, <2>3
<1>2. {files[i] : i \in DOMAIN files} = OnDisk(sst)
  BY DEF IInv, FilesInv, Listed
<1>3. ASSUME NEW h \in H PROVE \E j \in I : files[j] = h
  <2>1. h \in OnDisk(sst) /\ sst[h][k] # Missing
    BY DEF Holders, Complete, OnDisk
  <2> QED BY <1>2, <2>1 DEF Answers
<1>4. CASE I = {}
  <2>1. H = {}
    BY <1>3, <1>4
  <2> QED BY <1>4, <2>1 DEF Lookup, FileValue
<1>5. CASE I # {}
  <2> DEFINE m == LastOf(I)
  <2>1. m \in I /\ \A j \in I : j <= m
    <3>1. I \in SUBSET (0 .. Len(files))
      BY <1>1 DEF Answers
    <3> HIDE DEF I
    <3> QED BY <1>1, <1>5, <3>1, LastOfIsLast
  <2>2. m \in DOMAIN files /\ sst[files[m]] # TornFile
    BY <1>5, <2>1 DEF Lookup, Answers
  <2>3. files[m] \in H
    <3>1. files[m] \in OnDisk(sst) /\ sst[files[m]][k] # Missing
      BY <1>2, <2>1, <2>2 DEF Answers
    <3> QED BY <2>2, <3>1 DEF Holders, Complete, OnDisk
  <2>4. ASSUME NEW h \in H PROVE h <= files[m]
    <3>1. PICK j \in I : files[j] = h
      BY <1>3
    <3>2. j \in DOMAIN files /\ j <= m
      BY <2>1 DEF Answers
    <3>3. j < m \/ j = m
      BY <1>1, <2>2, <3>2
    <3>4. files[j] < files[m] \/ files[j] = files[m]
      BY <2>2, <3>2, <3>3 DEF ByAge
    <3> QED BY <1>1, <2>2, <3>1, <3>2, <3>4
  <2>5. LastOf(H) = files[m]
    <3>1. \A h \in H : h \in Int
      BY DEF Holders, Ids
    <3>2. LastOf(H) \in H /\ files[m] <= LastOf(H)
      BY <2>3, NewestHolder
    <3> HIDE DEF m, H
    <3> QED BY <2>3, <2>4, <3>1, <3>2
  <2> QED BY <1>5, <2>2, <2>3, <2>5 DEF Lookup, FileValue
<1> QED BY <1>4, <1>5
-----------------------------------------------------------------------------
\* The steps of KVStore, in terms of what the engine answers.

Stays == /\ \A k \in Keys : /\ Current(k)' = Current(k)
                             /\ Recoverable(k)' = Recoverable(k)
                             /\ FileValue(sst', k) = FileValue(sst, k)
         /\ Undamaged(wal') <=> Undamaged(wal)

\* Nothing a client could tell apart has changed.
LEMMA StoreStands ==
  ASSUME Stays, reply' = reply
  PROVE  UNCHANGED Promise!vars
BY DEF Stays, Promise!vars

\* A write.
LEMMA StoreWrites ==
  ASSUME NEW x \in Keys, NEW a,
         \A k \in Keys :
           /\ Current(k)' = IF k = x THEN a ELSE Current(k)
           /\ Recoverable(k)' = IF k = x /\ Undamaged(wal) THEN a ELSE Recoverable(k)
           /\ FileValue(sst', k) = FileValue(sst, k),
         Undamaged(wal') <=> Undamaged(wal), reply' = NoReply
  PROVE  Promise!Write(x, a)
<1>1. [k \in Keys |-> Current(k)]' = [[k \in Keys |-> Current(k)] EXCEPT ![x] = a]
  OBVIOUS
<1>2. [k \in Keys |-> Recoverable(k)]'
        = IF Undamaged(wal) THEN [[k \in Keys |-> Recoverable(k)] EXCEPT ![x] = a]
                            ELSE [k \in Keys |-> Recoverable(k)]
  OBVIOUS
<1>3. [k \in Keys |-> FileValue(sst, k)]' = [k \in Keys |-> FileValue(sst, k)]
  OBVIOUS
<1> QED BY <1>1, <1>2, <1>3 DEF Promise!Write, Promise!NoReply, NoReply

\* A read.
LEMMA StoreReads ==
  ASSUME NEW P \in SUBSET Keys, Stays, reply' = [k \in P |-> Current(k)]
  PROVE  Promise!Read(P)
<1>1. reply' = [k \in P |-> [x \in Keys |-> Current(x)][k]]
  OBVIOUS
<1> QED BY <1>1 DEF Stays, Promise!Read

\* The end of the process.
LEMMA StoreCrashes ==
  ASSUME \A k \in Keys : /\ Current(k)' = Recoverable(k)
                         /\ Recoverable(k)' = Recoverable(k)
                         /\ FileValue(sst', k) = FileValue(sst, k),
         ~Undamaged(wal) => ~Undamaged(wal'), reply' = NoReply
  PROVE  Promise!Crash
BY DEF Promise!Crash, Promise!NoReply, NoReply

\* The completion of a file.
LEMMA StoreFlushes ==
  ASSUME \A k \in Keys : /\ Current(k)' = Current(k)
                         /\ Recoverable(k)' \in {Recoverable(k), Current(k)}
                         /\ Recoverable(k)' \in Answer
                         /\ FileValue(sst', k) = Current(k),
         Undamaged(wal') <=> Undamaged(wal), reply' = reply
  PROVE  Promise!Flush
<1> DEFINE r == [k \in Keys |-> Recoverable(k)]'
<1>1. r \in [Keys -> Answer]
  OBVIOUS
<1>2. \A k \in Keys : r[k] \in {[x \in Keys |-> Recoverable(x)][k], [x \in Keys |-> Current(x)][k]}
  OBVIOUS
<1>3. [k \in Keys |-> FileValue(sst, k)]' = [k \in Keys |-> Current(k)]
  OBVIOUS
<1>4. [k \in Keys |-> Current(k)]' = [k \in Keys |-> Current(k)]
  OBVIOUS
<1> QED BY <1>1, <1>2, <1>3, <1>4 DEF Promise!Flush, Promise!Answer, Answer

\* The rotation of the log.
LEMMA StoreCheckpoints ==
  ASSUME \A k \in Keys : /\ Current(k)' = Current(k)
                         /\ Recoverable(k)' = Current(k)
                         /\ FileValue(sst, k) = Current(k)
                         /\ FileValue(sst', k) = FileValue(sst, k),
         Undamaged(wal'), reply' = reply
  PROVE  Promise!Checkpoint
BY DEF Promise!Checkpoint
-----------------------------------------------------------------------------
\* Without TTLs nothing in memory expires; and an operation in progress has
\* reset the reply.
NeverExpires(mt) == \A k \in Keys : mt[k] # NoEntry => mt[k].exp = 0

PromiseInv ==
  /\ NeverExpires(active)
  /\ immutable # NoTable => NeverExpires(immutable)
  /\ phase = "log" => reply = NoReply

\* What is applied without TTL does not expire.
LEMMA ApplyNeverExpires ==
  ASSUME Ttls = {0}, NEW mt \in Table, NeverExpires(mt), NEW r \in Record, NEW now \in Int
  PROVE  /\ r.ttl = 0
         /\ NeverExpires(ApplyRecord(mt, r, r.ttl, now))
         /\ NeverExpires(ApplyRecord(mt, r, ReplayTtl(r.ttl, now), now))
<1>1. r.ttl = 0 /\ r.key \in Keys
  BY DEF Record, PutRecord, DelRecord
<1>2. ReplayTtl(r.ttl, now) = 0 /\ ExpireTs(0, now) = 0
  BY <1>1 DEF ReplayTtl, ExpireTs
<1>3. NeverExpires(ApplyRecord(mt, r, 0, now))
  BY <1>1, <1>2 DEF ApplyRecord, MtPut, MtDel, NeverExpires, Table
<1> QED BY <1>1, <1>2, <1>3

\* Every step keeps it.
LEMMA StepPromiseInv ==
  ASSUME Ttls = {0}, IInv, PromiseInv, [Next]_vars
  PROVE  PromiseInv'
<1> USE DEF IInv
<1>0. active \in Table /\ clock \in Int /\ NeverExpires(EmptyTable)
  BY DEF TypeOK, NeverExpires, EmptyTable
<1>1. CASE ApplyToMemTable
  <2>1. op \in Record
    BY <1>1 DEF ApplyToMemTable, PhaseInv, TypeOK
  <2>2. NeverExpires(ApplyRecord(active, op, op.ttl, clock))
    BY <1>0, <2>1, ApplyNeverExpires DEF PromiseInv
  <2> QED BY <1>0, <1>1, <2>2 DEF ApplyToMemTable, PromiseInv, NeverExpires
<1>2. CASE ReplayRecord
  <2>1. wal[pos] \in Record
    BY <1>2 DEF ReplayRecord, Readable, TypeOK
  <2>2. NeverExpires(active')
    BY <1>0, <1>2, <2>1, ApplyNeverExpires DEF ReplayRecord, PromiseInv
  <2> QED BY <1>2, <2>2 DEF ReplayRecord, PromiseInv
<1>3. ASSUME NEW k \in Keys, ReadKey(k) PROVE PromiseInv'
  <2>1. NeverExpires(active')
    BY <1>0, <1>3 DEF ReadKey, MtAfterGet, MtDel, PromiseInv, NeverExpires, Table
  <2> QED BY <1>3, <2>1 DEF ReadKey, PromiseInv
<1>4. CASE InstallSst
  BY <1>4 DEF InstallSst, PromiseInv
<1>5. CASE Stop
  BY <1>0, <1>5 DEF Stop, PromiseInv
<1>6. CASE /\ active' = active /\ immutable' = immutable
           /\ phase' = "log" => reply' = NoReply
  BY <1>6 DEF PromiseInv
<1>7. \/ ApplyToMemTable \/ ReplayRecord \/ (\E k \in Keys : ReadKey(k)) \/ InstallSst
      \/ Stop
      \/ /\ active' = active /\ immutable' = immutable
         /\ phase' = "log" => reply' = NoReply
  BY DEF Next, Step, vars, disk, memory, Call, AppendRecord, CreateSst, RotateWal,
         ReplayEnds, ScanKeys, Crash, Close, ReadAborts, Open, Tick, PromiseInv
<1> QED BY <1>1, <1>2, <1>3, <1>4, <1>5, <1>6, <1>7

\* While nothing expires, a lookup that meets no torn file answers as the
\* memtable over the files does, and leaves the memtable as it is.
LEMMA GetAnswers ==
  ASSUME IInv, ByAge, PromiseInv, phase = "idle", NEW k \in Keys
  PROVE  /\ Get(k) # TornFile => Get(k) = Current(k)
         /\ ~ScanAborts => Scan(k) = Current(k)
         /\ MtAfterGet(active, k, clock) = active
<1>1. active \in Table
  BY DEF IInv, TypeOK
<1>2. Live(active, k, clock) <=> active[k] # NoEntry
  BY DEF PromiseInv, NeverExpires, Live, Expired
<1>3. active[k] # NoEntry => ~Expired(active[k], clock)
  BY DEF PromiseInv, NeverExpires, Expired
<1>4. Current(k) = IF active[k] # NoEntry THEN active[k].val ELSE FileValue(sst, k)
  BY DEF Current, Over
<1>5. MtAfterGet(active, k, clock) = active
  BY <1>1, <1>2 DEF MtAfterGet, MtDel, Table
<1>6. ~ScanAborts => Lookup(sst, files, k) # TornFile
  <2>1. \A i \in DOMAIN files : sst[files[i]] # NoFile
    BY DEF IInv, FilesInv, Listed, OnDisk
  <2> QED BY <2>1, ScanFindsNoTornFile DEF IInv
<1> QED BY <1>2, <1>3, <1>4, <1>5, <1>6, LookupAnswers DEF Get, Scan

\* What a write makes of the answer for its key, and of no other.
LEMMA WriteAnswers ==
  ASSUME NEW mt \in Table, NEW r \in Record, NEW t \in Int, NEW now \in Int, NEW k \in Keys
  PROVE  Over(ApplyRecord(mt, r, t, now), k)
           = IF k # r.key THEN Over(mt, k)
             ELSE IF r.type = "PUT" THEN r.val ELSE FileValue(sst, k)
<1> DEFINE nt == ApplyRecord(mt, r, t, now)
<1>1. r.key \in Keys /\ (r.type = "PUT" => r.val \in Vals)
  BY DEF Record, PutRecord, DelRecord
<1>2. nt[r.key] = IF r.type = "PUT" THEN [val |-> r.val, exp |-> ExpireTs(t, now)] ELSE NoEntry
  BY <1>1 DEF ApplyRecord, MtPut, MtDel, Table
<1>3. k # r.key => nt[k] = mt[k]
  BY <1>1 DEF ApplyRecord, MtPut, MtDel, Table
<1>4. r.type = "PUT" => nt[r.key] # NoEntry
  <2>1. ExpireTs(t, now) \in Int
    BY MemTableAssumption DEF MemTableAssumption, ExpireTs
  <2> QED BY <1>1, <1>2, <2>1, MemTableAssumption DEF MemTableAssumption
<1> HIDE DEF nt
<1>5. Over(nt, k) = IF k # r.key THEN Over(mt, k)
                    ELSE IF r.type = "PUT" THEN r.val ELSE FileValue(sst, k)
  BY <1>2, <1>3, <1>4 DEF Over
<1> QED BY <1>5 DEF nt

\* The log over the files answers a value or Missing.
LEMMA RecoverableType ==
  ASSUME NEW log \in Seq(Record \union {TornRecord}), NEW d \in Disk, NEW k \in Keys
  PROVE  LoggedOver(log, Readable(log), k, FileValue(d, k)) \in Answer
<1> DEFINE I == Readable(log)
<1>1. FileValue(d, k) \in Answer
  <2>1. CASE Holders(d, k) = {}
    BY <2>1 DEF FileValue, Answer
  <2>2. CASE Holders(d, k) # {}
    <3>1. LastOf(Holders(d, k)) \in Holders(d, k)
      BY <2>2, NewestHolder
    <3>2. d[LastOf(Holders(d, k))] \in Contents
      BY <3>1 DEF Holders, Complete, Disk
    <3> QED BY <2>2, <3>2 DEF FileValue, Contents, Answer
  <2> QED BY <2>1, <2>2
<1>2. CASE \E i \in I : LastFor(log, I, k, i) /\ log[i].type = "PUT"
  <2>1. PICK i \in I : LastFor(log, I, k, i) /\ log[i].type = "PUT"
    BY <1>2
  <2>2. i \in DOMAIN log /\ i \in Int /\ log[i] # TornRecord
    BY <2>1 DEF Readable
  <2>3. log[i].val \in Vals
    BY <2>1, <2>2 DEF Record, PutRecord, DelRecord
  <2>4. I \in SUBSET Int
    BY DEF Readable
  <2>5. LoggedOver(log, I, k, FileValue(d, k)) = log[i].val
    <3> HIDE DEF I
    <3> QED BY <2>1, <2>4, LastDecides
  <2> QED BY <2>3, <2>5 DEF Answer
<1>3. CASE ~\E i \in I : LastFor(log, I, k, i) /\ log[i].type = "PUT"
  BY <1>1, <1>3 DEF LoggedOver
<1> QED BY <1>2, <1>3

\* When replay ends, the memtable over the files answers as log and files do.
LEMMA ReplayedAnswers ==
  ASSUME Ttls = {0}, IInv, MirrorInv, ReplayEnds, NEW k \in Keys
  PROVE  Over(active, k) = Recoverable(k)
<1> DEFINE I == Readable(wal)
<1>1. /\ Len(wal) \in Nat /\ DOMAIN wal = 1 .. Len(wal)
      /\ \A i \in I : wal[i] \in Record
  BY DEF IInv, TypeOK, Readable
<1>2. NoTtl(wal, I)
  BY <1>1 DEF NoTtl, Record, PutRecord, DelRecord
<1>3. ASSUME NEW i \in I PROVE i < pos
  <2>1. i \in 1 .. Len(wal) /\ pos \in Int /\ pos >= 1 /\ pos \notin I
    BY <1>1 DEF ReplayEnds, IInv, TypeOK, MirrorInv, LogInv, Readable
  <2>2. CASE pos <= i
    <3>1. pos \in 1 .. Len(wal)
      BY <1>1, <2>1, <2>2
    <3>2. \A j \in 1 .. pos : wal[j] # TornRecord
      BY <2>1, <2>2 DEF Readable
    <3> QED BY <1>1, <2>1, <3>1, <3>2 DEF Readable
  <2> QED BY <2>1, <2>2
<1>4. AppliedRecords = I
  BY <1>3 DEF ReplayEnds, AppliedRecords
<1>5. Mirrors(active, wal, I)
  BY <1>4 DEF ReplayEnds, MirrorInv, MemTableMirrorsLog
<1>6. I \in SUBSET Int
  BY <1>1 DEF Readable
<1>7. LoggedOver(wal, I, k, FileValue(sst, k))
        = IF active[k] # NoEntry THEN active[k].val ELSE FileValue(sst, k)
  <2> DEFINE base == FileValue(sst, k)
  <2> HIDE DEF I, base
  <2>1. /\ active[k] # NoEntry => LoggedOver(wal, I, k, base) = active[k].val
        /\ active[k] = NoEntry => LoggedOver(wal, I, k, base) = base
    BY <1>2, <1>5, <1>6, MirrorAnswers DEF IInv, TypeOK
  <2> QED BY <2>1 DEF base
<1> QED BY <1>7 DEF Over, Recoverable
-----------------------------------------------------------------------------
\* Every step of the engine is a step of KVStore, or none: one step per action.
LEMMA StepKeepsPromise ==
  ASSUME Ttls = {0}, IInv, MirrorInv, ByAge, PromiseInv, [Next]_vars
  PROVE  [Promise!Next]_(Promise!vars)
<1> USE DEF IInv
<1>0. /\ wal \in Seq(Record \union {TornRecord}) /\ sst \in Disk /\ active \in Table
      /\ clock \in Int
  BY DEF TypeOK
<1>1. ASSUME NEW r \in Record, Call(r) PROVE Promise!Call
  <2>1. \A k \in Keys : /\ Current(k)' = Current(k)
                        /\ Recoverable(k)' = Recoverable(k)
                        /\ FileValue(sst', k) = FileValue(sst, k)
    BY <1>1 DEF Call, Current, Recoverable, Over, disk, memory
  <2> QED BY <1>1, <2>1 DEF Call, disk, Promise!Call, Promise!NoReply, NoReply
<1>2. CASE AppendRecord
  <2> DEFINE a == IF op.type = "PUT" THEN op.val ELSE FileValue(sst, op.key)
  <2>1. op \in Record /\ op.key \in Keys /\ op.ttl \in Int
    <3>1. op \in Record
      BY <1>2 DEF AppendRecord, PhaseInv, TypeOK
    <3> QED BY <3>1, TtlType DEF Record, PutRecord, DelRecord
  <2>2. /\ wal' = Append(wal, op) /\ sst' = sst /\ active' = active /\ op' = op
        /\ clock' = clock /\ phase = "log" /\ phase' = "apply" /\ reply' = NoReply
    BY <1>2 DEF AppendRecord, memory, PromiseInv
  <2>3. Undamaged(wal') <=> Undamaged(wal)
    BY <1>0, <2>1, <2>2, AppendDecides, AppendUnread
  <2>4. ASSUME NEW k \in Keys
        PROVE  Recoverable(k)' = IF k = op.key /\ Undamaged(wal) THEN a ELSE Recoverable(k)
    <3>1. Recoverable(k)' = LoggedOver(wal', Readable(wal'), k, FileValue(sst, k))
      BY <2>2 DEF Recoverable
    <3>2. CASE Undamaged(wal)
      <4>1. LoggedOver(wal', Readable(wal'), k, FileValue(sst, k))
              = IF k # op.key THEN LoggedOver(wal, Readable(wal), k, FileValue(sst, k))
                ELSE IF op.type = "PUT" THEN op.val ELSE FileValue(sst, k)
        BY <1>0, <2>1, <2>2, <3>2, AppendDecides
      <4> QED BY <3>1, <3>2, <4>1 DEF Recoverable
    <3>3. CASE ~Undamaged(wal)
      <4>1. LoggedOver(wal', Readable(wal'), k, FileValue(sst, k))
              = LoggedOver(wal, Readable(wal), k, FileValue(sst, k))
        BY <1>0, <2>1, <2>2, <3>3, AppendUnread
      <4> QED BY <3>1, <3>3, <4>1 DEF Recoverable
    <3> QED BY <3>2, <3>3
  <2>5. ASSUME NEW k \in Keys
        PROVE  Current(k)' = IF k = op.key THEN a ELSE Current(k)
    <3>1. Current(k) = Over(active, k)
      BY <2>2 DEF Current
    <3>2. Current(k)' = Over(ApplyRecord(active, op, op.ttl, clock), k)
      BY <2>2 DEF Current, Over
    <3>3. Over(ApplyRecord(active, op, op.ttl, clock), k)
            = IF k # op.key THEN Over(active, k)
              ELSE IF op.type = "PUT" THEN op.val ELSE FileValue(sst, k)
      BY <1>0, <2>1, WriteAnswers
    <3> QED BY <3>1, <3>2, <3>3
  <2>6. Promise!Write(op.key, a)
    <3> HIDE DEF a
    <3>1. \A k \in Keys : FileValue(sst', k) = FileValue(sst, k)
      BY <2>2
    <3> QED BY <2>1, <2>2, <2>3, <2>4, <2>5, <3>1, StoreWrites
  <2>7. CASE op.type = "PUT"
    <3>1. op.val \in Vals /\ a = op.val
      BY <2>1, <2>7 DEF Record, PutRecord, DelRecord
    <3>2. Promise!Put(op.key, op.val)
      BY <2>6, <3>1 DEF Promise!Put
    <3> QED BY <2>1, <3>1, <3>2 DEF Promise!Next
  <2>8. CASE op.type # "PUT"
    <3>1. [k \in Keys |-> FileValue(sst, k)][op.key] = a
      BY <2>1, <2>8
    <3>2. Promise!Del(op.key)
      BY <2>6, <3>1 DEF Promise!Del
    <3> QED BY <2>1, <3>2 DEF Promise!Next
  <2> QED BY <2>7, <2>8
<1>3. CASE ApplyToMemTable
  <2>1. Stays
    BY <1>3 DEF ApplyToMemTable, Stays, Current, Recoverable, Over, disk
  <2>2. reply' = reply
    BY <1>3 DEF ApplyToMemTable
  <2> QED BY <2>1, <2>2, StoreStands
<1>4. CASE CreateSst
  <2>1. nextId \in Ids /\ sst[nextId] = NoFile
    BY <1>4, SstAssumption DEF CreateSst, PhaseInv, FilesInv, TypeOK, Ids, SstAssumption
  <2>2. \A k \in Keys : FileValue(sst', k) = FileValue(sst, k)
    BY <1>0, <1>4, <2>1, TornFileAnswersNothing DEF CreateSst
  <2>3. Stays
    BY <1>4, <2>2 DEF CreateSst, Stays, Current, Recoverable, Over
  <2> QED BY <1>4, <2>3, StoreStands DEF CreateSst
<1>5. CASE InstallSst
  <2>1. /\ phase = "install" /\ phase' = "rotate" /\ wal' = wal /\ reply' = reply
        /\ active' = EmptyTable /\ immutable # NoTable
    BY <1>5 DEF InstallSst, PhaseInv, FrozenOnlyDuringFlush
  <2>2. ASSUME NEW k \in Keys PROVE FileValue(sst', k) = Current(k)
    <3>1. Live(immutable, k, clock) <=> immutable[k] # NoEntry
      BY <2>1 DEF PromiseInv, NeverExpires, Live, Expired
    <3>2. FileValue(sst', k) = IF Live(immutable, k, clock) THEN immutable[k].val
                                                            ELSE FileValue(sst, k)
      BY <1>5, InstallAnswers
    <3> QED BY <2>1, <3>1, <3>2 DEF Current, Over
  <2>3. ASSUME NEW k \in Keys PROVE Current(k)' = Current(k)
    <3>1. Current(k)' = FileValue(sst', k)
      BY <2>1 DEF Current, Over, EmptyTable
    <3> QED BY <2>2, <3>1
  <2>4. ASSUME NEW k \in Keys
        PROVE  Recoverable(k)' \in {Recoverable(k), Current(k)} /\ Recoverable(k)' \in Answer
    <3>1. Recoverable(k)' = LoggedOver(wal, Readable(wal), k, FileValue(sst', k))
      BY <2>1 DEF Recoverable
    <3>2. LoggedOver(wal, Readable(wal), k, FileValue(sst', k))
            \in {LoggedOver(wal, Readable(wal), k, FileValue(sst, k)), FileValue(sst', k)}
      BY DEF LoggedOver
    <3>3. sst' \in Disk
      <4>1. IInv'
        BY NextIInv DEF IInv
      <4> QED BY <4>1 DEF TypeOK
    <3>4. LoggedOver(wal, Readable(wal), k, FileValue(sst', k)) \in Answer
      BY <1>0, <3>3, RecoverableType
    <3> QED BY <2>2, <3>1, <3>2, <3>4 DEF Recoverable
  <2>5. Promise!Flush
    BY <2>1, <2>2, <2>3, <2>4, StoreFlushes
  <2> QED BY <2>5 DEF Promise!Next
<1>6. CASE RotateWal
  <2>1. /\ phase = "rotate" /\ phase' = "idle" /\ wal' = <<>> /\ sst' = sst /\ reply' = reply
        /\ active = EmptyTable /\ active' = EmptyTable
    BY <1>6 DEF RotateWal, PhaseInv, memory
  <2>2. Undamaged(wal') /\ Readable(wal') = {}
    BY <2>1 DEF Undamaged, Readable
  <2>3. ASSUME NEW k \in Keys
        PROVE  /\ Current(k) = FileValue(sst, k)
               /\ Current(k)' = FileValue(sst, k)
               /\ Recoverable(k)' = FileValue(sst, k)
               /\ FileValue(sst', k) = FileValue(sst, k)
    <3>1. Current(k) = FileValue(sst, k) /\ Current(k)' = FileValue(sst, k)
      BY <2>1 DEF Current, Over, EmptyTable
    <3>2. Recoverable(k)' = FileValue(sst, k)
      BY <2>1, <2>2 DEF Recoverable, LoggedOver
    <3> QED BY <2>1, <3>1, <3>2
  <2>4. Promise!Checkpoint
    BY <2>1, <2>2, <2>3, StoreCheckpoints
  <2> QED BY <2>4 DEF Promise!Next
<1>7. CASE ReplayRecord
  <2>1. Stays
    BY <1>7 DEF ReplayRecord, Stays, Current, Recoverable, disk
  <2> QED BY <1>7, <2>1, StoreStands DEF ReplayRecord
<1>8. CASE ReplayEnds
  <2>1. \A k \in Keys : Over(active, k) = Recoverable(k)
    BY <1>8, ReplayedAnswers
  <2>2. /\ phase = "replay" /\ phase' = "idle" /\ wal' = wal /\ sst' = sst
        /\ active' = active /\ reply' = reply
    BY <1>8 DEF ReplayEnds, disk, memory
  <2>3. ASSUME NEW k \in Keys
        PROVE  /\ Current(k) = Recoverable(k)
               /\ Current(k)' = Over(active, k)
               /\ Recoverable(k)' = Recoverable(k)
    BY <2>2 DEF Current, Recoverable, Over
  <2>4. Stays
    BY <2>1, <2>2, <2>3 DEF Stays
  <2> QED BY <2>2, <2>4, StoreStands
<1>9. ASSUME NEW x \in Keys, ReadKey(x) PROVE Promise!Next
  <2>1. phase = "idle" /\ Get(x) = Current(x) /\ active' = active
    BY <1>9, GetAnswers DEF ReadKey
  <2>2. Stays
    BY <1>9, <2>1 DEF ReadKey, Stays, Current, Recoverable, Over, disk
  <2>3. {x} \in SUBSET Keys /\ reply' = [k \in {x} |-> Current(k)]
    BY <1>9, <2>1 DEF ReadKey
  <2>4. Promise!Read({x})
    BY <2>2, <2>3, StoreReads
  <2> QED BY <2>3, <2>4 DEF Promise!Next
<1>10. ASSUME NEW P \in SUBSET Keys, ScanKeys(P) PROVE Promise!Next
  <2>1. \A k \in Keys : Scan(k) = Current(k)
    BY <1>10, GetAnswers DEF ScanKeys
  <2>2. Stays
    BY <1>10 DEF ScanKeys, Stays, Current, Recoverable, Over, disk, memory
  <2>3. reply' = [k \in P |-> Current(k)]
    BY <1>10, <2>1 DEF ScanKeys
  <2>4. Promise!Read(P)
    BY <2>2, <2>3, StoreReads
  <2> QED BY <2>4 DEF Promise!Next
<1>11. CASE Stop /\ sst' = sst /\ (wal' = wal \/ wal' = Append(wal, TornRecord))
  <2>1. ASSUME NEW k \in Keys PROVE Recoverable(k)' = Recoverable(k)
    <3>1. CASE wal' = wal
      BY <1>11, <3>1 DEF Recoverable
    <3>2. CASE wal' = Append(wal, TornRecord)
      <4>1. LoggedOver(wal', Readable(wal'), k, FileValue(sst, k))
              = LoggedOver(wal, Readable(wal), k, FileValue(sst, k))
        BY <1>0, <3>2, AppendUnread
      <4> QED BY <1>11, <4>1 DEF Recoverable
    <3> QED BY <1>11, <3>1, <3>2
  <2>2. ~Undamaged(wal) => ~Undamaged(wal')
    <3>1. CASE wal' = wal
      BY <3>1
    <3>2. CASE wal' = Append(wal, TornRecord)
      BY <1>0, <3>2, AppendUnread
    <3> QED BY <1>11, <3>1, <3>2
  <2>3. ASSUME NEW k \in Keys PROVE Current(k)' = Recoverable(k)'
    BY <1>11 DEF Stop, Current
  <2>4. Promise!Crash
    BY <1>11, <2>1, <2>2, <2>3, StoreCrashes DEF Stop
  <2> QED BY <2>4 DEF Promise!Next
<1>12. CASE Open
  <2>1. Stays
    BY <1>12 DEF Open, Stays, Current, Recoverable, disk
  <2> QED BY <1>12, <2>1, StoreStands DEF Open
<1>13. CASE Tick
  <2>1. Stays
    BY <1>13 DEF Tick, Stays, Current, Recoverable, Over, disk, memory
  <2> QED BY <1>13, <2>1, StoreStands DEF Tick
<1>14. CASE UNCHANGED vars
  <2>1. Stays
    BY <1>14 DEF vars, Stays, Current, Recoverable, Over
  <2> QED BY <1>14, <2>1, StoreStands DEF vars
<1>15. Crash \/ Close \/ ReadAborts
         => Stop /\ sst' = sst /\ (wal' = wal \/ wal' = Append(wal, TornRecord))
  BY DEF Crash, Close, ReadAborts, disk
<1> QED
  BY <1>1, <1>2, <1>3, <1>4, <1>5, <1>6, <1>7, <1>8, <1>9, <1>10, <1>11, <1>12,
     <1>13, <1>14, <1>15 DEF Next, Step, Promise!Next

\* A new directory answers Missing for every key.
LEMMA InitKeepsPromise == Init => Promise!Init
<1> SUFFICES ASSUME Init PROVE Promise!Init
  OBVIOUS
<1>1. \A k \in Keys : FileValue(sst, k) = Missing
  BY DEF Init, FileValue, Holders, Complete
<1>2. \A k \in Keys : Recoverable(k) = Missing
  <2>1. Readable(wal) = {}
    BY DEF Init, Readable
  <2> QED BY <1>1, <2>1 DEF Recoverable, LoggedOver
<1>3. \A k \in Keys : Current(k) = Missing
  BY <1>2 DEF Init, Current
<1>4. Undamaged(wal)
  BY DEF Init, Undamaged
<1> QED BY <1>1, <1>2, <1>3, <1>4
        DEF Init, NoReply, Promise!Init, Promise!Nothing, Promise!NoReply

\* Without TTLs, and with file numbers of one digit, the engine implements
\* KVStore, whatever is written and read and wherever it crashes.
THEOREM EngineKeepsPromise ==
  ASSUME Ttls = {0}, MaxSst <= Radix PROVE Spec => KeepsPromise
<1> DEFINE Inv == IInv /\ MirrorInv /\ ByAge /\ PromiseInv
<1>1. Init => Inv
  <2>1. Init => MirrorInv
    BY DbAssumption DEF Init, MirrorInv, LogInv, MemTableMirrorsLog, DbAssumption
  <2>2. Init => ByAge /\ PromiseInv
    BY DEF Init, ByAge, PromiseInv, NeverExpires, EmptyTable
  <2> QED BY <2>1, <2>2, InitIInv
<1>2. Inv /\ [Next]_vars => Inv'
  BY NextIInv, StepLogInv, StepMirrors, StepByAge, StepPromiseInv DEF MirrorInv
<1>3. Inv /\ [Next]_vars => [Promise!Next]_(Promise!vars)
  BY StepKeepsPromise
<1> HIDE DEF Inv
<1> QED BY <1>1, <1>2, <1>3, InitKeepsPromise, PTL DEF Spec, KeepsPromise, Promise!Spec

\* The steps of KVStore keep what is recoverable equal to what is current,
\* unless a crash damages the log.
LEMMA StoreKeepsNothingToLose ==
  ASSUME Promise!NothingToLose, [Promise!Next]_(Promise!vars)
  PROVE  Promise!NothingToLose'
<1> USE DEF Promise!NothingToLose
<1>1. ASSUME NEW k, NEW a, Promise!Write(k, a) PROVE Promise!NothingToLose'
  BY <1>1 DEF Promise!Write
<1>2. ASSUME NEW P, Promise!Read(P) PROVE Promise!NothingToLose'
  BY <1>2 DEF Promise!Read
<1>3. CASE Promise!Flush
  BY <1>3 DEF Promise!Flush
<1>4. CASE Promise!Checkpoint
  BY <1>4 DEF Promise!Checkpoint
<1>5. CASE Promise!Crash
  BY <1>5 DEF Promise!Crash
<1>6. CASE Promise!Call
  BY <1>6 DEF Promise!Call
<1>7. CASE UNCHANGED Promise!vars
  BY <1>7 DEF Promise!vars
<1> QED BY <1>1, <1>2, <1>3, <1>4, <1>5, <1>6, <1>7 DEF Promise!Next, Promise!Put, Promise!Del

\* As long as no crash has cut a log record short, a crash costs nothing that
\* was acknowledged, in whatever phase of a flush it comes.
THEOREM CrashCostsNothing ==
  ASSUME Ttls = {0}, MaxSst <= Radix PROVE Spec => []Promise!NothingToLose
<1>1. Spec => Promise!Spec
  BY EngineKeepsPromise DEF KeepsPromise
<1>2. Promise!Init => Promise!NothingToLose
  BY DEF Promise!Init, Promise!NothingToLose
<1>3. Promise!NothingToLose /\ [Promise!Next]_(Promise!vars) => Promise!NothingToLose'
  BY StoreKeepsNothingToLose
<1> QED BY <1>1, <1>2, <1>3, PTL DEF Promise!Spec
-----------------------------------------------------------------------------
(***************************************************************************)
(* Acknowledged puts, TTLs and a moving clock included.  A put that does   *)
(* not expire is the last word on its key in the log, or it has left the   *)
(* log and the complete files answer with it.                              *)
(***************************************************************************)
Survives(k) ==
  \/ \E i \in DOMAIN wal :
       /\ LastFor(wal, DOMAIN wal, k, i)
       /\ wal[i].type = "PUT" /\ wal[i].ttl = 0 /\ wal[i].val = intended[k].val
  \/ /\ \A i \in DOMAIN wal : wal[i].key # k
     /\ FileValue(sst, k) = intended[k].val

AckInv ==
  /\ Undamaged(wal)
  /\ \A k \in Keys : intended[k] # NoEntry /\ intended[k].exp = 0 => Survives(k)

\* A record at the end of the log is the last word on its key.
LEMMA AppendKeepsAcked ==
  ASSUME IInv, LogInv, AckInv, AppendRecord
  PROVE  AckInv'
<1> DEFINE N == Len(wal)
<1>0. /\ N \in Nat /\ DOMAIN wal = 1 .. N /\ wal' = Append(wal, op) /\ sst' = sst
      /\ wal \in Seq(Record \union {TornRecord}) /\ clock \in Epoch .. MaxClock
      /\ intended \in Table
  BY DEF AppendRecord, IInv, TypeOK, LogInv
<1>1. op \in Record
  BY DEF AppendRecord, IInv, PhaseInv, TypeOK
<1>2. /\ DOMAIN wal' = 1 .. N + 1 /\ \A i \in 1 .. N : wal'[i] = wal[i]
      /\ wal'[N + 1] = op
  BY <1>0
<1> HIDE DEF N
<1>3. Undamaged(wal')
  BY <1>0, <1>1, AppendDecides DEF AckInv
<1>4. intended' = ApplyRecord(intended, op, op.ttl, clock)
  BY DEF AppendRecord
<1> SUFFICES ASSUME NEW k \in Keys, intended'[k] # NoEntry, intended'[k].exp = 0
             PROVE  Survives(k)'
  BY <1>3 DEF AckInv
<1>5. CASE k = op.key
  <2>1. op.type = "PUT"
    BY <1>0, <1>4, <1>5 DEF ApplyRecord, MtDel, Table
  <2>2. intended'[k] = [val |-> op.val, exp |-> ExpireTs(op.ttl, clock)]
    BY <1>0, <1>4, <1>5, <2>1 DEF ApplyRecord, MtPut, Table
  <2>3. op.ttl = 0
    BY <1>0, <1>1, <2>2, RecordExpiry
  <2>4. N + 1 \in DOMAIN wal' /\ LastFor(wal', DOMAIN wal', k, N + 1)
    BY <1>0, <1>2, <1>5 DEF LastFor
  <2>5. wal'[N + 1].type = "PUT" /\ wal'[N + 1].ttl = 0 /\ wal'[N + 1].val = intended'[k].val
    BY <1>2, <2>1, <2>2, <2>3
  <2> QED BY <2>4, <2>5 DEF Survives
<1>6. CASE k # op.key
  <2>1. intended'[k] = intended[k]
    BY <1>0, <1>1, <1>4, <1>6 DEF ApplyRecord, MtPut, MtDel, Table
  <2>2. Survives(k)
    BY <2>1 DEF AckInv
  <2>3. \A i \in 1 .. N + 1 : i \in 1 .. N \/ i = N + 1
    BY <1>0
  <2>4. ASSUME NEW i \in DOMAIN wal, LastFor(wal, DOMAIN wal, k, i)
        PROVE  i \in DOMAIN wal' /\ LastFor(wal', DOMAIN wal', k, i)
    BY <1>0, <1>2, <1>6, <2>3, <2>4 DEF LastFor
  <2>5. CASE \E i \in DOMAIN wal :
               /\ LastFor(wal, DOMAIN wal, k, i)
               /\ wal[i].type = "PUT" /\ wal[i].ttl = 0 /\ wal[i].val = intended[k].val
    <3>1. PICK i \in DOMAIN wal :
               /\ LastFor(wal, DOMAIN wal, k, i)
               /\ wal[i].type = "PUT" /\ wal[i].ttl = 0 /\ wal[i].val = intended[k].val
      BY <2>5
    <3>2. wal'[i] = wal[i]
      BY <1>0, <1>2
    <3> QED BY <2>1, <2>4, <3>1, <3>2 DEF Survives
  <2>6. CASE /\ \A i \in DOMAIN wal : wal[i].key # k
             /\ FileValue(sst, k) = intended[k].val
    <3>1. \A i \in DOMAIN wal' : wal'[i].key # k
      BY <1>0, <1>2, <1>6, <2>3, <2>6
    <3> QED BY <1>0, <2>1, <2>6, <3>1 DEF Survives
  <2> QED BY <2>2, <2>5, <2>6 DEF Survives
<1> QED BY <1>5, <1>6

\* Every step keeps it, unless it tears a log record.
LEMMA StepAckInv ==
  ASSUME TornTail = FALSE, IInv, MirrorInv, FlushInv, AckInv, [Next]_vars
  PROVE  AckInv'
<1>1. CASE AppendRecord
  BY <1>1, AppendKeepsAcked DEF MirrorInv
<1>2. CASE CreateSst
  <2>1. nextId \in Ids /\ sst[nextId] = NoFile /\ sst \in Disk
    BY <1>2, SstAssumption
    DEF CreateSst, IInv, PhaseInv, FilesInv, TypeOK, Ids, SstAssumption
  <2>2. \A k \in Keys : FileValue(sst', k) = FileValue(sst, k)
    BY <1>2, <2>1, TornFileAnswersNothing DEF CreateSst
  <2> QED BY <1>2, <2>2 DEF CreateSst, AckInv, Survives
<1>3. CASE InstallSst
  <2>1. wal' = wal /\ intended' = intended /\ phase = "install"
    BY <1>3 DEF InstallSst
  <2>2. Mirrors(immutable, wal, DOMAIN wal)
    BY <2>1 DEF FlushInv, AckInv
  <2>3. ASSUME NEW k \in Keys, \A i \in DOMAIN wal : wal[i].key # k
        PROVE  FileValue(sst', k) = FileValue(sst, k)
    <3>1. immutable[k] = NoEntry
      BY <2>2, <2>3 DEF Mirrors, LastFor
    <3> QED BY <1>3, <3>1, InstallAnswers DEF Live
  <2> QED BY <2>1, <2>3 DEF AckInv, Survives
<1>4. CASE RotateWal
  <2>1. wal' = <<>> /\ sst' = sst /\ intended' = intended /\ phase = "rotate"
    BY <1>4 DEF RotateWal
  <2>2. ASSUME NEW k \in Keys, Survives(k) PROVE FileValue(sst, k) = intended[k].val
    BY <2>1, <2>2 DEF Survives, FlushInv, NothingLostByRotation, AckInv, LastFor
  <2>3. Undamaged(wal') /\ \A k : \A i \in DOMAIN wal' : wal'[i].key # k
    BY <2>1 DEF Undamaged
  <2> QED BY <2>1, <2>2, <2>3 DEF AckInv, Survives
<1>5. CASE UNCHANGED <<wal, sst, intended>>
  BY <1>5 DEF AckInv, Survives
<1>6. AppendRecord \/ CreateSst \/ InstallSst \/ RotateWal \/ UNCHANGED <<wal, sst, intended>>
  BY DEF Next, Step, vars, disk, Call, ApplyToMemTable, ReplayRecord, ReplayEnds, ReadKey,
         ScanKeys, Crash, Close, ReadAborts, Open, Tick
<1> QED BY <1>1, <1>2, <1>3, <1>4, <1>5, <1>6

\* What survives is where a read looks first: in the memtable, not to
\* expire, or in the files with nothing of the key in the memtable.
LEMMA SurvivorsAreInReach ==
  ASSUME IInv, MirrorInv, AckInv, phase = "idle", NEW k \in Keys,
         intended[k] # NoEntry, intended[k].exp = 0
  PROVE  \/ /\ active[k] # NoEntry /\ ~Expired(active[k], clock)
            /\ active[k].val = intended[k].val
         \/ active[k] = NoEntry /\ FileValue(sst, k) = intended[k].val
<1>1. Mirrors(active, wal, DOMAIN wal)
  BY DEF AckInv, MirrorInv, MemTableMirrorsLog, AppliedRecords
<1>2. Survives(k)
  BY DEF AckInv
<1>3. CASE \E i \in DOMAIN wal :
             /\ LastFor(wal, DOMAIN wal, k, i)
             /\ wal[i].type = "PUT" /\ wal[i].ttl = 0 /\ wal[i].val = intended[k].val
  <2>1. PICK i \in DOMAIN wal :
             /\ LastFor(wal, DOMAIN wal, k, i)
             /\ wal[i].type = "PUT" /\ wal[i].ttl = 0 /\ wal[i].val = intended[k].val
    BY <1>3
  <2>2. active[k] # NoEntry
    BY <1>1, <2>1 DEF Mirrors
  <2>3. PICK j \in DOMAIN wal : /\ LastFor(wal, DOMAIN wal, k, j)
                                /\ active[k].val = wal[j].val
                                /\ active[k].exp = 0 <=> wal[j].ttl = 0
    BY <1>1, <2>2 DEF Mirrors
  <2>4. j = i
    <3>1. i \in Int /\ j \in Int
      BY DEF IInv, TypeOK
    <3>2. i <= j /\ j <= i
      BY <2>1, <2>3 DEF LastFor
    <3> QED BY <3>1, <3>2
  <2> QED BY <2>1, <2>2, <2>3, <2>4 DEF Expired
<1>4. CASE /\ \A i \in DOMAIN wal : wal[i].key # k
           /\ FileValue(sst, k) = intended[k].val
  <2>1. active[k] = NoEntry
    BY <1>1, <1>4 DEF Mirrors, LastFor
  <2> QED BY <1>4, <2>1
<1> QED BY <1>2, <1>3, <1>4 DEF Survives

\* So a lookup answers with it, unless it meets a torn file first.
LEMMA SurvivorsAreRead ==
  ASSUME IInv, MirrorInv, ByAge, AckInv
  PROVE  AckedPutSurvives
<1> SUFFICES ASSUME phase = "idle", NEW k \in Keys,
                    intended[k] # NoEntry, intended[k].exp = 0
             PROVE  Get(k) \in {intended[k].val, TornFile}
  BY DEF AckedPutSurvives
<1> QED BY SurvivorsAreInReach, LookupAnswers DEF Get, Live

\* And a scan lists it, unless one of the files is torn.
LEMMA SurvivorsAreListed ==
  ASSUME IInv, MirrorInv, ByAge, AckInv
  PROVE  AckedPutIsListed
<1> SUFFICES ASSUME phase = "idle", ~ScanAborts, NEW k \in Keys,
                    intended[k] # NoEntry, intended[k].exp = 0
             PROVE  Scan(k) = intended[k].val
  BY DEF AckedPutIsListed
<1>1. Lookup(sst, files, k) # TornFile
  <2>1. \A i \in DOMAIN files : sst[files[i]] # NoFile
    BY DEF IInv, FilesInv, Listed, OnDisk
  <2> QED BY <2>1, ScanFindsNoTornFile DEF IInv
<1> QED BY <1>1, SurvivorsAreInReach, LookupAnswers DEF Scan

\* What carries both.
SurvivalInv == IInv /\ MirrorInv /\ FlushInv /\ ByAge /\ AckInv

LEMMA SurvivalInvariance ==
  ASSUME TornTail = FALSE, MaxSst <= Radix PROVE Spec => []SurvivalInv
<1>1. Init => SurvivalInv
  <2>1. Init => MirrorInv /\ FlushInv /\ ByAge
    BY DbAssumption DEF Init, MirrorInv, LogInv, MemTableMirrorsLog, FlushInv,
                        NothingLostByRotation, ByAge, DbAssumption
  <2>2. Init => AckInv
    BY DEF Init, AckInv, Undamaged, EmptyTable
  <2> QED BY <2>1, <2>2, InitIInv DEF SurvivalInv
<1>2. SurvivalInv /\ [Next]_vars => SurvivalInv'
  BY NextIInv, StepLogInv, StepMirrors, StepFlushInv, StepByAge, StepAckInv
     DEF MirrorInv, SurvivalInv
<1> QED BY <1>1, <1>2, PTL DEF Spec

\* With or without TTLs, an acknowledged put that does not expire is read
\* back, across flushes, crashes and reopenings, as long as no log record is
\* torn (else: run StoreTornTail) and file numbers have one digit (else: run
\* StoreOrder).
THEOREM AcknowledgedPutsSurvive ==
  ASSUME TornTail = FALSE, MaxSst <= Radix PROVE Spec => []AckedPutSurvives
<1>1. SurvivalInv => AckedPutSurvives
  BY SurvivorsAreRead DEF SurvivalInv
<1> QED BY <1>1, SurvivalInvariance, PTL

\* Under the same assumptions DB::scan_prefix lists it, with its value: no
\* older file's value, and nothing that expired before it, takes its place.
THEOREM AcknowledgedPutsAreListed ==
  ASSUME TornTail = FALSE, MaxSst <= Radix PROVE Spec => []AckedPutIsListed
<1>1. SurvivalInv => AckedPutIsListed
  BY SurvivorsAreListed DEF SurvivalInv
<1> QED BY <1>1, SurvivalInvariance, PTL
=============================================================================
