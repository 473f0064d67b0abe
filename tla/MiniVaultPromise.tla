-------------------------- MODULE MiniVaultPromise -------------------------
(***************************************************************************)
(* The properties of MiniVaultDB, and the sense in which it implements     *)
(* KVStore.                                                                *)
(***************************************************************************)
EXTENDS MiniVaultDB

\* What a reopen would read back for k (without TTLs and with file names
\* that sort in the order of their numbers).
Recoverable(k) == LoggedOver(wal, Readable(wal), k, FileValue(sst, k))

\* What the memtable mt over the files answers, expiry aside.
Over(mt, k) == IF mt[k] # NoEntry THEN mt[k].val ELSE FileValue(sst, k)

\* What the store answers for k, an operation taking effect when its record
\* is in the log.
Current(k) ==
  CASE phase \in {"down", "replay"} -> Recoverable(k)
    [] phase = "apply" -> Over(ApplyRecord(active, op, op.ttl, clock), k)
    [] phase \in {"build", "install"} -> Over(immutable, k)
    [] phase \in {"idle", "log", "rotate"} -> Over(active, k)

Promise == INSTANCE KVStore WITH
  current     <- [k \in Keys |-> Current(k)],
  recoverable <- [k \in Keys |-> Recoverable(k)],
  flushed     <- [k \in Keys |-> FileValue(sst, k)],
  damaged     <- ~Undamaged(wal),
  reply       <- reply

\* Without TTLs, and with fewer files than the radix of their numbers, the
\* engine implements KVStore: every crash between two writes to the disk,
\* every half-written record and every half-built SSTable included.
KeepsPromise == Promise!Spec

\* The logged records that the active memtable is made of.
AppliedRecords ==
  IF phase = "replay" THEN {i \in Readable(wal) : i < pos}
  ELSE IF phase = "apply" THEN DOMAIN wal \ {Len(wal)}
  ELSE DOMAIN wal

\* For every key, memtable mt holds what the last of the records I says: the
\* value of a PUT without TTL; the value, to expire, or nothing for a PUT
\* with one; nothing for a DEL, or if the key does not occur.
Mirrors(mt, log, I) ==
  \A k \in Keys :
    /\ mt[k] # NoEntry =>
         \E i \in I :
            /\ LastFor(log, I, k, i)
            /\ log[i].type = "PUT"
            /\ mt[k].val = log[i].val
            /\ mt[k].exp = 0 <=> log[i].ttl = 0
    /\ \A i \in I :
         LastFor(log, I, k, i) /\ log[i].type = "PUT" /\ log[i].ttl = 0
           => mt[k] # NoEntry

\* As long as the log is undamaged the active memtable mirrors it, and during
\* a replay the part replayed; so replay rebuilds what was in memory.
MemTableMirrorsLog ==
  (phase = "replay" \/ (phase \in {"idle", "log", "apply"} /\ Undamaged(wal)))
    => Mirrors(active, wal, AppliedRecords)

\* DB::get and DB::scan_prefix look into immutable_ only to find it null: it
\* is set inside maybe_flush alone.
FrozenOnlyDuringFlush == immutable # NoTable <=> phase \in {"build", "install"}

\* When the engine can be read, sst_files_ lists every file of the directory
\* once, newest last; so the backward search of DB::get meets them by age.
FilesListedByAge ==
  phase = "idle" =>
    /\ {files[i] : i \in DOMAIN files} = OnDisk(sst)
    /\ \A i, j \in DOMAIN files : i < j => files[i] < files[j]

\* flush_immutable leaves no key behind: when rotate_wal is about to empty
\* the log, every PUT that is the last word on its key and is not expiring
\* can be read from the complete SSTables.
NothingLostByRotation ==
  phase = "rotate" /\ Undamaged(wal) =>
    \A i \in DOMAIN wal :
      LastFor(wal, DOMAIN wal, wal[i].key, i) /\ wal[i].type = "PUT" /\ wal[i].ttl = 0
        => FileValue(sst, wal[i].key) = wal[i].val

\* A key whose last logged write is a put without TTL is read back with that
\* value, across flushes and crashes, unless the read meets a torn file.
AckedPutSurvives ==
  phase = "idle" =>
    \A k \in Keys :
      intended[k] # NoEntry /\ intended[k].exp = 0
        => Get(k) \in {intended[k].val, TornFile}

\* A key whose last logged write is a del reads as absent.
DeletedStaysDeleted ==
  phase = "idle" => \A k \in Keys : intended[k] = NoEntry => Get(k) \in {Missing, TornFile}

\* A process that has reopened a directory after a crash can read all of it:
\* no lookup and no scan runs into a file whose footer is missing.
ReopenedStoreIsReadable ==
  phase = "idle" => ~ScanAborts /\ \A k \in Keys : Get(k) # TornFile

\* A key whose last logged write is a put without TTL is listed by a scan
\* with that value, unless the scan meets a torn file: no entry that expired
\* before the put, or was flushed, or was rebuilt by a replay hides it.  (Of
\* other keys a scan and a lookup may say different things: see DB::scan_prefix.)
AckedPutIsListed ==
  phase = "idle" /\ ~ScanAborts =>
    \A k \in Keys :
      intended[k] # NoEntry /\ intended[k].exp = 0 => Scan(k) = intended[k].val

\* SSTables are immutable: a complete file never changes, and a file that a
\* crash cut short is never completed or overwritten by a later process.
KeepsFiles ==
  \A i \in Ids :
    /\ Complete(sst, i) => sst'[i] = sst[i]
    /\ sst[i] = TornFile /\ phase # "install" => sst'[i] = TornFile
FilesAreImmutable == [][KeepsFiles]_vars

\* An operation, a flush or a replay that has begun ends, or the process
\* dies: neither waits for anything, and the replay loop makes progress.
OperationsEnd == phase # "idle" ~> phase \in {"idle", "down"}
=============================================================================
