---------------------------- MODULE MiniVaultDB ----------------------------
(***************************************************************************)
(* One DB handle of MiniVaultDB (db/db.cpp over engine/*.cpp), driven      *)
(* through the C API by a single thread, with process crashes at every     *)
(* point where the disk has changed, and reopening.                        *)
(*                                                                         *)
(* A put or del runs through the phases                                    *)
(*    idle -> log -> apply -> [build -> install -> rotate ->] idle         *)
(* and opening a directory through  down -> replay -> idle.  The operating *)
(* system survives: what was written to a file is still there after a      *)
(* crash of the process.                                                   *)
(***************************************************************************)
EXTENDS WriteAheadLog, SSTables

CONSTANTS
  NoTable, NoOp,
  MemLimit,     \* mem_limit_
  Epoch,        \* the clock at start; later than any TTL is long
  MaxClock,     \* bound on the clock
  MaxLog,       \* bound on the records in the log
  TornTail      \* whether a crash may cut an append short

ASSUME DbAssumption ==
  /\ NoTable \notin Table
  /\ NoOp \notin Record
  /\ MemLimit \in Nat /\ Epoch \in Nat /\ MaxClock \in Nat /\ MaxLog \in Nat
  /\ 0 < Epoch /\ Epoch <= MaxClock
  /\ \A t \in Ttls : t < Epoch /\ MaxClock + t < WordMod
  /\ TornTail \in BOOLEAN

VARIABLES
  wal,          \* records of wal.log
  sst,          \* the numbered .sst files of the directory
  files,        \* sst_files_, oldest first
  nextId,       \* next_sst_id_
  active,       \* active_
  bytes,        \* active_->bytes_
  immutable,    \* immutable_
  phase,        \* how far the operation in progress has come
  op,           \* the put or del in progress
  pos,          \* the record that WAL::replay reads next
  clock,        \* time(nullptr)
  reply,        \* what the last read answered
  intended      \* history: the writes logged so far, applied to an ideal map

disk == <<wal, sst>>
memory == <<files, nextId, active, bytes, immutable>>
vars == <<wal, sst, files, nextId, active, bytes, immutable, phase, op, pos,
          clock, reply, intended>>

Phases == {"down", "replay", "idle", "log", "apply", "build", "install", "rotate"}
Answer == Vals \union {Missing}
NoReply == [k \in {} |-> Missing]

TypeOK ==
  /\ wal \in Seq(Record \union {TornRecord})
  /\ sst \in Disk
  /\ files \in Seq(Ids)
  /\ nextId \in 0 .. MaxSst
  /\ active \in Table
  /\ bytes \in Nat
  /\ immutable \in Table \union {NoTable}
  /\ phase \in Phases
  /\ op \in Record \union {NoOp}
  /\ pos \in Nat
  /\ clock \in Nat
  /\ reply \in UNION {[P -> Answer] : P \in SUBSET Keys}
  /\ intended \in Table

Init ==
  /\ wal = <<>>
  /\ sst = [i \in Ids |-> NoFile]
  /\ files = <<>>
  /\ nextId = 0
  /\ active = EmptyTable
  /\ bytes = 0
  /\ immutable = NoTable
  /\ phase = "down"
  /\ op = NoOp
  /\ pos = 1
  /\ clock = Epoch
  /\ reply = NoReply
  /\ intended = EmptyTable
-----------------------------------------------------------------------------
\* Writes.

\* mvdb_put / mvdb_del enter DB::put / DB::del.
Call(r) ==
  /\ phase = "idle"
  /\ Len(wal) < MaxLog /\ nextId < MaxSst
  /\ op' = r
  /\ phase' = "log"
  /\ reply' = NoReply
  /\ UNCHANGED <<disk, memory, pos, clock, intended>>

\* The last of the write calls of append_put / append_del: the CRC is there.
AppendRecord ==
  /\ phase = "log"
  /\ wal' = Append(wal, op)
  /\ intended' = ApplyRecord(intended, op, op.ttl, clock)
  /\ phase' = "apply"
  /\ UNCHANGED <<sst, memory, op, pos, clock, reply>>

\* The memtable operation, and freeze_memtable if it reached the limit.
ApplyToMemTable ==
  LET mt == ApplyRecord(active, op, op.ttl, clock)
      size == bytes + RecordBytes(active, op)
  IN
  /\ phase = "apply"
  /\ IF size >= MemLimit
     THEN /\ immutable' = mt /\ active' = EmptyTable /\ bytes' = 0
          /\ phase' = "build"
     ELSE /\ active' = mt /\ bytes' = size
          /\ phase' = "idle"
          /\ UNCHANGED immutable
  /\ op' = NoOp
  /\ UNCHANGED <<disk, files, nextId, pos, clock, reply, intended>>

\* Faulty variant: the log is rotated before the SSTable is complete.
CreateSstAfterRotation ==
  /\ phase = "build"
  /\ sst' = [sst EXCEPT ![nextId] = TornFile]
  /\ nextId' = nextId + 1
  /\ phase' = "install"
  /\ wal' = <<>>
  /\ UNCHANGED <<files, active, bytes, immutable, op, pos, clock, reply, intended>>

\* SSTable::build creates the file; until the footer is written it is torn.
CreateSst ==
  /\ phase = "build"
  /\ sst' = [sst EXCEPT ![nextId] = TornFile]
  /\ nextId' = nextId + 1
  /\ phase' = "install"
  /\ UNCHANGED <<wal, files, active, bytes, immutable, op, pos, clock, reply, intended>>

\* Faulty variant: an expiry time of 0 is compared with the clock too.
FlushContentsUnlessExpiring(mt, now) ==
  [k \in Keys |-> IF mt[k] # NoEntry /\ mt[k].exp >= now THEN mt[k].val
                                                      ELSE Missing]

\* What flush_immutable hands to SSTable::build: keys and values, no expiry
\* times, and nothing for keys that are deleted or expired.
FlushContents(mt, now) ==
  [k \in Keys |-> IF Live(mt, k, now) THEN mt[k].val ELSE Missing]

\* Faulty variant: the flushed memtable stays in immutable_.
InstallSstKeepsTable ==
  /\ phase = "install"
  /\ sst' = [sst EXCEPT ![nextId - 1] = FlushContents(immutable, clock)]
  /\ files' = Append(files, nextId - 1)
  /\ phase' = "rotate"
  /\ UNCHANGED <<wal, nextId, active, bytes, immutable, op, pos, clock, reply, intended>>

\* The footer is written, the file enters sst_files_, immutable_ is deleted.
InstallSst ==
  /\ phase = "install"
  /\ sst' = [sst EXCEPT ![nextId - 1] = FlushContents(immutable, clock)]
  /\ files' = Append(files, nextId - 1)
  /\ immutable' = NoTable
  /\ phase' = "rotate"
  /\ UNCHANGED <<wal, nextId, active, bytes, op, pos, clock, reply, intended>>

RotateWal ==
  /\ phase = "rotate"
  /\ wal' = <<>>
  /\ phase' = "idle"
  /\ UNCHANGED <<sst, memory, op, pos, clock, reply, intended>>
-----------------------------------------------------------------------------
\* Reads.  immutable_ is never set while the handle is idle, so its lookups
\* in DB::get and DB::scan_prefix find nothing (FrozenOnlyDuringFlush).

Get(k) ==
  IF Live(active, k, clock) THEN active[k].val ELSE Lookup(sst, files, k)

\* Faulty variant: what a file holds replaces what the memtable has shown.
ScanFilesLast(k) ==
  IF Lookup(sst, files, k) # Missing \/ active[k] = NoEntry THEN Lookup(sst, files, k)
  ELSE IF Expired(active[k], clock) THEN Missing ELSE active[k].val

\* scan_prefix: an entry of the memtable hides the files even if expired; Get
\* of the same key answers from the files and buries the entry.
Scan(k) ==
  IF active[k] = NoEntry THEN Lookup(sst, files, k)
  ELSE IF Expired(active[k], clock) THEN Missing ELSE active[k].val

\* Faulty variant: only the newest file's magic number is looked at.
NewestIsTorn == files # <<>> /\ sst[files[Len(files)]] = TornFile

\* A scan opens every file, a lookup only those it needs.
ScanAborts == \E i \in DOMAIN files : sst[files[i]] = TornFile

ReadKey(k) ==
  /\ phase = "idle"
  /\ Get(k) # TornFile
  /\ reply' = [x \in {k} |-> Get(k)]
  /\ active' = MtAfterGet(active, k, clock)
  /\ UNCHANGED <<disk, files, nextId, bytes, immutable, phase, op, pos, clock, intended>>

ScanKeys(P) ==
  /\ phase = "idle"
  /\ ~ScanAborts
  /\ reply' = [k \in P |-> Scan(k)]
  /\ UNCHANGED <<disk, memory, phase, op, pos, clock, intended>>
-----------------------------------------------------------------------------
\* The end of the process, and the next one.

\* The memory is gone (given its initial value, to have one state for it).
Stop ==
  /\ files' = <<>> /\ nextId' = 0 /\ active' = EmptyTable /\ bytes' = 0
  /\ immutable' = NoTable /\ phase' = "down" /\ op' = NoOp /\ pos' = 1
  /\ reply' = NoReply

Crash ==
  /\ phase # "down"
  /\ Stop
  /\ \/ wal' = wal
     \/ TornTail /\ phase = "log" /\ wal' = Append(wal, TornRecord)
  /\ UNCHANGED <<sst, clock, intended>>

\* mvdb_close: the destructor frees the memtable and closes the log.
Close ==
  /\ phase = "idle"
  /\ Stop
  /\ UNCHANGED <<disk, clock, intended>>

\* A read that opens a torn file fails the assertion on its magic number.
ReadAborts ==
  /\ phase = "idle"
  /\ ScanAborts \/ \E k \in Keys : Get(k) = TornFile
  /\ Stop
  /\ UNCHANGED <<disk, clock, intended>>

\* Faulty variant: load_sstables does not restore next_sst_id_.
OpenForgetsNextId ==
  /\ phase = "down"
  /\ files' \in SortedListings(OnDisk(sst))
  /\ nextId' = 0
  /\ phase' = "replay"
  /\ pos' = 1
  /\ UNCHANGED <<disk, active, bytes, immutable, op, clock, reply, intended>>

\* The constructor of DB up to load_sstables: every file found is listed.
Open ==
  /\ phase = "down"
  /\ files' \in SortedListings(OnDisk(sst))
  /\ nextId' \in 0 .. MaxSst
  /\ \A i \in OnDisk(sst) : i < nextId'
  /\ nextId' # 0 => nextId' - 1 \in OnDisk(sst)
  /\ phase' = "replay"
  /\ pos' = 1
  /\ UNCHANGED <<disk, active, bytes, immutable, op, clock, reply, intended>>

\* One round of the loop of WAL::replay.
ReplayRecord ==
  /\ phase = "replay"
  /\ pos \in Readable(wal)
  /\ active' = ApplyRecord(active, wal[pos], ReplayTtl(wal[pos].ttl, clock), clock)
  /\ bytes' = bytes + RecordBytes(active, wal[pos])
  /\ pos' = pos + 1
  /\ UNCHANGED <<disk, files, nextId, immutable, phase, op, clock, reply, intended>>

\* Faulty variant: the loop ends only behind a record that was replayed.
ReplayEndsBehindRecord ==
  /\ phase = "replay"
  /\ pos \notin Readable(wal) /\ pos - 1 \in Readable(wal)
  /\ phase' = "idle"
  /\ pos' = 1
  /\ UNCHANGED <<disk, memory, op, clock, reply, intended>>

\* The end of the file, or a record that cannot be verified.
ReplayEnds ==
  /\ phase = "replay"
  /\ pos \notin Readable(wal)
  /\ phase' = "idle"
  /\ pos' = 1
  /\ UNCHANGED <<disk, memory, op, clock, reply, intended>>

\* Time passes between operations; within one, the readings of the clock agree.
Tick ==
  /\ phase \in {"idle", "down"}
  /\ clock < MaxClock
  /\ clock' = clock + 1
  /\ UNCHANGED <<disk, memory, phase, op, pos, reply, intended>>
-----------------------------------------------------------------------------
Step ==
  \/ AppendRecord \/ ApplyToMemTable \/ CreateSst \/ InstallSst \/ RotateWal
  \/ ReplayRecord \/ ReplayEnds

Next ==
  \/ \E r \in Record : Call(r)
  \/ Step
  \/ \E k \in Keys : ReadKey(k)
  \/ \E P \in SUBSET Keys : ScanKeys(P)
  \/ Crash \/ Close \/ ReadAborts
  \/ Open \/ Tick

Spec == Init /\ [][Next]_vars

\* Every operation is a straight call: nothing it waits for is up to anyone.
FairSpec == Spec /\ WF_vars(Step)
=============================================================================
