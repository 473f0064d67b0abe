--------------------------- MODULE WriteAheadLog ---------------------------
(***************************************************************************)
(* The write-ahead log of engine/wal.cpp: a sequence of records, some of   *)
(* which a crash cut short.  The CRC at the end of a record tells a whole  *)
(* record from a torn one, so a cut one is just TornRecord here.             *)
(***************************************************************************)
EXTENDS Integers, Sequences, MemTable

CONSTANTS TornRecord, Ttls

PutRecord == [type : {"PUT"}, key : Keys, val : Vals, ttl : Ttls]
DelRecord == [type : {"DEL"}, key : Keys, val : {Missing}, ttl : {0}]
Record == PutRecord \union DelRecord

ASSUME LogAssumption ==
  /\ TornRecord \notin Record
  /\ Ttls \subseteq Nat

PutRec(k, v, t) == [type |-> "PUT", key |-> k, val |-> v, ttl |-> t]
DelRec(k) == [type |-> "DEL", key |-> k, val |-> Missing, ttl |-> 0]

\* Replay stops for good at the first record it cannot verify.
Readable(log) == {i \in DOMAIN log : \A j \in 1..i : log[j] # TornRecord}
Undamaged(log) == \A i \in DOMAIN log : log[i] # TornRecord

\* i is the last record about k among the records in I.
LastFor(log, I, k, i) ==
  /\ i \in I
  /\ log[i].key = k
  /\ \A j \in I : log[j].key = k => j <= i

\* What the records in I leave in the memtable for k, and base below them.
LoggedOver(log, I, k, base) ==
  IF \E i \in I : LastFor(log, I, k, i) /\ log[i].type = "PUT"
  THEN log[CHOOSE i \in I : LastFor(log, I, k, i)].val
  ELSE base

\* Faulty variant: a time that is over becomes "no expiry".
ReplayTtlClamped(ttl, now) == IF ttl <= now THEN 0 ELSE ttl - now

\* The replay of a PUT takes the stored number for an absolute time and
\* hands memtable.put the difference to the clock, modulo the word size.
ReplayTtl(ttl, now) == IF ttl = 0 THEN 0 ELSE (ttl - now) % WordMod

ApplyRecord(mt, r, ttl, now) ==
  IF r.type = "PUT" THEN MtPut(mt, r.key, r.val, ttl, now) ELSE MtDel(mt, r.key)

RecordBytes(mt, r) == IF r.type = "PUT" THEN PutBytes ELSE DelBytes(mt, r.key)
=============================================================================
