------------------------------ MODULE MemTable -----------------------------
(***************************************************************************)
(* The operations of engine/memtable.cpp on a memtable, as a map from keys *)
(* to entries.  That the open-addressing table of util/hash.cpp does       *)
(* implement such a map is the subject of module HashTable.                *)
(***************************************************************************)
EXTENDS Integers

CONSTANTS
  Keys, Vals,
  Missing,      \* no value
  NoEntry,      \* no OCCUPIED slot for the key
  KeyLen, ValLen,
  WordMod       \* uint64_t arithmetic is modulo this number

ASSUME MemTableAssumption ==
  /\ Missing \notin Vals
  /\ NoEntry \notin [val : Vals, exp : Int]
  /\ KeyLen \in Nat /\ ValLen \in Nat
  /\ WordMod \in Nat \ {0}

Entry == [val : Vals, exp : Int]
Table == [Keys -> Entry \union {NoEntry}]
EmptyTable == [k \in Keys |-> NoEntry]

\* compute_expire_ts: 0 stands for "no expiry".
ExpireTs(ttl, now) == IF ttl = 0 THEN 0 ELSE (now + ttl) % WordMod

Expired(e, now) == e.exp # 0 /\ e.exp < now
Live(mt, k, now) == mt[k] # NoEntry /\ ~Expired(mt[k], now)

MtPut(mt, k, v, ttl, now) ==
  [mt EXCEPT ![k] = [val |-> v, exp |-> ExpireTs(ttl, now)]]

MtDel(mt, k) == [mt EXCEPT ![k] = NoEntry]

\* A lookup turns an expired entry into a tombstone.
MtAfterGet(mt, k, now) == IF Live(mt, k, now) THEN mt ELSE MtDel(mt, k)

\* How an operation moves bytes_: an overwrite counts its key again, a
\* delete counts only if it found the key, and nothing is ever subtracted.
PutBytes == KeyLen + ValLen
DelBytes(mt, k) == IF mt[k] = NoEntry THEN 0 ELSE KeyLen
=============================================================================
