----------------------------- MODULE HashTable -----------------------------
(***************************************************************************)
(* The open-addressing hash table of util/hash.cpp with its entries in the *)
(* bump arena of util/arena.cpp, as engine/memtable.cpp and the flush rule *)
(* of db.cpp use them: linear probing, tombstones, a rehash that copies    *)
(* every entry to new arena space, and nothing freed until the memtable is *)
(* replaced as a whole.                                                    *)
(***************************************************************************)
EXTENDS MemTable, FiniteSets

CONSTANTS
  Ttls,
  Hash,         \* hash_key, any function
  InitCap,      \* initial capacity of the table (16 in the code)
  MemLimit,     \* mem_limit_ of the DB
  ArenaFactor,  \* ARENA_FACTOR
  Align,        \* alignment of Arena::alloc
  Empty, Tomb,  \* EntryState::EMPTY and EntryState::TOMBSTONE
  NoPut,
  Epoch, MaxClock

Slot == [key : Keys, val : Vals, exp : Int]

ASSUME HashTableAssumption ==
  /\ Hash \in [Keys -> Nat]
  /\ InitCap \in Nat /\ InitCap >= 4
  /\ Align \in Nat \ {0} /\ ArenaFactor \in Nat /\ MemLimit \in Nat
  /\ Epoch \in Nat \ {0} /\ MaxClock \in Nat /\ Epoch <= MaxClock
  /\ Ttls \subseteq Nat
  /\ Empty # Tomb /\ Empty \notin Slot /\ Tomb \notin Slot /\ NoPut \notin Slot

VARIABLES
  entries,      \* entries_: its domain is 0 .. capacity_ - 1
  size,         \* size_
  tombstones,   \* tombstones_
  offset,       \* offset_ of the arena
  bytes,        \* bytes_ of the memtable
  phase,        \* how far the operation in progress has come
  pending,      \* the entry that the put in progress stores
  old,          \* old_entries of the rehash in progress
  moved,        \* the loop index of rehash
  clock,
  answer        \* what the last get returned

table == <<entries, size, tombstones, offset>>
rehash == <<old, moved>>
vars == <<entries, size, tombstones, offset, bytes, phase, pending, old, moved, clock, answer>>

EmptySlots(cap) == [i \in 0 .. cap - 1 |-> Empty]
Capacity == Cardinality(DOMAIN entries)
Occupied(e, i) == e[i] \notin {Empty, Tomb}

TypeOK ==
  /\ entries \in [0 .. Capacity - 1 -> {Empty, Tomb} \union Slot] /\ Capacity >= InitCap
  /\ size \in Nat /\ tombstones \in Nat /\ offset \in Nat /\ bytes \in Nat
  /\ phase \in {"ready", "rehash", "insert", "written", "aborted"}
  /\ pending \in Slot \union {NoPut}
  /\ phase = "rehash" => /\ old \in [0 .. Capacity \div 2 - 1 -> {Empty, Tomb} \union Slot]
                         /\ moved \in 0 .. Capacity \div 2
  /\ clock \in Epoch .. MaxClock
  /\ answer \in Vals \union {Missing}

Init ==
  /\ entries = EmptySlots(InitCap)
  /\ size = 0 /\ tombstones = 0 /\ offset = 0 /\ bytes = 0
  /\ phase = "ready" /\ pending = NoPut /\ old = <<>> /\ moved = 0
  /\ clock = Epoch /\ answer = Missing
-----------------------------------------------------------------------------
\* find_slot.  The d-th probe for key k; the search ends at the first slot
\* that is EMPTY or holds k, and a search for insertion returns the first
\* tombstone it passed instead of an EMPTY slot.
Probe(k, d) == (Hash[k] + d) % Capacity
Stops(k, d) == entries[Probe(k, d)] = Empty \/ (Occupied(entries, Probe(k, d)) /\ entries[Probe(k, d)].key = k)
LeastOf(I) == CHOOSE i \in I : \A j \in I : i <= j

StopsAt(k) == {d \in 0 .. Capacity - 1 : Stops(k, d)}
SearchEnds(k) == StopsAt(k) # {}
FindSlot(k) == Probe(k, LeastOf(StopsAt(k)))

Passed(k) == {d \in 0 .. LeastOf(StopsAt(k)) - 1 : entries[Probe(k, d)] = Tomb}
\* Faulty variant: a tombstone is reused although the key comes later.
FirstTombstone(k) ==
  IF Passed(k) # {} THEN Probe(k, LeastOf(Passed(k))) ELSE FindSlot(k)

FindSlotForInsert(k) ==
  IF entries[FindSlot(k)] = Empty /\ Passed(k) # {}
  THEN Probe(k, LeastOf(Passed(k)))
  ELSE FindSlot(k)

\* Faulty variant: tombstones do not count.
LoadedWithEntries == 10 * size >= 7 * Capacity

\* MAX_LOAD is 0.7.
Loaded == 10 * (size + tombstones) >= 7 * Capacity

\* Arena::alloc: the end of the block, which must stay within the arena.
AllocEnd(off, len) == ((off + Align - 1) \div Align) * Align + len
ArenaSize == MemLimit * ArenaFactor

\* The part of HashTable::put after the load check.  An overwrite allocates
\* the value alone; an insertion into a tombstone's slot leaves tombstones_.
Store(e, next) ==
  LET i == FindSlotForInsert(e.key)
      end == IF Occupied(entries, i) THEN AllocEnd(offset, ValLen)
             ELSE AllocEnd(AllocEnd(offset, KeyLen), ValLen)
  IN
  IF end > ArenaSize
  THEN phase' = "aborted" /\ UNCHANGED table
  ELSE /\ phase' = next
       /\ entries' = [entries EXCEPT ![i] = e]
       /\ size' = IF Occupied(entries, i) THEN size ELSE size + 1
       /\ offset' = end
       /\ UNCHANGED tombstones
-----------------------------------------------------------------------------
\* A put whose rehash goes to a table of cap slots.
PutGrowing(k, v, ttl, cap) ==
  /\ phase = "ready"
  /\ pending' = [key |-> k, val |-> v, exp |-> ExpireTs(ttl, clock)]
  /\ IF Loaded
     THEN /\ phase' = "rehash"
          /\ old' = entries /\ moved' = 0
          /\ entries' = EmptySlots(cap) /\ size' = 0 /\ tombstones' = 0
          /\ UNCHANGED offset
     ELSE phase' = "insert" /\ UNCHANGED <<table, rehash>>
  /\ UNCHANGED <<bytes, clock, answer>>

\* Faulty variants: a rehash to a table that is not, or hardly, larger.
PutRehashingInPlace(k, v, ttl) == PutGrowing(k, v, ttl, Capacity)
PutGrowingByOne(k, v, ttl) == PutGrowing(k, v, ttl, Capacity + 1)

\* MemTable::put, up to the load check of HashTable::put.
Put(k, v, ttl) == PutGrowing(k, v, ttl, 2 * Capacity)

\* One round of the loop of rehash, which calls put again.
RehashSlot ==
  /\ phase = "rehash"
  /\ moved \in DOMAIN old
  /\ moved' = moved + 1
  /\ IF Occupied(old, moved)
     THEN ~Loaded /\ SearchEnds(old[moved].key) /\ Store(old[moved], "rehash")
     ELSE UNCHANGED <<table, phase>>
  /\ UNCHANGED <<old, bytes, pending, clock, answer>>

\* Faulty variant: an off-by-one in the loop's bound.
RehashEndsLate ==
  /\ phase = "rehash"
  /\ moved = Cardinality(DOMAIN old) + 1
  /\ phase' = "insert"
  /\ old' = <<>> /\ moved' = 0
  /\ UNCHANGED <<table, bytes, pending, clock, answer>>

RehashEnds ==
  /\ phase = "rehash"
  /\ moved \notin DOMAIN old
  /\ phase' = "insert"
  /\ old' = <<>> /\ moved' = 0
  /\ UNCHANGED <<table, bytes, pending, clock, answer>>

\* Faulty variant: bytes_ counts new keys only.
InsertCountingNewKeys ==
  /\ phase = "insert"
  /\ SearchEnds(pending.key)
  /\ Store(pending, "written")
  /\ bytes' = IF Occupied(entries, FindSlotForInsert(pending.key)) THEN bytes ELSE bytes + PutBytes
  /\ pending' = NoPut
  /\ UNCHANGED <<rehash, clock, answer>>

Insert ==
  /\ phase = "insert"
  /\ SearchEnds(pending.key)
  /\ Store(pending, "written")
  /\ bytes' = bytes + PutBytes
  /\ pending' = NoPut
  /\ UNCHANGED <<rehash, clock, answer>>

\* Faulty variants: the tombstone is not counted; the slot becomes EMPTY.
BuryUncounted(i) ==
  /\ entries' = [entries EXCEPT ![i] = Tomb]
  /\ size' = size - 1
  /\ UNCHANGED <<tombstones, offset>>
BuryEmpty(i) ==
  /\ entries' = [entries EXCEPT ![i] = Empty]
  /\ size' = size - 1
  /\ tombstones' = tombstones + 1
  /\ UNCHANGED offset

Bury(i) ==
  /\ entries' = [entries EXCEPT ![i] = Tomb]
  /\ size' = size - 1
  /\ tombstones' = tombstones + 1
  /\ UNCHANGED offset

Del(k) ==
  /\ phase = "ready"
  /\ SearchEnds(k)
  /\ IF Occupied(entries, FindSlot(k))
     THEN Bury(FindSlot(k)) /\ bytes' = bytes + KeyLen
     ELSE UNCHANGED <<table, bytes>>
  /\ phase' = "written"
  /\ UNCHANGED <<rehash, pending, clock, answer>>

\* A get buries the entry it finds expired.
Get(k) ==
  LET i == FindSlot(k) IN
  /\ phase = "ready"
  /\ SearchEnds(k)
  /\ IF Occupied(entries, i) /\ Expired(entries[i], clock)
     THEN Bury(i)
     ELSE UNCHANGED table
  /\ answer' = IF Occupied(entries, i) /\ ~Expired(entries[i], clock)
               THEN entries[i].val ELSE Missing
  /\ UNCHANGED <<rehash, bytes, phase, pending, clock>>

\* maybe_flush, as far as it concerns the active memtable.
MaybeFreeze ==
  /\ phase = "written"
  /\ phase' = "ready"
  /\ IF bytes >= MemLimit
     THEN /\ entries' = EmptySlots(InitCap)
          /\ size' = 0 /\ tombstones' = 0 /\ offset' = 0 /\ bytes' = 0
     ELSE UNCHANGED <<table, bytes>>
  /\ UNCHANGED <<rehash, pending, clock, answer>>

Tick ==
  /\ phase = "ready"
  /\ clock < MaxClock
  /\ clock' = clock + 1
  /\ UNCHANGED <<table, rehash, bytes, phase, pending, answer>>

Next ==
  \/ \E k \in Keys : Del(k) \/ Get(k)
  \/ \E k \in Keys, v \in Vals, ttl \in Ttls : Put(k, v, ttl)
  \/ RehashSlot \/ RehashEnds \/ Insert \/ MaybeFreeze
  \/ Tick

Spec == Init /\ [][Next]_vars /\ WF_vars(RehashSlot \/ RehashEnds \/ Insert \/ MaybeFreeze)
-----------------------------------------------------------------------------
\* Properties.

SlotsOf(e, k) == {i \in DOMAIN e : Occupied(e, i) /\ e[i].key = k}

\* The counters are what the load check needs: size_ is exact, tombstones_ an
\* upper bound (the code does not lower it when a tombstone's slot is reused).
CountersCoverTheSlots ==
  phase # "aborted" =>
    /\ size = Cardinality({i \in DOMAIN entries : Occupied(entries, i)})
    /\ tombstones >= Cardinality({i \in DOMAIN entries : entries[i] = Tomb})

\* find_slot has no bound on its loop: some slot must always be EMPTY, also
\* in the middle of a rehash.
SearchesEnd == \A k \in Keys : SearchEnds(k)

\* A key has at most one slot, and find_slot reaches it past the tombstones
\* and the keys that hashed to the same place.
KeysAreFound ==
  \A k \in Keys :
    /\ Cardinality(SlotsOf(entries, k)) <= 1
    /\ SlotsOf(entries, k) # {} => FindSlot(k) \in SlotsOf(entries, k)

\* The put that rehash calls for each entry never starts a rehash itself.
RehashIsNotNested == phase = "rehash" => ~Loaded

\* What a Store takes from the arena, alignment included, is at most this.
Footprint == PutBytes + 2 * (Align - 1)

\* Nothing in the arena is freed before the flush: not overwritten values,
\* nor deleted entries, nor what a rehash has copied.  Yet its use is bounded
\* by the count that triggers the flush, bytes_: all of it, copies included,
\* is at most 27/7 footprints for every PutBytes that bytes_ has counted.
ArenaUseIsBounded == 7 * (PutBytes * offset) <= 27 * (Footprint * bytes)

\* No allocation fails.  The code does not keep this for small entries,
\* whose padding ARENA_FACTOR does not pay for: it is the hypothesis of
\* ImplementsMap, and true if ArenaIsRoomy.
ArenaNeverRunsOut == phase # "aborted"

\* The factor pays for 27/7 footprints, for the limit and one put more.
ArenaIsRoomy ==
  /\ PutBytes > 0
  /\ 27 * (Footprint * (MemLimit + PutBytes)) <= 7 * (PutBytes * ArenaSize)

\* The map that the table stands for; during a rehash the old one still does.
EntryIn(e, k) ==
  IF SlotsOf(e, k) = {} THEN NoEntry
  ELSE LET s == e[CHOOSE i \in SlotsOf(e, k) : TRUE] IN [val |-> s.val, exp |-> s.exp]

Map == INSTANCE MemTableMap WITH
  mt     <- [k \in Keys |-> EntryIn(IF phase = "rehash" THEN old ELSE entries, k)],
  now    <- clock,
  answer <- answer

\* RehashEnds switches from the old table to the new: both hold the same map.
ImplementsMap == Map!MapSpec

\* A put that has begun ends, through a rehash if need be.
PutEnds == phase = "rehash" ~> phase = "ready"
=============================================================================
