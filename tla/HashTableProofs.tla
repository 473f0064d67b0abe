-------------------------- MODULE HashTableProofs --------------------------
(***************************************************************************)
(* The hash table for every value of the constants: the counters, the      *)
(* empty slot that ends every search, the slot a search finds, the rehash, *)
(* and the map that the table implements.                                  *)
(***************************************************************************)
EXTENDS HashTable, FiniteSetTheorems, WellFoundedInduction, TLAPS

\* A non-empty set of indices has a least one.
LEMMA LeastOfIsLeast ==
  ASSUME NEW I \in SUBSET Nat, I # {}
  PROVE  LeastOf(I) \in I /\ \A j \in I : LeastOf(I) <= j
<1>1. \E x \in I : \A y \in I : ~ (<<y, x>> \in OpToRel(<, Nat))
  BY NatLessThanWellFounded, WFMin
<1>2. PICK x \in I : \A y \in I : ~ (y < x)
  BY <1>1 DEF OpToRel
<1>3. \A y \in I : x <= y
  BY <1>2
<1> QED BY <1>3 DEF LeastOf
-----------------------------------------------------------------------------
(***************************************************************************)
(* Probing.  The c probes of a search for k in a table of c slots visit    *)
(* every slot once.                                                        *)
(***************************************************************************)
Pos(c, k, d) == (Hash[k] + d) % c

\* The d-th probe is d slots after the first, modulo the capacity.
LEMMA ProbeWrapsOnce ==
  ASSUME NEW c \in Nat \ {0}, NEW h \in Nat, NEW d \in 0 .. c - 1
  PROVE  /\ h % c \in 0 .. c - 1
         /\ (h + d) % c \in 0 .. c - 1
         /\ (h + d) % c = (h % c) + d \/ (h + d) % c = (h % c) + d - c
<1>1. /\ h % c \in 0 .. c - 1 /\ (h + d) % c \in 0 .. c - 1
      /\ h = c * (h \div c) + (h % c) /\ h + d = c * ((h + d) \div c) + ((h + d) % c)
      /\ h \div c \in Int /\ (h + d) \div c \in Int
  OBVIOUS
<1> DEFINE q == h \div c  r == h % c  p == (h + d) \div c  s == (h + d) % c
<1>2. q \in Int /\ p \in Int /\ r \in 0 .. c - 1 /\ s \in 0 .. c - 1
  BY <1>1
<1>3. c * (p - q) = r + d - s
  <2>1. c * p - c * q = r + d - s
    BY <1>1, <1>2
  <2>2. c * (p - q) = c * p - c * q
    BY <1>2
  <2> QED BY <2>1, <2>2
<1> HIDE DEF q, r, p, s
<1> DEFINE m == p - q
<1>4. m \in Int /\ c * m = r + d - s /\ -c < r + d - s /\ r + d - s < 2 * c
  BY <1>2, <1>3
<1> HIDE DEF m
<1>5. m < 2
  <2>1. SUFFICES ASSUME m >= 2 PROVE FALSE
    BY <1>4
  <2>2. c * m >= c * 2
    BY <1>4, <2>1
  <2> QED BY <1>4, <2>2
<1>6. m > -1
  <2>1. SUFFICES ASSUME m <= -1 PROVE FALSE
    BY <1>4
  <2>2. c * m <= -c
    BY <1>4, <2>1
  <2> QED BY <1>2, <1>4, <2>2
<1>7. m = 0 \/ m = 1
  BY <1>4, <1>5, <1>6
<1>8. s = r + d \/ s = r + d - c
  BY <1>2, <1>4, <1>7
<1> QED BY <1>1, <1>8 DEF r, s

\* No two of the c probes visit the same slot.
LEMMA ProbesDiffer ==
  ASSUME NEW c \in Nat \ {0}, NEW k \in Keys, NEW a \in 0 .. c - 1, NEW b \in 0 .. c - 1,
         Pos(c, k, a) = Pos(c, k, b)
  PROVE  a = b
<1>1. Hash[k] \in Nat
  BY HashTableAssumption DEF HashTableAssumption
<1> DEFINE r == Hash[k] % c
<1>2. /\ r \in 0 .. c - 1
      /\ Pos(c, k, a) = r + a \/ Pos(c, k, a) = r + a - c
      /\ Pos(c, k, b) = r + b \/ Pos(c, k, b) = r + b - c
  BY <1>1, ProbeWrapsOnce DEF Pos
<1> HIDE DEF r
<1> QED BY <1>2

\* Every slot is visited.
LEMMA ProbesReachAll ==
  ASSUME NEW c \in Nat \ {0}, NEW k \in Keys
  PROVE  /\ \A d \in 0 .. c - 1 : Pos(c, k, d) \in 0 .. c - 1
         /\ \A i \in 0 .. c - 1 : \E d \in 0 .. c - 1 : Pos(c, k, d) = i
<1>1. Hash[k] \in Nat
  BY HashTableAssumption DEF HashTableAssumption
<1> DEFINE r == Hash[k] % c
<1>2. \A d \in 0 .. c - 1 : /\ r \in 0 .. c - 1 /\ Pos(c, k, d) \in 0 .. c - 1
                            /\ Pos(c, k, d) = r + d \/ Pos(c, k, d) = r + d - c
  BY <1>1, ProbeWrapsOnce DEF Pos
<1> HIDE DEF r
<1>3. r \in 0 .. c - 1
  BY <1>2
<1>4. ASSUME NEW i \in 0 .. c - 1 PROVE \E d \in 0 .. c - 1 : Pos(c, k, d) = i
  <2>1. CASE i >= r
    <3>1. i - r \in 0 .. c - 1
      BY <1>3, <2>1
    <3>2. Pos(c, k, i - r) = i
      BY <1>2, <1>3, <3>1
    <3> QED BY <3>1, <3>2
  <2>2. CASE i < r
    <3>1. i - r + c \in 0 .. c - 1
      BY <1>3, <2>2
    <3>2. Pos(c, k, i - r + c) = i
      BY <1>2, <1>3, <3>1
    <3> QED BY <3>1, <3>2
  <2> QED BY <1>3, <2>1, <2>2
<1> QED BY <1>2, <1>4
-----------------------------------------------------------------------------
(***************************************************************************)
(* Tables.  Chained is what open addressing lives on: on the way from the  *)
(* first probe for a key to its slot no slot is EMPTY and none holds the   *)
(* key already.                                                            *)
(***************************************************************************)
Cap(e) == Cardinality(DOMAIN e)
Holds(e, i, k) == Occupied(e, i) /\ e[i].key = k
Occ(e) == {i \in DOMAIN e : Occupied(e, i)}
Tombs(e) == {i \in DOMAIN e : e[i] = Tomb}
Stored(e) == {e[i] : i \in Occ(e)}

Chained(e) ==
  \A k \in Keys, d \in 0 .. Cap(e) - 1 :
    Holds(e, Pos(Cap(e), k, d), k) =>
      \A b \in 0 .. d - 1 :
        e[Pos(Cap(e), k, b)] # Empty /\ ~Holds(e, Pos(Cap(e), k, b), k)

IsTable(e) ==
  /\ Cap(e) \in Nat /\ Cap(e) >= InitCap
  /\ e \in [0 .. Cap(e) - 1 -> {Empty, Tomb} \union Slot]
  /\ Chained(e)

\* What the counters say of a table: the load bound leaves a slot EMPTY.
IsCounted(e, n, t) ==
  /\ n = Cardinality(Occ(e))
  /\ t \in Nat /\ t >= Cardinality(Tombs(e))
  /\ 10 * (n + t) < 7 * Cap(e) + 10

\* A put is possible without a rehash.
HasRoom(e, n, t) == 10 * (n + t) < 7 * Cap(e)

\* The copy that a rehash has made so far.
OccBelow(e, n) == {i \in Occ(e) : i < n}
RehashInv ==
  /\ IsTable(old) /\ Cap(entries) = 2 * Cap(old)
  /\ moved \in 0 .. Cap(old)
  /\ 10 * Cardinality(Occ(old)) < 7 * Cap(old) + 10
  /\ tombstones = 0 /\ size <= Cardinality(OccBelow(old, moved))
  /\ Stored(entries) = {old[i] : i \in OccBelow(old, moved)}

PendingInv ==
  /\ pending \in Slot
  /\ \E ttl \in Ttls : pending.exp = ExpireTs(ttl, clock)

\* The inductive invariant.
IInv ==
  /\ IsTable(entries) /\ IsCounted(entries, size, tombstones)
  /\ offset \in Nat /\ bytes \in Nat
  /\ phase \in {"ready", "rehash", "insert", "written", "aborted"}
  /\ pending \in Slot \union {NoPut}
  /\ clock \in Epoch .. MaxClock
  /\ answer \in Vals \union {Missing}
  /\ phase \in {"rehash", "insert"} => PendingInv /\ HasRoom(entries, size, tombstones)
  /\ phase = "rehash" => RehashInv
-----------------------------------------------------------------------------
(* Searching.                                                              *)

\* The slots of a table are 0 .. Cap(e) - 1, and the sets of them are finite.
LEMMA TableFacts ==
  ASSUME NEW e, IsTable(e)
  PROVE  /\ Cap(e) \in Nat \ {0} /\ Cap(e) >= 4 /\ DOMAIN e = 0 .. Cap(e) - 1
         /\ \A i \in 0 .. Cap(e) - 1 : e[i] \in {Empty, Tomb} \union Slot
         /\ \A i \in Occ(e) : e[i] \in Slot
         /\ IsFiniteSet(Occ(e)) /\ Cardinality(Occ(e)) \in Nat
         /\ IsFiniteSet(Tombs(e)) /\ Cardinality(Tombs(e)) \in Nat
<1>1. Cap(e) \in Nat \ {0} /\ Cap(e) >= 4 /\ DOMAIN e = 0 .. Cap(e) - 1
  BY HashTableAssumption DEF HashTableAssumption, IsTable
<1>2. \A i \in 0 .. Cap(e) - 1 : e[i] \in {Empty, Tomb} \union Slot
  BY DEF IsTable
<1>3. IsFiniteSet(DOMAIN e)
  BY <1>1, FS_Interval
<1>4. Occ(e) \in SUBSET (DOMAIN e) /\ Tombs(e) \in SUBSET (DOMAIN e)
  BY DEF Occ, Tombs
<1>5. \A i \in Occ(e) : e[i] \in Slot
  BY <1>1, <1>2 DEF Occ, Occupied
<1> QED BY <1>1, <1>2, <1>3, <1>4, <1>5, FS_Subset, FS_CardinalityType

\* The load bound leaves a slot EMPTY.
LEMMA EmptySlotExists ==
  ASSUME NEW e, NEW n, NEW t, IsTable(e), IsCounted(e, n, t)
  PROVE  \E i \in 0 .. Cap(e) - 1 : e[i] = Empty
<1>1. SUFFICES ASSUME \A i \in 0 .. Cap(e) - 1 : e[i] # Empty PROVE FALSE
  OBVIOUS
<1>2. DOMAIN e = Occ(e) \cup Tombs(e)
  BY <1>1, TableFacts DEF Occ, Tombs, Occupied
<1>3. Cap(e) = Cardinality(Occ(e)) + Cardinality(Tombs(e)) - Cardinality(Occ(e) \cap Tombs(e))
  BY <1>2, TableFacts, FS_Union DEF Cap
<1>4. Occ(e) \cap Tombs(e) = {}
  BY DEF Occ, Tombs, Occupied
<1>5. Cap(e) = Cardinality(Occ(e)) + Cardinality(Tombs(e))
  <2>1. Cardinality(Occ(e) \cap Tombs(e)) = 0
    BY <1>4, FS_EmptySet
  <2> QED BY <1>3, <2>1, TableFacts
<1> QED BY <1>5, TableFacts DEF IsCounted

\* A key has at most one slot.
LEMMA SlotIsUnique ==
  ASSUME NEW e, IsTable(e), NEW k \in Keys,
         NEW i \in 0 .. Cap(e) - 1, NEW j \in 0 .. Cap(e) - 1,
         Holds(e, i, k), Holds(e, j, k)
  PROVE  i = j
<1>1. Cap(e) \in Nat \ {0}
  BY TableFacts
<1>2. PICK a \in 0 .. Cap(e) - 1 : Pos(Cap(e), k, a) = i
  BY <1>1, ProbesReachAll
<1>3. PICK b \in 0 .. Cap(e) - 1 : Pos(Cap(e), k, b) = j
  BY <1>1, ProbesReachAll
<1>4. ~ (a < b)
  <2>1. a < b => a \in 0 .. b - 1
    OBVIOUS
  <2> QED BY <1>2, <1>3, <2>1 DEF IsTable, Chained
<1>5. ~ (b < a)
  <2>1. b < a => b \in 0 .. a - 1
    OBVIOUS
  <2> QED BY <1>2, <1>3, <2>1 DEF IsTable, Chained
<1>6. a = b
  BY <1>4, <1>5
<1> QED BY <1>2, <1>3, <1>6

\* Where an entry for k may be stored: a slot that no stop precedes on the
\* way from the first probe, and that holds k if any slot does.
IsPlace(e, i, k) ==
  \E d \in 0 .. Cap(e) - 1 :
    /\ i = Pos(Cap(e), k, d)
    /\ \A b \in 0 .. d - 1 :
         e[Pos(Cap(e), k, b)] # Empty /\ ~Holds(e, Pos(Cap(e), k, b), k)
    /\ Holds(e, i, k) \/ (~Occupied(e, i) /\ \A j \in 0 .. Cap(e) - 1 : ~Holds(e, j, k))

\* A search of a table with an EMPTY slot ends, at the slot of the key or at
\* the EMPTY slot that shows that there is none.
LEMMA SearchFinds ==
  ASSUME IsTable(entries), NEW n, NEW t, IsCounted(entries, n, t), NEW k \in Keys
  PROVE  /\ SearchEnds(k)
         /\ FindSlot(k) \in 0 .. Cap(entries) - 1
         /\ IsPlace(entries, FindSlot(k), k)
         /\ entries[FindSlot(k)] = Empty \/ Holds(entries, FindSlot(k), k)
         /\ LeastOf(StopsAt(k)) \in 0 .. Cap(entries) - 1
         /\ \A b \in 0 .. LeastOf(StopsAt(k)) - 1 :
              /\ entries[Pos(Cap(entries), k, b)] # Empty
              /\ ~Holds(entries, Pos(Cap(entries), k, b), k)
<1> DEFINE c == Cap(entries)  D == StopsAt(k)  d == LeastOf(StopsAt(k))
<1>1. c \in Nat \ {0} /\ c = Capacity
  BY TableFacts DEF Cap, Capacity
<1>2. \A x : Probe(k, x) = Pos(c, k, x)
  BY <1>1 DEF Probe, Pos
<1>3. D = {x \in 0 .. c - 1 : entries[Pos(c, k, x)] = Empty \/ Holds(entries, Pos(c, k, x), k)}
  BY <1>1, <1>2 DEF StopsAt, Stops, Holds
<1>4. D # {}
  <2>1. PICK i \in 0 .. c - 1 : entries[i] = Empty
    BY EmptySlotExists
  <2>2. PICK x \in 0 .. c - 1 : Pos(c, k, x) = i
    BY <1>1, ProbesReachAll
  <2>3. x \in D
    BY <1>3, <2>1, <2>2
  <2> QED BY <2>3
<1>5. D \in SUBSET Nat
  BY <1>1, <1>3
<1>6. d \in D /\ \A x \in D : d <= x
  BY <1>4, <1>5, LeastOfIsLeast
<1>7. d \in 0 .. c - 1 /\ (entries[Pos(c, k, d)] = Empty \/ Holds(entries, Pos(c, k, d), k))
  BY <1>3, <1>6
<1>8. FindSlot(k) = Pos(c, k, d)
  BY <1>2 DEF FindSlot
<1>9. ASSUME NEW b \in 0 .. d - 1
      PROVE  entries[Pos(c, k, b)] # Empty /\ ~Holds(entries, Pos(c, k, b), k)
  <2>1. b \in 0 .. c - 1 /\ ~ (d <= b)
    BY <1>1, <1>7
  <2>2. b \notin D
    BY <1>6, <2>1
  <2> QED BY <1>3, <2>1, <2>2
<1>10. ASSUME entries[Pos(c, k, d)] = Empty, NEW j \in 0 .. c - 1, Holds(entries, j, k)
       PROVE FALSE
  <2>1. PICK x \in 0 .. c - 1 : Pos(c, k, x) = j
    BY <1>1, ProbesReachAll
  <2>2. x # d
    BY <1>10, <2>1 DEF Holds, Occupied
  <2>3. ~ (x < d)
    <3>1. x < d => x \in 0 .. d - 1
      BY <1>7, <2>1
    <3> QED BY <1>9, <1>10, <2>1, <3>1
  <2>4. ~ (d < x)
    <3>1. d < x => d \in 0 .. x - 1
      BY <1>7, <2>1
    <3> QED BY <1>10, <2>1, <3>1 DEF IsTable, Chained
  <2> QED BY <1>7, <2>1, <2>2, <2>3, <2>4
<1>11. Pos(c, k, d) \in 0 .. c - 1
  BY <1>1, <1>7, ProbesReachAll
<1>12. IsPlace(entries, FindSlot(k), k)
  <2> HIDE DEF d, D
  <2>1. \/ Holds(entries, Pos(c, k, d), k)
        \/ /\ ~Occupied(entries, Pos(c, k, d))
           /\ \A j \in 0 .. c - 1 : ~Holds(entries, j, k)
    BY <1>7, <1>10 DEF Occupied
  <2> QED BY <1>7, <1>8, <1>9, <2>1 DEF IsPlace
<1> QED BY <1>4, <1>7, <1>8, <1>9, <1>11, <1>12 DEF SearchEnds

\* The slot a put writes to.
LEMMA InsertFindsPlace ==
  ASSUME IsTable(entries), NEW n, NEW t, IsCounted(entries, n, t), NEW k \in Keys
  PROVE  IsPlace(entries, FindSlotForInsert(k), k)
<1> DEFINE c == Cap(entries)  d == LeastOf(StopsAt(k))  P == Passed(k)
<1>1. c \in Nat \ {0} /\ c = Capacity
  BY TableFacts DEF Cap, Capacity
<1>2. \A x : Probe(k, x) = Pos(c, k, x)
  BY <1>1 DEF Probe, Pos
<1>3. /\ IsPlace(entries, FindSlot(k), k)
      /\ d \in 0 .. c - 1
      /\ \A b \in 0 .. d - 1 :
           entries[Pos(c, k, b)] # Empty /\ ~Holds(entries, Pos(c, k, b), k)
  BY SearchFinds
<1>4. CASE entries[FindSlot(k)] = Empty /\ P # {}
  <2>1. P = {x \in 0 .. d - 1 : entries[Pos(c, k, x)] = Tomb}
    BY <1>2 DEF Passed
  <2>2. P \in SUBSET Nat
    BY <2>1
  <2>3. LeastOf(P) \in P
    BY <1>4, <2>2, LeastOfIsLeast
  <2> DEFINE p == LeastOf(P)
  <2>4. p \in 0 .. d - 1 /\ entries[Pos(c, k, p)] = Tomb
    BY <2>1, <2>3
  <2>5. FindSlotForInsert(k) = Pos(c, k, p)
    BY <1>2, <1>4 DEF FindSlotForInsert
  <2> HIDE DEF p, P, d
  <2>6. \A j \in 0 .. c - 1 : ~Holds(entries, j, k)
    BY <1>3, <1>4 DEF IsPlace, Holds, Occupied
  <2>7. p \in 0 .. c - 1 /\ \A b \in 0 .. p - 1 : b \in 0 .. d - 1
    BY <1>1, <1>3, <2>4
  <2>8. ~Occupied(entries, Pos(c, k, p))
    BY <2>4 DEF Occupied
  <2>9. \A b \in 0 .. p - 1 :
           entries[Pos(c, k, b)] # Empty /\ ~Holds(entries, Pos(c, k, b), k)
    BY <1>3, <2>7
  <2> QED BY <2>5, <2>6, <2>7, <2>8, <2>9 DEF IsPlace
<1>5. CASE ~ (entries[FindSlot(k)] = Empty /\ P # {})
  <2>1. FindSlotForInsert(k) = FindSlot(k)
    BY <1>5 DEF FindSlotForInsert
  <2> QED BY <1>3, <2>1
<1> QED BY <1>4, <1>5
-----------------------------------------------------------------------------
(* Storing and burying.                                                    *)

\* f is e with x in slot i.
Written(e, f, i, x) == f = [e EXCEPT ![i] = x]

\* An entry stored in its place: the other keys keep theirs.
LEMMA StoreKeepsTable ==
  ASSUME NEW e, NEW i, NEW f, NEW s \in Slot,
         IsTable(e), IsPlace(e, i, s.key), Written(e, f, i, s)
  PROVE  /\ IsTable(f) /\ Cap(f) = Cap(e)
         /\ i \in DOMAIN e
         /\ Stored(f) = {x \in Stored(e) : x.key # s.key} \union {s}
         /\ Occ(f) = Occ(e) \union {i}
         /\ Tombs(f) \subseteq Tombs(e)
<1> DEFINE c == Cap(e)
<1>1. /\ c \in Nat \ {0} /\ c >= InitCap /\ DOMAIN e = 0 .. c - 1
      /\ e \in [0 .. c - 1 -> {Empty, Tomb} \union Slot]
  BY TableFacts DEF IsTable
<1>2. s \notin {Empty, Tomb} /\ s.key \in Keys /\ Empty # Tomb
  BY HashTableAssumption DEF HashTableAssumption, Slot
<1>3. PICK t \in 0 .. c - 1 :
        /\ i = Pos(c, s.key, t)
        /\ \A b \in 0 .. t - 1 : e[Pos(c, s.key, b)] # Empty /\ ~Holds(e, Pos(c, s.key, b), s.key)
        /\ Holds(e, i, s.key) \/ (~Occupied(e, i) /\ \A j \in 0 .. c - 1 : ~Holds(e, j, s.key))
  BY DEF IsPlace
<1>4. i \in 0 .. c - 1
  BY <1>1, <1>2, <1>3, ProbesReachAll
<1>5. /\ f \in [0 .. c - 1 -> {Empty, Tomb} \union Slot]
      /\ DOMAIN f = 0 .. c - 1
      /\ f[i] = s /\ \A j \in 0 .. c - 1 : j # i => f[j] = e[j]
  BY <1>1, <1>4 DEF Written
<1>6. Cap(f) = c
  BY <1>1, <1>5 DEF Cap
<1>7. /\ Holds(f, i, s.key)
      /\ \A j \in 0 .. c - 1 : Holds(f, j, s.key) => j = i
  <2>1. Holds(f, i, s.key)
    BY <1>2, <1>5 DEF Holds, Occupied
  <2>2. ASSUME NEW j \in 0 .. c - 1, Holds(f, j, s.key), j # i PROVE FALSE
    <3>1. Holds(e, j, s.key)
      BY <1>5, <2>2 DEF Holds, Occupied
    <3>2. Holds(e, i, s.key)
      BY <1>3, <3>1
    <3> QED BY <1>2, <1>4, <2>2, <3>1, <3>2, SlotIsUnique
  <2> QED BY <2>1, <2>2
<1>8. \A k \in Keys, j \in 0 .. c - 1 :
        k # s.key => (Holds(f, j, k) <=> Holds(e, j, k) /\ j # i)
  <2>1. SUFFICES ASSUME NEW k \in Keys, NEW j \in 0 .. c - 1, k # s.key
                 PROVE  Holds(f, j, k) <=> Holds(e, j, k) /\ j # i
    OBVIOUS
  <2>2. CASE j = i
    BY <1>5, <2>1, <2>2 DEF Holds, Occupied
  <2>3. CASE j # i
    BY <1>5, <2>3 DEF Holds, Occupied
  <2> QED BY <2>2, <2>3
<1>9. Chained(f)
  <2>1. SUFFICES ASSUME NEW k \in Keys, NEW d \in 0 .. c - 1, Holds(f, Pos(c, k, d), k),
                        NEW b \in 0 .. d - 1
                 PROVE  f[Pos(c, k, b)] # Empty /\ ~Holds(f, Pos(c, k, b), k)
    BY <1>6 DEF Chained
  <2>2. /\ b \in 0 .. c - 1 /\ b # d
        /\ Pos(c, k, b) \in 0 .. c - 1 /\ Pos(c, k, d) \in 0 .. c - 1
        /\ Pos(c, k, b) # Pos(c, k, d)
    <3>1. b \in 0 .. c - 1 /\ b # d
      BY <1>1
    <3> QED BY <1>1, <3>1, ProbesReachAll, ProbesDiffer
  <2>3. CASE k = s.key
    <3>1. Pos(c, k, d) = i
      BY <1>7, <2>1, <2>2, <2>3
    <3>2. d = t
      BY <1>1, <1>3, <2>3, <3>1, ProbesDiffer
    <3>3. e[Pos(c, k, b)] # Empty /\ Pos(c, k, b) # i
      BY <1>3, <2>2, <2>3, <3>1, <3>2
    <3> QED BY <1>5, <1>7, <2>2, <2>3, <3>3
  <2>4. CASE k # s.key
    <3>1. Holds(e, Pos(c, k, d), k)
      BY <1>8, <2>1, <2>2, <2>4
    <3>2. e[Pos(c, k, b)] # Empty /\ ~Holds(e, Pos(c, k, b), k)
      BY <3>1 DEF IsTable, Chained
    <3>3. ~Holds(f, Pos(c, k, b), k)
      BY <1>8, <2>2, <2>4, <3>2
    <3>4. f[Pos(c, k, b)] # Empty
      BY <1>2, <1>5, <2>2, <3>2
    <3> QED BY <3>3, <3>4
  <2> QED BY <2>3, <2>4
<1>10. Occ(f) = Occ(e) \union {i}
  BY <1>1, <1>2, <1>4, <1>5 DEF Occ, Occupied
<1>11. Tombs(f) \subseteq Tombs(e)
  BY <1>1, <1>2, <1>5 DEF Tombs
<1>12. Stored(f) = {x \in Stored(e) : x.key # s.key} \union {s}
  <2>1. ASSUME NEW x \in Stored(f), x # s PROVE x \in Stored(e) /\ x.key # s.key
    <3>1. PICK j \in Occ(f) : x = f[j]
      BY DEF Stored
    <3>2. j # i /\ j \in 0 .. c - 1 /\ x = e[j] /\ j \in Occ(e)
      BY <1>1, <1>5, <1>10, <2>1, <3>1 DEF Occ
    <3>3. x.key # s.key
      BY <1>7, <3>1, <3>2 DEF Holds, Occ
    <3> QED BY <3>2, <3>3 DEF Stored
  <2>2. s \in Stored(f)
    BY <1>5, <1>10 DEF Stored
  <2>3. ASSUME NEW x \in Stored(e), x.key # s.key PROVE x \in Stored(f)
    <3>1. PICK j \in Occ(e) : x = e[j]
      BY DEF Stored
    <3>2. j \in 0 .. c - 1 /\ Occupied(e, j)
      BY <1>1, <3>1 DEF Occ
    <3>3. j # i
      BY <1>3, <2>3, <3>1, <3>2 DEF Holds
    <3> QED BY <1>5, <1>10, <3>1, <3>2, <3>3 DEF Stored
  <2> QED BY <2>1, <2>2, <2>3
<1>13. IsTable(f)
  BY <1>1, <1>5, <1>6, <1>9 DEF IsTable
<1> QED BY <1>1, <1>4, <1>6, <1>10, <1>11, <1>12, <1>13

\* What Store adds to the counters, when there is room.
LEMMA StoreKeepsCounts ==
  ASSUME NEW e, NEW i, NEW f, NEW n, NEW t, NEW s \in Slot,
         IsTable(e), IsCounted(e, n, t), HasRoom(e, n, t),
         IsPlace(e, i, s.key), Written(e, f, i, s)
  PROVE  /\ Occupied(e, i) => IsCounted(f, n, t)
         /\ ~Occupied(e, i) => IsCounted(f, n + 1, t)
<1>1. /\ IsTable(f) /\ Cap(f) = Cap(e) /\ i \in DOMAIN e
      /\ Occ(f) = Occ(e) \union {i} /\ Tombs(f) \subseteq Tombs(e)
  BY StoreKeepsTable
<1>2. Cardinality(Tombs(f)) <= Cardinality(Tombs(e)) /\ Cardinality(Tombs(f)) \in Nat
  BY <1>1, TableFacts, FS_Subset
<1>3. /\ Occupied(e, i) => Cardinality(Occ(f)) = Cardinality(Occ(e))
      /\ ~Occupied(e, i) => Cardinality(Occ(f)) = Cardinality(Occ(e)) + 1
  <2>1. IsFiniteSet(Occ(e))
    BY TableFacts
  <2>2. i \in Occ(e) <=> Occupied(e, i)
    BY <1>1 DEF Occ
  <2> QED BY <1>1, <2>1, <2>2, FS_AddElement
<1>4. /\ Cap(e) \in Nat /\ Cardinality(Occ(e)) \in Nat /\ Cardinality(Tombs(e)) \in Nat
      /\ n \in Nat /\ t \in Nat
  BY TableFacts DEF IsCounted
<1> QED BY <1>1, <1>2, <1>3, <1>4 DEF IsCounted, HasRoom

\* A tombstone keeps the searches for the other keys going.
LEMMA BuryKeepsTable ==
  ASSUME NEW e, NEW f, NEW k \in Keys, NEW i \in 0 .. Cap(e) - 1,
         IsTable(e), Holds(e, i, k), Written(e, f, i, Tomb)
  PROVE  /\ IsTable(f)
         /\ Stored(f) = {x \in Stored(e) : x.key # k}
         /\ \A n, t : IsCounted(e, n, t) => IsCounted(f, n - 1, t + 1)
<1> DEFINE c == Cap(e)
<1>1. /\ c \in Nat \ {0} /\ c >= InitCap /\ DOMAIN e = 0 .. c - 1
      /\ e \in [0 .. c - 1 -> {Empty, Tomb} \union Slot]
      /\ Empty # Tomb
  BY TableFacts, HashTableAssumption DEF IsTable, HashTableAssumption
<1>2. /\ f \in [0 .. c - 1 -> {Empty, Tomb} \union Slot]
      /\ DOMAIN f = 0 .. c - 1
      /\ f[i] = Tomb /\ \A j \in 0 .. c - 1 : j # i => f[j] = e[j]
  BY <1>1 DEF Written
<1>3. Cap(f) = c
  BY <1>1, <1>2 DEF Cap
<1>4. \A q \in Keys, j \in 0 .. c - 1 : Holds(f, j, q) => Holds(e, j, q)
  BY <1>2 DEF Holds, Occupied
<1>5. Chained(f)
  <2>1. SUFFICES ASSUME NEW q \in Keys, NEW d \in 0 .. c - 1, Holds(f, Pos(c, q, d), q),
                        NEW b \in 0 .. d - 1
                 PROVE  f[Pos(c, q, b)] # Empty /\ ~Holds(f, Pos(c, q, b), q)
    BY <1>3 DEF Chained
  <2>2. Pos(c, q, b) \in 0 .. c - 1 /\ Pos(c, q, d) \in 0 .. c - 1
    <3>1. b \in 0 .. c - 1
      BY <1>1
    <3> QED BY <1>1, <3>1, ProbesReachAll
  <2>3. Holds(e, Pos(c, q, d), q)
    BY <1>4, <2>1, <2>2
  <2>4. e[Pos(c, q, b)] # Empty /\ ~Holds(e, Pos(c, q, b), q)
    BY <2>3 DEF IsTable, Chained
  <2> QED BY <1>1, <1>2, <1>4, <2>2, <2>4
<1>6. i \in Occ(e) /\ Occ(f) = Occ(e) \ {i}
  BY <1>1, <1>2 DEF Occ, Occupied, Holds
<1>7. i \notin Tombs(e) /\ Tombs(f) = Tombs(e) \union {i}
  BY <1>1, <1>2 DEF Tombs, Occupied, Holds
<1>8. Stored(f) = {x \in Stored(e) : x.key # k}
  <2>1. ASSUME NEW x \in Stored(f) PROVE x \in Stored(e) /\ x.key # k
    <3>1. PICK j \in Occ(e) : j # i /\ x = f[j]
      BY <1>6 DEF Stored
    <3>2. j \in 0 .. c - 1 /\ x = e[j] /\ Occupied(e, j)
      BY <1>1, <1>2, <3>1 DEF Occ
    <3>3. x.key # k
      <4>1. x.key = k => Holds(e, j, k)
        BY <3>2 DEF Holds
      <4> QED BY <3>1, <3>2, <4>1, SlotIsUnique
    <3> QED BY <3>2, <3>3 DEF Stored
  <2>2. ASSUME NEW x \in Stored(e), x.key # k PROVE x \in Stored(f)
    <3>1. PICK j \in Occ(e) : x = e[j]
      BY DEF Stored
    <3>2. j \in 0 .. c - 1 /\ j # i
      BY <1>1, <2>2, <3>1 DEF Occ, Holds
    <3> QED BY <1>2, <1>6, <3>1, <3>2 DEF Stored
  <2> QED BY <2>1, <2>2
<1>9. ASSUME NEW n, NEW t, IsCounted(e, n, t) PROVE IsCounted(f, n - 1, t + 1)
  <2>1. Cardinality(Occ(f)) = Cardinality(Occ(e)) - 1
    BY <1>6, TableFacts, FS_RemoveElement
  <2>2. Cardinality(Tombs(f)) = Cardinality(Tombs(e)) + 1
    BY <1>7, TableFacts, FS_AddElement
  <2>3. Cardinality(Occ(e)) \in Nat /\ Cardinality(Tombs(e)) \in Nat
    BY TableFacts
  <2> QED BY <1>1, <1>3, <1>9, <2>1, <2>2, <2>3 DEF IsCounted
<1> QED BY <1>1, <1>2, <1>3, <1>5, <1>8, <1>9 DEF IsTable

\* calloc and the constructor: a new table.
LEMMA EmptyTableIsTable ==
  ASSUME NEW c \in Nat, c >= InitCap
  PROVE  /\ IsTable(EmptySlots(c)) /\ Cap(EmptySlots(c)) = c
         /\ Occ(EmptySlots(c)) = {} /\ Stored(EmptySlots(c)) = {}
         /\ IsCounted(EmptySlots(c), 0, 0) /\ HasRoom(EmptySlots(c), 0, 0)
<1> DEFINE e == EmptySlots(c)
<1>1. c >= 4 /\ InitCap \in Nat /\ Empty # Tomb
  BY HashTableAssumption DEF HashTableAssumption
<1>2. DOMAIN e = 0 .. c - 1 /\ \A i \in 0 .. c - 1 : e[i] = Empty
  BY DEF EmptySlots
<1>3. e \in [0 .. c - 1 -> {Empty, Tomb} \union Slot]
  BY DEF EmptySlots
<1>4. Cap(e) = c
  BY <1>1, <1>2, FS_Interval DEF Cap
<1> HIDE DEF e
<1>5. Occ(e) = {} /\ Tombs(e) = {} /\ Stored(e) = {}
  BY <1>1, <1>2 DEF Occ, Tombs, Occupied, Stored
<1>6. Chained(e)
  <2>1. ASSUME NEW k \in Keys, NEW d \in 0 .. c - 1 PROVE ~Holds(e, Pos(c, k, d), k)
    <3>1. Pos(c, k, d) \in 0 .. c - 1
      BY <1>1, ProbesReachAll
    <3> QED BY <1>2, <3>1 DEF Holds, Occupied
  <2> QED BY <1>4, <2>1 DEF Chained
<1>7. Cardinality(Occ(e)) = 0 /\ Cardinality(Tombs(e)) = 0
  BY <1>5, FS_EmptySet
<1>8. IsCounted(e, 0, 0) /\ HasRoom(e, 0, 0)
  BY <1>1, <1>4, <1>7 DEF IsCounted, HasRoom
<1> QED BY <1>1, <1>3, <1>4, <1>5, <1>6, <1>8 DEF IsTable, e
-----------------------------------------------------------------------------
(* The invariant is inductive.                                             *)

\* The arena's pointer stays a number.
LEMMA AllocEndIsNat ==
  ASSUME NEW off \in Nat, NEW len \in Nat
  PROVE  AllocEnd(off, len) \in Nat
<1>1. Align \in Nat \ {0}
  BY HashTableAssumption DEF HashTableAssumption
<1>2. (off + Align - 1) \div Align \in Nat
  BY <1>1
<1>3. ((off + Align - 1) \div Align) * Align \in Nat
  BY <1>1, <1>2
<1> QED BY <1>3 DEF AllocEnd

\* A Store either finds the arena full or stores the entry.
LEMMA StoreStep ==
  ASSUME NEW next, NEW s \in Slot, IInv, HasRoom(entries, size, tombstones), Store(s, next)
  PROVE  \/ phase' = "aborted" /\ UNCHANGED table
         \/ /\ phase' = next
            /\ IsTable(entries') /\ Cap(entries') = Cap(entries)
            /\ IsCounted(entries', size', tombstones')
            /\ Stored(entries') = {x \in Stored(entries) : x.key # s.key} \union {s}
            /\ tombstones' = tombstones /\ size' <= size + 1 /\ offset' \in Nat
<1> DEFINE i == FindSlotForInsert(s.key)
           end == IF Occupied(entries, i) THEN AllocEnd(offset, ValLen)
                  ELSE AllocEnd(AllocEnd(offset, KeyLen), ValLen)
<1>1. /\ IsTable(entries) /\ IsCounted(entries, size, tombstones)
      /\ s.key \in Keys /\ offset \in Nat
  BY DEF IInv, Slot
<1>2. IsPlace(entries, i, s.key)
  BY <1>1, InsertFindsPlace
<1>3. end \in Nat
  <2>1. KeyLen \in Nat /\ ValLen \in Nat
    BY MemTableAssumption DEF MemTableAssumption
  <2> QED BY <1>1, <2>1, AllocEndIsNat
<1>4. CASE end > ArenaSize
  BY <1>4 DEF Store
<1>5. CASE ~ (end > ArenaSize)
  <2>1. /\ phase' = next
        /\ Written(entries, entries', i, s)
        /\ Occupied(entries, i) => size' = size
        /\ ~Occupied(entries, i) => size' = size + 1
        /\ offset' = end /\ tombstones' = tombstones
    BY <1>5 DEF Store, Written
  <2> HIDE DEF i, end
  <2>2. /\ IsTable(entries') /\ Cap(entries') = Cap(entries)
        /\ Stored(entries') = {x \in Stored(entries) : x.key # s.key} \union {s}
    BY <1>1, <1>2, <2>1, StoreKeepsTable
  <2>3. /\ Occupied(entries, i) => IsCounted(entries', size, tombstones)
        /\ ~Occupied(entries, i) => IsCounted(entries', size + 1, tombstones)
    BY <1>1, <1>2, <2>1, StoreKeepsCounts
  <2>4. size \in Nat
    BY <1>1, TableFacts DEF IsCounted
  <2>5. IsCounted(entries', size', tombstones') /\ size' <= size + 1
    BY <2>1, <2>3, <2>4
  <2> QED BY <1>3, <2>1, <2>2, <2>5
<1> QED BY <1>4, <1>5

\* The table that a memtable starts with satisfies the invariant.
LEMMA InitIInv ==
  ASSUME Init
  PROVE  IInv
<1>1. InitCap \in Nat /\ Epoch \in Nat /\ MaxClock \in Nat /\ Epoch <= MaxClock
  BY HashTableAssumption DEF HashTableAssumption
<1>2. IsTable(entries) /\ IsCounted(entries, size, tombstones)
  BY <1>1, EmptyTableIsTable DEF Init
<1> QED BY <1>1, <1>2 DEF Init, IInv

\* A put: the load check leaves room, in the table or in the new one.
LEMMA PutIInv ==
  ASSUME IInv, NEW k \in Keys, NEW v \in Vals, NEW ttl \in Ttls, Put(k, v, ttl)
  PROVE  IInv'
<1>1. /\ IsTable(entries) /\ IsCounted(entries, size, tombstones)
      /\ Capacity = Cap(entries) /\ clock \in Nat
      /\ Cap(entries) \in Nat /\ Cap(entries) >= InitCap /\ InitCap \in Nat
  BY TableFacts, HashTableAssumption DEF IInv, Capacity, Cap, IsTable, HashTableAssumption
<1>2. pending' \in Slot /\ pending'.exp = ExpireTs(ttl, clock) /\ clock' = clock
  <2>1. ExpireTs(ttl, clock) \in Int
    BY <1>1, HashTableAssumption, MemTableAssumption
       DEF ExpireTs, HashTableAssumption, MemTableAssumption
  <2> QED BY <2>1 DEF Put, PutGrowing, Slot
<1>3. PendingInv'
  BY <1>2 DEF PendingInv
<1>4. CASE Loaded
  <2> DEFINE c == 2 * Capacity
  <2>1. /\ phase' = "rehash" /\ old' = entries /\ moved' = 0
        /\ entries' = EmptySlots(c) /\ size' = 0 /\ tombstones' = 0
        /\ UNCHANGED <<offset, bytes, clock, answer>>
    BY <1>4 DEF Put, PutGrowing
  <2>2. c \in Nat /\ c >= InitCap /\ c = 2 * Cap(entries)
    BY <1>1
  <2> HIDE DEF c
  <2>3. /\ IsTable(entries') /\ Cap(entries') = c /\ Stored(entries') = {}
        /\ IsCounted(entries', 0, 0) /\ HasRoom(entries', 0, 0)
    BY <2>1, <2>2, EmptyTableIsTable
  <2>4. OccBelow(old', 0) = {}
    <3>1. DOMAIN entries = 0 .. Cap(entries) - 1
      BY <1>1, TableFacts
    <3>2. OccBelow(entries, 0) = {}
      BY <1>1, <3>1 DEF OccBelow, Occ
    <3> QED BY <2>1, <3>2
  <2>5. RehashInv'
    <3>1. 10 * Cardinality(Occ(entries)) < 7 * Cap(entries) + 10
      BY <1>1, TableFacts DEF IsCounted
    <3>2. Cardinality(OccBelow(old', 0)) = 0
      BY <2>4, FS_EmptySet
    <3> QED BY <1>1, <2>1, <2>2, <2>3, <2>4, <3>1, <3>2 DEF RehashInv
  <2> QED BY <1>2, <1>3, <2>1, <2>3, <2>5 DEF IInv
<1>5. CASE ~Loaded
  <2>1. phase' = "insert" /\ UNCHANGED <<table, bytes, clock, answer>>
    BY <1>5 DEF Put, PutGrowing
  <2>2. HasRoom(entries, size, tombstones)
    BY <1>1, <1>5, TableFacts DEF Loaded, HasRoom, IsCounted
  <2> QED BY <1>2, <1>3, <2>1, <2>2 DEF IInv, table
<1> QED BY <1>4, <1>5

\* A search that found its key: the entry becomes a tombstone.
LEMMA BuryStep ==
  ASSUME IInv, NEW k \in Keys, Occupied(entries, FindSlot(k)), Bury(FindSlot(k))
  PROVE  /\ IsTable(entries') /\ IsCounted(entries', size', tombstones')
         /\ Stored(entries') = {x \in Stored(entries) : x.key # k}
<1>1. IsTable(entries) /\ IsCounted(entries, size, tombstones)
  BY DEF IInv
<1>2. FindSlot(k) \in 0 .. Cap(entries) - 1 /\ Holds(entries, FindSlot(k), k)
  <2>1. entries[FindSlot(k)] = Empty \/ Holds(entries, FindSlot(k), k)
    BY <1>1, SearchFinds
  <2> QED BY <1>1, <2>1, SearchFinds DEF Occupied
<1>3. /\ Written(entries, entries', FindSlot(k), Tomb)
      /\ size' = size - 1 /\ tombstones' = tombstones + 1
  BY DEF Bury, Written
<1> QED BY <1>1, <1>2, <1>3, BuryKeepsTable

\* One more slot of the old table has been looked at.
LEMMA OccBelowNext ==
  ASSUME NEW e, IsTable(e), NEW n \in 0 .. Cap(e) - 1
  PROVE  /\ Occupied(e, n) => OccBelow(e, n + 1) = OccBelow(e, n) \union {n}
         /\ ~Occupied(e, n) => OccBelow(e, n + 1) = OccBelow(e, n)
         /\ n \notin OccBelow(e, n) /\ IsFiniteSet(OccBelow(e, n))
         /\ Cardinality(OccBelow(e, n)) \in Nat
<1>1. DOMAIN e = 0 .. Cap(e) - 1 /\ Cap(e) \in Nat
  BY TableFacts
<1>2. n \in Int /\ n \in DOMAIN e /\ \A i \in Occ(e) : i \in Int
  BY <1>1 DEF Occ
<1>3. /\ Occupied(e, n) => OccBelow(e, n + 1) = OccBelow(e, n) \union {n}
      /\ ~Occupied(e, n) => OccBelow(e, n + 1) = OccBelow(e, n)
      /\ n \notin OccBelow(e, n)
  BY <1>2 DEF OccBelow, Occ
<1>4. OccBelow(e, n) \in SUBSET Occ(e)
  BY DEF OccBelow
<1> QED BY <1>3, <1>4, TableFacts, FS_Subset, FS_CardinalityType

\* The rehash in progress has room for all it may still copy.
LEMMA RehashHasRoom ==
  ASSUME NEW n, IsTable(old), Cap(entries) = 2 * Cap(old), n \in Nat,
         10 * Cardinality(Occ(old)) < 7 * Cap(old) + 10, n <= Cardinality(Occ(old))
  PROVE  HasRoom(entries, n, 0)
BY TableFacts DEF HasRoom

\* There are at most as many occupied slots below n as there are at all.
LEMMA OccBelowIsSmaller ==
  ASSUME NEW e, IsTable(e), NEW n
  PROVE  Cardinality(OccBelow(e, n)) <= Cardinality(Occ(e))
<1>1. OccBelow(e, n) \in SUBSET Occ(e)
  BY DEF OccBelow
<1> QED BY <1>1, TableFacts, FS_Subset

\* The entry copied next is not in the new table yet.
LEMMA CopiedOnce ==
  ASSUME IInv, phase = "rehash", moved \in DOMAIN old, Occupied(old, moved)
  PROVE  /\ old[moved] \in Slot
         /\ \A x \in Stored(entries) : x.key # old[moved].key
<1>1. /\ IsTable(old) /\ DOMAIN old = 0 .. Cap(old) - 1
      /\ Stored(entries) = {old[i] : i \in OccBelow(old, moved)}
  BY TableFacts DEF IInv, RehashInv
<1>2. moved \in Occ(old) /\ old[moved] \in Slot /\ old[moved].key \in Keys
  <2>1. moved \in Occ(old)
    BY DEF Occ
  <2>2. old[moved] \in Slot
    BY <1>1, <2>1, TableFacts
  <2> QED BY <2>1, <2>2 DEF Slot
<1>3. ASSUME NEW x \in Stored(entries), x.key = old[moved].key PROVE FALSE
  <2>1. PICK i \in OccBelow(old, moved) : x = old[i]
    BY <1>1
  <2>2. i \in 0 .. Cap(old) - 1 /\ i < moved /\ Holds(old, i, old[moved].key)
    BY <1>1, <1>3, <2>1 DEF OccBelow, Occ, Holds
  <2>3. Holds(old, moved, old[moved].key)
    BY DEF Holds
  <2>4. i = moved
    BY <1>1, <1>2, <2>2, <2>3, SlotIsUnique
  <2> QED BY <1>1, <2>2, <2>4
<1> QED BY <1>2, <1>3

\* One round of the rehash.
LEMMA RehashSlotIInv ==
  ASSUME IInv, RehashSlot
  PROVE  IInv'
<1>1. /\ phase = "rehash" /\ moved \in DOMAIN old /\ moved' = moved + 1
      /\ UNCHANGED <<old, bytes, pending, clock, answer>>
      /\ RehashInv /\ PendingInv /\ HasRoom(entries, size, tombstones)
      /\ IsTable(entries) /\ IsCounted(entries, size, tombstones)
  BY DEF RehashSlot, IInv
<1>2. PendingInv'
  BY <1>1 DEF PendingInv
<1>3. /\ moved \in 0 .. Cap(old) - 1 /\ moved' \in 0 .. Cap(old) /\ IsTable(old)
      /\ Cap(old) \in Nat
  <2>1. IsTable(old) /\ moved \in 0 .. Cap(old)
    BY <1>1 DEF RehashInv
  <2>2. DOMAIN old = 0 .. Cap(old) - 1 /\ Cap(old) \in Nat
    BY <2>1, TableFacts
  <2> QED BY <1>1, <2>1, <2>2
<1>4. size \in Nat
  BY <1>1, TableFacts DEF IsCounted
<1>5. CASE Occupied(old, moved)
  <2>1. Store(old[moved], "rehash")
    BY <1>5 DEF RehashSlot
  <2>2. old[moved] \in Slot /\ \A x \in Stored(entries) : x.key # old[moved].key
    BY <1>1, <1>5, CopiedOnce
  <2>3. CASE phase' = "aborted" /\ UNCHANGED table
    BY <1>1, <2>3 DEF IInv, table
  <2>4. CASE /\ phase' = "rehash"
             /\ IsTable(entries') /\ Cap(entries') = Cap(entries)
             /\ IsCounted(entries', size', tombstones')
             /\ Stored(entries')
                  = {x \in Stored(entries) : x.key # old[moved].key} \union {old[moved]}
             /\ tombstones' = tombstones /\ size' <= size + 1 /\ offset' \in Nat
    <3>1. OccBelow(old, moved + 1) = OccBelow(old, moved) \union {moved}
      BY <1>3, <1>5, OccBelowNext
    <3>2. Stored(entries') = {old[i] : i \in OccBelow(old, moved + 1)}
      <4>1. Stored(entries') = {old[i] : i \in OccBelow(old, moved)} \union {old[moved]}
        BY <1>1, <2>2, <2>4 DEF RehashInv
      <4> QED BY <3>1, <4>1
    <3>3. Cardinality(OccBelow(old, moved + 1)) = Cardinality(OccBelow(old, moved)) + 1
      BY <1>3, <3>1, OccBelowNext, FS_AddElement
    <3>4. size' \in Nat
      BY <2>4, TableFacts DEF IsCounted
    <3>5. size' <= Cardinality(OccBelow(old, moved + 1))
      BY <1>1, <1>3, <1>4, <2>4, <3>3, <3>4, OccBelowNext DEF RehashInv
    <3>6. RehashInv'
      BY <1>1, <1>3, <2>4, <3>2, <3>5 DEF RehashInv
    <3>7. HasRoom(entries', size', tombstones')
      <4>1. size' <= Cardinality(Occ(old))
        <5>1. /\ Cardinality(OccBelow(old, moved + 1)) <= Cardinality(Occ(old))
              /\ Cardinality(OccBelow(old, moved)) \in Nat
              /\ Cardinality(Occ(old)) \in Nat
          BY <1>3, OccBelowIsSmaller, OccBelowNext, TableFacts
        <5> QED BY <3>3, <3>4, <3>5, <5>1
      <4>2. HasRoom(entries, size', 0)
        BY <1>1, <3>4, <4>1, RehashHasRoom DEF RehashInv
      <4> QED BY <1>1, <2>4, <4>2 DEF RehashInv, HasRoom
    <3> QED BY <1>1, <1>2, <2>4, <3>6, <3>7 DEF IInv
  <2> QED BY <1>1, <2>1, <2>2, <2>3, <2>4, StoreStep
<1>6. CASE ~Occupied(old, moved)
  <2>1. UNCHANGED <<table, phase>>
    BY <1>6 DEF RehashSlot
  <2>2. OccBelow(old, moved + 1) = OccBelow(old, moved)
    BY <1>3, <1>6, OccBelowNext
  <2>3. RehashInv'
    BY <1>1, <1>3, <2>1, <2>2 DEF RehashInv, table
  <2> QED BY <1>1, <1>2, <2>1, <2>3 DEF IInv, table
<1> QED BY <1>5, <1>6

\* The invariant is kept by every step.
LEMMA NextIInv ==
  ASSUME IInv, [Next]_vars
  PROVE  IInv'
<1>0. IsTable(entries) /\ IsCounted(entries, size, tombstones) /\ offset \in Nat /\ bytes \in Nat
  BY DEF IInv
<1>1. KeyLen \in Nat /\ ValLen \in Nat
  BY MemTableAssumption DEF MemTableAssumption
<1>2. ASSUME NEW k \in Keys, Del(k) PROVE IInv'
  <2>1. /\ phase' = "written" /\ UNCHANGED <<pending, clock, answer>>
        /\ offset' = offset /\ bytes' \in Nat
    BY <1>0, <1>1, <1>2 DEF Del, Bury, table
  <2>2. IsTable(entries') /\ IsCounted(entries', size', tombstones')
    <3>1. CASE Occupied(entries, FindSlot(k))
      BY <1>2, <3>1, BuryStep DEF Del
    <3>2. CASE ~Occupied(entries, FindSlot(k))
      BY <1>0, <1>2, <3>2 DEF Del, table
    <3> QED BY <3>1, <3>2
  <2> QED BY <2>1, <2>2 DEF IInv
<1>3. ASSUME NEW k \in Keys, Get(k) PROVE IInv'
  <2>1. /\ phase' = "ready" /\ UNCHANGED <<pending, clock, bytes>> /\ offset' = offset
    BY <1>3 DEF Get, Bury, table
  <2>2. IsTable(entries') /\ IsCounted(entries', size', tombstones')
    <3>1. CASE Occupied(entries, FindSlot(k)) /\ Bury(FindSlot(k))
      BY <3>1, BuryStep
    <3>2. CASE UNCHANGED table
      BY <1>0, <3>2 DEF table
    <3> QED BY <1>3, <3>1, <3>2 DEF Get
  <2>3. answer' \in Vals \union {Missing}
    <3>1. CASE Occupied(entries, FindSlot(k))
      <4>1. FindSlot(k) \in 0 .. Cap(entries) - 1
        BY <1>0, SearchFinds
      <4>2. FindSlot(k) \in Occ(entries)
        BY <1>0, <3>1, <4>1, TableFacts DEF Occ
      <4>3. entries[FindSlot(k)] \in Slot
        BY <1>0, <4>2, TableFacts
      <4> QED BY <1>3, <4>3 DEF Get, Slot
    <3>2. CASE ~Occupied(entries, FindSlot(k))
      BY <1>3, <3>2 DEF Get
    <3> QED BY <3>1, <3>2
  <2> QED BY <2>1, <2>2, <2>3 DEF IInv
<1>4. ASSUME NEW k \in Keys, NEW v \in Vals, NEW ttl \in Ttls, Put(k, v, ttl) PROVE IInv'
  BY <1>4, PutIInv
<1>5. ASSUME RehashSlot PROVE IInv'
  BY <1>5, RehashSlotIInv
<1>6. ASSUME RehashEnds PROVE IInv'
  <2>1. PendingInv' /\ HasRoom(entries', size', tombstones')
    BY <1>6 DEF RehashEnds, IInv, PendingInv, table
  <2> QED BY <1>6, <2>1 DEF RehashEnds, IInv, table
<1>7. ASSUME Insert PROVE IInv'
  <2>1. /\ pending \in Slot /\ HasRoom(entries, size, tombstones) /\ Store(pending, "written")
        /\ bytes' \in Nat /\ pending' = NoPut /\ UNCHANGED <<clock, answer>>
    BY <1>0, <1>1, <1>7 DEF Insert, IInv, PendingInv, PutBytes
  <2>2. CASE phase' = "aborted" /\ UNCHANGED table
    BY <2>1, <2>2 DEF IInv, table
  <2>3. CASE /\ phase' = "written" /\ IsTable(entries')
             /\ IsCounted(entries', size', tombstones') /\ offset' \in Nat
    BY <2>1, <2>3 DEF IInv
  <2> QED BY <2>1, <2>2, <2>3, StoreStep
<1>8. ASSUME MaybeFreeze PROVE IInv'
  <2>1. /\ phase' = "ready" /\ UNCHANGED <<pending, clock, answer>>
        /\ offset' \in Nat /\ bytes' \in Nat
    BY <1>0, <1>8 DEF MaybeFreeze, table
  <2>2. IsTable(entries') /\ IsCounted(entries', size', tombstones')
    <3>1. CASE bytes >= MemLimit
      <4>1. InitCap \in Nat
        BY HashTableAssumption DEF HashTableAssumption
      <4>2. entries' = EmptySlots(InitCap) /\ size' = 0 /\ tombstones' = 0
        BY <1>8, <3>1 DEF MaybeFreeze
      <4> QED BY <4>1, <4>2, EmptyTableIsTable
    <3>2. CASE ~ (bytes >= MemLimit)
      BY <1>0, <1>8, <3>2 DEF MaybeFreeze, table
    <3> QED BY <3>1, <3>2
  <2> QED BY <2>1, <2>2 DEF IInv
<1>9. ASSUME Tick PROVE IInv'
  <2>1. clock' \in Epoch .. MaxClock
    BY <1>9, HashTableAssumption DEF Tick, IInv, HashTableAssumption
  <2> QED BY <1>9, <2>1 DEF Tick, IInv, table
<1>10. ASSUME UNCHANGED vars PROVE IInv'
  BY <1>10 DEF vars, IInv, RehashInv, PendingInv
<1> QED BY <1>2, <1>3, <1>4, <1>5, <1>6, <1>7, <1>8, <1>9, <1>10 DEF Next

\* The inductive invariant holds in every reachable state.
THEOREM Invariance == Spec => []IInv
<1>1. Init => IInv
  BY InitIInv
<1>2. IInv /\ [Next]_vars => IInv'
  BY NextIInv
<1> QED BY <1>1, <1>2, PTL DEF Spec
-----------------------------------------------------------------------------
(* What the runs check of the table, for every table.                      *)

\* Every variable keeps its type (hash.cpp, memtable.cpp).
THEOREM TypeCorrect == Spec => []TypeOK
<1>1. IInv => TypeOK
  <2>1. SUFFICES ASSUME IInv PROVE TypeOK
    OBVIOUS
  <2>2. /\ IsTable(entries) /\ IsCounted(entries, size, tombstones)
        /\ Capacity = Cap(entries) /\ offset \in Nat /\ bytes \in Nat
        /\ phase = "rehash" => RehashInv
    BY <2>1 DEF IInv, Capacity, Cap
  <2>3. size \in Nat /\ tombstones \in Nat
    BY <2>2, TableFacts DEF IsCounted
  <2>4. entries \in [0 .. Capacity - 1 -> {Empty, Tomb} \union Slot] /\ Capacity >= InitCap
    BY <2>2 DEF IsTable
  <2>5. ASSUME phase = "rehash"
        PROVE  /\ old \in [0 .. Capacity \div 2 - 1 -> {Empty, Tomb} \union Slot]
               /\ moved \in 0 .. Capacity \div 2
    <3>1. /\ IsTable(old) /\ Capacity = 2 * Cap(old) /\ moved \in 0 .. Cap(old)
          /\ Cap(old) \in Nat
      BY <2>2, <2>5, TableFacts DEF RehashInv
    <3>2. Capacity \div 2 = Cap(old)
      BY <3>1
    <3> QED BY <3>1, <3>2 DEF IsTable
  <2> QED BY <2>1, <2>2, <2>3, <2>4, <2>5 DEF TypeOK, IInv
<1> QED BY <1>1, Invariance, PTL

\* size_ and tombstones_ say enough of the slots for the load check of put.
THEOREM CountersCorrect == Spec => []CountersCoverTheSlots
<1>1. IInv => CountersCoverTheSlots
  BY DEF IInv, IsCounted, Occ, Tombs, CountersCoverTheSlots
<1> QED BY <1>1, Invariance, PTL

\* The unbounded loop of find_slot ends, whatever the keys hash to.
THEOREM EverySearchEnds == Spec => []SearchesEnd
<1>1. IInv => SearchesEnd
  BY SearchFinds DEF IInv, SearchesEnd
<1> QED BY <1>1, Invariance, PTL

\* A key's only slot is the one find_slot returns.
THEOREM SearchesFindTheKeys == Spec => []KeysAreFound
<1>1. IInv => KeysAreFound
  <2>1. SUFFICES ASSUME IInv, NEW k \in Keys
                 PROVE  /\ Cardinality(SlotsOf(entries, k)) <= 1
                        /\ SlotsOf(entries, k) # {} => FindSlot(k) \in SlotsOf(entries, k)
    BY DEF KeysAreFound
  <2>2. IsTable(entries) /\ IsCounted(entries, size, tombstones)
    BY <2>1 DEF IInv
  <2>3. DOMAIN entries = 0 .. Cap(entries) - 1
    BY <2>2, TableFacts
  <2>4. \A i \in 0 .. Cap(entries) - 1 : i \in SlotsOf(entries, k) <=> Holds(entries, i, k)
    BY <2>3 DEF SlotsOf, Holds
  <2>5. SlotsOf(entries, k) \subseteq 0 .. Cap(entries) - 1
    BY <2>3 DEF SlotsOf
  <2>6. CASE SlotsOf(entries, k) = {}
    BY <2>6, FS_EmptySet
  <2>7. ASSUME NEW i \in SlotsOf(entries, k)
        PROVE  /\ Cardinality(SlotsOf(entries, k)) <= 1
               /\ FindSlot(k) \in SlotsOf(entries, k)
    <3>1. SlotsOf(entries, k) = {i}
      BY <2>2, <2>4, <2>5, <2>7, SlotIsUnique
    <3>2. Cardinality({i}) = 1
      BY FS_Singleton
    <3>3. FindSlot(k) \in 0 .. Cap(entries) - 1 /\ Holds(entries, FindSlot(k), k)
      <4>1. Holds(entries, i, k) /\ i \in 0 .. Cap(entries) - 1
        BY <2>4, <2>5, <2>7
      <4> QED BY <2>2, <4>1, SearchFinds DEF IsPlace
    <3> QED BY <2>4, <3>1, <3>2, <3>3
  <2> QED BY <2>6, <2>7
<1> QED BY <1>1, Invariance, PTL

\* The puts of a rehash find room, so rehash never calls itself.
THEOREM RehashCorrect == Spec => []RehashIsNotNested
<1>1. IInv => RehashIsNotNested
  <2>1. SUFFICES ASSUME IInv, phase = "rehash" PROVE ~Loaded
    BY DEF RehashIsNotNested
  <2>2. /\ HasRoom(entries, size, tombstones) /\ IsTable(entries)
        /\ IsCounted(entries, size, tombstones)
    BY <2>1 DEF IInv
  <2>3. Cap(entries) \in Nat /\ size \in Nat /\ tombstones \in Nat /\ Capacity = Cap(entries)
    BY <2>2, TableFacts DEF IsCounted, Capacity, Cap
  <2> QED BY <2>2, <2>3 DEF HasRoom, Loaded
<1> QED BY <1>1, Invariance, PTL
-----------------------------------------------------------------------------
(***************************************************************************)
(* The map.  It depends on the entries stored alone, not on their slots:   *)
(* this is why a rehash does not change it.                                *)
(***************************************************************************)
MapOf(e) == [k \in Keys |-> EntryIn(e, k)]

\* The entry that the map has for a key is the one stored for it.
LEMMA EntryOfStored ==
  ASSUME NEW e, IsTable(e), NEW k \in Keys
  PROVE  /\ \A x \in Stored(e) : x.key = k => MapOf(e)[k] = [val |-> x.val, exp |-> x.exp]
         /\ (\A x \in Stored(e) : x.key # k) => MapOf(e)[k] = NoEntry
<1>1. DOMAIN e = 0 .. Cap(e) - 1
  BY TableFacts
<1>2. SlotsOf(e, k) = {i \in Occ(e) : e[i].key = k}
  BY DEF SlotsOf, Occ
<1>3. MapOf(e)[k] = EntryIn(e, k)
  BY DEF MapOf
<1>4. ASSUME NEW x \in Stored(e), x.key = k
      PROVE  EntryIn(e, k) = [val |-> x.val, exp |-> x.exp]
  <2>1. PICK i \in Occ(e) : x = e[i]
    BY DEF Stored
  <2>2. SlotsOf(e, k) = {i}
    <3>1. i \in SlotsOf(e, k)
      BY <1>2, <1>4, <2>1
    <3>2. ASSUME NEW j \in SlotsOf(e, k) PROVE j = i
      <4>1. /\ i \in 0 .. Cap(e) - 1 /\ j \in 0 .. Cap(e) - 1
            /\ Holds(e, i, k) /\ Holds(e, j, k)
        BY <1>1, <1>2, <1>4, <2>1 DEF Occ, Holds
      <4> QED BY <4>1, SlotIsUnique
    <3> QED BY <3>1, <3>2
  <2>3. (CHOOSE j \in SlotsOf(e, k) : TRUE) = i
    BY <2>2
  <2> QED BY <2>1, <2>2, <2>3 DEF EntryIn
<1>5. ASSUME \A x \in Stored(e) : x.key # k PROVE EntryIn(e, k) = NoEntry
  <2>1. SlotsOf(e, k) = {}
    BY <1>2, <1>5 DEF Stored
  <2> QED BY <2>1 DEF EntryIn
<1> QED BY <1>3, <1>4, <1>5

\* The same entries for a key, the same value of the map.
LEMMA SameEntrySameValue ==
  ASSUME NEW e, NEW f, IsTable(e), IsTable(f), NEW k \in Keys,
         \A x : x \in Stored(f) /\ x.key = k <=> x \in Stored(e) /\ x.key = k
  PROVE  MapOf(f)[k] = MapOf(e)[k]
<1>1. CASE \E x \in Stored(e) : x.key = k
  <2>1. PICK x \in Stored(e) : x.key = k
    BY <1>1
  <2>2. x \in Stored(f)
    BY <2>1
  <2>3. MapOf(e)[k] = [val |-> x.val, exp |-> x.exp]
    BY <2>1, EntryOfStored
  <2>4. MapOf(f)[k] = [val |-> x.val, exp |-> x.exp]
    BY <2>1, <2>2, EntryOfStored
  <2> QED BY <2>3, <2>4
<1>2. CASE \A x \in Stored(e) : x.key # k
  <2>1. \A x \in Stored(f) : x.key # k
    BY <1>2
  <2> QED BY <1>2, <2>1, EntryOfStored
<1> QED BY <1>1, <1>2

\* Copying every entry keeps the map.
LEMMA CopyOnMap ==
  ASSUME NEW e, NEW f, IsTable(e), IsTable(f), Stored(f) = Stored(e)
  PROVE  MapOf(f) = MapOf(e)
<1>1. \A k \in Keys : MapOf(f)[k] = MapOf(e)[k]
  BY SameEntrySameValue
<1> QED BY <1>1 DEF MapOf

\* Storing an entry changes the map at its key.
LEMMA StoreOnMap ==
  ASSUME NEW e, NEW f, NEW s \in Slot, IsTable(e), IsTable(f),
         Stored(f) = {x \in Stored(e) : x.key # s.key} \union {s}
  PROVE  MapOf(f) = [MapOf(e) EXCEPT ![s.key] = [val |-> s.val, exp |-> s.exp]]
<1>1. s.key \in Keys /\ s \in Stored(f)
  BY DEF Slot
<1>2. MapOf(f)[s.key] = [val |-> s.val, exp |-> s.exp]
  BY <1>1, EntryOfStored
<1>3. ASSUME NEW k \in Keys, k # s.key PROVE MapOf(f)[k] = MapOf(e)[k]
  <2>1. \A x : x \in Stored(f) /\ x.key = k <=> x \in Stored(e) /\ x.key = k
    BY <1>3
  <2> QED BY <2>1, SameEntrySameValue
<1> QED BY <1>1, <1>2, <1>3 DEF MapOf

\* Burying the entry of a key drops it from the map.
LEMMA BuryOnMap ==
  ASSUME NEW e, NEW f, NEW k \in Keys, IsTable(e), IsTable(f),
         Stored(f) = {x \in Stored(e) : x.key # k}
  PROVE  MapOf(f) = [MapOf(e) EXCEPT ![k] = NoEntry]
<1>1. \A x \in Stored(f) : x.key # k
  OBVIOUS
<1>2. MapOf(f)[k] = NoEntry
  BY <1>1, EntryOfStored
<1>3. ASSUME NEW q \in Keys, q # k PROVE MapOf(f)[q] = MapOf(e)[q]
  <2>1. \A x : x \in Stored(f) /\ x.key = q <=> x \in Stored(e) /\ x.key = q
    BY <1>3
  <2> QED BY <2>1, SameEntrySameValue
<1> QED BY <1>2, <1>3 DEF MapOf

\* What a search finds is what the map has.
LEMMA SearchOnMap ==
  ASSUME IInv, NEW k \in Keys
  PROVE  /\ Occupied(entries, FindSlot(k)) =>
              /\ entries[FindSlot(k)] \in Slot
              /\ MapOf(entries)[k] = [val |-> entries[FindSlot(k)].val,
                                      exp |-> entries[FindSlot(k)].exp]
         /\ ~Occupied(entries, FindSlot(k)) => MapOf(entries)[k] = NoEntry
<1> DEFINE i == FindSlot(k)
<1>1. /\ IsTable(entries) /\ i \in 0 .. Cap(entries) - 1
      /\ IsPlace(entries, i, k)
      /\ entries[i] = Empty \/ Holds(entries, i, k)
      /\ DOMAIN entries = 0 .. Cap(entries) - 1
  BY SearchFinds, TableFacts DEF IInv
<1> HIDE DEF i
<1>2. ASSUME Occupied(entries, i)
      PROVE  /\ entries[i] \in Slot
             /\ MapOf(entries)[k] = [val |-> entries[i].val, exp |-> entries[i].exp]
  <2>1. i \in Occ(entries) /\ entries[i] \in Stored(entries) /\ entries[i].key = k
    BY <1>1, <1>2 DEF Occ, Stored, Holds, Occupied
  <2> QED BY <1>1, <2>1, EntryOfStored, TableFacts
<1>3. ASSUME ~Occupied(entries, i) PROVE MapOf(entries)[k] = NoEntry
  <2>1. \A j \in 0 .. Cap(entries) - 1 : ~Holds(entries, j, k)
    BY <1>1, <1>3 DEF IsPlace, Holds
  <2>2. \A x \in Stored(entries) : x.key # k
    BY <1>1, <2>1 DEF Stored, Occ, Holds
  <2> QED BY <1>1, <2>2, EntryOfStored
<1> QED BY <1>2, <1>3 DEF i

\* A new table stands for the empty map.
LEMMA EmptyOnMap ==
  MapOf(EmptySlots(InitCap)) = EmptyTable
<1> DEFINE e == EmptySlots(InitCap)
<1>1. InitCap \in Nat
  BY HashTableAssumption DEF HashTableAssumption
<1>2. IsTable(e) /\ Stored(e) = {}
  BY <1>1, EmptyTableIsTable
<1> HIDE DEF e
<1>3. \A k \in Keys : MapOf(e)[k] = NoEntry
  BY <1>2, EntryOfStored
<1>4. MapOf(e) = EmptyTable
  BY <1>3 DEF MapOf, EmptyTable
<1> QED BY <1>4 DEF e

-----------------------------------------------------------------------------
(***************************************************************************)
(* The table implements the map, step by step: a put takes effect when its *)
(* last phase stores the entry, the phases of a rehash before it stutter.  *)
(***************************************************************************)
Current == IF phase = "rehash" THEN old ELSE entries

\* The refinement mapping, and the table it reads.
LEMMA MappedTable ==
  ASSUME IInv
  PROVE  /\ [k \in Keys |-> EntryIn(Current, k)] = MapOf(Current)
         /\ IsTable(Current)
BY DEF MapOf, Current, IInv, RehashInv

\* A put, up to its load check, leaves the map alone.
LEMMA PutOnMap ==
  ASSUME NEW k, NEW v, NEW ttl, Put(k, v, ttl)
  PROVE  UNCHANGED <<Current, clock, answer>>
<1>1. CASE Loaded
  BY <1>1 DEF Put, PutGrowing, Current
<1>2. CASE ~Loaded
  BY <1>2 DEF Put, PutGrowing, Current, table
<1> QED BY <1>1, <1>2

\* The copying leaves the old table alone, unless it aborts.
LEMMA RehashSlotOnMap ==
  ASSUME IInv, phase' # "aborted", RehashSlot
  PROVE  UNCHANGED <<Current, clock, answer>>
<1>1. phase = "rehash" /\ UNCHANGED <<old, clock, answer>>
  BY DEF RehashSlot
<1>2. phase' = "rehash"
  BY <1>1 DEF RehashSlot, Store
<1> QED BY <1>1, <1>2 DEF Current

\* The end of a rehash puts the new table in the place of the old.
LEMMA RehashEndsOnMap ==
  ASSUME IInv, RehashEnds
  PROVE  MapOf(Current') = MapOf(Current) /\ UNCHANGED <<clock, answer>>
<1>1. /\ Current = old /\ Current' = entries /\ UNCHANGED <<clock, answer>>
      /\ IsTable(old) /\ IsTable(entries) /\ RehashInv /\ moved \notin DOMAIN old
  BY DEF RehashEnds, IInv, RehashInv, Current, table
<1>2. moved = Cap(old) /\ Cap(old) \in Nat /\ DOMAIN old = 0 .. Cap(old) - 1
  <2>1. Cap(old) \in Nat /\ DOMAIN old = 0 .. Cap(old) - 1 /\ moved \in 0 .. Cap(old)
    BY <1>1, TableFacts DEF RehashInv
  <2> QED BY <1>1, <2>1
<1>3. OccBelow(old, moved) = Occ(old)
  BY <1>2 DEF OccBelow, Occ
<1>4. Stored(entries) = Stored(old)
  BY <1>1, <1>3 DEF RehashInv, Stored
<1> QED BY <1>1, <1>4, CopyOnMap

\* The entry goes into the map when it goes into the table.
LEMMA InsertOnMap ==
  ASSUME IInv, Insert, phase' # "aborted"
  PROVE  /\ UNCHANGED <<clock, answer>>
         /\ \E k \in Keys, v \in Vals, ttl \in Ttls :
              MapOf(Current') = MtPut(MapOf(Current), k, v, ttl, clock)
<1>1. /\ pending \in Slot /\ HasRoom(entries, size, tombstones) /\ Store(pending, "written")
      /\ phase = "insert" /\ UNCHANGED <<clock, answer>> /\ IsTable(entries)
      /\ \E ttl \in Ttls : pending.exp = ExpireTs(ttl, clock)
  BY DEF Insert, IInv, PendingInv
<1>2. /\ phase' = "written" /\ IsTable(entries')
      /\ Stored(entries') = {x \in Stored(entries) : x.key # pending.key} \union {pending}
  BY <1>1, StoreStep
<1>3. MapOf(entries') = [MapOf(entries) EXCEPT ![pending.key]
                           = [val |-> pending.val, exp |-> pending.exp]]
  BY <1>1, <1>2, StoreOnMap
<1>4. Current = entries /\ Current' = entries'
  BY <1>1, <1>2 DEF Current
<1>5. PICK ttl \in Ttls : pending.exp = ExpireTs(ttl, clock)
  BY <1>1
<1>6. pending.key \in Keys /\ pending.val \in Vals
  BY <1>1 DEF Slot
<1>7. MapOf(Current') = MtPut(MapOf(Current), pending.key, pending.val, ttl, clock)
  BY <1>3, <1>4, <1>5 DEF MtPut
<1> QED BY <1>1, <1>6, <1>7

\* Dropping a key that the map does not have changes nothing.
LEMMA AbsentDel ==
  ASSUME NEW e, NEW k \in Keys, MapOf(e)[k] = NoEntry
  PROVE  MtDel(MapOf(e), k) = MapOf(e)
BY DEF MapOf, MtDel

\* A del drops the key's entry.
LEMMA DelOnMap ==
  ASSUME IInv, NEW k \in Keys, Del(k)
  PROVE  UNCHANGED <<clock, answer>> /\ MapOf(Current') = MtDel(MapOf(Current), k)
<1>1. /\ UNCHANGED <<clock, answer>> /\ IsTable(entries)
      /\ Current = entries /\ Current' = entries'
  BY DEF Del, Current, IInv
<1>2. CASE Occupied(entries, FindSlot(k))
  <2>1. /\ IsTable(entries')
        /\ Stored(entries') = {x \in Stored(entries) : x.key # k}
    BY <1>2, BuryStep DEF Del
  <2> QED BY <1>1, <2>1, BuryOnMap DEF MtDel
<1>3. CASE ~Occupied(entries, FindSlot(k))
  <2>1. entries' = entries
    BY <1>3 DEF Del, table
  <2> QED BY <1>1, <1>3, <2>1, SearchOnMap, AbsentDel
<1> QED BY <1>2, <1>3

\* A get answers from the map and drops the entry it finds expired.
LEMMA GetOnMap ==
  ASSUME IInv, NEW k \in Keys, Get(k)
  PROVE  /\ clock' = clock
         /\ Live(MapOf(Current), k, clock) =>
              answer' = MapOf(Current)[k].val /\ MapOf(Current') = MapOf(Current)
         /\ ~Live(MapOf(Current), k, clock) =>
              answer' = Missing /\ MapOf(Current') = MtDel(MapOf(Current), k)
<1> DEFINE i == FindSlot(k)  m == MapOf(entries)
<1>1. /\ clock' = clock /\ IsTable(entries)
      /\ Current = entries /\ Current' = entries'
  BY DEF Get, Current, IInv
<1>2. CASE ~Occupied(entries, i)
  <2>1. m[k] = NoEntry
    BY <1>2, SearchOnMap
  <2>2. answer' = Missing /\ entries' = entries
    BY <1>2 DEF Get, table
  <2> QED BY <1>1, <2>1, <2>2, AbsentDel DEF Live
<1>3. CASE Occupied(entries, i)
  <2>1. entries[i] \in Slot /\ m[k] = [val |-> entries[i].val, exp |-> entries[i].exp]
    BY <1>3, SearchOnMap
  <2>2. m[k] # NoEntry
    BY <2>1, MemTableAssumption DEF MemTableAssumption, Slot
  <2>3. m[k].val = entries[i].val /\ (Expired(m[k], clock) <=> Expired(entries[i], clock))
    BY <2>1 DEF Expired
  <2>4. CASE Expired(entries[i], clock)
    <3>1. answer' = Missing /\ Bury(i)
      BY <1>3, <2>4 DEF Get
    <3>2. /\ IsTable(entries')
          /\ Stored(entries') = {x \in Stored(entries) : x.key # k}
      BY <1>3, <3>1, BuryStep
    <3>3. MapOf(entries') = MtDel(m, k)
      BY <1>1, <3>2, BuryOnMap DEF MtDel
    <3>4. ~Live(m, k, clock)
      BY <2>3, <2>4 DEF Live
    <3> QED BY <1>1, <3>1, <3>3, <3>4
  <2>5. CASE ~Expired(entries[i], clock)
    <3>1. answer' = entries[i].val /\ entries' = entries
      BY <1>3, <2>5 DEF Get, table
    <3>2. Live(m, k, clock)
      BY <2>2, <2>3, <2>5 DEF Live
    <3> QED BY <1>1, <2>3, <3>1, <3>2
  <2> QED BY <2>4, <2>5
<1> QED BY <1>2, <1>3

\* freeze_memtable starts with an empty map.
LEMMA FreezeOnMap ==
  ASSUME MaybeFreeze
  PROVE  /\ UNCHANGED <<clock, answer>>
         /\ MapOf(Current') = EmptyTable \/ MapOf(Current') = MapOf(Current)
<1>1. UNCHANGED <<clock, answer>> /\ Current = entries /\ Current' = entries'
  BY DEF MaybeFreeze, Current
<1>2. entries' = EmptySlots(InitCap) \/ entries' = entries
  BY DEF MaybeFreeze, table
<1> QED BY <1>1, <1>2, EmptyOnMap

\* Every step that does not abort is a step of the map, or changes nothing in it.
LEMMA StepOnMap ==
  ASSUME IInv, phase' # "aborted", [Next]_vars
  PROVE  \/ MapOf(Current') = MapOf(Current) /\ UNCHANGED <<clock, answer>>
         \/ \E k \in Keys : /\ MapOf(Current') = MtDel(MapOf(Current), k)
                            /\ UNCHANGED <<clock, answer>>
         \/ \E k \in Keys :
              /\ answer' = IF Live(MapOf(Current), k, clock) THEN MapOf(Current)[k].val
                           ELSE Missing
              /\ MapOf(Current') = MtAfterGet(MapOf(Current), k, clock)
              /\ clock' = clock
         \/ \E k \in Keys, v \in Vals, ttl \in Ttls :
              /\ MapOf(Current') = MtPut(MapOf(Current), k, v, ttl, clock)
              /\ UNCHANGED <<clock, answer>>
         \/ MapOf(Current') = EmptyTable /\ UNCHANGED <<clock, answer>>
         \/ clock' = clock + 1 /\ MapOf(Current') = MapOf(Current) /\ answer' = answer
<1> DEFINE m == MapOf(Current)  n == MapOf(Current')
<1>1. ASSUME NEW k \in Keys, Del(k)
      PROVE  n = MtDel(m, k) /\ UNCHANGED <<clock, answer>>
  BY <1>1, DelOnMap
<1>2. ASSUME NEW k \in Keys, Get(k)
      PROVE  /\ answer' = IF Live(m, k, clock) THEN m[k].val ELSE Missing
             /\ n = MtAfterGet(m, k, clock) /\ clock' = clock
  <2>1. clock' = clock
    BY <1>2, GetOnMap
  <2>2. CASE Live(m, k, clock)
    BY <1>2, <2>1, <2>2, GetOnMap DEF MtAfterGet
  <2>3. CASE ~Live(m, k, clock)
    BY <1>2, <2>1, <2>3, GetOnMap DEF MtAfterGet
  <2> QED BY <2>2, <2>3
<1>3. ASSUME NEW k \in Keys, NEW v \in Vals, NEW ttl \in Ttls, Put(k, v, ttl)
      PROVE  n = m /\ UNCHANGED <<clock, answer>>
  BY <1>3, PutOnMap
<1>4. ASSUME RehashSlot PROVE n = m /\ UNCHANGED <<clock, answer>>
  BY <1>4, RehashSlotOnMap
<1>5. ASSUME RehashEnds PROVE n = m /\ UNCHANGED <<clock, answer>>
  BY <1>5, RehashEndsOnMap
<1>6. ASSUME Insert
      PROVE  \E k \in Keys, v \in Vals, ttl \in Ttls :
               n = MtPut(m, k, v, ttl, clock) /\ UNCHANGED <<clock, answer>>
  BY <1>6, InsertOnMap
<1>7. ASSUME MaybeFreeze PROVE (n = EmptyTable \/ n = m) /\ UNCHANGED <<clock, answer>>
  BY <1>7, FreezeOnMap
<1>8. ASSUME Tick PROVE clock' = clock + 1 /\ n = m /\ answer' = answer
  BY <1>8 DEF Tick, Current, table, rehash
<1>9. ASSUME UNCHANGED vars PROVE n = m /\ UNCHANGED <<clock, answer>>
  BY <1>9 DEF vars, Current
<1> HIDE DEF m, n
<1> SUFFICES \/ n = m /\ UNCHANGED <<clock, answer>>
             \/ \E k \in Keys : n = MtDel(m, k) /\ UNCHANGED <<clock, answer>>
             \/ \E k \in Keys :
                  /\ answer' = IF Live(m, k, clock) THEN m[k].val ELSE Missing
                  /\ n = MtAfterGet(m, k, clock)
                  /\ clock' = clock
             \/ \E k \in Keys, v \in Vals, ttl \in Ttls :
                  n = MtPut(m, k, v, ttl, clock) /\ UNCHANGED <<clock, answer>>
             \/ n = EmptyTable /\ UNCHANGED <<clock, answer>>
             \/ clock' = clock + 1 /\ n = m /\ answer' = answer
  BY Zenon DEF m, n
<1> QED BY <1>1, <1>2, <1>3, <1>4, <1>5, <1>6, <1>7, <1>8, <1>9, Zenon DEF Next

\* The hash table implements MemTableMap as long as the arena is not full.
THEOREM TableImplementsMap == Spec /\ []ArenaNeverRunsOut => ImplementsMap
<1>1. Init => Map!MapInit
  <2>1. SUFFICES ASSUME Init PROVE Map!MapInit
    OBVIOUS
  <2>2. IInv /\ Current = EmptySlots(InitCap)
    BY <2>1, InitIInv DEF Init, Current
  <2>3. [k \in Keys |-> EntryIn(Current, k)] = EmptyTable
    BY <2>2, EmptyOnMap DEF MapOf
  <2> QED BY <2>1, <2>3, HashTableAssumption
          DEF Init, Current, Map!MapInit, Map!EmptyTable, EmptyTable, HashTableAssumption
<1>2. IInv /\ ArenaNeverRunsOut' /\ [Next]_vars => [Map!MapNext]_(Map!mapVars)
  <2>1. SUFFICES ASSUME IInv, phase' # "aborted", [Next]_vars
                 PROVE  [Map!MapNext]_(Map!mapVars)
    BY DEF ArenaNeverRunsOut
  <2> QED BY <2>1, StepOnMap
          DEF MapOf, Current, Map!MapNext, Map!mapVars, Map!MapPut, Map!MapDel, Map!MapGet,
              Map!MapFreeze, Map!MapTick, Map!MtPut, Map!MtDel, Map!MtAfterGet, Map!Live,
              Map!Expired, Map!ExpireTs, Map!EmptyTable,
              MtPut, MtDel, MtAfterGet, Live, Expired, ExpireTs, EmptyTable
<1> QED BY <1>1, <1>2, Invariance, PTL DEF Spec, ImplementsMap, Map!MapSpec
-----------------------------------------------------------------------------
(***************************************************************************)
(* The arena.  bytes_ counts every put at least once, so it bounds the     *)
(* load; the load bounds the capacity, as only a loaded table is rehashed; *)
(* and the capacity bounds what all the rehashes together have copied.     *)
(***************************************************************************)
\* The load, the capacity and the arena's pointer, for so many bytes counted
\* and so many entries copied.
Fits(load, cap, off, copies, b) ==
  /\ PutBytes * load <= b
  /\ cap = InitCap \/ 7 * (PutBytes * cap) <= 20 * b
  /\ PutBytes * off <= Footprint * (PutBytes * copies + b)

\* The entries that the rehashes since the last freeze may have copied.
Copies == IF phase = "rehash" THEN Cap(old) - InitCap + Cardinality(OccBelow(old, moved))
          ELSE Cap(entries) - InitCap

ArenaInv ==
  /\ Fits(size + tombstones, Cap(entries), offset, Copies, bytes)
  /\ phase = "rehash" => /\ PutBytes * Cardinality(Occ(old)) <= bytes
                         /\ 7 * (PutBytes * Cap(entries)) <= 20 * bytes
  /\ bytes <= IF phase = "written" THEN MemLimit + PutBytes ELSE MemLimit

\* The constants of the arena are numbers.
LEMMA ArenaConstants ==
  /\ PutBytes \in Nat /\ Footprint \in Nat /\ ArenaSize \in Nat
  /\ MemLimit \in Nat /\ InitCap \in Nat /\ Align \in Nat \ {0}
  /\ KeyLen \in Nat /\ ValLen \in Nat /\ PutBytes = KeyLen + ValLen
BY HashTableAssumption, MemTableAssumption
   DEF HashTableAssumption, MemTableAssumption, PutBytes, Footprint, ArenaSize

\* A product grows with its factor.
LEMMA ProductGrows ==
  ASSUME NEW a \in Nat, NEW b \in Nat, NEW c \in Nat, a <= b
  PROVE  c * a \in Nat /\ c * b \in Nat /\ c * a <= c * b
<1>1. b - a \in Nat
  OBVIOUS
<1>2. c * (b - a) \in Nat /\ c * a \in Nat /\ c * b \in Nat
  BY <1>1
<1>3. c * (b - a) = c * b - c * a
  OBVIOUS
<1> QED BY <1>2, <1>3

\* More bytes counted, or more copies allowed for, fit too.
LEMMA FitsMore ==
  ASSUME NEW l \in Nat, NEW c \in Nat, NEW o \in Nat, NEW k \in Nat, NEW b \in Nat,
         NEW k2 \in Nat, NEW b2 \in Nat, Fits(l, c, o, k, b), k <= k2, b <= b2
  PROVE  Fits(l, c, o, k2, b2)
<1>1. PutBytes * l \in Nat /\ PutBytes * c \in Nat /\ PutBytes * o \in Nat
  BY ArenaConstants
<1>2. PutBytes * k <= PutBytes * k2 /\ PutBytes * k \in Nat /\ PutBytes * k2 \in Nat
  BY ArenaConstants, ProductGrows
<1>3. /\ Footprint * (PutBytes * k + b) <= Footprint * (PutBytes * k2 + b2)
      /\ Footprint * (PutBytes * k + b) \in Nat /\ Footprint * (PutBytes * k2 + b2) \in Nat
  <2>1. PutBytes * k + b \in Nat /\ PutBytes * k2 + b2 \in Nat
        /\ PutBytes * k + b <= PutBytes * k2 + b2
    BY <1>2
  <2> QED BY <2>1, ArenaConstants, ProductGrows
<1> QED BY <1>1, <1>3 DEF Fits

\* One record more in the arena.
LEMMA OneRecordMore ==
  ASSUME NEW o \in Nat, NEW o2 \in Nat, NEW m \in Nat,
         PutBytes * o <= Footprint * m, o2 <= o + Footprint
  PROVE  PutBytes * o2 <= Footprint * (m + PutBytes)
<1>1. PutBytes * o2 <= PutBytes * (o + Footprint) /\ PutBytes * o2 \in Nat
  <2>1. o + Footprint \in Nat
    BY ArenaConstants
  <2> QED BY <2>1, ArenaConstants, ProductGrows
<1>2. PutBytes * (o + Footprint) = PutBytes * o + PutBytes * Footprint
  BY ArenaConstants
<1>3. Footprint * (m + PutBytes) = Footprint * m + Footprint * PutBytes
  BY ArenaConstants
<1>4. PutBytes * Footprint = Footprint * PutBytes /\ PutBytes * Footprint \in Nat
  BY ArenaConstants
<1>5. PutBytes * o \in Nat /\ Footprint * m \in Nat
  BY ArenaConstants
<1> QED BY <1>1, <1>2, <1>3, <1>4, <1>5

\* A put: its record is counted in bytes_.
LEMMA FitsPut ==
  ASSUME NEW l \in Nat, NEW c \in Nat, NEW o \in Nat, NEW k \in Nat, NEW b \in Nat,
         NEW l2 \in Nat, NEW o2 \in Nat, Fits(l, c, o, k, b), l2 <= l + 1, o2 <= o + Footprint
  PROVE  Fits(l2, c, o2, k, b + PutBytes)
<1>1. PutBytes * l2 <= b + PutBytes
  <2>1. PutBytes * l2 <= PutBytes * (l + 1)
    BY ArenaConstants, ProductGrows
  <2>2. PutBytes * (l + 1) = PutBytes * l + PutBytes
    BY ArenaConstants
  <2>3. PutBytes * l2 \in Nat /\ PutBytes * l \in Nat /\ PutBytes * l <= b
    BY ArenaConstants DEF Fits
  <2> QED BY <2>1, <2>2, <2>3, ArenaConstants
<1>2. c = InitCap \/ 7 * (PutBytes * c) <= 20 * (b + PutBytes)
  <2>1. PutBytes * c \in Nat
    BY ArenaConstants
  <2> QED BY <2>1, ArenaConstants DEF Fits
<1>3. PutBytes * o2 <= Footprint * (PutBytes * k + (b + PutBytes))
  <2>1. PutBytes * k \in Nat
    BY ArenaConstants
  <2>2. PutBytes * o2 <= Footprint * ((PutBytes * k + b) + PutBytes)
    BY <2>1, OneRecordMore DEF Fits
  <2>3. (PutBytes * k + b) + PutBytes = PutBytes * k + (b + PutBytes)
    BY <2>1, ArenaConstants
  <2> QED BY <2>2, <2>3
<1> QED BY <1>1, <1>2, <1>3 DEF Fits

\* A copy by a rehash: it is not counted in bytes_.
LEMMA FitsCopy ==
  ASSUME NEW l \in Nat, NEW c \in Nat, NEW o \in Nat, NEW k \in Nat, NEW b \in Nat,
         NEW l2 \in Nat, NEW o2 \in Nat, Fits(l, c, o, k, b), PutBytes * l2 <= b,
         o2 <= o + Footprint
  PROVE  Fits(l2, c, o2, k + 1, b)
<1>1. PutBytes * k \in Nat
  BY ArenaConstants
<1>2. PutBytes * o2 <= Footprint * ((PutBytes * k + b) + PutBytes)
  BY <1>1, OneRecordMore DEF Fits
<1>3. (PutBytes * k + b) + PutBytes = PutBytes * (k + 1) + b
  BY ArenaConstants
<1> QED BY <1>2, <1>3 DEF Fits

\* Copies fewer than the slots of a table that was loaded once.
LEMMA CopiesAreFew ==
  ASSUME NEW c \in Nat, NEW k \in Nat, NEW b \in Nat,
         k = 0 \/ (k <= c /\ 7 * (PutBytes * c) <= 20 * b)
  PROVE  PutBytes * k \in Nat /\ 7 * (PutBytes * k) <= 20 * b
<1>1. CASE k = 0
  BY <1>1, ArenaConstants
<1>2. CASE k <= c /\ 7 * (PutBytes * c) <= 20 * b
  <2>1. PutBytes * k <= PutBytes * c /\ PutBytes * k \in Nat /\ PutBytes * c \in Nat
    BY <1>2, ArenaConstants, ProductGrows
  <2> QED BY <1>2, <2>1
<1> QED BY <1>1, <1>2

\* Within the limit, a roomy arena takes one record more.
LEMMA RoomForOneMore ==
  ASSUME ArenaIsRoomy, NEW l, NEW c \in Nat, NEW o \in Nat, NEW k \in Nat, NEW b \in Nat,
         Fits(l, c, o, k, b), b <= MemLimit,
         k = 0 \/ (k <= c /\ 7 * (PutBytes * c) <= 20 * b)
  PROVE  o + Footprint <= ArenaSize
<1>1. PutBytes * (o + Footprint) <= Footprint * ((PutBytes * k + b) + PutBytes)
  <2>1. PutBytes * k \in Nat /\ o + Footprint \in Nat
    BY ArenaConstants
  <2> QED BY <2>1, OneRecordMore DEF Fits
<1>2. PutBytes * k \in Nat /\ 7 * (PutBytes * k) <= 20 * b
  BY CopiesAreFew
<1> DEFINE x == PutBytes * k
           y == (x + b) + PutBytes
           z == MemLimit + PutBytes
<1>3. y \in Nat /\ z \in Nat /\ 7 * y <= 27 * z
  <2>1. x \in Nat /\ 7 * x <= 20 * b
    BY <1>2
  <2> HIDE DEF x
  <2> QED BY <2>1, ArenaConstants
<1>4. PutBytes * (o + Footprint) <= Footprint * y
  BY <1>1
<1> HIDE DEF x, y, z
<1>5. 7 * (Footprint * y) <= 27 * (Footprint * z)
  <2>1. 7 * y \in Nat /\ 27 * z \in Nat
    BY <1>3
  <2>2. Footprint * (7 * y) <= Footprint * (27 * z)
    BY <1>3, <2>1, ArenaConstants, ProductGrows
  <2>3. Footprint * (7 * y) = 7 * (Footprint * y) /\ Footprint * (27 * z) = 27 * (Footprint * z)
    BY <1>3, ArenaConstants
  <2> QED BY <2>2, <2>3
<1>6. 27 * (Footprint * z) <= 7 * (PutBytes * ArenaSize)
  BY DEF ArenaIsRoomy, z
<1>7. PutBytes * (o + Footprint) <= PutBytes * ArenaSize
  <2>1. /\ PutBytes * (o + Footprint) \in Nat /\ PutBytes * ArenaSize \in Nat
        /\ Footprint * y \in Nat /\ Footprint * z \in Nat
    BY <1>3, ArenaConstants
  <2> QED BY <1>4, <1>5, <1>6, <2>1
<1>8. ASSUME o + Footprint > ArenaSize PROVE FALSE
  <2>1. PutBytes * (ArenaSize + 1) <= PutBytes * (o + Footprint)
    <3>1. ArenaSize + 1 \in Nat /\ o + Footprint \in Nat /\ ArenaSize + 1 <= o + Footprint
      BY <1>8, ArenaConstants
    <3> QED BY <3>1, ArenaConstants, ProductGrows
  <2>2. PutBytes * (ArenaSize + 1) = PutBytes * ArenaSize + PutBytes
    BY ArenaConstants
  <2>3. PutBytes * (o + Footprint) \in Nat /\ PutBytes * ArenaSize \in Nat /\ PutBytes > 0
    BY ArenaConstants DEF ArenaIsRoomy
  <2> QED BY <1>7, <2>1, <2>2, <2>3, ArenaConstants
<1> QED BY <1>8, ArenaConstants

\* An alloc takes its length and at most Align - 1 bytes of padding.
LEMMA AllocEndBound ==
  ASSUME NEW off \in Nat, NEW len \in Nat
  PROVE  AllocEnd(off, len) <= off + (Align - 1) + len
<1> DEFINE x == off + Align - 1  q == x \div Align
<1>1. x \in Nat /\ Align \in Nat \ {0}
  BY ArenaConstants
<1> HIDE DEF x
<1>2. q \in Nat /\ x = Align * q + (x % Align) /\ x % Align \in 0 .. Align - 1
  BY <1>1
<1>3. q * Align = Align * q /\ Align * q \in Nat
  BY <1>1, <1>2
<1>4. q * Align <= x
  BY <1>1, <1>2, <1>3
<1>5. AllocEnd(off, len) = q * Align + len
  BY DEF AllocEnd, x
<1> QED BY <1>1, <1>3, <1>4, <1>5 DEF x

\* A Store takes at most a footprint, and aborts only if that is too much.
LEMMA StoreUses ==
  ASSUME NEW next, NEW s, next # "aborted", offset \in Nat, Store(s, next)
  PROVE  /\ phase' # "aborted" => offset' <= offset + Footprint
         /\ phase' = "aborted" => offset + Footprint > ArenaSize
<1> DEFINE i == FindSlotForInsert(s.key)
           end == IF Occupied(entries, i) THEN AllocEnd(offset, ValLen)
                  ELSE AllocEnd(AllocEnd(offset, KeyLen), ValLen)
<1>1. /\ AllocEnd(offset, ValLen) \in Nat
      /\ AllocEnd(offset, ValLen) <= offset + (Align - 1) + ValLen
      /\ AllocEnd(offset, KeyLen) \in Nat
      /\ AllocEnd(offset, KeyLen) <= offset + (Align - 1) + KeyLen
  BY ArenaConstants, AllocEndIsNat, AllocEndBound
<1>2. /\ AllocEnd(AllocEnd(offset, KeyLen), ValLen) \in Nat
      /\ AllocEnd(AllocEnd(offset, KeyLen), ValLen)
           <= AllocEnd(offset, KeyLen) + (Align - 1) + ValLen
  BY <1>1, ArenaConstants, AllocEndIsNat, AllocEndBound
<1>3. end \in Nat /\ end <= offset + Footprint
  <2>1. Footprint = KeyLen + ValLen + 2 * (Align - 1)
    BY ArenaConstants DEF Footprint
  <2> QED BY <1>1, <1>2, <2>1, ArenaConstants
<1>4. IF end > ArenaSize THEN phase' = "aborted" ELSE phase' = next /\ offset' = end
  BY DEF Store
<1> HIDE DEF end
<1> QED BY <1>3, <1>4, ArenaConstants

\* What the arena's invariant needs to know of the table's.
LEMMA ArenaTypes ==
  ASSUME IInv
  PROVE  /\ size \in Nat /\ tombstones \in Nat /\ offset \in Nat /\ bytes \in Nat
         /\ Cap(entries) \in Nat /\ Cap(entries) - InitCap \in Nat
         /\ Copies \in Nat
         /\ phase = "rehash" =>
              /\ Cap(old) \in Nat /\ Cap(old) - InitCap \in Nat
              /\ Cap(entries) = 2 * Cap(old)
              /\ Cardinality(OccBelow(old, moved)) \in Nat /\ Cardinality(Occ(old)) \in Nat
              /\ Cardinality(OccBelow(old, moved)) <= Cardinality(Occ(old))
              /\ Cardinality(Occ(old)) <= Cap(old)
<1>1. /\ IsTable(entries) /\ IsCounted(entries, size, tombstones)
      /\ offset \in Nat /\ bytes \in Nat /\ InitCap \in Nat
  BY ArenaConstants DEF IInv
<1>2. size \in Nat /\ tombstones \in Nat /\ Cap(entries) \in Nat /\ Cap(entries) - InitCap \in Nat
  <2>1. size \in Nat /\ tombstones \in Nat /\ Cap(entries) \in Nat
    BY <1>1, TableFacts DEF IsCounted
  <2> QED BY <1>1, <2>1 DEF IsTable
<1>3. ASSUME phase = "rehash"
      PROVE  /\ Cap(old) \in Nat /\ Cap(old) - InitCap \in Nat
             /\ Cap(entries) = 2 * Cap(old)
             /\ Cardinality(OccBelow(old, moved)) \in Nat /\ Cardinality(Occ(old)) \in Nat
             /\ Cardinality(OccBelow(old, moved)) <= Cardinality(Occ(old))
             /\ Cardinality(Occ(old)) <= Cap(old)
  <2>1. IsTable(old) /\ Cap(entries) = 2 * Cap(old)
    BY <1>3 DEF IInv, RehashInv
  <2>2. Cap(old) \in Nat /\ Cap(old) >= InitCap /\ DOMAIN old = 0 .. Cap(old) - 1
    BY <2>1, TableFacts DEF IsTable
  <2>3. OccBelow(old, moved) \in SUBSET Occ(old) /\ Occ(old) \in SUBSET (DOMAIN old)
    BY DEF OccBelow, Occ
  <2>4. IsFiniteSet(DOMAIN old) /\ IsFiniteSet(Occ(old)) /\ Cardinality(Occ(old)) \in Nat
    BY <2>1, <2>2, FS_Interval, TableFacts
  <2>5. /\ Cardinality(OccBelow(old, moved)) \in Nat
        /\ Cardinality(OccBelow(old, moved)) <= Cardinality(Occ(old))
    BY <2>3, <2>4, FS_Subset, FS_CardinalityType
  <2>6. Cardinality(Occ(old)) <= Cap(old)
    BY <2>3, <2>4, FS_Subset DEF Cap
  <2> QED BY <1>1, <2>1, <2>2, <2>4, <2>5, <2>6
<1>4. Copies \in Nat
  BY <1>2, <1>3 DEF Copies
<1> QED BY <1>1, <1>2, <1>3, <1>4

\* What holds of table and arena until an allocation fails.
RunningInv == IInv /\ ArenaInv /\ phase # "aborted"

\* A memtable starts with an empty arena.
LEMMA FreshFits == Fits(0, InitCap, 0, 0, 0)
<1>1. PutBytes * 0 = 0 /\ Footprint * (PutBytes * 0 + 0) = 0
  BY ArenaConstants
<1> QED BY <1>1 DEF Fits

\* A put, before it stores: only a loaded table is doubled.
LEMMA PutArena ==
  ASSUME RunningInv, NEW k \in Keys, NEW v \in Vals, NEW ttl \in Ttls, Put(k, v, ttl)
  PROVE  ArenaInv' /\ phase' # "aborted"
<1>1. IInv /\ ArenaInv /\ phase = "ready" /\ bytes' = bytes
  BY DEF RunningInv, Put, PutGrowing
<1>2. /\ size \in Nat /\ tombstones \in Nat /\ bytes \in Nat /\ Cap(entries) \in Nat
      /\ Copies = Cap(entries) - InitCap /\ Copies \in Nat
      /\ Fits(size + tombstones, Cap(entries), offset, Copies, bytes) /\ bytes <= MemLimit
  BY <1>1, ArenaTypes DEF ArenaInv, Copies
<1>3. CASE ~Loaded
  <2>1. phase' = "insert" /\ UNCHANGED table
    BY <1>3 DEF Put, PutGrowing
  <2> QED BY <1>1, <1>2, <2>1 DEF ArenaInv, Copies, table
<1>4. CASE Loaded
  <2> DEFINE c == 2 * Capacity
  <2>1. /\ phase' = "rehash" /\ old' = entries /\ moved' = 0
        /\ entries' = EmptySlots(c) /\ size' = 0 /\ tombstones' = 0 /\ offset' = offset
    BY <1>4 DEF Put, PutGrowing
  <2>2. /\ Capacity = Cap(entries) /\ IsTable(entries)
        /\ IsCounted(entries, size, tombstones)
        /\ Cap(entries) >= InitCap /\ DOMAIN entries = 0 .. Cap(entries) - 1
    BY <1>1, TableFacts DEF IInv, Capacity, Cap, IsTable
  <2>3. c \in Nat /\ c >= InitCap /\ c = 2 * Cap(entries)
    BY <1>2, <2>2, ArenaConstants
  <2> HIDE DEF c
  <2>4. Cap(entries') = c
    BY <2>1, <2>3, EmptyTableIsTable
  <2>5. OccBelow(old', 0) = {}
    <3>1. OccBelow(entries, 0) = {}
      BY <2>2 DEF OccBelow, Occ
    <3> QED BY <2>1, <3>1
  <2>6. Copies' = Copies
    <3>1. Cardinality(OccBelow(old', 0)) = 0
      BY <2>5, FS_EmptySet
    <3> QED BY <1>2, <2>1, <3>1, ArenaConstants DEF Copies
  <2> DEFINE l == size + tombstones
  <2>0. l \in Nat /\ PutBytes * l \in Nat /\ PutBytes * l <= bytes
    <3>1. l \in Nat /\ PutBytes * l <= bytes
      BY <1>2 DEF Fits
    <3> HIDE DEF l
    <3> QED BY <3>1, ArenaConstants
  <2>7. PutBytes * Cardinality(Occ(entries)) <= bytes
    <3>1. Cardinality(Occ(entries)) \in Nat /\ Cardinality(Occ(entries)) <= l
      BY <1>2, <2>2, TableFacts DEF IsCounted
    <3>2. /\ PutBytes * Cardinality(Occ(entries)) <= PutBytes * l
          /\ PutBytes * Cardinality(Occ(entries)) \in Nat
      <4> HIDE DEF l
      <4> QED BY <2>0, <3>1, ArenaConstants, ProductGrows
    <3> QED BY <1>2, <2>0, <3>2
  <2>8. 7 * (PutBytes * c) <= 20 * bytes
    <3>1. 7 * Cap(entries) <= 10 * l
      BY <1>2, <1>4, <2>2 DEF Loaded
    <3> HIDE DEF l
    <3>2. PutBytes * (7 * Cap(entries)) <= PutBytes * (10 * l)
      BY <1>2, <2>0, <3>1, ArenaConstants, ProductGrows
    <3>3. /\ PutBytes * (7 * Cap(entries)) = 7 * (PutBytes * Cap(entries))
          /\ PutBytes * (10 * l) = 10 * (PutBytes * l)
          /\ PutBytes * c = 2 * (PutBytes * Cap(entries))
      BY <1>2, <2>0, <2>3, ArenaConstants
    <3>4. PutBytes * Cap(entries) \in Nat
      BY <1>2, ArenaConstants
    <3> QED BY <1>2, <2>0, <3>2, <3>3, <3>4
  <2>9. Fits(0, c, offset, Copies, bytes)
    <3>1. PutBytes * 0 = 0
      BY ArenaConstants
    <3> QED BY <1>2, <2>8, <3>1 DEF Fits
  <2> QED BY <1>1, <1>2, <2>1, <2>4, <2>6, <2>7, <2>8, <2>9 DEF ArenaInv
<1> QED BY <1>3, <1>4

\* An operation that moves an entry to the tombstones, or nothing at all.
LEMMA BuryArena ==
  ASSUME RunningInv, NEW b \in Nat, phase = "ready", phase' \in {"ready", "written"},
         bytes' = b, bytes <= b, b <= IF phase' = "written" THEN MemLimit + PutBytes ELSE MemLimit,
         Cap(entries') = Cap(entries), offset' = offset,
         size' + tombstones' = size + tombstones
  PROVE  ArenaInv'
<1>1. IInv /\ ArenaInv
  BY DEF RunningInv
<1>2. /\ size + tombstones \in Nat /\ bytes \in Nat /\ offset \in Nat /\ Cap(entries) \in Nat
      /\ Copies \in Nat /\ Fits(size + tombstones, Cap(entries), offset, Copies, bytes)
  BY <1>1, ArenaTypes DEF ArenaInv
<1>3. Fits(size + tombstones, Cap(entries), offset, Copies, b)
  <2> DEFINE l == size + tombstones
  <2>1. l \in Nat /\ Fits(l, Cap(entries), offset, Copies, bytes) /\ Copies <= Copies
    BY <1>2
  <2> HIDE DEF l
  <2>2. Fits(l, Cap(entries), offset, Copies, b)
    BY <1>2, <2>1, FitsMore
  <2> QED BY <2>2 DEF l
<1>4. Copies' = Copies
  BY DEF Copies
<1> QED BY <1>3, <1>4 DEF ArenaInv

\* The load of a table without tombstones, and of one with an entry more.
LEMMA NoTombstones == \A n, t \in Nat : t = 0 => n + t = n
OBVIOUS

LEMMA LoadGrows ==
  \A n, t, n2, t2 \in Nat :
    t2 = t /\ n2 <= n + 1 => n2 + t2 \in Nat /\ n2 + t2 <= (n + t) + 1
OBVIOUS

\* A round of the rehash: the copies of the round are paid for by the load.
LEMMA RehashSlotArena ==
  ASSUME RunningInv, RehashSlot
  PROVE  /\ phase' # "aborted" => ArenaInv'
         /\ ArenaIsRoomy => phase' # "aborted"
<1>1. /\ IInv /\ ArenaInv /\ phase = "rehash" /\ IInv' /\ moved \in DOMAIN old
      /\ moved' = moved + 1 /\ UNCHANGED <<old, bytes>>
  BY RehashSlotIInv DEF RunningInv, RehashSlot
<1>2. /\ size \in Nat /\ tombstones = 0 /\ offset \in Nat /\ bytes \in Nat
      /\ Cap(entries) \in Nat /\ Copies \in Nat
      /\ Fits(size, Cap(entries), offset, Copies, bytes) /\ bytes <= MemLimit
      /\ PutBytes * Cardinality(Occ(old)) <= bytes
      /\ 7 * (PutBytes * Cap(entries)) <= 20 * bytes
      /\ Copies = Cap(old) - InitCap + Cardinality(OccBelow(old, moved))
      /\ Cap(old) \in Nat /\ Cap(old) - InitCap \in Nat /\ Cap(entries) = 2 * Cap(old)
      /\ Cardinality(OccBelow(old, moved)) \in Nat /\ Cardinality(Occ(old)) \in Nat
      /\ Cardinality(OccBelow(old, moved)) <= Cardinality(Occ(old))
      /\ Cardinality(Occ(old)) <= Cap(old)
  <2>1. tombstones = 0
    BY <1>1 DEF IInv, RehashInv
  <2>2. size + tombstones = size
    BY <1>1, <2>1, ArenaTypes
  <2> QED BY <1>1, <2>1, <2>2, ArenaTypes DEF ArenaInv, Copies
<1>3. IsTable(old) /\ moved \in 0 .. Cap(old) - 1
  <2>1. IsTable(old)
    BY <1>1 DEF IInv, RehashInv
  <2> QED BY <1>1, <2>1, TableFacts
<1>4. CASE ~Occupied(old, moved)
  <2>1. UNCHANGED <<table, phase>>
    BY <1>4 DEF RehashSlot
  <2>2. OccBelow(old, moved + 1) = OccBelow(old, moved)
    BY <1>3, <1>4, OccBelowNext
  <2>3. Copies' = Copies
    BY <1>1, <2>1, <2>2 DEF Copies, table
  <2> QED BY <1>1, <2>1, <2>3 DEF ArenaInv, table
<1>5. CASE Occupied(old, moved)
  <2>1. Store(old[moved], "rehash")
    BY <1>5 DEF RehashSlot
  <2>2. ASSUME ArenaIsRoomy PROVE phase' # "aborted"
    <3>1. Copies <= Cap(entries)
      BY <1>2, ArenaConstants
    <3>2. offset + Footprint <= ArenaSize
      BY <1>2, <2>2, <3>1, RoomForOneMore
    <3> QED BY <1>2, <2>1, <3>2, StoreUses, ArenaConstants
  <2> SUFFICES ASSUME phase' # "aborted" PROVE ArenaInv'
    BY <2>2
  <2>3. phase' = "rehash" /\ offset' <= offset + Footprint
    BY <1>2, <2>1, StoreUses DEF Store
  <2>4. /\ Cap(entries') = Cap(entries) /\ tombstones' = 0
        /\ size' \in Nat /\ offset' \in Nat
    <3>1. old[moved] \in Slot /\ HasRoom(entries, size, tombstones)
      BY <1>1, <1>5, CopiedOnce DEF IInv
    <3>2. Cap(entries') = Cap(entries) /\ tombstones' = tombstones /\ offset' \in Nat
          /\ IsTable(entries') /\ IsCounted(entries', size', tombstones')
      BY <1>1, <2>1, <2>3, <3>1, StoreStep
    <3> QED BY <1>2, <3>2, TableFacts DEF IsCounted
  <2>5. OccBelow(old, moved + 1) = OccBelow(old, moved) \union {moved}
    BY <1>3, <1>5, OccBelowNext
  <2>6. Cardinality(OccBelow(old, moved + 1)) = Cardinality(OccBelow(old, moved)) + 1
    BY <1>3, <2>5, OccBelowNext, FS_AddElement
  <2>7. Copies' = Copies + 1
    BY <1>1, <1>2, <2>3, <2>6, ArenaConstants DEF Copies
  <2>8. PutBytes * size' <= bytes
    <3>1. size' <= Cardinality(OccBelow(old, moved + 1))
      BY <1>1, <2>3 DEF IInv, RehashInv
    <3>2. Cardinality(OccBelow(old, moved + 1)) <= Cardinality(Occ(old))
      BY <1>3, OccBelowIsSmaller
    <3>3. size' <= Cardinality(Occ(old))
      BY <1>2, <2>4, <2>6, <3>1, <3>2
    <3>4. /\ PutBytes * size' <= PutBytes * Cardinality(Occ(old))
          /\ PutBytes * size' \in Nat /\ PutBytes * Cardinality(Occ(old)) \in Nat
      BY <1>2, <2>4, <3>3, ArenaConstants, ProductGrows
    <3> QED BY <1>2, <3>4
  <2>9. Fits(size', Cap(entries), offset', Copies + 1, bytes)
    BY <1>2, <2>3, <2>4, <2>8, FitsCopy
  <2>10. size' + tombstones' = size'
    <3>1. size' \in Nat /\ tombstones' \in Nat /\ tombstones' = 0
      BY <2>4
    <3> QED BY <3>1, NoTombstones, Zenon
  <2> QED BY <1>1, <1>2, <2>3, <2>4, <2>7, <2>9, <2>10 DEF ArenaInv
<1> QED BY <1>4, <1>5

\* The end of a rehash: the copies of all rehashes are fewer than the slots.
LEMMA RehashEndsArena ==
  ASSUME RunningInv, RehashEnds
  PROVE  ArenaInv' /\ phase' # "aborted"
<1>1. /\ IInv /\ ArenaInv /\ phase = "rehash" /\ phase' = "insert"
      /\ UNCHANGED <<entries, size, tombstones, offset, bytes>>
  BY DEF RunningInv, RehashEnds, table
<1> DEFINE l == size + tombstones
<1>2. /\ l \in Nat /\ offset \in Nat /\ bytes \in Nat /\ Cap(entries) \in Nat
      /\ Copies \in Nat /\ Cap(entries) - InitCap \in Nat
      /\ Fits(l, Cap(entries), offset, Copies, bytes) /\ bytes <= MemLimit
      /\ Copies <= Cap(entries) - InitCap
  <2>1. Copies = Cap(old) - InitCap + Cardinality(OccBelow(old, moved))
    BY <1>1 DEF Copies
  <2> QED BY <1>1, <2>1, ArenaTypes, ArenaConstants DEF ArenaInv
<1> HIDE DEF l
<1>3. Fits(l, Cap(entries), offset, Cap(entries) - InitCap, bytes)
  <2>1. bytes <= bytes
    BY <1>2
  <2> QED BY <1>2, <2>1, FitsMore
<1>4. Copies' = Cap(entries) - InitCap
  BY <1>1 DEF Copies
<1> QED BY <1>1, <1>2, <1>3, <1>4 DEF ArenaInv, l

\* The put that stores its entry is counted.
LEMMA InsertArena ==
  ASSUME RunningInv, Insert
  PROVE  /\ phase' # "aborted" => ArenaInv'
         /\ ArenaIsRoomy => phase' # "aborted"
<1>1. /\ IInv /\ ArenaInv /\ phase = "insert" /\ Store(pending, "written")
      /\ bytes' = bytes + PutBytes
  BY DEF RunningInv, Insert
<1> DEFINE l == size + tombstones
<1>2. /\ size \in Nat /\ tombstones \in Nat /\ l \in Nat /\ offset \in Nat /\ bytes \in Nat
      /\ Cap(entries) \in Nat /\ Copies \in Nat /\ Copies = Cap(entries) - InitCap
      /\ Fits(l, Cap(entries), offset, Copies, bytes) /\ bytes <= MemLimit
  BY <1>1, ArenaTypes DEF ArenaInv, Copies
<1>3. pending \in Slot /\ HasRoom(entries, size, tombstones)
  BY <1>1 DEF IInv, PendingInv
<1>4. Copies = 0 \/ (Copies <= Cap(entries) /\ 7 * (PutBytes * Cap(entries)) <= 20 * bytes)
  BY <1>2, ArenaConstants DEF Fits
<1>5. ASSUME ArenaIsRoomy PROVE phase' # "aborted"
  <2>1. offset + Footprint <= ArenaSize
    BY <1>2, <1>4, <1>5, RoomForOneMore
  <2> QED BY <1>1, <1>2, <2>1, StoreUses, ArenaConstants
<1> SUFFICES ASSUME phase' # "aborted" PROVE ArenaInv'
  BY <1>5
<1>6. phase' = "written" /\ offset' <= offset + Footprint
  BY <1>1, <1>2, StoreUses DEF Store
<1>7. /\ Cap(entries') = Cap(entries) /\ tombstones' = tombstones /\ offset' \in Nat
      /\ size' <= size + 1 /\ size' \in Nat
  <2>1. /\ Cap(entries') = Cap(entries) /\ tombstones' = tombstones /\ offset' \in Nat
        /\ size' <= size + 1 /\ IsTable(entries') /\ IsCounted(entries', size', tombstones')
    BY <1>1, <1>3, <1>6, StoreStep
  <2> QED BY <2>1, TableFacts DEF IsCounted
<1> DEFINE m == size' + tombstones'
<1>8. m \in Nat /\ m <= l + 1
  <2>1. /\ size \in Nat /\ tombstones \in Nat /\ size' \in Nat /\ tombstones' \in Nat
        /\ tombstones' = tombstones /\ size' <= size + 1
    BY <1>2, <1>7
  <2> QED BY <2>1, LoadGrows, Zenon
<1> HIDE DEF l, m
<1>9. Fits(m, Cap(entries), offset', Copies, bytes + PutBytes)
  BY <1>2, <1>6, <1>7, <1>8, FitsPut
<1>10. Copies' = Copies
  BY <1>1, <1>6, <1>7 DEF Copies
<1> QED BY <1>1, <1>2, <1>6, <1>7, <1>9, <1>10, ArenaConstants DEF ArenaInv, m

\* The memtable is replaced before it could outgrow its arena.
LEMMA NextArena ==
  ASSUME RunningInv, [Next]_vars
  PROVE  /\ phase' # "aborted" => RunningInv'
         /\ ArenaIsRoomy => phase' # "aborted"
<1>1. IInv /\ ArenaInv /\ phase # "aborted" /\ IInv'
  BY NextIInv DEF RunningInv
<1>2. /\ size \in Nat /\ tombstones \in Nat /\ bytes \in Nat
      /\ bytes <= IF phase = "written" THEN MemLimit + PutBytes ELSE MemLimit
  BY <1>1, ArenaTypes DEF ArenaInv
<1> SUFFICES /\ phase' # "aborted" => ArenaInv'
             /\ ArenaIsRoomy => phase' # "aborted"
  BY <1>1 DEF RunningInv
<1>3. ASSUME NEW k \in Keys, Bury(FindSlot(k)), Occupied(entries, FindSlot(k))
      PROVE  /\ Cap(entries') = Cap(entries) /\ offset' = offset
             /\ size' + tombstones' = size + tombstones
  <2>1. DOMAIN entries' = DOMAIN entries /\ size' = size - 1 /\ tombstones' = tombstones + 1
        /\ offset' = offset
    BY <1>3 DEF Bury
  <2> QED BY <1>2, <2>1 DEF Cap
<1>4. ASSUME NEW k \in Keys, Del(k) PROVE ArenaInv' /\ phase' # "aborted"
  <2>1. phase = "ready" /\ phase' = "written"
    BY <1>4 DEF Del
  <2>2. /\ Cap(entries') = Cap(entries) /\ offset' = offset
        /\ size' + tombstones' = size + tombstones
        /\ bytes' = bytes + KeyLen \/ bytes' = bytes
    BY <1>3, <1>4 DEF Del, table
  <2>3. bytes' \in Nat /\ bytes <= bytes' /\ bytes' <= MemLimit + PutBytes
    BY <1>2, <2>1, <2>2, ArenaConstants
  <2> QED BY <2>1, <2>2, <2>3, BuryArena
<1>5. ASSUME NEW k \in Keys, Get(k) PROVE ArenaInv' /\ phase' # "aborted"
  <2>1. phase = "ready" /\ phase' = "ready" /\ bytes' = bytes
    BY <1>5 DEF Get
  <2>2. /\ Cap(entries') = Cap(entries) /\ offset' = offset
        /\ size' + tombstones' = size + tombstones
    BY <1>3, <1>5 DEF Get, table
  <2> QED BY <1>2, <2>1, <2>2, BuryArena
<1>6. ASSUME NEW k \in Keys, NEW v \in Vals, NEW ttl \in Ttls, Put(k, v, ttl)
      PROVE  ArenaInv' /\ phase' # "aborted"
  BY <1>6, PutArena
<1>7. ASSUME RehashSlot
      PROVE  (phase' # "aborted" => ArenaInv') /\ (ArenaIsRoomy => phase' # "aborted")
  BY <1>7, RehashSlotArena
<1>8. ASSUME RehashEnds PROVE ArenaInv' /\ phase' # "aborted"
  BY <1>8, RehashEndsArena
<1>9. ASSUME Insert
      PROVE  (phase' # "aborted" => ArenaInv') /\ (ArenaIsRoomy => phase' # "aborted")
  BY <1>9, InsertArena
<1>10. ASSUME MaybeFreeze PROVE ArenaInv' /\ phase' # "aborted"
  <2>1. phase' = "ready" /\ phase = "written"
    BY <1>10 DEF MaybeFreeze
  <2>2. CASE bytes >= MemLimit
    <3>1. /\ entries' = EmptySlots(InitCap) /\ size' = 0 /\ tombstones' = 0
          /\ offset' = 0 /\ bytes' = 0
      BY <1>10, <2>2 DEF MaybeFreeze
    <3>2. Cap(entries') = InitCap
      <4>1. InitCap \in Nat /\ InitCap >= InitCap
        BY ArenaConstants
      <4> QED BY <3>1, <4>1, EmptyTableIsTable
    <3>3. Copies' = 0
      BY <2>1, <3>2, ArenaConstants DEF Copies
    <3> QED BY <2>1, <3>1, <3>2, <3>3, FreshFits, ArenaConstants DEF ArenaInv
  <2>3. CASE ~ (bytes >= MemLimit)
    <3>1. UNCHANGED <<entries, size, tombstones, offset, bytes>>
      BY <1>10, <2>3 DEF MaybeFreeze, table
    <3>2. Copies' = Copies
      BY <2>1, <3>1 DEF Copies
    <3> QED BY <1>1, <1>2, <2>1, <2>3, <3>1, <3>2, ArenaConstants DEF ArenaInv
  <2> QED BY <2>2, <2>3
<1>11. ASSUME Tick PROVE ArenaInv' /\ phase' # "aborted"
  <2>1. phase = "ready" /\ UNCHANGED <<entries, size, tombstones, offset, bytes, phase>>
    BY <1>11 DEF Tick, table
  <2> QED BY <1>1, <2>1 DEF ArenaInv, Copies
<1>12. ASSUME UNCHANGED vars PROVE ArenaInv' /\ phase' # "aborted"
  BY <1>1, <1>12 DEF vars, ArenaInv, Copies
<1> QED BY <1>4, <1>5, <1>6, <1>7, <1>8, <1>9, <1>10, <1>11, <1>12 DEF Next

\* An arena's use that fits is bounded by the bytes counted.
LEMMA FittingUseIsBounded ==
  ASSUME RunningInv
  PROVE  ArenaUseIsBounded
<1>1. /\ offset \in Nat /\ bytes \in Nat /\ Cap(entries) \in Nat /\ Copies \in Nat
      /\ Fits(size + tombstones, Cap(entries), offset, Copies, bytes)
  BY ArenaTypes DEF RunningInv, ArenaInv
<1> DEFINE x == PutBytes * Copies
<1>2. x \in Nat /\ 7 * x <= 20 * bytes
  <2>1. Copies = 0 \/ (Copies <= Cap(entries) /\ 7 * (PutBytes * Cap(entries)) <= 20 * bytes)
    <3>1. CASE phase = "rehash"
      <4>1. /\ Cap(old) \in Nat /\ Cap(entries) = 2 * Cap(old)
            /\ Cardinality(OccBelow(old, moved)) \in Nat /\ Cardinality(Occ(old)) \in Nat
            /\ Cardinality(OccBelow(old, moved)) <= Cardinality(Occ(old))
            /\ Cardinality(Occ(old)) <= Cap(old)
            /\ 7 * (PutBytes * Cap(entries)) <= 20 * bytes
        BY <3>1, ArenaTypes DEF RunningInv, ArenaInv
      <4>2. Copies = Cap(old) - InitCap + Cardinality(OccBelow(old, moved))
        BY <3>1 DEF Copies
      <4> QED BY <4>1, <4>2, ArenaConstants
    <3>2. CASE phase # "rehash"
      <4>1. Copies = Cap(entries) - InitCap
        BY <3>2 DEF Copies
      <4>2. Cap(entries) = InitCap \/ 7 * (PutBytes * Cap(entries)) <= 20 * bytes
        BY <1>1 DEF Fits
      <4> QED BY <1>1, <4>1, <4>2, ArenaConstants
    <3> QED BY <3>1, <3>2
  <2> QED BY <1>1, <2>1, CopiesAreFew
<1>3. PutBytes * offset <= Footprint * (x + bytes)
  BY <1>1 DEF Fits
<1> HIDE DEF x
<1>4. /\ 7 * (x + bytes) \in Nat /\ 27 * bytes \in Nat /\ x + bytes \in Nat
      /\ 7 * (x + bytes) <= 27 * bytes
  BY <1>1, <1>2
<1>5. Footprint * (7 * (x + bytes)) <= Footprint * (27 * bytes)
  BY <1>4, ArenaConstants, ProductGrows
<1>6. /\ Footprint * (7 * (x + bytes)) = 7 * (Footprint * (x + bytes))
      /\ Footprint * (27 * bytes) = 27 * (Footprint * bytes)
      /\ PutBytes * offset \in Nat /\ Footprint * (x + bytes) \in Nat
      /\ Footprint * bytes \in Nat
  BY <1>1, <1>4, ArenaConstants
<1> QED BY <1>3, <1>5, <1>6 DEF ArenaUseIsBounded

\* A failed allocation ends the process and has taken nothing.
LEMMA AbortUsesNothing ==
  ASSUME RunningInv, ArenaUseIsBounded, Next, phase' = "aborted"
  PROVE  ArenaUseIsBounded'
<1>1. RehashSlot \/ Insert
  BY DEF RunningInv, Next, Put, PutGrowing, Del, Get, RehashEnds, MaybeFreeze, Tick
<1>2. offset' = offset /\ (bytes' = bytes \/ bytes' = bytes + PutBytes)
  BY <1>1 DEF RehashSlot, Insert, Store, RunningInv, table
<1>3. offset \in Nat /\ bytes \in Nat
  BY ArenaTypes DEF RunningInv
<1>4. bytes' \in Nat /\ bytes <= bytes'
  BY <1>2, <1>3, ArenaConstants
<1>5. /\ Footprint * bytes <= Footprint * bytes'
      /\ Footprint * bytes \in Nat /\ Footprint * bytes' \in Nat
  BY <1>3, <1>4, ArenaConstants, ProductGrows
<1>6. 7 * (PutBytes * offset') = 7 * (PutBytes * offset) /\ 7 * (PutBytes * offset) \in Nat
  BY <1>2, <1>3, ArenaConstants
<1> QED BY <1>5, <1>6 DEF ArenaUseIsBounded

\* Nothing runs after a failed allocation.
LEMMA AbortedStays ==
  ASSUME phase = "aborted", [Next]_vars
  PROVE  UNCHANGED vars
BY DEF Next, Put, PutGrowing, Del, Get, RehashSlot, RehashEnds, Insert, MaybeFreeze, Tick

\* A memtable starts within its arena.
LEMMA InitRuns == Init => RunningInv
<1>1. SUFFICES ASSUME Init PROVE RunningInv
  OBVIOUS
<1>2. IInv /\ phase = "ready" /\ bytes = 0 /\ offset = 0 /\ size + tombstones = 0
  BY <1>1, InitIInv DEF Init
<1>3. Cap(entries) = InitCap
  <2>1. InitCap \in Nat /\ InitCap >= InitCap
    BY ArenaConstants
  <2> QED BY <1>1, <2>1, EmptyTableIsTable DEF Init
<1>4. Copies = 0
  BY <1>2, <1>3, ArenaConstants DEF Copies
<1> QED BY <1>2, <1>3, <1>4, FreshFits, ArenaConstants DEF RunningInv, ArenaInv

\* For every arena, roomy or not: all it ever gives out, the copies of every
\* rehash included, is bounded by bytes_ (MemTable::put, HashTable::rehash).
THEOREM ArenaUseFollowsBytes == Spec => []ArenaUseIsBounded
<1> DEFINE Inv == RunningInv \/ (phase = "aborted" /\ ArenaUseIsBounded)
<1>1. Init => Inv
  BY InitRuns
<1>2. Inv /\ [Next]_vars => Inv'
  <2>1. CASE RunningInv /\ phase' # "aborted"
    BY <2>1, NextArena
  <2>2. ASSUME RunningInv, phase' = "aborted", [Next]_vars PROVE ArenaUseIsBounded'
    <3>1. Next
      BY <2>2 DEF vars, RunningInv
    <3> QED BY <2>2, <3>1, FittingUseIsBounded, AbortUsesNothing
  <2>3. ASSUME phase = "aborted", ArenaUseIsBounded, [Next]_vars
        PROVE  phase' = "aborted" /\ ArenaUseIsBounded'
    BY <2>3, AbortedStays DEF vars, ArenaUseIsBounded
  <2> QED BY <2>1, <2>2, <2>3
<1>3. Inv => ArenaUseIsBounded
  BY FittingUseIsBounded
<1> HIDE DEF Inv
<1> QED BY <1>1, <1>2, <1>3, PTL DEF Spec

\* With entries large enough for ARENA_FACTOR to pay for their padding and
\* copies (db.cpp), the assertion in Arena::alloc never fails.
THEOREM ArenaSuffices == ASSUME ArenaIsRoomy PROVE Spec => []ArenaNeverRunsOut
<1>1. RunningInv /\ [Next]_vars => RunningInv'
  BY NextArena
<1>2. RunningInv => ArenaNeverRunsOut
  BY DEF RunningInv, ArenaNeverRunsOut
<1> QED BY <1>1, <1>2, InitRuns, PTL DEF Spec

\* So the hash table implements MemTableMap, whatever the hash function.
COROLLARY RoomyTableImplementsMap == ASSUME ArenaIsRoomy PROVE Spec => ImplementsMap
BY ArenaSuffices, TableImplementsMap, PTL
=============================================================================
