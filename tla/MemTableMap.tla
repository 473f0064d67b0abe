---------------------------- MODULE MemTableMap ----------------------------
(***************************************************************************)
(* What MemTable promises to the DB: a map from keys to entries, whose     *)
(* lookups answer the live entries and drop the expired ones.  MiniVaultDB *)
(* is written against this map; HashTable implements it.                   *)
(***************************************************************************)
EXTENDS MemTable

CONSTANTS Ttls

VARIABLES mt, now, answer

mapVars == <<mt, now, answer>>

MapInit == mt = EmptyTable /\ now \in Nat /\ answer = Missing

MapPut(k, v, ttl) ==
  mt' = MtPut(mt, k, v, ttl, now) /\ UNCHANGED <<now, answer>>

MapDel(k) == mt' = MtDel(mt, k) /\ UNCHANGED <<now, answer>>

MapGet(k) ==
  /\ answer' = IF Live(mt, k, now) THEN mt[k].val ELSE Missing
  /\ mt' = MtAfterGet(mt, k, now)
  /\ UNCHANGED now

\* freeze_memtable: the DB goes on with a new, empty memtable.
MapFreeze == mt' = EmptyTable /\ UNCHANGED <<now, answer>>

MapTick == now' = now + 1 /\ UNCHANGED <<mt, answer>>

MapNext ==
  \/ \E k \in Keys : MapDel(k) \/ MapGet(k)
  \/ \E k \in Keys, v \in Vals, ttl \in Ttls : MapPut(k, v, ttl)
  \/ MapFreeze
  \/ MapTick

MapSpec == MapInit /\ [][MapNext]_mapVars
=============================================================================
