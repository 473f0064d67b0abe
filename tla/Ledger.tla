------------------------------- MODULE Ledger -------------------------------
(***************************************************************************)
(* The normalized financial records kept in MiniVaultDB and the secondary  *)
(* index entries that lead to them: recon/storage.py put_record with the   *)
(* keys of ingestion/schemas.py.  A record is stored under its type and    *)
(* identifier; storing it again replaces the record, while the index       *)
(* entries of its earlier content stay (nothing ever deletes one).         *)
(***************************************************************************)
EXTENDS Naturals, Sequences, FiniteSets

CONSTANT Records   \* the records a source file may contain

Kinds == {"PAYMENT", "INVOICE", "REFUND", "PROCESSOR", "SETTLEMENT", "BATCH",
          "BANK"}

\* The order an order-scope record names, as something a settlement can name.
OrderRef(o) == [kind |-> "ORDER", id |-> o]

(* to_key: REC:<kind>:<id>. *)
Key(r) == [kind |-> r.kind, id |-> r.id]

(* The index entries put_record writes that somebody reads: IDX:ORDER,     *)
(* IDX:TXN and IDX:REF.  An invoice's, refund's, payment's and processor's *)
(* lead from its order, a settlement's from the transaction or order it    *)
(* names, a batch's and a bank line's from its cleaned reference.          *)
IndexEntries(r) ==
  CASE r.kind = "SETTLEMENT"      -> {[by |-> r.txn, to |-> Key(r)]}
    [] r.kind \in {"BATCH", "BANK"} ->
          {[by |-> [kind |-> "REF", id |-> r.ref], to |-> Key(r)]}
    [] OTHER                      -> {[by |-> OrderRef(r.order), to |-> Key(r)]}

ASSUME RecordsAssumption ==
  \A r \in Records : r.kind \in Kinds /\ r.id \in Nat

VARIABLES ledger,   \* the stored records, one for each key
          index,    \* the stored index entries
          registry  \* GLOBAL_FEE_REGISTRY: the fee policies, in memory

stored == <<ledger, index, registry>>

Get(k) == CHOOSE r \in ledger : Key(r) = k

Of(kind) == {r \in ledger : r.kind = kind}

(* A prefix scan lists keys in order; identifiers are ordered like keys.   *)
Before(keys, k) == {j \in keys : j.id < k.id}
Listed(keys) ==
  [i \in 1 .. Cardinality(keys) |->
     CHOOSE k \in keys : Cardinality(Before(keys, k)) = i - 1]

Scan(kind) == Listed({Key(r) : r \in Of(kind)})

Under(by, kind) ==
  {e.to : e \in {f \in index : f.by = by /\ f.to.kind = kind}}

Entries(by, kind) == Listed(Under(by, kind))

\* The one a scan would list first.
First(keys) == CHOOSE k \in keys : \A j \in keys : k.id <= j.id

\* Faulty variant of PutRecord: a key in use is left alone.
PutNewRecordOnly(r) ==
  IF \E s \in ledger : Key(s) = Key(r) THEN UNCHANGED <<ledger, index>>
  ELSE /\ ledger' = ledger \cup {r}
       /\ index' = index \cup IndexEntries(r)

(* put_record writes the primary key first and the index entries after it; *)
(* a process that dies in between leaves a record no entry leads to.       *)
PutRecord(r) ==
  /\ ledger' = {s \in ledger : Key(s) # Key(r)} \cup {r}
  /\ index' = index \cup IndexEntries(r)

\* put_record for records of different keys, whatever their order.
PutAll(records) ==
  /\ ledger' = {s \in ledger : \A r \in records : Key(s) # Key(r)} \cup records
  /\ index' = index \cup UNION {IndexEntries(r) : r \in records}

\* Faulty variant of PutPrimaryOnly: the index entries go first.
PutIndexOnly(r) ==
  /\ index' = index \cup IndexEntries(r)
  /\ UNCHANGED ledger

PutPrimaryOnly(r) ==
  /\ ledger' = {s \in ledger : Key(s) # Key(r)} \cup {r}
  /\ UNCHANGED index

\* An entry left over from an earlier content of the record it leads to.
Stale(e) == e \notin IndexEntries(Get(e.to))
=============================================================================
