------------------------------ MODULE KVStore ------------------------------
(***************************************************************************)
(* What MiniVaultDB promises a client that sets no TTL, stated without     *)
(* logs, memtables or files.  It is the promise the code keeps, which is   *)
(* weaker than a map:                                                      *)
(*   - deleting a key uncovers the value the last flush wrote for it;      *)
(*   - a crash falls back to "recoverable", which equals "current" unless  *)
(*     an earlier crash left a half-written record in the log and no       *)
(*     flush has been completed since ("damaged").                         *)
(***************************************************************************)
CONSTANTS Keys, Vals, Missing

VARIABLES
  current,      \* what a read returns now
  recoverable,  \* what a read would return after a crash and a reopen
  flushed,      \* what the SSTables alone would answer
  damaged,      \* the log holds a half-written record
  reply         \* the keys of the last read, with its answers

vars == <<current, recoverable, flushed, damaged, reply>>

Answer == Vals \union {Missing}
Replies == UNION {[P -> Answer] : P \in SUBSET Keys}

TypeOK ==
  /\ current \in [Keys -> Answer]
  /\ recoverable \in [Keys -> Answer]
  /\ flushed \in [Keys -> Answer]
  /\ damaged \in BOOLEAN
  /\ reply \in Replies

Nothing == [k \in Keys |-> Missing]
NoReply == [k \in {} |-> Missing]

Init ==
  /\ current = Nothing
  /\ recoverable = Nothing
  /\ flushed = Nothing
  /\ damaged = FALSE
  /\ reply = NoReply

\* A write of answer a to key k: lost by the next crash if the log is damaged.
Write(k, a) ==
  /\ current' = [current EXCEPT ![k] = a]
  /\ recoverable' = IF damaged THEN recoverable ELSE [recoverable EXCEPT ![k] = a]
  /\ reply' = NoReply
  /\ UNCHANGED <<flushed, damaged>>

Put(k, v) == Write(k, v)
Del(k) == Write(k, flushed[k])

Read(P) ==
  /\ reply' = [k \in P |-> current[k]]
  /\ UNCHANGED <<current, recoverable, flushed, damaged>>

\* The memtable reaches a complete SSTable; a damaged log still shadows it.
Flush ==
  /\ flushed' = current
  /\ recoverable' \in {r \in [Keys -> Answer] :
                         \A k \in Keys : r[k] \in {recoverable[k], current[k]}}
  /\ UNCHANGED <<current, damaged, reply>>

\* The log is emptied, which is safe only because everything is flushed.
Checkpoint ==
  /\ flushed = current
  /\ recoverable' = current
  /\ damaged' = FALSE
  /\ UNCHANGED <<current, flushed, reply>>

\* A crash, or the close of the handle; it may interrupt an append.
Crash ==
  /\ current' = recoverable
  /\ damaged' \in {damaged, TRUE}
  /\ reply' = NoReply
  /\ UNCHANGED <<recoverable, flushed>>

Call == UNCHANGED <<current, recoverable, flushed, damaged>> /\ reply' = NoReply

Next ==
  \/ \E k \in Keys : Del(k) \/ \E v \in Vals : Put(k, v)
  \/ \E P \in SUBSET Keys : Read(P)
  \/ Flush
  \/ Checkpoint
  \/ Crash
  \/ Call

Spec == Init /\ [][Next]_vars

\* As long as the log holds no half-written record, a crash costs nothing.
NothingToLose == ~damaged => recoverable = current
=============================================================================
