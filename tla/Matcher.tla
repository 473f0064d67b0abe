------------------------------ MODULE Matcher ------------------------------
(***************************************************************************)
(* recon/matcher.py: ReconciliationEngine over the stored ledger.          *)
(* reconcile_all evaluates payments one by one against processor and       *)
(* settlement records, then lists processor transactions no payment        *)
(* accounts for, then compares settlement batches with bank lines.  The    *)
(* targets of matches are remembered in consumed_target_ids, which         *)
(* reconcile_all empties first and which single calls of reconcile_order   *)
(* leave behind.  Between calls records may be stored again.               *)
(***************************************************************************)
EXTENDS Orders, SequencesExt

CONSTANTS BuiltIn,      \* the policies a new fee registry holds
          Policies,     \* the policies a caller may register
          MaxPuts,      \* bound: records stored and policies registered
          MaxOutcomes   \* bound: outcomes of single calls kept

ASSUME MatcherAssumption == {MaxPuts, MaxOutcomes} \subseteq Nat

VARIABLES
  consumed,     \* consumed_target_ids
  stage,        \* where reconcile_all stands
  queue,        \* what is left of the list the current stage walks
  listed,       \* the payments the current or last reconcile_all was given
  matches,      \* order matches returned since reset_state
  exceptions,   \* exceptions returned since reset_state
  payouts,      \* batch matches of the current reconcile_all
  lastRun,      \* history: the finished reconcile_all on this ledger
  puts          \* records stored and policies registered so far

engine == <<consumed, stage, queue, listed, matches, exceptions, payouts>>
vars == <<stored, engine, rules, lastRun, puts>>

NoRun == [list |-> <<>>, matches |-> <<>>, exceptions |-> <<>>,
          payouts |-> <<>>]
-----------------------------------------------------------------------------
\* Faulty variant of Consume: locks the payment instead of its target.
ConsumePayment(answer) ==
  consumed \cup {m.payment : m \in ToSet(answer.match)}

Consume(answer) == consumed \cup {m.target : m \in ToSet(answer.match)}

ReconcileOrder(p) ==
  LET answer == Answer(p, consumed)
  IN  /\ consumed' = Consume(answer)
      /\ matches' = matches \o answer.match
      /\ exceptions' = exceptions \o answer.exception
      /\ UNCHANGED <<stored, rules, payouts, lastRun, puts>>
-----------------------------------------------------------------------------
\* A new engine on an empty ledger, with the registry of its process.
NewEngine(policies) ==
  /\ ledger = {} /\ index = {} /\ puts = 0
  /\ rules \in RuleSets /\ registry = policies
  /\ consumed = {} /\ matches = <<>> /\ exceptions = <<>> /\ payouts = <<>>
  /\ stage = "idle" /\ queue = <<>> /\ listed = <<>>
  /\ lastRun = NoRun

Init == NewEngine(BuiltIn)

\* A record is stored between two calls of the engine.
Store(r) ==
  /\ stage = "idle" /\ puts < MaxPuts
  /\ PutRecord(r)
  /\ puts' = puts + 1
  /\ lastRun' = NoRun /\ listed' = <<>>
  /\ UNCHANGED <<registry, rules, consumed, stage, queue, matches, exceptions, payouts>>

\* The process dies inside put_record; the next one has a new engine and a
\* new registry.
StoreInterrupted(r) ==
  /\ stage = "idle" /\ puts < MaxPuts
  /\ PutPrimaryOnly(r)
  /\ puts' = puts + 1
  /\ consumed' = {} /\ matches' = <<>> /\ exceptions' = <<>> /\ payouts' = <<>>
  /\ registry' = BuiltIn
  /\ lastRun' = NoRun /\ listed' = <<>>
  /\ UNCHANGED <<rules, stage, queue>>

(* A caller registers the policies of its data set in the registry all     *)
(* engines of the process share; they stay for the runs that follow.       *)
RegisterPolicy(policy) ==
  /\ stage = "idle" /\ puts < MaxPuts
  /\ registry' = Register(registry, policy)
  /\ puts' = puts + 1
  /\ lastRun' = NoRun /\ listed' = <<>>
  /\ UNCHANGED <<ledger, index, rules, consumed, stage, queue, matches,
                 exceptions, payouts>>

\* reconcile_payment / reconcile_order called on its own.
SingleOrder(p) ==
  /\ stage = "idle"
  /\ Len(matches) + Len(exceptions) < MaxOutcomes
  /\ ReconcileOrder(p)
  /\ UNCHANGED <<stage, queue, listed>>

\* Faulty variant of Begin: no reset_state before the run.
BeginKeepingConsumed(list) ==
  /\ stage = "idle"
  /\ stage' = "orders" /\ queue' = list /\ listed' = list
  /\ matches' = <<>> /\ exceptions' = <<>> /\ payouts' = <<>>
  /\ UNCHANGED <<stored, rules, consumed, lastRun, puts>>

(* reconcile_all on the payments of the ledger, in the order of the scan   *)
(* or of the caller's list.  The indexes it prefetches cannot change while *)
(* it runs.                                                                *)
Begin(list) ==
  /\ stage = "idle"
  /\ stage' = "orders" /\ queue' = list /\ listed' = list
  /\ consumed' = {} /\ matches' = <<>> /\ exceptions' = <<>> /\ payouts' = <<>>
  /\ UNCHANGED <<stored, rules, lastRun, puts>>

NextOrder ==
  /\ stage = "orders" /\ queue # <<>>
  /\ ReconcileOrder(Get(Head(queue)))
  /\ queue' = Tail(queue)
  /\ UNCHANGED <<stage, listed>>

OrdersDone ==
  /\ stage = "orders" /\ queue = <<>>
  /\ stage' = "processors" /\ queue' = Scan("PROCESSOR")
  /\ UNCHANGED <<stored, rules, consumed, listed, matches, exceptions,
                 payouts, lastRun, puts>>

NextProcessor ==
  LET k == Head(queue)
  IN  /\ stage = "processors" /\ queue # <<>>
      /\ exceptions' = exceptions \o When(Orphan(k, consumed), Unrecorded(k))
      /\ queue' = Tail(queue)
      /\ UNCHANGED <<stored, rules, consumed, stage, listed, matches,
                     payouts, lastRun, puts>>

ProcessorsDone ==
  /\ stage = "processors" /\ queue = <<>>
  /\ stage' = "batches" /\ queue' = Scan("BATCH")
  /\ UNCHANGED <<stored, rules, consumed, listed, matches, exceptions,
                 payouts, lastRun, puts>>

NextBatch ==
  LET answer == BatchAnswer(Get(Head(queue)))
  IN  /\ stage = "batches" /\ queue # <<>>
      /\ payouts' = payouts \o answer.payout
      /\ exceptions' = exceptions \o answer.exception
      /\ queue' = Tail(queue)
      /\ UNCHANGED <<stored, rules, consumed, stage, listed, matches,
                     lastRun, puts>>

Finish ==
  /\ stage = "batches" /\ queue = <<>>
  /\ stage' = "idle"
  /\ lastRun' = [list |-> listed, matches |-> matches,
                 exceptions |-> exceptions, payouts |-> payouts]
  /\ UNCHANGED <<stored, rules, consumed, queue, listed, matches,
                 exceptions, payouts, puts>>

Next ==
  \/ \E r \in Records : Store(r) \/ StoreInterrupted(r)
  \/ \E policy \in Policies : RegisterPolicy(policy)
  \/ \E p \in Of("PAYMENT") : SingleOrder(p)
  \/ \E list \in SetToSeqs({Key(p) : p \in Of("PAYMENT")}) : Begin(list)
  \/ NextOrder \/ OrdersDone \/ NextProcessor \/ ProcessorsDone
  \/ NextBatch \/ Finish

Spec == Init /\ [][Next]_vars
-----------------------------------------------------------------------------
Keys == {Key(r) : r \in Records}
TargetKeys == {k \in Keys : k.kind \in {"PROCESSOR", "SETTLEMENT"}}
PaymentKeys == {k \in Keys : k.kind = "PAYMENT"}

(* Types: among them, that only processor and settlement records are ever  *)
(* consumed and that every match pairs a payment with one of them under a  *)
(* strategy that exists (reconcile_order's results).                       *)
TypeOK ==
  /\ ledger \subseteq Records
  /\ index \subseteq UNION {IndexEntries(r) : r \in Records}
  /\ rules \in RuleSets /\ puts \in 0 .. MaxPuts
  /\ stage \in {"idle", "orders", "processors", "batches"}
  /\ consumed \subseteq TargetKeys
  /\ ToSet(queue) \cup ToSet(listed) \subseteq Keys
  /\ \A i \in DOMAIN matches :
       /\ matches[i].payment \in PaymentKeys
       /\ matches[i].target \in TargetKeys
       /\ matches[i].strategy \in {"EXACT", "TIMING", "TOLERANCE"}
  /\ \A i \in DOMAIN exceptions : exceptions[i].primary \in Keys

(* Greedy 1:1 consumption: since the last reset, whatever mix of single    *)
(* calls, new records and replaced records, no processor or settlement     *)
(* record is the target of two matches, and exactly the matched targets    *)
(* are locked: an exception leaves its target to other payments.           *)
MatchesAreOneToOne ==
  /\ consumed = {matches[i].target : i \in DOMAIN matches}
  /\ \A i, j \in DOMAIN matches :
       matches[i].target = matches[j].target => i = j

Refusals(run) == {e.payment : e \in ToSet(run.exceptions)}
Used(run) == {m.target : m \in ToSet(run.matches)}
OnOrder(kind, o) == {r \in Of(kind) : r.order = o}
Indexed(r) == IndexEntries(r) \subseteq index
\* Every record is found through the index, and only through its own entries.
CleanIndex == /\ \A r \in ledger : Indexed(r)
              /\ \A e \in index : ~Stale(e)

(* No processor transaction disappears from a report of reconcile_all: one *)
(* that was fully stored and not matched is either reported as             *)
(* MISSING_INTERNAL itself, or every payment of its order was refused, so  *)
(* that somebody looks at the order.  The exception is an order that only  *)
(* an outdated index entry of a payment still names.                       *)
LeftoversAreReported ==
  lastRun # NoRun =>
    \A q \in {r \in Of("PROCESSOR") : Indexed(r)} :
      Key(q) \notin Used(lastRun) =>
        \/ Key(q) \in Refusals(lastRun)
        \/ /\ OnOrder("PAYMENT", q.order) # {}
           /\ \A p \in OnOrder("PAYMENT", q.order) :
                Key(p) \in Refusals(lastRun)
        \/ \E e \in index : e.by = OrderRef(q.order) /\ Stale(e)

(* An order charged twice at the processor never ends in a match with one  *)
(* of the two charges: the first payment evaluated must not use one up and *)
(* so hide the duplicate from the payments of the order that follow (two   *)
(* under BANK_GL).                                                         *)
DuplicateChargesNeverMatch ==
  (lastRun # NoRun /\ CleanIndex) =>
    \A q, r \in Of("PROCESSOR") :
      (q # r /\ q.order = r.order) => Key(q) \notin Used(lastRun)

(* The report of reconcile_all depends on the ledger and the list only:    *)
(* not on earlier runs, nor on single calls made before it, as             *)
(* evaluation/benchmark.py makes one per payment on the same engine.       *)
RunsDoNotDependOnHistory ==
  [][(Finish /\ lastRun # NoRun /\ lastRun.list = listed)
       => lastRun' = lastRun]_vars

(* Outside BANK_GL, with every record properly indexed, greedy             *)
(* consumption never makes two payments compete: in whatever order the     *)
(* payments are listed, the same payments match the same targets and the   *)
(* same exceptions are raised.                                             *)
OrderOfPaymentsDoesNotMatter ==
  [][(Finish /\ lastRun # NoRun /\ rules.topology # "BANK_GL" /\ CleanIndex)
       => /\ ToSet(lastRun'.matches) = ToSet(lastRun.matches)
          /\ ToSet(lastRun'.exceptions) = ToSet(lastRun.exceptions)]_vars

(* docs/ARCHITECTURE.md: matches lock bank records, preventing double      *)
(* matching; so no bank line pays out two batches of one run.              *)
BankLinesMatchedOnce ==
  \A i, j \in DOMAIN payouts : payouts[i].line = payouts[j].line => i = j
=============================================================================
