--------------------------- MODULE Reconciliation ---------------------------
(***************************************************************************)
(* run_reconciliation.py and datasets/run.py run_default_pipeline, up to   *)
(* the investigation of the exceptions.  Both load the files of a data     *)
(* directory into a store, register the directory's fee policies and       *)
(* reconcile the payments they have read.  run_default_pipeline deletes    *)
(* its store before and after; run_reconciliation.py keeps ./data_vault    *)
(* from run to run, may be given a limit, and may be killed and started    *)
(* again.  Here every directory first goes through run_default_pipeline,   *)
(* whose reports are what the later runs are compared with.  The two       *)
(* programs have stores of their own; one ledger stands for both, empty    *)
(* whenever one program gives way to the other.                            *)
(***************************************************************************)
EXTENDS Matcher, CsvDataset

CONSTANT Limits   \* the values of --records

ASSUME LimitsAssumption == Limits \subseteq Nat

(* Identifiers are unique over all files, no payment has two rows, and one *)
(* directory has all the records filed under an order or reference.        *)
ASSUME FilesAssumption ==
  /\ \A d \in Dirs : /\ \A f \in FileNames : Files[d][f] \in Seq(ToSet(Files[d][f]))
                     /\ RecordsOf(d) \subseteq Records
                     /\ IsInjective(Listing(d, 0))
  /\ \A d, e \in Dirs : \A r \in RecordsOf(d), s \in RecordsOf(e) :
       /\ Key(r) = Key(s) => r = s
       /\ (\E x \in IndexEntries(r), y \in IndexEntries(s) : x.by = y.by)
            => d = e

VARIABLES
  run,       \* the current or last run: its program, directory and limit
  phase,     \* where it stands
  toLoad,    \* the records it has still to store
  reported   \* history: what run_default_pipeline reported on a directory

programVars == <<run, phase, toLoad, reported>>
reconVars == <<vars, programVars>>

ReconInit ==
  /\ NewEngine(BuiltIn)
  /\ run = [program |-> None] /\ phase = "ready" /\ toLoad = <<>>
  /\ reported = [d \in Dirs |-> NoRun]

\* A process starts, with a registry and an engine of its own.
Start(program, dir, limit) ==
  /\ phase = "ready" /\ phase' = "load"
  /\ run' = [program |-> program, dir |-> dir, limit |-> limit]
  /\ toLoad' = LoadOrder(dir, limit)
  /\ registry' = BuiltIn
  /\ consumed' = {} /\ matches' = <<>> /\ exceptions' = <<>> /\ payouts' = <<>>
  /\ stage' = "idle" /\ queue' = <<>> /\ listed' = <<>> /\ lastRun' = NoRun
  /\ UNCHANGED <<ledger, index, rules, puts, reported>>

RunDefault(dir) ==
  /\ reported[dir] = NoRun
  /\ Start("run_default_pipeline", dir, 0)

RunMain(dir, limit) ==
  /\ \A d \in Dirs : reported[d] # NoRun
  /\ Start("run_reconciliation", dir, limit)

LoadRecord ==
  /\ phase = "load" /\ toLoad # <<>>
  /\ PutRecord(Head(toLoad))
  /\ toLoad' = Tail(toLoad)
  /\ UNCHANGED <<registry, engine, rules, lastRun, puts, run, phase, reported>>

RegisterContracts ==
  /\ phase = "load" /\ toLoad = <<>> /\ phase' = "registered"
  /\ registry' = FoldLeft(Register, registry, Contracts(run.dir, run.limit))
  /\ UNCHANGED <<ledger, index, engine, rules, lastRun, puts, run, toLoad,
                 reported>>

\* The engine is given the payments read, not those stored.
Reconcile ==
  LET payments == Listing(run.dir, run.limit)
  IN  /\ phase = "registered" /\ phase' = "match"
      /\ Begin([i \in DOMAIN payments |-> Key(payments[i])])
      /\ UNCHANGED <<run, toLoad, reported>>

MatchStep ==
  /\ phase = "match"
  /\ NextOrder \/ OrdersDone \/ NextProcessor \/ ProcessorsDone \/ NextBatch
  /\ UNCHANGED programVars

Report ==
  /\ phase = "match"
  /\ Finish
  /\ phase' = IF run.program = "run_default_pipeline" THEN "close" ELSE "ready"
  /\ UNCHANGED <<run, toLoad, reported>>

\* run_default_pipeline deletes its store and returns the report.
DeleteStore ==
  /\ phase = "close" /\ phase' = "ready"
  /\ reported' = [reported EXCEPT ![run.dir] = lastRun]
  /\ ledger' = {} /\ index' = {}
  /\ UNCHANGED <<registry, engine, rules, lastRun, puts, run, toLoad>>

(* run_reconciliation.py is killed, perhaps inside a put_record.  A killed *)
(* run_default_pipeline leaves nothing the next one would not delete.      *)
Killed ==
  /\ run.program = "run_reconciliation" /\ phase # "ready"
  /\ phase' = "ready" /\ toLoad' = <<>>
  /\ \/ UNCHANGED <<ledger, index>>
     \/ phase = "load" /\ toLoad # <<>> /\ PutPrimaryOnly(Head(toLoad))
  /\ registry' = BuiltIn
  /\ consumed' = {} /\ matches' = <<>> /\ exceptions' = <<>> /\ payouts' = <<>>
  /\ stage' = "idle" /\ queue' = <<>> /\ listed' = <<>>
  /\ UNCHANGED <<rules, lastRun, puts, run, reported>>

ReconNext ==
  \/ \E dir \in Dirs : RunDefault(dir)
  \/ \E dir \in Dirs, limit \in Limits : RunMain(dir, limit)
  \/ LoadRecord \/ RegisterContracts \/ Reconcile \/ MatchStep \/ Report
  \/ DeleteStore \/ Killed

ReconSpec == ReconInit /\ [][ReconNext]_reconVars
-----------------------------------------------------------------------------
(* Types: what a run can be at in each phase; and of the store, that its   *)
(* records come from the files and its index leads to stored records, so   *)
(* that put_record never leaves an entry the engine would look up in vain. *)
ReconTypeOK ==
  /\ phase \in {"ready", "load", "registered", "match", "close"}
  /\ phase # "ready" =>
       /\ run.program \in {"run_default_pipeline", "run_reconciliation"}
       /\ run.dir \in Dirs /\ run.limit \in Limits \cup {0}
  /\ ToSet(toLoad) \subseteq Records
  /\ ledger \subseteq UNION {RecordsOf(d) : d \in Dirs}
  /\ \A e \in index : \E r \in ledger : e \in IndexEntries(r)
  /\ phase \notin {"match", "close"} => stage = "idle"

\* A run of run_reconciliation.py has just reported.
Finished == /\ phase = "ready" /\ lastRun # NoRun
            /\ run.program = "run_reconciliation"

\* The orders and references records are filed under.
FiledUnder(r) == {e.by : e \in IndexEntries(r)}
Cases(dir) == UNION {FiledUnder(r) : r \in RecordsOf(dir)}

\* Every record of a case is stored, and found through the index.
Whole(dir, case) ==
  \A r \in RecordsOf(dir) :
    case \in FiledUnder(r) => r \in ledger /\ Indexed(r)

(* The verdicts of a report: on a payment, a charge without payment or a   *)
(* batch.                                                                  *)
Verdicts(report) ==
  {[on |-> v.payment, is |-> v] :
     v \in ToSet(report.matches) \cup ToSet(report.exceptions)}
  \cup {[on |-> v.batch, is |-> v] : v \in ToSet(report.payouts)}

VerdictsOn(dir, case, report) ==
  {v \in Verdicts(report) :
     \E r \in RecordsOf(dir) : Key(r) = v.on /\ case \in FiledUnder(r)}

(* Whatever was loaded before, with whatever limit or directory, and       *)
(* wherever a run was killed: on an order or reference all of whose        *)
(* records are stored a run says what run_default_pipeline says, except    *)
(* that it is silent on payments beyond its limit.  So a false alarm, or a *)
(* problem overlooked, is always about an order whose records are still    *)
(* incomplete: a limit cuts all files at the same row, and with it the     *)
(* charge of a payment or the payment of a charge.                         *)
WholeCasesAreJudgedAlike ==
  Finished =>
    \A dir \in Dirs : \A case \in Cases(dir) :
      Whole(dir, case) =>
        VerdictsOn(dir, case, lastRun) =
          {v \in VerdictsOn(dir, case, reported[dir]) :
             v.on.kind = "PAYMENT" => v.on \in ToSet(lastRun.list)}

(* A run without limit repairs what limited and killed runs left behind:   *)
(* on its own directory it reports what run_default_pipeline reports, and  *)
(* beyond that only charges and batches of other directories still stored. *)
FullRunsAgree ==
  (Finished /\ run.limit = 0) =>
    /\ Verdicts(reported[run.dir]) \subseteq Verdicts(lastRun)
    /\ \A v \in Verdicts(lastRun) \ Verdicts(reported[run.dir]) :
         /\ v.on.kind \in {"PROCESSOR", "BATCH"}
         /\ \A r \in RecordsOf(run.dir) : Key(r) # v.on

(* What a run has gone past while loading can be looked up from then on,   *)
(* although put_record may have been cut short on the same key before: no  *)
(* record it has read is missing, outdated or without its index entry when *)
(* it comes to reconcile.                                                  *)
LoadedRecordsAreFound ==
  phase # "ready" =>
    \A r \in ToSet(LoadOrder(run.dir, run.limit)) \ ToSet(toLoad) :
      r \in ledger /\ Indexed(r)
=============================================================================
