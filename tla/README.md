# VaultRecon AI in TLA+

VaultRecon reconciles payments with processor, settlement and bank records. It
keeps every record in MiniVaultDB, a small log-structured key-value store written
in C++, matches them with a deterministic engine written in Python, and hands the
exceptions to an AI controller whose decisions pass through guardrails. Programs
around these parts load data sets, run them through, and score the outcome
against known answers. This directory holds TLA+ models of all of this, TLC runs
that check them on small instances, and TLAPS proofs of invariants that hold for
every value of the constants. Sources are quoted relative to `src/`.

## 1. Inventory

| Part | State | Operations | Modules |
|---|---|---|---|
| Storage engine, `MiniVaultDB/src/db/db.cpp`, `c_api.cpp` | two memtables, list of files, next file number | put, del, get, scan_prefix, flush, open, close | `MiniVaultDB`, `MiniVaultPromise`, `KVStore` |
| Log, `engine/wal.cpp` | `wal.log` | append, replay, rotate | `WriteAheadLog` |
| Files, `engine/sstable.cpp` | `sst_<n>.sst` | build, open, get, scan | `SSTables` |
| Memtable, `engine/memtable.cpp`, `util/hash.cpp`, `util/arena.cpp` | slots, counters, arena offset, byte count | put, del, get, rehash | `MemTable`, `MemTableMap`, `HashTable` |
| Ledger, `recon/storage.py`, `ingestion/schemas.py` | records and index entries in the store | put_record, get, prefix scans | `Ledger` |
| Fee registry, `recon/rules.py` | the policies of the process, `GLOBAL_FEE_REGISTRY` | register, get, match_policy, compute_expected_fee | `FeePolicy` |
| Matcher, `recon/matcher.py`, `rules.py`, `exceptions.py` | `consumed_target_ids`, matches and exceptions of a run | reconcile_payment, reconcile_order, reconcile_batch, reconcile_all, reset_state | `Orders`, `Matcher` |
| AI controller, `ai/agent.py`, `tools.py`, `evidence.py`, `guardrails.py` | evidence set; status, evidence and audit trail of each exception | investigate for each exception of a report | `Evidence`, `AIController` |
| LLM providers, `ai/llm.py` | none | generate | `MockLLM`; remote ones are the environment of `AIController` |
| Data files, `datasets/run.py`, `ingestion/loader.py` | the rows of a data directory | load_default_csv_dataset, load_dataset, run_default_pipeline | `CsvDataset`, `Reconciliation` |
| `run_reconciliation.py` | `./data_vault`, kept from run to run | load, register, reconcile | `Reconciliation` |
| Generators, `stress_test/generator.py`, `ingestion/generators.py`, `ai/eval_dataset.py` | none; records with their ground truth | generate | `CaseRecords`, `StressScenarios`, `BenchmarkScenarios`, `EvaluationCases` |
| Programs and scorers, `stress_test/runner.py`, `stress_test/evaluator.py`, `evaluation/benchmark.py`, `evaluation/metrics.py`, `investigate.py` | outcome of each case | run, evaluate | `Pipeline`, `CasesAlone` |
| Similarity, generic adapters, CRC-32, exports, tables | none that outlives a call | score, parse, print | not modelled |

The parts interact through calls of one thread. Ingestion calls put_record for
each record; a put_record is several puts of the engine, and each put appends to
the log, writes the memtable and, at a size limit, flushes. The matcher reads the
ledger by key prefixes and the fee registry by context; the controller reads both
through its tools; the scorers read the matcher's report and the statuses the
controller left. There are no threads, so what makes the system hard is
elsewhere:

- **crashes** between any two writes to the disk: a log record cut short, an
  SSTable without footer, a log not yet rotated, a record without its index
  entries, a load killed half way;
- **long sequences of legal calls**: tombstones that fill a table, a rehash in
  an arena that never frees, a delete after a flush, records filed again under
  another order, limited and full runs on one kept store;
- **order**: of file names, of payments under greedy consumption, of policies in
  the registry, of the rules of the mock provider, of evidence and decision for
  one exception after the other;
- **time**: expiry in memtables, files without it, and a replay that
  reinterprets it;
- **names**: an exception, its evidence and its ground truth refer to each other
  by identifiers, and each program looks them up in its own way;
- **an environment that may answer anything**: the language model.

What makes each part correct: the engine loses no acknowledged write and its
reads meet the newest value first; the hash table implements a map and its
unbounded loops end; no record is the target of two matches and no
processor transaction disappears from a report; a policy is found whenever one
covers the payment; an exception is resolved without a human only on evidence of
its own case, and its audit trail says how it was decided; over the whole
pipeline, what should go to a human does and what should not does not; and a
kept store gives the verdicts a fresh one would. `PROJECT.json` lists the hazards
line by line with the properties that cover them.

## 2. Modules and how they correspond to the code

### The store

**`MemTable`** has the operations of a memtable as functions on a map from keys
to entries, with `compute_expire_ts` in unsigned arithmetic modulo `WordMod`.
**`WriteAheadLog`** is a sequence of records, some torn; `Readable` is the part
`WAL::replay` gets to, `ReplayTtl` the difference it computes. **`SSTables`**
has files that are absent, torn or complete, the order of their names as strings
(`PathLess`), and the lookup from the end of the list.

**`MiniVaultDB`** composes the three. A write goes through the phases `log`,
`apply`, `build`, `install`, `rotate`, one for each point where the disk has
changed or is about to change, and `Crash` is possible in all of them. `Open` and
`ReplayRecord` are the constructor. `ReadAborts` is the assertion on a file's
magic number: the Makefile builds with assertions. `intended` and `reply` are
history variables.

**`MiniVaultPromise`** states the properties and the refinement mapping to
**`KVStore`**, the abstract specification: a map `current`, the map `recoverable`
that a crash falls back to, and whether the log is `damaged`. It states what the
code keeps, which is less than a map: `Del` uncovers what the last flush wrote.

**`HashTable`** is the table slot by slot: probing, tombstones, the load check,
`rehash` one slot per step with the inner `put`, and the arena's offset. It
refines **`MemTableMap`**, the map of `MemTable` with its operations as steps.
Together with `MiniVaultDB` this covers the engine from slots to files.

### Ledger, fees, matcher, controller

**`Ledger`** is the stored records and the index entries that lead to them.
`PutRecord` is `put_record`; `PutPrimaryOnly` is the same call cut by a crash
after the primary key. Index entries are never deleted, so a record filed again
leaves a `Stale` one behind.

**`FeePolicy`** is the fee registry as operators on the sequence of its policies:
`Register` keeps the place of an identifier in use, as a Python dictionary does;
`MatchPolicy` is `match_policy` with its four passes as tiers and the last
registered policy of the best tier; `CalculateFee` rounds half a cent up.

**`Orders`** extends both with what the engine says as a function of the store, the
registry, its rules and the consumed identifiers: `Answer` is `reconcile_order`
(findings in the order of the code, the first names the exception), `Orphan` the
search for charges without a payment, `BatchAnswer` `reconcile_batch`. It has no
actions, so that a proof can ask what an engine on another store would say.

**`Matcher`** is the engine: `consumed_target_ids`, the outcomes, and the stages of
a run. `Begin`, `NextOrder`, `OrdersDone`, `NextProcessor`,
`ProcessorsDone`, `NextBatch`, `Finish` are those stages, in the order of `reconcile_all`;
`SingleOrder` is a call on its own, `Store` a put_record between calls,
`StoreInterrupted` the end of the process inside one, `RegisterPolicy` a caller
that adds to the shared registry. The caller's list of payments is any order of
the stored ones.

**`Evidence`** extends `Ledger` and `FeePolicy` as well, and is to the controller what
`Orders` is to the matcher: what the tools find (`RelatedEvidence`, `GetFeePolicy`), all
that is gathered for an exception (`Gathered`), and what the four rules of the guardrails
make of a reply (`Passes`, `Outcome`), as functions of the store and the registry.
**`AIController`** has the steps. `Start` gathers the evidence of an exception, `Decide`
takes any reply, applies the rules and logs, `NoUsableReply` is a failed call or text
without JSON, `UnusableFields` a reply whose fields have the wrong type, which raises out
of the loop. **`MockLLM`** is the reply of `MockLLMProvider` to an exception and its
evidence: a table of rules, tried in the order of the code on the words of the prompt.
In `Pipeline` it takes the place of "any reply".

### The programs

**`CaseRecords`** has the records of `ingestion/schemas.py` with their defaults.
On it, **`StressScenarios`** gives each of the 22 stress scenarios,
**`BenchmarkScenarios`** each of the five benchmark scenarios, as the *set* of
cases its random draws may make together with the ground truth stored beside
it; **`EvaluationCases`** has the twelve cases of `ai/eval_dataset.py`, the demo
of `investigate.py`, and two cases of the safety tests.

**`Pipeline`** composes matcher, controller, mock provider and data sets the way
three programs do: `Load` (or `LoadSuite`), `Measure` (the benchmark's single
calls), `ReconcileAll` and `Match`, `HandOver` of the exceptions to the
controller, `Investigate`, and `Score`, which is `StressTestEvaluator` or
`MetricsEvaluator`. `StressVerdict` and `BenchmarkVerdict` are how they find a
case's outcome, `Class` the counter they add it to.

**`CasesAlone`** says what the same programs would make of one case if nothing else were
stored: it instantiates `Orders`, `Evidence` and `MockLLM` with the records of the case as
ledger. `VerdictsAlone` is the case's verdict then, `RightAlone` what the properties of
`Pipeline` ask of it. It has no state of its own; its properties compare it with the run.

**`CsvDataset`** turns rows into records as `load_default_csv_dataset` does,
limit included. **`Reconciliation`** runs `run_default_pipeline` once for each
data directory, on a store it deletes, and then `run_reconciliation.py` any
number of times, with any limit and directory, on a store that stays; `Killed`
ends it anywhere, also inside a put_record. The first reports are remembered in
`reported`: they are what a run on a fresh store says.

`MCMiniVault`, `MCHashTable`, `MCMatcher`, `MCAIController`, `MCPipeline` and
`MCReconciliation` give TLC the constants. Operators whose comment begins with
"Faulty variant" are used by no specification: each is what a plausible mistake
would make of the definition below it, and shows that a property notices it.
`MiniVaultProofs`, `PromiseProofs`, `HashTableProofs`, `MatcherProofs`,
`AIProofs`, `ReconciliationProofs` and `PipelineProofs` hold the proofs, `LedgerProofs`
those about fee policies and the lemmas on lists and ledgers that several of them need.

## 3. Runs

| Run | Checks | Shows |
|---|---|---|
| `StoreNoTtl` | `KeepsPromise`, `NothingLostByRotation`, `FilesListedByAge`, `FrozenOnlyDuringFlush`, `FilesAreImmutable`, `TypeOK` | crashes at every disk write and torn records included, the engine implements `KVStore` as long as no TTL is used and file numbers have one digit |
| `StoreTtl` | `AckedPutSurvives`, `AckedPutIsListed`, `MemTableMirrorsLog`, `OperationsEnd` | with TTLs and a moving clock, but no torn record, puts without TTL survive, for lookups and for scans; nothing hangs |
| `HashTable` | `ImplementsMap`, `SearchesEnd`, `KeysAreFound`, `CountersCoverTheSlots`, `RehashIsNotNested`, `ArenaUseIsBounded`, `PutEnds`, `TypeOK` | the table is a map as long as no allocation fails, all its loops end, and what it takes from the arena is bounded by the bytes it counts |
| `Matcher` | `MatchesAreOneToOne`, `LeftoversAreReported`, `DuplicateChargesNeverMatch`, `RunsDoNotDependOnHistory`, `OrderOfPaymentsDoesNotMatter`, `TypeOK` | greedy consumption over ledgers with re-filed and half-stored records, and policies registered in between |
| `AIController` | `ResolvedOnOwnEvidence`, `AuditAccountsForStatus`, `EveryExceptionDecided`, `TypeOK` | any sequence of replies over several exceptions |
| `Pipeline` | `NoFalseResolution`, `ResolvableIsResolved`, `EveryCaseIsSeen`, `ExpectedTypes`, `EvidenceShowsTheOrder`, `CasesJudgedAlone`, `CasesAreRightAlone`, `PipelineTypeOK` | every pair of generated cases, and the written ones, from loading to the score; each case gets the verdict it gets alone, and that one is right |
| `Reconciliation` | `WholeCasesAreJudgedAlike`, `FullRunsAgree`, `LoadedRecordsAreFound`, `ReconTypeOK` | limited, killed and repeated runs over a kept store against runs over fresh ones |

Five runs expect a violation. Each checks one sentence of a document, comment or
test that the code does not keep (`findings` in `PROJECT.json` quotes them):

| Run | Property | What happens |
|---|---|---|
| `StoreDelete` | `DeletedStaysDeleted` | put, flush, del: the flushed value is read again, because a flush writes no tombstones |
| `StoreOrder` | `AckedPutSurvives` | after a reopen `sst_10` sorts before `sst_2`, and an old value hides a new one |
| `StoreTornTail` | `AckedPutSurvives` | writes acknowledged behind a torn record are lost by the next replay |
| `StoreReopen` | `ReopenedStoreIsReadable` | a crash inside `SSTable::build` leaves a directory whose reads abort |
| `MatcherBatch` | `BankLinesMatchedOnce` | two batches with the same cleaned reference match one bank line |

Deadlock is not checked where the system really stops: the bounds on log, files
and clock end the store runs, and a report ends the controller's. It is checked in
`HashTable`, `Matcher`, `Pipeline` and `Reconciliation`. In `Pipeline` the only step of a
finished run is `Done`, so the absence of deadlock says that every run gets to its score.

### What the pipeline properties except

The end-to-end properties name the cases in which the code and its ground truth
part; each was met while modelling:

- A deposit for several invoices is reported as `MISSING_INTERNAL`, which the
  controller never resolves, though its ground truth calls it resolvable.
- An order charged twice is found by no name in its ground truth: the exception
  names the charges, and by full primary keys. The evaluator then counts a case
  nobody saw as rightly escalated (`stress_test/evaluator.py`).
- A late payout is reported as `CURRENCY_MISMATCH`: a batch without a currency of
  its own has the schema's INR, and currency is compared before time.
- A generator's "wrong" fee of fixed $12 or $15 is the right one, 2 percent, for
  some of the amounts it draws; then the payment matches, and the
  ground truth counts it as falsely resolved.

Some observations are not stated as runs.

*The arena can run out.* `ARENA_FACTOR` is 8 whatever the size of the entries, and a
small entry takes far more than its own bytes: each key and value is aligned to 8, and
every rehash copies all entries without freeing the old ones. With a limit of 1 MB,
keys of 3 bytes and values of 1, the assertion "Arena out of memory" (`arena.cpp:22`)
fails inside the rehash at about 183,500 entries, which needs 8.8 MB of an arena of
8.39 MB. In the model, `KeyLen` = `ValLen` = 2, `MemLimit` = 28 and seven keys end in
phase `aborted`: the seventh put begins with a rehash, and six insertions with 3 and 6
copies take 234 of 224 bytes. So `ArenaNeverRunsOut` is no property of the code. What
the code does keep is `ArenaUseIsBounded`, and `ArenaSuffices` (section 4) says for which
sizes it is enough. The instance of `HashTable` has four keys and no abort; its
other properties, `ImplementsMap` above all, are about tables whose arena has lasted so far.

*Scans and lookups may differ.* When the memtable's entry of a key has expired and a
file holds an older value, `scan_prefix` lets the entry hide the file and returns
nothing (`db.cpp:125-129`), while `get` buries the entry and returns the
file's value (`hash.cpp:134`, `db.cpp:96`); a scan after that `get` returns it too.
`AckedPutSurvives` and `AckedPutIsListed` state what both keep: a key whose last put
has no TTL is answered with its value, whatever expired before.

The other two are about the reconciliation. The benchmark's fee anomaly is resolved by the mock
provider on a word of the payment's metadata, citing the policy found for the
payment although that policy does not give the fee charged (`ai/llm.py:107`). And
`--records n` cuts every file at row *n*, while rows of different files do not
line up (`datasets/run.py:66`): a limited run on a fresh store reports charges as
`MISSING_INTERNAL` whose payments are further down their file, and leaves them in
`./data_vault`. `WholeCasesAreJudgedAlike` says that this is all
that a limit or a kill can do, and `FullRunsAgree` that a run without limit
repairs it.

### Bounds, and why they are enough

- *Store*: one or two keys, one or two values; `MaxSst` files, `MaxLog` records in the log,
  `MemLimit` small enough that two operations cause a flush. That is enough for a key to be
  written, flushed, overwritten, flushed again, deleted and recovered with a crash in every phase.
  `Radix` is 10, except in `StoreOrder`, where numbers are written in radix 3 so that the fourth
  file has two digits; the effect depends only on there being two digits. `WordMod` bounds the
  word; it exceeds every sum of clock and TTL, so that only the replay's difference wraps, as in
  64 bits. `Epoch` is later than any TTL is long, as with Unix time. Symmetry over keys and values
  is used only where no liveness is checked.
- *HashTable*: an initial capacity of 4 in place of 16, four keys, two of which collide. The table
  fills with entries and tombstones to the last slot allowed, is rehashed, and is filled again
  before the flush; the arena has 8-byte alignment and the code's factor 8. Four keys are too
  few to use that arena up, so that no allocation fails in this instance;
  `ArenaUseIsBounded` does not depend on it, as it does not mention the arena's size.
- *Matcher*: `MaxPuts` = 4 stored records out of the fourteen of `MCMatcher`, or policies
  registered, among them pairs under one key with different content; `MaxOutcomes` = 2 outcomes of
  single calls before a run. Amounts and times lie on both sides of each tolerance and window,
  fees on either side of two policies.
- *AIController*: two exceptions per report out of three kinds, replies with at most one citation
  and one claimed amount, on an empty and a full ledger. Rules look at citations and claims one by
  one, so one bad one is all it takes.
- *Pipeline*: data sets of two cases, all pairs of scenarios with all their draws, so that each
  case meets each other on both sides: cases share the registry, the consumed set and the list of
  exceptions, but no record; `CasesAreJudgedAlone` (section 4) proves that a third changes
  nothing. Lags, variances and differences are the generator's own; amounts are the prices 600.00
  and 750.00, at which the fixed fees of two scenarios are in turn the standard 2 percent, and
  multiples of 10.00, so that no share of them needs rounding.
- *Reconciliation*: two directories and the limits none, 2 and 3. `JAN` has five orders whose rows
  do not line up between files: one under a contract, one without charge, one paid twice, a charge
  nobody paid, and a partial refund paid out twice; `FEB` has a contract under the same
  identifier, a charge nobody paid and no bank file rows. Any number of runs and kills; the state
  space is finite because the store is.

### Fairness

The engine's steps are straight-line code of one thread: `FairSpec` has weak fairness of
`Step`, the steps of an operation or replay that has begun, and none of calls,
crashes or the clock. The same holds for `HashTable` (rehash and insertion).
In `AIController` weak fairness of `Next` says that the loop goes on and that a provider call
returns or raises; the providers pass timeouts to their HTTP calls.

## 4. Proofs

**`MiniVaultProofs`** proves for every number of keys, values, TTLs, files, log
records and clock values, with and without torn records:

- `TypeCorrect`: `TypeOK`;
- `FrozenTableIsPrivate`: `FrozenOnlyDuringFlush`;
- `FilesStayAsWritten`: the action property `FilesAreImmutable`;
- `FilesAreListedByAge`: `FilesListedByAge`, assuming `MaxSst <= Radix`. The
  assumption is needed: `StoreOrder` is the counterexample without it;
- `MemTableIsInTheLog`: `MemTableMirrorsLog`.

The argument has two inductive invariants. `IInv` adds to `TypeOK` what each
phase knows (`PhaseInv`: when there is an operation, a frozen memtable, an empty memtable)
and the relation of directory, list and next number (`FilesInv`: the list names
exactly the files on disk, except the one being built, and no number from
`nextId` on has been used). Without it, a flush could create a file over an
existing one. `MirrorInv` adds `LogInv`: where the replay stands, that the last
record in the log is the operation about to be applied, and the range of the
clock, from which it follows that an expiry time is 0 only for a TTL of 0, also
when a replay computes it by subtraction. A log that is undamaged after a step was so before,
so the mirror is only ever extended by the record just applied or replayed.

**`PromiseProofs`** builds on these invariants:

- `RotationLosesNothing`: `NothingLostByRotation`. What is added to the induction
  (`FlushInv`) is that from its freezing to the completion of its file it is the
  frozen table that mirrors the log; `FlushedFileAnswers` says that the new
  file, having the highest number, is the one that answers;
- `EngineKeepsPromise`: the refinement `KeepsPromise`, assuming `Ttls = {0}`
  (a flush drops expiry times, so with TTLs expired values come back) and
  `MaxSst <= Radix`. The initial states map to initial states, and every action
  maps to a step of `KVStore` or to none (`StepKeepsPromise`): the append of a
  record is the write, the completion of a file the flush, the rotation the
  checkpoint, and all other steps of writing, opening and replaying change nothing a client
  could see. That replay ends with what the log says (`ReplayedAnswers`) is
  `MemTableMirrorsLog` again, that reads answer what is current (`GetAnswers`) is
  `FilesListedByAge`; `PromiseInv` adds that nothing in memory expires;
- `CrashCostsNothing`: a consequence in the words of `KVStore`. As long as no crash
  has cut a log record short, what a crash falls back to is what was current;
- `AcknowledgedPutsSurvive`: `AckedPutSurvives` with any TTLs and a moving clock,
  assuming `TornTail = FALSE` and `MaxSst <= Radix`; `StoreTornTail` and `StoreOrder`
  are the counterexamples without. Induction is over `Survives`: of every key whose last
  acknowledged operation is a put without TTL, the newest of the places a read or a
  replay would look (active table, log, frozen table, files) holds the value without
  expiry, phase by phase (`AckInv`);
- `AcknowledgedPutsAreListed`: `AckedPutIsListed`, under the same assumptions and by the
  same induction (`SurvivalInv`). `SurvivorsAreInReach` says where the surviving value
  is, in the memtable without expiry or in the files with nothing of the key in the
  memtable: there `get` and `scan_prefix`, which treat an expired entry
  differently, must both come to it.

**`HashTableProofs`** proves for every capacity, set of keys and values, hash
function and arena:

- `TypeCorrect`, `CountersCorrect`, `EverySearchEnds`, `SearchesFindTheKeys`,
  `RehashCorrect`: `TypeOK`, `CountersCoverTheSlots`, `SearchesEnd`, `KeysAreFound`,
  `RehashIsNotNested`. One induction carries them all, as each needs the others: a
  key is found because no slot of its probe sequence before it is empty; a probe ends
  because an empty slot is left; one is left because the counters are the numbers
  of slots (cardinalities of sets of slots) and the load check runs before each
  insertion, and `InitCap >= 4` makes the check leave one; during a rehash the
  same holds of the new table, whose keys and those of the old slots not yet
  moved are disjoint and together those of the map;
- `TableImplementsMap`: the refinement `ImplementsMap`, as long as the arena does not
  run out: an abort inside a rehash leaves half a table, which no map stands for;
- `ArenaUseFollowsBytes`: `ArenaUseIsBounded`, for every arena, also when an allocation
  fails: `7 * PutBytes * offset <= 27 * Footprint * bytes`. `bytes_` counts every put,
  so it bounds the entries and tombstones; a table is only doubled when these fill 70
  percent of it, so it bounds the capacity; and all copies since the last
  flush are fewer than the slots (`ArenaInv`, `Fits`). One record takes at most
  `Footprint`, its bytes and two paddings;
- `ArenaSuffices`: `ArenaNeverRunsOut`, assuming `ArenaIsRoomy`,
  `27 * Footprint * (MemLimit + PutBytes) <= 7 * PutBytes * ArenaSize`, from the same
  induction. With the numbers of `util/arena.cpp` and `engine/memtable.cpp` it asks for
  entries of at least 14 bytes of key and value. For entries much smaller it is false
  (section 3); no run checks it;
- `RoomyTableImplementsMap`: both together, `ImplementsMap` under `ArenaIsRoomy`.

**`LedgerProofs`** proves of `match_policy`, for every registry and context:

- `PolicyFoundCovers`: if some registered policy covers a context, what is found
  is a registered policy that covers it, so the four passes overlook nothing;
- `RegisterIsLocal`: registering a policy changes the answer for no context
  that neither it nor the one it replaces covers. This is what makes a
  global registry bearable for the runs that come after in a process.

Both rest on there being a best tier among the finitely many and a last index
in it. The module also holds what the proofs below keep needing of lists and ledgers: that a
prefix scan lists every key once (`ListedEnumerates`), and what the lists the tools return hold
once joined. They are joined by a recursive function; that there is one, and that it
joins nothing else in and leaves nothing out, is shown by a least counterexample
(`JoinsExist`, `JoinedAreOver`, `JoinedAreKept`).

**`MatcherProofs`** proves for all records, rules, policies and bounds:

- `GreedyMatchingIsOneToOne`: `MatchesAreOneToOne`. The invariant adds `StoreInv`, that
  index entries lead to stored records, which put_record keeps because it writes
  the record first, also when it is cut short. Without it `Get` might be asked for a
  record that is not there, and nothing would be known of the target locked. The
  target is an element of the free keys because a non-empty set of numbered
  keys has a first one (well-foundedness of the naturals);
- `TypeCorrect`: `TypeOK`, with `LedgerInv` (one record for each key, a finite ledger);
- `NoChargeDisappears`: `LeftoversAreReported`. `RunInv` says at each stage of a
  run what is settled already: every charge gone past is locked or reported, every
  payment gone past matched or refused; `ReportInv` says the same of the report.
  It needs a scan to list every key under its prefix. `Listed` is therefore defined
  by rank and not by a recursive sort, whose result could not be reasoned about;
- `DoubleChargesAreSeen`: `DuplicateChargesNeverMatch`. Both charges of an
  order are free whenever one of its payments is looked at, so neither is ever locked;
- `RunsRepeat`: the action property `RunsDoNotDependOnHistory`. `HistoryInv` says
  that a run in progress has the outcomes and locks of a trace: a recursive function of the ledger,
  the rules, the registry and the list alone, so that two runs which
  end with the same of these end with the same report;
- `OrderIsImmaterial`: `OrderOfPaymentsDoesNotMatter`. `FixedInv` says that outside
  BANK_GL and with a clean index every payment has the answer it would have with nothing
  locked (`AllMatches`, `AllExceptions`), as the charges and settlements it can
  take are its own (`Own`).

**`ReconciliationProofs`** proves, for all files whose identifiers are unique, all
limits and any history of limited and killed runs:

- `LoadRepairsTheStore`: `LoadedRecordsAreFound`. The invariant `Loading` says that
  what is still to be stored is a sequence of records of this run; that a limit adds
  no record to a file (`CutFiles`, `LoadIsCut`) and that put_record replaces
  nothing but its own key does the rest;
- `StoreStaysConsistent`: `ReconTypeOK`. `FromFiles` is its core: no kill, in a
  put_record or between two, leaves an index entry that leads nowhere;
- `WholeCasesAgree`: `WholeCasesAreJudgedAlike`, and `FullRunsRepair`:
  `FullRunsAgree`. A fresh store is an instance `Fresh` of `Orders`, whose ledger, index
  and registry are those of one directory and nothing else, and the argument has
  three parts. A verdict depends on the records of one order or reference
  only (`WholeVerdict`: an order stored whole has the verdict it has on the fresh
  store). What earlier payments lock changes no verdict (`OthersLockNothing`,
  `LockedAreNoOrphans`). Hence a run in progress has said of each record behind it what it
  would say with nothing locked, and nothing else (`SoFar`); a finished report still
  fits the store as long as nobody writes (`Judged`); and the reports of
  `run_default_pipeline` are those of fresh stores (`FreshStores`), because that program
  deletes the store first. The three are invariants of one induction (`ReconInv`). Both theorems assume
  `NoBankLedgers`, that no engine is given the topology BANK_GL, under which payments of one order
  compete for its charges: both programs use GATEWAY (`run_reconciliation.py`,
  `datasets/run.py`).

**`AIProofs`** proves for every ledger, report, set of claims and fabricated
identifiers:

- `NoResolutionOnForeignEvidence`: `ResolvedOnOwnEvidence`, from the invariant that
  while a reply is awaited `evidence` is what `Gathered` returns for the
  current exception (`EvidenceIsOwn`);
- `TrailsAccountForStatuses`: `AuditAccountsForStatus`, from the shape of the
  trail of the exception in hand (`OpenTrail`);
- `NoEvidenceIsInvented`: `TypeOK`, whose substance is that all evidence, and all
  that an exception keeps of it, is of stored records, registered policies or
  precedents (`GatheredIsEvidence`), since the index leads to stored records
  (`StoreIsIndexed`) and `PolicyFoundCovers` says the same of the registry. The
  theorems are first proved of `Investigation`, a step with any reply whatever, so that they
  hold of the replies of `MCAIController` and of the mock provider alike.

**`PipelineProofs`** proves of the whole pipeline, for data sets of any number of any cases,
not only the generated ones:

- `OrdersAreShown`: `EvidenceShowsTheOrder`. The invariant (`PipelineInv`) carries the ledger from
  the load to the score (`Loaded`), the invariants of matcher and controller, and that what the
  controller is handed is what the matcher says of this ledger with nothing locked (`Handed`).
  That an exception about a payment relates its order (`Tells`, `AnswerTells`, `ReportTells`) then
  meets what the tools find by an order reference (`OrderIsShown`);
- `PromisesAreKept`: what is proved of the matcher and of the controller apart holds of the
  programs that compose them: `MatchesAreOneToOne`, `LeftoversAreReported`,
  `DuplicateChargesNeverMatch`, `ResolvedOnOwnEvidence` and `AuditAccountsForStatus`. The steps of
  the pipeline are steps of `Matcher` (`EngineStep`) or an `Investigation` (`AsksStep`), and the
  benchmark's calls of its own come before the run, not into it;
- `CasesAreJudgedAlone`: `CasesJudgedAlone`, for data sets of any length. It assumes of the data
  what the generators do (`CasesApartAssumption`): no record of a case, nor an order or reference
  it is indexed by, has a name another case uses. The argument follows a name through the program.
  Look-ups by a case's names find the case's records and no others (`LookupsAlone`, `ToolsAlone`),
  so the answers of the matcher are those of a store with the case alone (`AnswerAlone`,
  `OrphanAlone`, `BatchAlone`), although its charges are locked one after the other
  (`LocksAreNoOrphans`): an exception in the report about a name of the case is one raised for the
  case alone (`ExceptionsAtHome`), and so for matches (`MatchesAtHome`). The evidence gathered for
  it, the policy among it, is the same (`GatheredAlone`), hence the mock provider's reply and the
  guardrails' outcome (`ReplyAlone`, `OutcomeAlone`). Two invariants carry this through a run:
  `Side`, that registry and payouts are those of the data set and a finished run has gone through
  its report, and `Answers`, that each exception behind the current one has the status its own
  evidence gives it (`DecisionAlone`). What the scorers look up is then the case's own
  (`StressHere`, `BenchmarkHere`, `SuiteHere`). Several exceptions may have one primary record,
  and their order in the report depends on the numbering of the records; `VerdictsAlone` is
  therefore a set;
- `RightCasesAreRightTogether`: where every case is judged rightly alone (`CasesAreRightAlone`),
  `NoFalseResolution`, `ResolvableIsResolved`, `EveryCaseIsSeen` and `ExpectedTypes` hold of the
  whole run. The hypothesis speaks of one case at a time and of no step. The `Pipeline` run checks
  it on every scenario with all its draws at the amounts of section 3, numbered as the first and as
  the second case of a data set; that a case with a higher number or another price is judged no
  differently is not proved. Given that, the theorem carries what TLC shows of pairs to data
  sets of any length. `Classed` adds that a score is the class of the verdict;
- `PipelineTypesHold`: `PipelineTypeOK`. That every exception is about a record of the ledger
  (`PrimaryIsStored`) is what needs the index to lead to stored records.

Assumptions are the named `ASSUME`s of the modules, all about constants: `RecordsAssumption`
(kinds, numbered identifiers), `OrdersAssumption` (the length of a day and the tolerances are
numbers), `FilesAssumption` (identifiers unique over all files, no payment has two rows, and one
directory has all the records filed under an order or reference), `AIControllerAssumption` (a
store has finitely many records, one for each key; reports and registries are lists),
`DatasetsAssumption` (the same of data sets: lists of cases, one record for each key, exceptions
by hand are about records), `CasesApartAssumption` (no two cases share a name, no policy has the
name of a kind of record), `LimitsAssumption`, those of `HashTable` (a capacity to start with, a
range of TTLs and clock values), and the bounds being numbers. What a theorem assumes beyond them
is a hypothesis in its statement.

**Model-checked only**: that each scenario is judged rightly (`CasesAreRightAlone`), which is a
matter of the scenarios' own numbers; the liveness properties (`OperationsEnd`, `PutEnds`,
`EveryExceptionDecided`), which are out of the prover's reach; and the properties the five violated
runs refute. Every other invariant and action property of a passing run is stated by a theorem,
the four about scores under the hypothesis just named.

## 5. Abstractions

- A torn log record always fails its check, as the CRC is meant to ensure; its
  bytes are not modelled. The operating system survives a crash of the process,
  so an unsynced page is never lost.
- The ledger's store keeps what put_record has written. `StoreTornTail` shows
  that the engine does not keep this promise behind a torn record;
  the modules above the ledger are about what happens when it does.
- Within an operation, readings of the clock agree.
- Identifiers contain no colon and differ between kinds of records, as the
  repository's generators and adapters write them; the matcher's cut at the last colon and its
  untyped set of consumed identifiers are then exact.
- Index entries that are written but never read (`IDX:MERCHANT`, `IDX:BATCH`,
  a refund's `IDX:TXN`) are left out.
- Fees are computed from policies, in cents, with rates per mille. `merchant_id`
  is accepted and looked at by nobody, and `allow_global_fallback` is set by nobody. Whether
  descriptions are similar is a field of the target record.
- `is_partial` is read twice by the code, as any non-empty value and as `"true"`:
  it is one of three values here.
- `DIRECT_ACCOUNTING` takes the branches of `GATEWAY` everywhere.
- Evidence is named by its record; the code accepts its evidence id or its record id. A decision
  word other than the resolving ones is `HUMAN_REVIEW`. A prompt is the set of the words the
  mock provider looks for.
- The demo of `investigate.py` stores the records of its second case after the
  first investigation; here both are there from the start.
- Every row of the CSV files has its times, so that `parse_timestamp` never
  falls back to the present. Their columns have no `is_duplicate` and no `is_partial`.
- `run_default_pipeline` and `run_reconciliation.py` have stores of their own.
  One ledger stands for both, and is empty whenever one gives way to the other.

## 6. Not modelled

CRC arithmetic; similarity scores; the generic CSV adapters, which turn one row
into one record; prompt texts; percentages, latencies, the AI decision accuracy;
exported files and tables, in which some numbers are literals (the "false matches 0" of
`run_reconciliation.py` and of `datasets/run.py`); `datasets/generator.py`, which no
program calls. None of them keeps state between calls. That a value expires is not
asserted, because the code drops expiry times when it flushes. The eight-thread
performance test uses the engine outside its documented single-threaded contract.

## 7. Plan

Done, in this order: the engine with its abstract store, the hash table with its
map, the ledger and matcher, the controller, the fee registry, the generators and the
pipeline with its scorers, the kept store of the command line programs, and the
proofs above.

Next:

1. index entries as single puts of the engine, so that a crash may come between
   any two of them and a torn log reaches the ledger;
2. the generic adapters as far as identifiers and order references are derived there.
