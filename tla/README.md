# Verification of the exactly-once testbed

The repository is a testbed for agents that call tools: an agent simulator sends
attempts of an *operation* through a gateway to an orchestrator, which calls one of
four services, which creates a business *effect*. Six protection variants (V0 to V5)
run over services of three capabilities (C0, C1, C2), under fifteen failure
scenarios. This directory holds TLA+ models of the parts that decide whether an
operation takes effect once, of the programs that run the experiments (one run, the
sweeps of phase 5, the campaign of phase 6) and of those that turn finished runs into
published tables (phase 7), the TLC configurations that check them, and proofs about
them.

## 1. Inventory

| Component | State | Operations | Model |
|---|---|---|---|
| orchestrator (`OrchestratorApplication.java`) | `execution_ledger` | `POST /invoke`: `prepareLedger`, `dispatch`, `finalizeLedger`, `reconcile` | `Orchestrator` |
| fault decider (same file) | none, seeded draw | `inject` at five hooks | `FaultDecider` |
| order, payment, inventory, notification services | `service_idempotency`, business tables, `observer_effects` | `execute`, `lookup` | `DownstreamService` |
| ledger schema (`V1__initial_schema.sql`) | enum of states, `is_legal_ledger_transition`, primary keys, `ledger_transitions` | | `LedgerStates`, `LedgerAudit`, and in the two above |
| experiment runner (`run.py`) | the attempts of an operation; events, effects and summary of a run | retry loops, fan-outs, client timeouts, reading the observer and the event log, summaries | `ExperimentRunner`; unbounded retries: `AgentRetries`; rates: `Metrics` |
| phase 5 harness (`phase5_harness.py`) | lock, run directories, one table per sweep | sweeps with their filters, `run_one`, `append_rows`, audits of the latest runs, inventory, `metrics_audit`, generating the phase 6 matrix | `Phase5Harness`, `Phase5Plans`, `Phase6Matrix`, `Metrics`; the log audits: `LedgerAudit` |
| phase 6 runner (`phase6_runner.py`) | status file, run directories, dataset and audits, lock, the services it restarts | preflight, resume audit, stages, batches, one run, validation, quarantine, service recycling, dataset | `Phase6Runner`; its stages: `Phase6Matrix`; `recompute_metrics`: `Metrics` |
| phase 7 analysis (`phase7_analysis.py`) | published dataset, audits, tables, bundle | completion audit, extraction, rates, tables, comparisons and tests, export | the process: `Publication`; what it computes: `PaperTables`, `Statistics`, `Metrics` |
| tool gateway | none | hash check, forwarding | its replies: `ExperimentRunner` |
| agent simulator, Python fault injector | none | ids, payloads, hashes, draws | constants of the models and `Drawn` |
| `aggregate.py` | none | collating summaries into one table | not modelled |
| configs | data | | not modelled |

How they interact. The agent calls the gateway over HTTP with a client timeout; the
gateway forwards; the orchestrator handles each request in a thread of its own,
keeps to the ledger in short transactions, and calls the service *between* them,
without a timeout. The service does one transaction per `execute`. Nothing but the
database is shared. The harness of phase 5 and the runner of phase 6 call `run.py` in
process, and reset the database before each run; each holds a lock against itself.
Phase 7 reads the status file, the run directories and the audits of phase 6 without
any lock.

What is hard here:

- two requests of one operation anywhere in their handlers at once (duplicates,
  retries after a client timeout, storms), with decisions taken in one transaction
  and acted upon in another;
- the call to the service is outside every transaction: its answer may be lost
  after the effect, or arrive after the lease ran out and others moved the row;
- a lookup that finds nothing may be out of date before it is read;
- a restart leaves rows in `EXECUTING` and `RECONCILING`;
- the runner gives up on attempts that go on without it, and reads its measurements
  in three transactions while they do;
- the log the audits read is ordered by the start of the transactions that wrote it;
- the phase 6 runner is stopped and resumed at any point, over files that are
  rewritten in place, and may leave the services stopped;
- phase 7 may run beside it;
- sweeps of phase 5 keep their rows in memory until the end, are cut down by filters,
  repeated and stopped, while the audits go by the directories;
- ids, cells and comparisons are put together from some of the columns of a run, in
  four programs; whether these are enough is a fact about the whole matrix;
- the rates of a run are computed in four places.

What makes each part correct. Orchestrator and services: an operation takes effect at
most once, what is answered names that effect, and an ambiguity is kept or resolved,
never guessed. The runner: what it measures is what happened, and a run ends. The
harness: runs under one id do not mix, tables and audits speak of the same runs. The
campaign: a result is neither lost, nor repeated, nor claimed without being there,
and in the end all are there. Phase 7: what is published is whole and of one piece,
a cell is one condition, and a test says what its name says.

`PROJECT.json` lists these line by line under `hazards`, with the properties that
would catch each going wrong, and what these leave open.

## 2. Modules

| Module | What it is |
|---|---|
| `LedgerStates` | the enum and the legality function of the database |
| `FaultDecider` | which hook a scenario fires |
| `DownstreamService` | a service: calls, mapping, effects |
| `Orchestrator` | extends the three: the handling of `/invoke` composed with the service |
| `OrchestratorProperties` | its properties, inductive strengthenings and the refinement mapping |
| `ExactlyOnce` | the abstract contract: an operation takes effect at most once, and an answer, once given, is its effect |
| `AgentRetries` | the orchestrator under an agent that retries; fairness and liveness |
| `ExperimentRunner` | one run of `run.py`, composed with `Orchestrator`: strategies, timeouts, measurement, summaries; its properties |
| `LedgerAudit` | `Orchestrator` with its transactions and the `ledger_transitions` they write; the audits of the harness over it |
| `Rerun` | `Orchestrator` with a reset of the database in the middle: an experiment that is run again |
| `OrchestratorProofs`, `LedgerProofs`, `ContractProofs` | theorems about `Orchestrator`, its contract and reruns for all constants |
| `AuditProofs` | theorems about `LedgerAudit`, on top of them |
| `ExperimentRunnerProofs` | theorems about `ExperimentRunner`, on top of them |
| `Phase5Plans` | what each sweep of phase 5 runs, with the ids; the inventory |
| `Phase5Harness`, `Phase5Proofs` | the sweeps as processes, their properties and theorems |
| `Phase6Matrix` | the experiments of phase 6, the checks of the manifest, the stage definitions |
| `Phase6Runner`, `Phase6Proofs` | the campaign runner, its properties and fairness; theorems |
| `Publication` | extends `Phase6Runner`: phase 7 beside the campaign |
| `Metrics` | the rates of a run, as each of four programs computes them, by itself |
| `PaperTables`, `Statistics` | cells, comparisons, rank test, effect size, Holm's correction |
| `Phase7Proofs` | theorems about `Publication`; about the matrix, `PaperTables`, `Statistics`, `Metrics` and `Phase5Plans`, as `MCPhase7` asks of them |
| `MC*` | instances for TLC |

### Orchestrator and services

A request is a name in `Requests`; `OpOf` gives its operation, `HashOf` its request
hash, `scenario` its failure scenario. A request calls a service at most once, so
the call, the effect it may create and the owner token of its claim carry the
request's name.

| State | Code |
|---|---|
| `ledger[o]` | the row of `execution_ledger`: `state`, `request_hash`, `effect_reference`, `owner_token`, and whether `lease_expiry` has passed |
| `idempotency[o]` | `service_idempotency` |
| `effects` | `observer_effects` |
| `call[r]` | the `/execute` call of `r`: its transaction and its answer |
| `pc[r]`, `reply[r]` | where the handler is, what it answers |

Each ledger transaction is one step, because `findLedger` takes the row lock
(`FOR UPDATE`) before anything is decided and an exception rolls everything back.
The exception is a find that returns no row, which locks nothing: the insert
(`ON CONFLICT DO NOTHING`) is a step of its own (`FindNoRow`, then `InsertAndClaim`
or a decision on the row another request inserted). `claim` and `begin-execution`
share a transaction, so `CLAIMED` and `RECEIVED` are never committed. In the service
the lookup, the commit and the primary-key violation are steps of their own; an
effect exists when its transaction commits.

The environment: `LeaseExpires` at any time while a row is `EXECUTING`; `AbortCall`
before a service commits and `AnswerLost` after; `LookupError`; `Crash`, which takes
all requests in the orchestrator with it and leaves the database and the calls
already sent. F10 is two scenarios, for its modes. A scenario whose draw says no is
`F0`: the draw is a function of seed, operation, scenario and hook, so it is the
same for every attempt.

Left out: payloads and results, `attempt_count`, `last_error`, timestamps, HTTP
status codes beyond the reason they carry. The logs are part of the modules below.
JSON that fails to parse or serialise is left out too: what is serialised is what the
program itself built.

### Experiment runner

A request is a pair of an operation and an attempt number, as in `attempt_id`, and is
in the hands of the orchestrator from the moment it is sent.

| State | Code |
|---|---|
| `failure` | `failure.scenario` of the configuration; `ScenarioOf` is what each strategy passes on to its attempts |
| `step[o]` | which of its `Batches` `execute_operation` has sent last: single attempts in the loops, sets of them in the fan-outs |
| `result[r]`, `rows[o]` | `result_status` of an attempt, and the attempts in the order `events` lists them |
| `tablesRead`, `observed`, `executed` | what `read_effects` and then `read_service_events` returned |

`ReceiveReply` is orchestrator and gateway answering, `ClientTimeout` is
`timeouts.client_ms` passing at any moment after an attempt was sent. Nothing stops
the handler of an attempt the runner gave up on, so `Handled` and `Environment` go on
during and after the reading of the tables. The draws (`Drawn`) are one choice for an
operation, and F1's is made by the runner. Back-off and sleeps have no state.
`FinalState`, `EffectCount`, `Replayed`, `Reached` and `Injected` are the columns and
counts of `summarize_operations`, `summarize_run` and `fault_reachability_summary`
that the properties speak of. Warm-up operations are handled like the others and not
summarised, so they are left out; so are the thread pool's limit (it only delays),
latencies and percentiles.

### Ledger audit

Each transaction of the ledger is split in its beginning (`Begin`), at which `now()`
is fixed, and the rest (`RunTransaction`), which starts when it gets the row's lock:
between them others may commit. `Logged` is what `transition` inserts, one entry for
each state the row goes through, in the order of their ids. A find that returns
no row leaves the transaction open for the insert. An expired lease that
`markExpiredExecutingUnknown` turns into `UNKNOWN` is not logged. `AsRead` is the order
of the runner's query, `Overlaps` and `TransitionViolations` are the two audits.

### Rerun

Both runners reset the database before a run and give its operations the ids they
had before. `Rerun` has the requests of both runs in `Requests`, those of the second in
`Second`. `ResetDb` is `reset_experiment.sql`: it waits for transactions that hold a lock
of a table and leaves handlers and calls where they are. What is under way then, or
still on its way to the orchestrator (`Unfinished`), goes on over rows that now belong to
the second run; a handler that waits with the result of a lookup writes what it found
before (`ConfirmOldLookup`). The draws do not depend on the run (`SameDraws`), only on the
seed, operation, scenario and hook. `Measured` is `read_effects`, which asks for the `run_id`.

### Phase 6 runner

`file` is the status file, `runs[e]` the directories of an experiment (how many
validate, whether one does not), `dataset` what `finalize_dataset` wrote; `pc`,
`after` (where a write of the file returns to), `status` and `job` are the memory of
the process. `persist_status` is two steps, emptying the file and having
written it; a crash between them leaves any prefix of the rows in the order of ids,
the last of them whole, cut off before `attempts_to_complete` (`GARBLED`), or within
its id (`extra`) or within the name of the run it completed (`CUT`: it still says
COMPLETE). Conditions a directory is validated by are one bit. One process is
modelled: the `flock` is taken without waiting and dies with its holder. Command line
arguments are `Options`; `--max-batches`, `--max-experiments`, `--audit-only` and the
stage filters are all there. `services` is whether the application services run:
`StopServices` and `ServicesUp` are the two halves of `recycle_application_services`,
`PreflightPasses` what the next invocation makes of a half that is missing. The
dataset and its three audits are a step each, because phase 7 looks at which of them
exist. Checkpoints, health snapshots and stage audits write nothing that is read
again; when they raise, the process ends as in a crash.

### Publication

Phase 7 as a second process: `reader` is where it is, `table`, `rows` its memory,
`published`, `audited`, `tables`, `bundle` its files. `Readable` is what `Load` may find
in the status file: while the runner writes it, any beginning of it. A dataset is the
set of experiments it has a row of. It may start in any `--mode`, be killed anywhere,
and be started again.

### Phase 5 harness

`Phase5Plans` has the ids each sweep generates, as tuples of the parts that vary.
`Phase5Harness` runs two of the sweeps: `stress`, which merges its rows into its table
by a key without the seed, and `compounds`, which replaces its table as all others
do; they are also the two the command line can cut down. `database` says which runs
have rows in the runtime schema, and a directory's `log` which runs the transitions
it read are of: `read_ledger_transitions` goes by the id of the experiment alone. A run
that is killed, or has given attempts up, leaves requests behind that may write after
the next reset (`trailing`, `LateWrite`). The lock of `phase5_run_lock` makes invocations follow one another.

### Matrix, tables, statistics, rates

These have no state. `Phase6Matrix` is `generate_phase6_matrix` as sets of records, with
the suffix `add` appends to an id; and the stages are the runner's `filter` records over its columns.
`PaperTables` takes from each table the selection it is written from and the keys it
is grouped by, and says which runs share a cell. `Statistics` keeps whole numbers: ranks
twice, `z` by its numerator (its sign and zero are what a conclusion rests on), p-values
in parts of `One`. `Metrics` keeps a rate as the pair it divides and compares by
cross-multiplication, as exactly as the code's tolerance of 1e-9 would. Its four
implementations share no definition but `max` and a sum, as they share none in the code:
`SummarizeRun` works on the rows in memory, `RecomputeMetrics`, `RecomputeRun` and
`MetricsAudit` on what `OperationsCsv` and `EventsCsv` make of them. There a bool is the text
`True` or `False`, and the readers take it back in three ways (`lower() == "true"`,
`lower() in {"true", "1"}` or with `"yes"`, and `== "True"`).

## 3. Runs

All runs of `Orchestrator` are for one operation, because requests of different
operations share nothing (different rows, different mappings), and check for
deadlock: `Finished` and `RunFinished` are the only ways to stop. Three requests are the
smallest number with an executor, a reconciler and a bystander; with their scenarios
they stand for first attempts, retries and duplicates alike. A run covers many
configurations at once: `Init` picks the variant and capability all requests of the
experiment carry.

| Run | Instance | Shows |
|---|---|---|
| `ledger` | V0, V1 and V3 over every capability, V2 over C0, V4 over C0 and C1, V5 over C0, C1 and C2; 3 requests, one with another payload; 8 scenarios, 1 crash | one effect, true answers, no blind retry, exclusive execution and reconciliation, an exact mapping, one fresh answer; `ExactlyOnce` is implemented |
| `retries` | the ledger-backed configurations of `ledger`; retries without end, 1 crash | every operation ends COMPLETED or, where it cannot be recovered, UNKNOWN |
| `run` | V3 over C1, V4 over C0, V5 over C2; every strategy, `MaxAttempts` 2, `Fanout` 2, `OutageAttempts` 1, 1 crash | no operation told OK is counted lost; the tables of effects and of calls, read apart, fit together; what the summary says of final states, fan-outs included, of replays and faults; a run ends and validates |
| `audit` | V4 over C0 and V5 over C2; 3 requests; F0, F2, F9; 1 crash | the log is the history of the row; read by id it has no overlap |
| `rerun` | V4 over C0 and C1, V5 over C2, V3 over C1; 2 requests of either run; F0, F2, F3, F9 | the rerun measures no effect twice, and misses one only to a late request of the first run |
| `harness` | 2 conditions, 2 seeds alone, together and reordered, every filter; 3 invocations, 2 stops, 1 run with attempts given up, torn tables | reruns do not mix, audits see the runs the tables report, the stress table loses no condition |
| `campaign` | 4 experiments, 2 stages, batches of 2, every limit, the first stage alone, restarts of the services, 2 crashes, torn writes | results neither lost, repeated nor claimed without being there; the slices are right; services are up; a dataset has all that was asked for and no less than the one before; a campaign whose status file is not torn is completed |
| `phase7` | the process: 3 experiments, 2 stages, an operator who runs or only audits, 1 crash of the runner, torn writes; phase 7 in every mode, any number of crashes. What it computes: the whole matrix for 2 seeds and the default plan of phase 5, each with any one run lost; samples up to 3 of 3 values, families up to 4 of 7 p-values, up to 3 events of 2 operations | what is published lacks the last experiment at most; a bundle is of one piece; ids are unique, stages partition, cells are conditions, comparisons compare like with like, the tests mean what they are read as, the four computations of the rates agree and RRR is a share of the retries |

`ledger` leaves out V2 over C1 and C2 and V4 over C2: V2 passes `C0` on whatever is
configured, and V4 never looks anything up, so that they add no behaviour; without a
ledger a scenario either loses the response (F3) or acts like F0. One crash
is enough for what it can leave behind (a row in any state with a call still
running); `campaign` has two, so that the resume itself is interrupted. Its
invocations for one stage are those for the long one: the other holds a single experiment,
and such a dataset is overwritten by those of the whole manifest.

`run` has a configuration for each thing that protects an effect: the mapping alone, a
ledger that keeps an ambiguity, one that resolves it. Two attempts of the retry loop
and fan-outs of two make three attempts with what comes before or after them (F5, CF2,
CF4), each abandoned or not. CF2's strategy is F11's and F2, F3, F4, F7, F12 and CF3 go
through the same loop as F8, F9 and CF1, with hooks `ledger` has; they add no action
of the runner. `audit` has the scenarios that write each kind of entry: a failure
before the dispatch, a partial result, and reconciliations by way of expired leases.

`harness` has the three invocations a mistake takes: a sweep, one that disturbs what it
left, one that looks. It stops when there is nothing more to invoke, and does not check
for deadlock. `phase7` needs three experiments: one before the last, the last, and one
in another stage. What phase 7 computes has no state: in place of the process a question
is asked in the initial state, so that TLC enumerates the inputs of the operators. Two
seeds tell a cell that pools from one that does not; three values with repetition give
every pattern of ties in a sample of three; an event more adds nothing to rates that are
sums over events.

`rerun` needs two requests of each run: of the first, one that has acted and one that
is late, of the second, two that could both execute. Its scenarios are no failure, the
one before the dispatch, which hands a claimed row back, a lost confirmation and a
partial result. The orchestrator is not restarted there: a restart writes nothing and only
takes requests away, late ones included; the theorem about the first property has restarts.

Symmetry is used in `ledger`, `audit` and, within each run, in `rerun`, which have no
liveness property: requests with the same payload are interchangeable.

### Where code and documents disagree

Three runs end in a counterexample to something the repository says of itself:

- `insert_race`: a request that finds no row, loses the insert and finds the
  winner's row skips the hash comparison, and can be answered OK with the effect of
  a different payload (`prepareLedger`, lines 196-204; `docs/architecture.md:23`).
- `crash_in_reconcile`: a restart after `start-reconciliation` leaves the row in
  `RECONCILING` for ever; every later attempt gets a 409.
- `false_overlap`: the log is read in the order of `created_at`, the start of the
  transaction. A claim that began, and waited for the lock, before the failure it claims
  after was recorded is read before it, and `ownership_overlaps` reports an overlap in a
  run without one.

And one of the runner:

- `torn_status`: a process killed within `persist_status` leaves a status row no
  later invocation can read; each dies at it (`int(...)` at line 757), while the
  checkpoint beside it says `safe_to_resume`.

### Remarks

Facts of the code the models made visible, where nothing in the repository says
otherwise:

- In V5 over C2 a lookup that comes too early lets a second request execute while the
  first still does. The effect stays unique (`AtMostOneEffect`), by the primary key of
  the service. Read by id, the log never shows it: `reconciled-no-effect` counts as
  freeing the row (`NoOverlapById`).
- `transition` asks for the state of a row and not for its owner. In a rerun a request of
  the first run can finalize, fail or reconcile what a request of the second has
  claimed; that this leads to no second effect (`NoDuplicateInRerun`) rests on the draws
  being the same in both runs: without that (`SameDraws_ByRun`) V4 over C0 executes twice.
- In a rerun an operation may be told OK with an effect of the first run, which a late
  request wrote into the row or the mapping; `read_effects` does not return it, and it
  counts as lost (`UncountedOkIsLate`).
- After a client timeout or a restart the effects of a run may still grow when they
  have been read; `MeasurementIsFinalIfUndisturbed` is as much as holds.
- `final_state` of a fan-out is that of the attempt that was over last for the
  runner, which need not be the state of the ledger: an attempt answered
  `IN_PROGRESS` may be last in a row that is `COMPLETED` by now, and in V5 over C2 one
  answered `UNKNOWN`. What holds also then is that `COMPLETED`, and elsewhere
  `UNKNOWN`, are not reported of another row (`FinalStateIsLedgerState`).
- An invocation with `--stage` or `--group` whose rows are all complete writes a dataset
  of an unfinished manifest. It has at least the rows of the one it replaces
  (`DatasetIsWhole`).
- A failing service is counted in `fault_injected` (`InjectedWasReached` excludes it), and
  F10's count is always 0: line 494 of `run.py` looks for results that begin with
  `HTTP_503`, and `result_status` is the integer.
- `FINAL_STATES` of the phase 6 runner lacks `EFFECT_CONFIRMED`: a run in which F9 hits the
  last attempt of an operation is set aside and repeated.
- The draw of the Python fault injector takes 64 bits of the digest, the Java one masks
  the sign bit: for probabilities strictly between 0 and 1 `selected_for_fault` counts
  other operations than those the orchestrator draws.
- An operation F1 loses is no attempt, so that RRR divides by `attempts - operations`
  cut off at 1: the denominator is smaller than the number of retries, and RRR may exceed 1.
  Where every operation has an attempt that is no replay it does not (`RatesAgree`).
- `metrics_audit` counts replayed operations where `summarize_run` counts replayed events:
  it reports a deviation of RRR exactly when some operation is replayed more than once
  (`RatesAgree`). It takes the first 24 candidates, which are all of the baseline, where
  that never happens.
- `append_rows` has no seed in its key: of several seeds of one condition the last is left
  in the table. `run_compounds` with a filter replaces the table by what the filter leaves.
- The inventory counts directories, those of runs that were stopped included.
- The locks of phase 5 and phase 6 are two files, and their runs share one database;
  preflight only records that the other's exists (line 176).
- `rq_generalization` (also figure 6 and paper table 7), `v4_v5_deep_comparison`,
  `layer_placement_analysis` and figure 2 select by failure and variant and pool runs of
  several groups; `results/phase7/PHASE7_REPORT.md:19` speaks of 10 seeds per planned
  cell "where applicable". `CellsAreConditions` is about the other tables.
- Phase 7 beside a running phase 6 may publish one experiment less than planned
  (`PublishedIsWholeButTheLast`); `missing_data_audit.json` counts it as missing and says
  `unusable_experiments: 0`, and `semantic_audit_provenance.json` says that all 3340 were
  verified (lines 269 and 622 of `phase7_analysis.py`). The export copies the status file
  as it is, possibly half written.

## 4. Fairness

`ExperimentRunner` assumes nothing but that the runner itself runs, its timer included
(weak fairness of `RunnerStep`): `RunEnds` holds although orchestrator and services may
hang for ever.

`AgentRetries` assumes that threads run (weak fairness of each handler), services
finish the calls they have (their transactions are short and local), leases expire
(time passes) and the agent retries (the runner's loops; the model drops their
bound of five attempts, which only limits how long one waits). Strong fairness is
assumed of three steps that may fail any number of times but not for ever: the
lookup, and an execute up to its insert and up to its commit. Nothing is assumed of
crashes or lost answers. A retry reuses a slot that has left nothing behind, so
an unbounded number of attempts needs two names.

`Phase6Runner` assumes that the operator restores services that a crash has left stopped
and starts the runner again without restricting it, however often it is only audited or
cut down; that the runner runs; and that neither resets nor runs of an experiment fail
every time. These are strong, because each is enabled only now and then. Under them
`CompletesUnlessTorn` holds; without the premise, `torn_status` shows it does not.

The other models have no liveness property: sweeps and phase 7 are started by hand and
nothing waits for them.

## 5. Proofs

`OrchestratorProofs`, for every set of requests and operations, every variant,
capability, scenario set and number of restarts:

- `TypeCorrect`: `TypeOK`.
- `EffectsUnique`: `AtMostOneEffect` in every protected configuration (a ledger, or
  a mapping in the service, or V3's refusal). The argument: a handler calls the
  service once and only after its claim (`CallInv`), a keyed effect is the registered
  one, and where the service keeps no mapping, whoever has called owns the row and
  the row cannot be claimed again (`ExclusiveClaim`). `AtMostOneEffect` alone is not
  inductive: it says nothing of calls that have not committed yet.
- `RetriesAreBlameless`: `NoBlindRetry`.
- `ExecutionIsExclusive`: `OneExecutor`, which speaks of where nothing reconciles through a lookup.

`LedgerProofs`, under the same assumptions:

- `AnswersTrue` and `ConfirmationsTrue`, from `TruthInv`: an answer OK, a confirmed row,
  an answer of the service and a lookup that has been read all name an effect of
  the operation. Neither property is inductive by itself, because answers are made of rows
  and rows of answers.
- `AmbiguityIsKept`, `ClaimsAreLegal`, `CompletionIsFinal` and `NothingRestsUnclaimed`: every
  action is shown to write the ledger in one of a few ways (`RowMoves`), and the
  properties follow from that list and from the states in which a row can rest (`RestInv`).
- `RepliesTellRows`: `HoldsInv`. A row that was answered OK is COMPLETED, one that was answered
  UNKNOWN stays UNKNOWN where nothing can be looked up: a completed row is final, and only a
  lookup takes a row out of UNKNOWN (`AmbiguityStep`, `ReplyHoldsStep`).
- `ReconcilerIsAlone`: `OneReconciler`, which is inductive once `RestInv` is known: as long as
  a reconciler is at work the row is `RECONCILING`, and no action of another request
  finds a row it may write in that state.

`ContractProofs`, under the same assumptions:

- `MappingIsExact`: `RegisteredIffCreated`. A keyed call registers its effect in the
  transaction that creates it; that no other effect is keyed needs that a mapping exists
  only where the capability passed on keeps one (`MappingInv`).
- `FreshAnswersAreUnique`: `OneFreshAnswer`. A fresh answer is that of the request that
  completed the row, and a completed row is not completed again; without a ledger it is
  that of the call that registered the effect (`OwnInv`, `FreshInv`).
- `ExactlyOnceIsImplemented`: `Spec => ImplementsExactlyOnce`. Each action is shown to be a
  step of `ExactlyOnce` or a stutter under the mapping, separately for the handlers
  (`HandlerImplements`) and the service (`ServiceImplements`), from the uniqueness of
  effects and the truth of answers before and after the step.
- `RerunsAreNotDuplicated`: `NoDuplicateInRerun`, for any number of requests of either run and
  any restarts. `ExclusiveClaim` does not survive the reset. What does, for requests of the
  second run alone, is `ClaimInRerun`: whoever executes holds the row, late requests can move
  it on but not offer it again, except one that is drawn to fail before its call, and then
  no request of the operation ever calls (`OfferedAgain`, `DrawnTogether`).
- `UncountedAreLate`: `UncountedOkIsLate`. The truth of answers is restated for a reset: after it
  what a row, the mapping, the answer of a call or a reply names is an effect that
  the second run measures, or one that a late request has made, been told of or looked up
  (`KnownInRerun`). Where each name comes from is traced through the handlers and the service
  (`RowSourced`, `FoundSourced`, `ReplySourced`), and no name a late request holds is forgotten (`KnownStays`).

`AuditProofs`, for every variant and capability and any number of requests:

- `AuditedIsOrchestrator`: `AuditSpec` refines `Spec`, so the invariants above hold in it.
- `TransitionsPass`, `LogIsTheHistory`, `NoOverlapReadById`: `NoTransitionReported`, that the
  orchestrator's list of legal transitions and the harness's agree, and the two properties
  of `audit`.
  They follow from `LogInv`, which says of the entries of an operation, in the order of
  their ids, that each begins where the one before ended, up to an expired lease, that
  the last ends where the row is, and who owns it in between.

`ExperimentRunnerProofs`, for every number of operations, attempts and restarts, every fan-out
and every choice of draws:

- `RunIsOrchestrated`: `RunSpec => Spec`; a run is a behaviour of the orchestrator under
  arbitrary requests, so each theorem above holds in it.
- `RunTypeCorrect`: `RunTypeOK`; no strategy sends more attempts than it is configured
  to (`WithinBatches`).
- `OksAreCounted`: `OkIsCounted`. The strengthening, `CountedInv`, says that once the effects
  are read no attempt is waited for any more, and all answers until then are in.
- `CallsAreCounted`: `TablesAgree`. That no effect is counted without its call follows from the
  order of the two reads and a log entry that is committed with its effect
  (`CallsLogged`). The converse needs that an answered attempt had its effect committed before
  the first read (`AnsweredIsOver`, `CalledInv`).
- `MeasuredAtTheEnd`: `MeasurementIsFinalIfUndisturbed`. Where no attempt was given up and
  nothing restarted, each answer waited for its service (`HandlersWait`), so that at the reading no
  call is open and what is read stays what there is (`FrozenInv`).
- `ReplaysAreFewer`: `ReplaysAreRetries`. `events` has one row for each attempt that is over
  (`RowsInv`). A replay is an OK, so there is an effect; the attempt that had it created is
  over and has a row too, and never says "replayed" (`ReplayInv`, from `ReplaysAreOthers`).
- `InjectionsAreReached`: `InjectedWasReached`. An operation that ended like a fault has a row,
  because an answer of that kind is given by a handler that has seen one (`BegunInv`), and
  the owner of a row calls for it unless its draw, which is kept (`DrawInv`), says that it
  fails before (`OwnersCall`).
- `RunsValidate`: `RunValidates`. Only F9 has `EFFECT_CONFIRMED` answered (`PartialIsInjected`), and
  `CourseInv` says of an F9 operation that its last row is that of the attempt under way, and
  that it ends with an attempt that was answered for good or with the last it may make.
- `ReportedStateIsTrue`: `FinalStateIsLedgerState`. What was answered OK or UNKNOWN is kept by the row
  (`RepliesTellRows`), and the last row of an operation is such an answer (`FinalStateIsTold`). In
  a loop the handler that is waited for is the only one that moves the row, until it answers
  with what it left (`LoopInv`, `OtherRowsStay`).

`Phase5Proofs`, for every set of conditions, seed lists and filters and any number of
invocations and stops:

- `RunsAreKeptApart`: `RunsAreSeparate`. From the reset until the tables are read, the
  database has rows of the run under way and of runs that left requests on their way only
  (`DatabaseIsClean`).
- `TablesAreAudited`: `AuditSeesTheTables`. Rows are of finished runs, a later run of an
  experiment has a later row (`RowsAreInOrder`), and what is newer than a table is under
  way or was abandoned (`TablesAreCurrent`).
- `StressRowsStay`: `StressKeepsItsRows`, from what `append_rows` keeps of a table.

`Phase6Proofs`, for every manifest, batch size, command line and number of crashes, torn
writes included:

- `StatusIsTruthful`: `CompleteHasValidRun`. The strengthening covers the
  table in memory and the run that is under way.
- `RunsAreNotRepeated`: `AtMostOneValidRun`; an experiment that is about to be executed has
  no valid run, because every invocation reconciles first (`OnceInv`, and `Returns`, which
  says where a write may return to).
- `RunsAreKept`: `ValidRunsStay`.
- `ServicesAreMet`: `RunsMeetServices`; only an audit goes past the preflight with the services
  stopped, and an audit executes nothing (`ServicesInv`).
- `DatasetsAreWhole`: `DatasetIsWhole`; nothing is written before all rows asked for are COMPLETE,
  which are true (`WholeInv`). A dataset does not lose rows, because the table in memory knows
  of every valid run the resume audit is past (`KnownInv`).
- `StagesAreExhausted`: `StageIsExhausted`. A row of the stage that is due is among the pending
  rows ahead of the index, or in the batch under way, or the batch has failed (`Covered`); at the end
  of the loop nothing is ahead. That all due rows get into the list of pending ones, which is built
  recursively, is shown by induction over the manifest (`PendingIsAllDue`). The induction theorems
  of the library take a predicate, which the installed provers cannot instantiate; `Induction`
  says the same of a set of numbers, from the library's well-foundedness of `<` and its least elements.

`Phase7Proofs`, for the same and any number of crashes of phase 7:

- `PublicationsAreWhole`: `PublishedIsWholeButTheLast`. A cut row before the last leaves rows
  that are not COMPLETE in the file and in what is written from it, until it is
  reconciled (`CutInv`).
- `BundlesAreOfOnePiece`: `BundleIsOfOnePiece`, from the same and from audits that are always
  of the whole manifest when no stage is named (`AuditsInv`).

and, for samples and families of any size:

- `TestsMeanWhatTheySay`: `TestsAreSound`. Of the rank test (`TestIsDelta`): the rank of a value
  counts the values below it and those not above it, in both samples, so the rank sum counts
  pairs (`RankSumIsCounted`, by induction over the sample). A sample's pairs with itself that are
  less, turned round, are those that are not at most (`OwnPairs`): together they are a constant,
  the mean. What is left are the pairs with the other sample, as `cliffs_delta` counts them
  (`CrossPairs`). Of Holm's correction (`HolmIsStepDown`): the places are a total order that leaves
  none out (`PlaceIsAnOrder`, `PlacesAreTaken`), and an adjusted value is at most a level below 1
  exactly if every weighted value up to its place is (`AdjustedIsGreatest`, by induction over the
  places). The sums and the adjusted values are recursive functions, which have to be shown to
  exist (`RecursionIsDefined`); the folds of the community modules are out of reach, as they take operators.

and, for a matrix of any non-empty finite set of seeds:

- `MatrixIsSound`: `EveryRunIsPlannedOnce`. The matrix is the union of six groups, each a set of
  records over a product (`MatrixIsSixGroups`). The group is not in the id, but follows from what is
  (`IdsTell`); each row matches one of the 13 stages (`StageIsOne`). Each group is in bijection
  with a product of its columns and the seeds, and the groups are disjoint, so that there are 334
  rows of every seed (`MatrixCounts`).
- `TablesAreOfConditions`: `CellsAreConditions`, for every subset of the matrix that is left when runs
  are lost. A cell is a condition when the columns a table leaves out are the same in all rows it
  selects, or follow from those it has (`TableTells`); that is shown of each table in turn.
- `RegistryComparesLikeWithLike`: `ComparisonsAreBalanced`, with at most one run lost. Each filter of
  the registry selects one condition of the matrix, the two of a comparison agree in their setting
  (`SidesAre`), and a condition has one run of every seed (`SidesAreBalanced`).

and, for runs of any finite number of operations and events:

- `RatesAreRecomputed`: `RatesAgree`. The text of the files is shown to say what the rows in memory do
  (`OperationsRead`, `RowsRead`), and each way to read a bool of measured attempts and of
  replays to select the same rows (`AttemptsRead`, `OperationsCounted`); then the three
  readers are compared with the runner, rate by rate (`Phase6Agrees`, `Phase7Agrees`, `AuditDeviates`).
  What `metrics_audit` adds up from `operations.csv` is the number of
  measured attempts: the numbers from 1 to each `attempt_count` are in bijection with the attempts
  of that operation, and no attempt is of two (`SumIsUnion`). There are as many replayed operations
  as replays exactly if none is replayed twice, as the operations are the image of the replays
  (`ReplaysByOperation`). For the bound of RRR each operation's attempt that is no replay is set
  apart: what is left is at least the replays (`ReplaysAreBounded`).

and, for any set of directories that are missing:

- `InventoryIsTrue`: `InventoryMatchesPlans`. The ids of a sweep tell its conditions apart, whose number is a
  product (`IdsAreNamed`, `ThreeParts`, ...), an id is of the sweep its word names (`PlanBySweeps`), and each
  family has exactly as many ids as the inventory requires (`FamiliesCount`).

These are facts about what is computed. `QuestionInv` ties them to the runs: what phase 7 is asked about is
a row of the matrix, a part of it, a registered comparison, a sample, a family, a run, or directories of
the plan.

The assumptions are those on the constants, named in the modules that declare them.
`TypeCorrect`, `RunTypeCorrect`, `ClaimsAreLegal`, `CompletionIsFinal`, `NothingRestsUnclaimed`,
`RepliesTellRows`, `RunsAreKept` and `TransitionsPass` state formulas no run checks, because no error a single definition could
hide would show in them that another property does not show.

Only model-checked: liveness (`EventuallySettled`, `RunEnds`, `CompletesUnlessTorn`), which is out of
the prover's reach. Each invariant and action property of a passing run is stated by a theorem.

## 6. Not modelled

- Percentiles, bootstrap intervals and the normal approximation behind the p-values:
  arithmetic on floating point numbers.
- `aggregate.py`, which collates summaries; plots, traces, the wording of evidence tables.
- The gateway's canonicalisation of numbers (`longValue`): the payloads of the testbed are
  generated and small.
- The branch of `execute_batch` for a row that has a valid run already (lines 483-494 of
  `phase6_runner.py`): it is unreachable. The invocation has marked every valid run COMPLETE before
  it selects what is pending, no other process runs, and only `execute_one` makes runs. In
  `Phase6Runner` a row that came there would be a deadlock, which `campaign` looks for.
- That the draws of Java and Python differ in a bit: the models take a draw as given.
- Environment metadata, container counts, health snapshots: written, never read.
- `--mode ledger` of the harness, which calls `run_config` itself, without `run_one` and
  so without its `RESULTS_ROOT` (line 638).
- Grants, `updated_at` triggers and the event log's own columns in the schema.
- A rerun with the strategies and the summary of `ExperimentRunner`: `Rerun` has any number
  of requests in any order instead.

## 7. Plan

Built: everything in section 2. What is left, in the order of what it may find:

1. The draws: the two of them as operators on digests of small width, and
   `selected_for_fault` against what the orchestrator drew.
2. `Gateway`: canonicalisation of payloads and what it makes of large integers.
