---------------------------- MODULE Phase6Runner ----------------------------
(***************************************************************************)
(* The runner of the phase 6 campaign (analysis/phase6_runner.py): it works *)
(* through a manifest of experiments, stage by stage and batch by batch,   *)
(* and is stopped and started again many times on the way.  What it knows  *)
(* across invocations is a status file it rewrites in place and the run    *)
(* directories on disk; the flock it holds lets one process run at a time. *)
(*                                                                         *)
(* An exception that leaves main ends the process where a crash would, and *)
(* is modelled as one.                                                     *)
(***************************************************************************)
EXTENDS Naturals, FiniteSets, SequencesExt

CONSTANTS
    N,             \* experiments are 1..N, numbered in the order of their ids
    Manifest,      \* the manifest: the experiments in the order of its rows
    StageOf,       \* the stage definition an experiment's row matches
    BatchSize,     \* rows of a batch
    RecycleEvery,  \* experiments after which the services are restarted
    Options,       \* command lines the operator may use
    TornWrites,    \* whether a crash may hit the rewriting of the status file
    MaxCrashes     \* bound on crashes

Experiments == 1..N
Stages == { StageOf[e] : e \in Experiments }

\* Limits of N experiments or N batches are as good as none.
Option == [ stages : SUBSET Stages, maxExperiments : 0..N, maxBatches : 0..N,
            auditOnly : BOOLEAN ]

ASSUME CampaignAssumption ==
    /\ N \in Nat \ {0}
    /\ Manifest \in [Experiments -> Experiments]
    /\ \A e \in Experiments : \E i \in Experiments : Manifest[i] = e
    /\ StageOf \in [Experiments -> Nat]
    /\ BatchSize \in Nat \ {0}
    /\ RecycleEvery \in Nat \ {0}
    /\ Options \subseteq Option
    /\ TornWrites \in BOOLEAN
    /\ MaxCrashes \in Nat

VARIABLES
    file,      \* phase6_execution_status.csv
    runs,      \* the run directories of an experiment
    dataset,   \* the run-level datasets written: none, or the last one
    audits,    \* the audits of all runs that are written beside it
    services,  \* whether the application services are up
    pc,        \* where the runner process is
    after,     \* where it goes when the write or the restart under way ends
    status,    \* its copy of the status table
    job,       \* the rest of its memory: the stage and the batch it works on
    crashes

outputs == <<dataset, audits>>
vars == <<file, runs, dataset, audits, services, pc, after, status, job, crashes>>

-----------------------------------------------------------------------------
\* A row of the status file.  GARBLED is a row cut off before the end of
\* attempts_to_complete, CUT one that says COMPLETE and is cut off within
\* final_run_dir; ABSENT is no row.
Outcome == { "COMPLETE", "INFRA_RETRY", "INVALIDATED", "FAILED_BLOCKED" }
Entry == Outcome \cup { "ABSENT", "PENDING", "RUNNING", "GARBLED", "CUT" }

\* The entries whose status field reads COMPLETE.
ReadsComplete == { "COMPLETE", "CUT" }

\* A status table; extra is a row under no experiment's id: a cut-off id.
Table == [ rows : [Experiments -> Entry], extra : BOOLEAN ]
Empty == [ rows |-> [e \in Experiments |-> "ABSENT"], extra |-> FALSE ]

\* valid counts directories that pass validate_run_artifacts (two are as good
\* as more), broken tells whether there is one that does not.
RunDirs == [ valid : 0..2, broken : BOOLEAN ]

\* What write_transition_and_ownership_audits and write_observer_audit leave:
\* the experiments the last one looked at, if there was one.
Audits == [ transitions : SUBSET SUBSET Experiments, ownership : SUBSET SUBSET Experiments,
            observer : BOOLEAN ]
NoAudits == [ transitions |-> {}, ownership |-> {}, observer |-> FALSE ]

Phase == { "off", "writing", "reconcile", "select", "loop", "row", "reset",
           "running", "validate", "checkpoint", "recycle", "restart", "stage_end",
           "finalize", "transitions", "ownership", "observer" }

NoOption == [ stages |-> {}, maxExperiments |-> 0, maxBatches |-> 0, auditOnly |-> FALSE ]

NoJob == [ options |-> NoOption, stage |-> 0, cursor |-> 0, pending |-> <<>>,
           index |-> 0, batch |-> <<>>, failed |-> FALSE, completed |-> 0 ]

Init ==
    /\ file = Empty
    /\ runs = [e \in Experiments |-> [valid |-> 0, broken |-> FALSE]]
    /\ dataset = {} /\ audits = NoAudits
    /\ services = TRUE
    /\ pc = "off" /\ after = "off" /\ status = Empty /\ job = NoJob
    /\ crashes = 0

-----------------------------------------------------------------------------
Status(e) == status.rows[e]

\* The status table with s as the row of e.
Marked(e, s) == [rows |-> [status.rows EXCEPT ![e] = s], extra |-> status.extra]

\* The process ends and its memory is gone.
Stop == pc' = "off" /\ after' = "off" /\ status' = Empty /\ job' = NoJob

\* It goes on to phase p with job j.
GoOn(p, j) == pc' = p /\ job' = j /\ UNCHANGED <<after, status>>

\* Mutant: a run counts only if the status file knows of it.
FindValidRun_ByStatus(e) == Status(e) = "COMPLETE"

\* find_valid_completed_run.
FindValidRun(e) == runs[e].valid > 0

\* quarantine_invalid_runs moves away what does not validate.
Quarantined(e) == [runs EXCEPT ![e].broken = FALSE]

\* persist_status opens the file for writing, which empties it, and goes on
\* to k, with job j, once table t is written.
Persist(t, j, k) ==
    /\ pc' = "writing" /\ after' = k /\ status' = t /\ job' = j
    /\ file' = Empty

WriteEnds ==
    /\ pc = "writing"
    /\ file' = status
    /\ IF after = "off" THEN Stop ELSE GoOn(after, job)
    /\ UNCHANGED <<runs, outputs, services, crashes>>

\* Mutant: a service that is down does not fail the preflight.
PreflightPasses_Blind(options) == TRUE

\* verify_preflight, which is not enforced for an audit.
PreflightPasses(options) == options.auditOnly \/ services

\* load_or_init_status, after the lock and the preflight checks.
Start(options) ==
    /\ pc = "off"
    /\ PreflightPasses(options)
    /\ Persist([ rows  |-> [e \in Experiments |->
                               IF file.rows[e] = "ABSENT" THEN "PENDING" ELSE file.rows[e]],
                 extra |-> file.extra ],
               [NoJob EXCEPT !.options = options, !.cursor = 1], "reconcile")
    /\ UNCHANGED <<runs, outputs, services, crashes>>

\* What reconcile_status_with_artifacts makes of the status of e.
Reconciled(e) ==
    CASE FindValidRun(e)          -> "COMPLETE"
      [] ~FindValidRun(e) /\ Status(e) = "RUNNING"  -> "INFRA_RETRY"
      [] ~FindValidRun(e) /\ Status(e) \in ReadsComplete -> "INVALIDATED"
      [] OTHER -> Status(e)

\* reconcile_status_with_artifacts, one row of the manifest.
ReconcileRow ==
    /\ pc = "reconcile"
    /\ job.cursor <= N
    /\ \E e \in Experiments :
          /\ e = Manifest[job.cursor]
          /\ status' = Marked(e, Reconciled(e))
          /\ runs' = IF FindValidRun(e) THEN runs ELSE Quarantined(e)
    /\ job' = [job EXCEPT !.cursor = @ + 1]
    /\ UNCHANGED <<file, outputs, services, pc, after, crashes>>

ReconcileEnds ==
    /\ pc = "reconcile"
    /\ job.cursor > N
    /\ Persist(status, job, IF job.options.auditOnly THEN "off" ELSE "select")
    /\ UNCHANGED <<runs, outputs, services, crashes>>

-----------------------------------------------------------------------------
\* Mutant: what is blocked counts as finished.
Unfinished_BlockedIsFinal(e) == Status(e) \notin {"COMPLETE", "FAILED_BLOCKED"}

Unfinished(e) == Status(e) # "COMPLETE"

\* The stages of the command line that have an unfinished row.
OpenStages == { s \in job.options.stages : \E e \in Experiments : StageOf[e] = s /\ Unfinished(e) }

\* Mutant: only rows that were never attempted are taken up.
Pending_OnlyNew(s) == SelectSeq(Manifest, LAMBDA e : StageOf[e] = s /\ Status(e) = "PENDING")

\* The rows of stage s that are not COMPLETE, in the order of the manifest.
Pending(s) ==
    LET Due(e) == StageOf[e] = s /\ Status(e) # "COMPLETE"
        upTo[i \in 0..N] == IF i = 0 THEN <<>>
                            ELSE IF Due(Manifest[i]) THEN Append(upTo[i - 1], Manifest[i])
                            ELSE upTo[i - 1]
    IN  upTo[N]

\* The rows finalize_dataset works on, in build_run_level_rows and in
\* write_transition_and_ownership_audits.
DatasetRows == { e \in Experiments : Status(e) = "COMPLETE" }

\* select_stage finds nothing left to do.
NoStageLeft ==
    /\ pc = "select"
    /\ OpenStages = {}
    /\ GoOn("finalize", job)
    /\ UNCHANGED <<file, runs, outputs, services, crashes>>

\* select_stage and the head of execute_manifest.
SelectStage ==
    /\ pc = "select"
    /\ \E s \in OpenStages :
          /\ \A t \in OpenStages : s <= t
          /\ GoOn("loop", [job EXCEPT !.stage = s, !.pending = Pending(s), !.index = 0])
    /\ UNCHANGED <<file, runs, outputs, services, crashes>>

LoopIsOver ==
    \/ job.index >= Len(job.pending)
    \/ job.index \div BatchSize >= job.options.maxBatches
    \/ job.index >= job.options.maxExperiments

Smaller(a, b) == IF a < b THEN a ELSE b

\* Mutant: the slice leaves out the first row of a batch but the first.
BatchRows_OffByOne ==
    SubSeq(job.pending, IF job.index = 0 THEN 1 ELSE job.index + 2,
           Smaller(Len(job.pending), job.index + BatchSize))

\* pending[index : index + current_size].
BatchRows ==
    SubSeq(job.pending, job.index + 1,
           Smaller(Len(job.pending),
                   job.index + Smaller(BatchSize, job.options.maxExperiments - job.index)))

StartBatch ==
    /\ pc = "loop"
    /\ ~LoopIsOver
    /\ GoOn("row", [job EXCEPT !.batch = BatchRows, !.failed = FALSE])
    /\ UNCHANGED <<file, runs, outputs, services, crashes>>

LoopEnds ==
    /\ pc = "loop"
    /\ LoopIsOver
    /\ GoOn("stage_end", job)
    /\ UNCHANGED <<file, runs, outputs, services, crashes>>

\* The batch loop is at a row, which is experiment e.  execute_batch skips a
\* row that has a valid run; there is none among the pending ones, because
\* every invocation reconciles first and no other runs at the same time.  (A
\* row that had one would be a deadlock here.)
AtRow(e) == pc = "row" /\ job.batch # <<>> /\ e = Head(job.batch)

\* The head of execute_one.
BeginRun(e) ==
    /\ AtRow(e)
    /\ ~FindValidRun(e)
    /\ Status(e) # "GARBLED"
    /\ Persist(Marked(e, "RUNNING"), job, "reset")
    /\ runs' = Quarantined(e)
    /\ UNCHANGED <<outputs, services, crashes>>

\* int(attempts_to_complete) fails on a row that was cut off: the exception is
\* raised outside execute_one's try and ends the process.
AttemptsUnreadable(e) ==
    /\ AtRow(e)
    /\ ~FindValidRun(e)
    /\ Status(e) = "GARBLED"
    /\ runs' = Quarantined(e)
    /\ Stop
    /\ UNCHANGED <<file, outputs, services, crashes>>

\* How execute_one ends: its finally persists outcome s.
Settle(e, s) ==
    Persist(Marked(e, s), [job EXCEPT !.batch = Tail(@), !.failed = @ \/ s # "COMPLETE"], "row")

Current(e) == job.batch # <<>> /\ e = Head(job.batch)

\* reset_db went well and run_config has made the run directory.
MakeRunDir(e) ==
    /\ pc = "reset"
    /\ Current(e)
    /\ runs' = [runs EXCEPT ![e].broken = TRUE]
    /\ GoOn("running", job)
    /\ UNCHANGED <<file, outputs, services, crashes>>

\* reset_db, clean_counts or run_config raise: OperationalError and
\* ConnectionError are the infrastructure's fault, the rest the harness's.
RunRaises(e) ==
    /\ pc \in {"reset", "running"}
    /\ Current(e)
    /\ \E s \in {"INFRA_RETRY", "FAILED_BLOCKED"} : Settle(e, s)
    /\ UNCHANGED <<runs, outputs, services, crashes>>

\* KeyboardInterrupt, or preserve_failure raises in a handler: no handler sets
\* an outcome, the finally persists RUNNING and the process ends.
RunInterrupted(e) ==
    /\ pc \in {"reset", "running", "validate"}
    /\ Current(e)
    /\ Persist(status, job, "off")
    /\ UNCHANGED <<runs, outputs, services, crashes>>

\* run_config has written summary.json, the last of its files, and what is in
\* the directory validates ...
RunProducesValid(e) ==
    /\ pc = "running"
    /\ Current(e)
    /\ runs' = [runs EXCEPT ![e] = [valid |-> Smaller(@.valid + 1, 2), broken |-> FALSE]]
    /\ GoOn("validate", job)
    /\ UNCHANGED <<file, outputs, services, crashes>>

\* ... or does not.
RunProducesInvalid(e) ==
    /\ pc = "running"
    /\ Current(e)
    /\ GoOn("validate", job)
    /\ UNCHANGED <<file, runs, outputs, services, crashes>>

\* Mutant: the outcome of the validation is not looked at.
Validate_Unchecked(e) ==
    /\ pc = "validate"
    /\ Current(e)
    /\ Settle(e, "COMPLETE")
    /\ UNCHANGED <<runs, outputs, services, crashes>>

\* validate_run_artifacts of the directory just made decides the outcome;
\* when preserving an invalid one fails, the run is blocked.
Validate(e) ==
    /\ pc = "validate"
    /\ Current(e)
    /\ \/ ~runs[e].broken /\ Settle(e, "COMPLETE")
       \/ runs[e].broken /\ Settle(e, "INVALIDATED")
       \/ runs[e].broken /\ Settle(e, "FAILED_BLOCKED")
    /\ UNCHANGED <<runs, outputs, services, crashes>>

\* execute_batch returns and execute_manifest persists the status.
BatchEnds ==
    /\ pc = "row"
    /\ job.batch = <<>>
    /\ Persist(status, job, "checkpoint")
    /\ UNCHANGED <<runs, outputs, services, crashes>>

\* recycle_application_services, to go on at k with job j.
Recycle(j, k) == pc' = "recycle" /\ after' = k /\ job' = j /\ UNCHANGED status

\* A failed batch ends the stage; otherwise the index moves on by a batch,
\* after a restart of the services when enough experiments were completed.
AfterBatch ==
    LET next == [job EXCEPT !.index = @ + BatchSize]
        sum  == job.completed + Len(BatchRows)
    IN  /\ pc = "checkpoint"
        /\ \/ job.failed /\ GoOn("stage_end", job)
           \/ /\ ~job.failed /\ sum < RecycleEvery
              /\ GoOn("loop", [next EXCEPT !.completed = sum])
           \/ /\ ~job.failed /\ sum >= RecycleEvery
              /\ Recycle([next EXCEPT !.completed = 0], "loop")
        /\ UNCHANGED <<file, runs, outputs, services, crashes>>

\* docker compose stop, ...
StopServices ==
    /\ pc = "recycle"
    /\ services' = FALSE
    /\ GoOn("restart", job)
    /\ UNCHANGED <<file, runs, outputs, crashes>>

\* ... up, and wait_for_services; if that gives up, it is as a crash.
ServicesUp ==
    /\ pc = "restart"
    /\ services' = TRUE
    /\ IF after = "off" THEN Stop ELSE GoOn(after, job)
    /\ UNCHANGED <<file, runs, outputs, crashes>>

StageIsComplete(s) == \A e \in Experiments : StageOf[e] = s => Status(e) = "COMPLETE"

AllComplete == \A e \in Experiments : Status(e) = "COMPLETE"

\* The test at the end of main; a row under a cut-off id fails it.
AtEnd == IF AllComplete /\ ~status.extra THEN "finalize" ELSE "off"

\* The end of execute_manifest: a complete stage ends with a restart of the
\* services, and then main is at its last test.
StageEnds ==
    /\ pc = "stage_end"
    /\ \/ StageIsComplete(job.stage) /\ Recycle(job, AtEnd)
       \/ ~StageIsComplete(job.stage) /\ Stop
    /\ UNCHANGED <<file, runs, outputs, services, crashes>>

-----------------------------------------------------------------------------
\* finalize_dataset: the run-level rows, and then its audits one by one.
WriteDataset ==
    /\ pc = "finalize"
    /\ dataset' = {DatasetRows}
    /\ GoOn("transitions", job)
    /\ UNCHANGED <<file, runs, audits, services, crashes>>

WriteTransitionAudit ==
    /\ pc = "transitions"
    /\ audits' = [audits EXCEPT !.transitions = {DatasetRows}]
    /\ GoOn("ownership", job)
    /\ UNCHANGED <<file, runs, dataset, services, crashes>>

WriteOwnershipAudit ==
    /\ pc = "ownership"
    /\ audits' = [audits EXCEPT !.ownership = {DatasetRows}]
    /\ GoOn("observer", job)
    /\ UNCHANGED <<file, runs, dataset, services, crashes>>

WriteObserverAudit ==
    /\ pc = "observer"
    /\ audits' = [audits EXCEPT !.observer = TRUE]
    /\ Stop
    /\ UNCHANGED <<file, runs, dataset, services, crashes>>

-----------------------------------------------------------------------------
\* What there may be of table t in the file before all of it is written: its
\* rows in the order of their ids up to row c, and of that row the whole, or a
\* beginning that reads as entry x, or less than its id.
Left(entry) == { entry, "ABSENT", "GARBLED" } \cup (IF entry \in ReadsComplete THEN {"CUT"} ELSE {})

Prefix(t, c, x, b) ==
    [ rows |-> [e \in Experiments |-> CASE e < c -> t.rows[e] [] e = c -> x [] OTHER -> "ABSENT"],
      extra |-> b ]

Torn(t) ==
    UNION { { Prefix(t, c, x, b) : x \in Left(t.rows[c]), b \in BOOLEAN } : c \in Experiments }

\* The process is killed, or an exception leaves main.
Crash ==
    /\ crashes < MaxCrashes
    /\ pc # "off"
    /\ IF pc = "writing"
       THEN TornWrites /\ file' \in Torn(status)
       ELSE UNCHANGED file
    /\ Stop
    /\ crashes' = crashes + 1
    /\ UNCHANGED <<runs, outputs, services>>

RunRow(e) ==
    \/ BeginRun(e)
    \/ AttemptsUnreadable(e)
    \/ MakeRunDir(e)
    \/ RunRaises(e)
    \/ RunInterrupted(e)
    \/ RunProducesValid(e)
    \/ RunProducesInvalid(e)
    \/ Validate(e)

Step ==
    \/ WriteEnds
    \/ ReconcileRow
    \/ ReconcileEnds
    \/ NoStageLeft
    \/ SelectStage
    \/ StartBatch
    \/ LoopEnds
    \/ \E e \in Experiments : RunRow(e)
    \/ BatchEnds
    \/ AfterBatch
    \/ StopServices
    \/ ServicesUp
    \/ StageEnds
    \/ WriteDataset
    \/ WriteTransitionAudit
    \/ WriteOwnershipAudit
    \/ WriteObserverAudit

\* The operator starts the services that a crash has left stopped.
RestoreServices ==
    /\ pc = "off"
    /\ ~services
    /\ services' = TRUE
    /\ UNCHANGED <<file, runs, outputs, pc, after, status, job, crashes>>

Next ==
    \/ \E options \in Options : Start(options)
    \/ Step
    \/ RestoreServices
    \/ Crash

Spec == Init /\ [][Next]_vars

\* No argument restricts this invocation.
Unrestricted(options) ==
    /\ options.stages = Stages /\ ~options.auditOnly
    /\ options.maxExperiments = N /\ options.maxBatches = N

\* The operator restores the services and starts the runner again without
\* restricting it, however often it only audits; the runner runs; and neither
\* resets nor runs fail for ever.
Fairness ==
    /\ SF_vars(\E options \in Options : Unrestricted(options) /\ Start(options))
    /\ SF_vars(RestoreServices)
    /\ WF_vars(Step)
    /\ SF_vars(\E e \in Experiments : MakeRunDir(e))
    /\ SF_vars(\E e \in Experiments : RunProducesValid(e))

FairSpec == Spec /\ Fairness

-----------------------------------------------------------------------------
\* What the status file calls COMPLETE has a valid run directory behind it,
\* whatever was interrupted: build_run_level_rows opens it without looking.
CompleteHasValidRun ==
    \A e \in Experiments : file.rows[e] \in ReadsComplete => FindValidRun(e)

\* An experiment that has a valid run is never executed again, also when the
\* process was stopped before the status file knew of it, or tore the file: a
\* second valid run would change which results the dataset is built from.
AtMostOneValidRun == \A e \in Experiments : runs[e].valid <= 1

\* Valid results are never lost: no quarantine, retry or resume moves them.
ValidRunsStay ==
    [][\A e \in Experiments : runs'[e].valid >= runs[e].valid]_vars

\* d has every row of the stages some invocation asks for.
CoversStages(d) ==
    \E options \in Options : \A e \in Experiments : StageOf[e] \in options.stages => e \in d

\* A dataset has every row of the stages that were asked for, which is the whole
\* manifest unless --stage or --group names some, and each of its rows has a valid
\* run.  An invocation restricted to a stage that is done writes a dataset of an
\* unfinished manifest over what is there, but never a smaller one: it knows of
\* every valid run, however the one before was stopped.
DatasetIsWhole ==
    /\ \A d \in dataset : CoversStages(d) /\ \A e \in d : FindValidRun(e)
    /\ pc = "finalize" => \A d \in dataset : d \subseteq DatasetRows

\* An invocation whose loop was not cut short by a failed batch or a limit has
\* completed its stage: the batches leave no row of it out.
StageIsExhausted ==
    /\ pc = "stage_end" /\ ~job.failed
    /\ job.options.maxBatches = N /\ job.options.maxExperiments = N
    => \A e \in Experiments : StageOf[e] = job.stage => Status(e) = "COMPLETE"

\* No experiment is executed while its services are stopped, also when the
\* process that stopped them was killed before it had them started again.
RunsMeetServices == pc \in {"row", "reset", "running", "validate"} => services

\* The campaign is completed in the end, and its dataset written, if it is
\* started often enough (write_stage_checkpoint: safe_to_resume).
EventuallyComplete ==
    <>[](dataset = {Experiments} /\ \A e \in Experiments : FindValidRun(e))

\* The same for the campaigns in which no crash cuts a row of the status file
\* off before its attempts_to_complete.
CompletesUnlessTorn ==
    [](\A e \in Experiments : file.rows[e] # "GARBLED") => EventuallyComplete

=============================================================================
