---------------------------- MODULE Phase6Proofs ----------------------------
(***************************************************************************)
(* Theorems about Phase6Runner, for every manifest, every set of command   *)
(* lines, every number of crashes, within a write of the status file too.  *)
(***************************************************************************)
EXTENDS Phase6Runner, WellFoundedInduction, TLAPS

\* What table t calls COMPLETE has a valid run.
Truthful(t) == \A e \in Experiments : t.rows[e] \in ReadsComplete => FindValidRun(e)

\* The directory of the run under way does not validate before run_config has
\* written it, and there is a valid one if it does afterwards.
RunUnderWay ==
    \A e \in Experiments : Current(e) =>
        /\ pc = "running" => runs[e].broken
        /\ pc = "validate" => runs[e].broken \/ FindValidRun(e)

Typed ==
    /\ file \in Table
    /\ status \in Table
    /\ runs \in [Experiments -> RunDirs]
    /\ after \notin {"running", "validate", "recycle", "restart"}

\* The inductive invariant: the file cannot claim more than the table in
\* memory, and that claims COMPLETE only of a run that validated.
IInv == Typed /\ Truthful(file) /\ Truthful(status) /\ RunUnderWay

-----------------------------------------------------------------------------
\* The empty table is a table and claims nothing.
LEMMA EmptyIsTruthful == Empty \in Table /\ Truthful(Empty)
  BY DEF Empty, Table, Entry, Truthful, ReadsComplete

LEMMA MarkedIsATable ==
    ASSUME status \in Table, NEW e \in Experiments, NEW s \in Entry
    PROVE  /\ Marked(e, s) \in Table
           /\ \A d \in Experiments :
                 Marked(e, s).rows[d] = IF d = e THEN s ELSE status.rows[d]
  BY DEF Marked, Table

\* Marking a row keeps a table truthful, unless it marks COMPLETE what has no
\* valid run.
LEMMA MarkedIsTruthful ==
    ASSUME status \in Table, Truthful(status), NEW e \in Experiments, NEW s \in Entry,
           s \in ReadsComplete => FindValidRun(e)
    PROVE  Marked(e, s) \in Table /\ Truthful(Marked(e, s))
  BY MarkedIsATable DEF Truthful

\* A step after which no run is under way keeps the invariant if the tables it
\* leaves are truthful and no valid run is lost.
LEMMA QuietStep ==
    ASSUME file' \in Table, status' \in Table, runs' \in [Experiments -> RunDirs],
           after' \notin {"running", "validate", "recycle", "restart"},
           pc' \notin {"running", "validate"},
           \A e \in Experiments : FindValidRun(e) => FindValidRun(e)',
           Truthful(file'), Truthful(status')
    PROVE  IInv'
  BY DEF IInv, Typed, Truthful, RunUnderWay

LEMMA StopKeeps ==
    ASSUME Stop, file' \in Table, runs' \in [Experiments -> RunDirs],
           \A e \in Experiments : FindValidRun(e) => FindValidRun(e)',
           Truthful(file')
    PROVE  IInv'
  BY EmptyIsTruthful, QuietStep DEF Stop

\* persist_status: the file is emptied, a truthful table is kept in memory.
LEMMA PersistKeeps ==
    ASSUME NEW t \in Table, NEW j, NEW k, Persist(t, j, k), Truthful(t),
           k \notin {"running", "validate", "recycle", "restart"},
           runs' \in [Experiments -> RunDirs],
           \A e \in Experiments : FindValidRun(e) => FindValidRun(e)'
    PROVE  IInv'
  BY EmptyIsTruthful, QuietStep DEF Persist

LEMMA QuarantineKeeps ==
    ASSUME runs \in [Experiments -> RunDirs], NEW e \in Experiments, runs' = Quarantined(e)
    PROVE  /\ runs' \in [Experiments -> RunDirs]
           /\ \A d \in Experiments : FindValidRun(d) <=> FindValidRun(d)'
  BY DEF Quarantined, RunDirs, FindValidRun

LEMMA TornIsTruthful ==
    ASSUME NEW t \in Table, Truthful(t), NEW f \in Torn(t)
    PROVE  f \in Table /\ Truthful(f)
  <1>1. PICK c \in Experiments : \E x \in Left(t.rows[c]), b \in BOOLEAN : f = Prefix(t, c, x, b)
    BY DEF Torn
  <1>0. PICK x \in Left(t.rows[c]), b \in BOOLEAN : f = Prefix(t, c, x, b)
    BY <1>1
  <1>2. x \in Entry /\ (x \in ReadsComplete => t.rows[c] \in ReadsComplete)
    BY <1>1 DEF Left, Table, Entry, ReadsComplete
  <1>3. \A e \in Experiments : f.rows[e] = IF e < c THEN t.rows[e] ELSE IF e = c THEN x ELSE "ABSENT"
    <2> TAKE e \in Experiments
    <2>1. e \in Int /\ c \in Int
      BY CampaignAssumption DEF Experiments
    <2>2. f.rows = [d \in Experiments |-> CASE d < c -> t.rows[d] [] d = c -> x [] OTHER -> "ABSENT"]
      BY <1>0 DEF Prefix
    <2>3. f.rows[e] = CASE e < c -> t.rows[e] [] e = c -> x [] OTHER -> "ABSENT"
      BY <2>2
    <2> QED
      BY <2>1, <2>3
  <1>4. f \in Table
    BY <1>0, <1>2, CampaignAssumption DEF Prefix, Table, Entry, Experiments
  <1> QED
    BY <1>2, <1>3, <1>4 DEF Truthful, ReadsComplete

-----------------------------------------------------------------------------
LEMMA InitEstablishes == Init => IInv
  <1> SUFFICES ASSUME Init PROVE IInv
    OBVIOUS
  <1>1. Typed
    BY EmptyIsTruthful DEF Init, Typed, RunDirs
  <1>2. RunUnderWay
    BY DEF Init, RunUnderWay
  <1> QED
    BY <1>1, <1>2, EmptyIsTruthful DEF Init, IInv

\* The steps of one row of a batch.
LEMMA RunRowKeeps ==
    ASSUME IInv, NEW e \in Experiments, RunRow(e)
    PROVE  IInv'
  <1> USE DEF IInv, Typed
  <1>1. CASE BeginRun(e)
    <2>1. Marked(e, "RUNNING") \in Table /\ Truthful(Marked(e, "RUNNING"))
      BY MarkedIsTruthful DEF Entry, ReadsComplete
    <2> QED
      BY <1>1, <2>1, PersistKeeps, QuarantineKeeps DEF BeginRun
  <1>2. CASE AttemptsUnreadable(e)
    BY <1>2, StopKeeps, QuarantineKeeps DEF AttemptsUnreadable, Truthful
  <1>3. CASE MakeRunDir(e)
    <2>1. /\ runs' \in [Experiments -> RunDirs]
          /\ \A d \in Experiments : FindValidRun(d) <=> FindValidRun(d)'
          /\ runs'[e].broken
      BY <1>3 DEF MakeRunDir, RunDirs, FindValidRun
    <2>2. RunUnderWay'
      BY <1>3, <2>1 DEF MakeRunDir, RunUnderWay, GoOn, Current
    <2> QED
      BY <1>3, <2>1, <2>2 DEF MakeRunDir, GoOn, Truthful
  <1>4. CASE RunRaises(e)
    <2>1. PICK s \in {"INFRA_RETRY", "FAILED_BLOCKED"} : Settle(e, s)
      BY <1>4 DEF RunRaises
    <2>2. Marked(e, s) \in Table /\ Truthful(Marked(e, s))
      BY MarkedIsTruthful DEF Entry, Outcome, ReadsComplete
    <2> QED
      BY <1>4, <2>1, <2>2, PersistKeeps DEF RunRaises, Settle, FindValidRun
  <1>5. CASE RunInterrupted(e)
    BY <1>5, PersistKeeps DEF RunInterrupted, FindValidRun
  <1>6. CASE RunProducesValid(e)
    <2>1. /\ runs' \in [Experiments -> RunDirs]
          /\ \A d \in Experiments : FindValidRun(d) => FindValidRun(d)'
          /\ FindValidRun(e)'
      BY <1>6 DEF RunProducesValid, RunDirs, FindValidRun, Smaller
    <2>2. RunUnderWay'
      BY <1>6, <2>1 DEF RunProducesValid, RunUnderWay, GoOn, Current
    <2> QED
      BY <1>6, <2>1, <2>2 DEF RunProducesValid, GoOn, Truthful
  <1>7. CASE RunProducesInvalid(e)
    <2>1. RunUnderWay'
      BY <1>7 DEF RunProducesInvalid, RunUnderWay, GoOn, Current
    <2> QED
      BY <1>7, <2>1 DEF RunProducesInvalid, GoOn, Truthful, FindValidRun
  <1>8. CASE Validate(e)
    <2>1. PICK s \in {"COMPLETE", "INVALIDATED", "FAILED_BLOCKED"} :
             Settle(e, s) /\ (s = "COMPLETE" => ~runs[e].broken)
      BY <1>8 DEF Validate
    <2>2. s = "COMPLETE" => FindValidRun(e)
      BY <1>8, <2>1 DEF Validate, RunUnderWay
    <2>3. Marked(e, s) \in Table /\ Truthful(Marked(e, s))
      BY <2>2, MarkedIsTruthful DEF Entry, Outcome, ReadsComplete
    <2> QED
      BY <1>8, <2>1, <2>3, PersistKeeps DEF Validate, Settle, FindValidRun
  <1> QED
    BY <1>1, <1>2, <1>3, <1>4, <1>5, <1>6, <1>7, <1>8 DEF RunRow

\* Loading the file gives a truthful table.
LEMMA StartKeeps ==
    ASSUME IInv, NEW options, Start(options)
    PROVE  IInv'
  <1> DEFINE t == [ rows  |-> [e \in Experiments |->
                                 IF file.rows[e] = "ABSENT" THEN "PENDING" ELSE file.rows[e]],
                    extra |-> file.extra ]
  <1>1. t \in Table /\ Truthful(t)
    BY DEF IInv, Typed, Table, Entry, Truthful, ReadsComplete
  <1>2. runs' = runs /\ Persist(t, [NoJob EXCEPT !.options = options, !.cursor = 1], "reconcile")
    BY DEF Start
  <1> HIDE DEF t
  <1> QED
    BY <1>1, <1>2, PersistKeeps DEF IInv, Typed, FindValidRun

\* The resume audit marks COMPLETE exactly what has a valid run.
LEMMA ReconcileKeeps ==
    ASSUME IInv, ReconcileRow
    PROVE  IInv'
  <1> USE DEF IInv, Typed
  <1>1. PICK e \in Experiments :
           /\ status' = Marked(e, Reconciled(e))
           /\ runs' = IF FindValidRun(e) THEN runs ELSE Quarantined(e)
    BY DEF ReconcileRow
  <1>2. Reconciled(e) \in Entry /\ (Reconciled(e) \in ReadsComplete => FindValidRun(e))
    BY DEF Reconciled, Entry, Outcome, Table, Status, ReadsComplete
  <1>3. status' \in Table /\ (\A d \in Experiments : status'.rows[d] \in ReadsComplete => FindValidRun(d))
    BY <1>1, <1>2, MarkedIsTruthful DEF Truthful
  <1>4. /\ runs' \in [Experiments -> RunDirs]
        /\ \A d \in Experiments : FindValidRun(d) <=> FindValidRun(d)'
    BY <1>1, QuarantineKeeps DEF FindValidRun
  <1>5. file' = file /\ after' = after /\ pc' \notin {"running", "validate"}
    BY DEF ReconcileRow
  <1> QED
    BY <1>3, <1>4, <1>5, QuietStep DEF Truthful

LEMMA NextKeeps == IInv /\ [Next]_vars => IInv'
  <1> SUFFICES ASSUME IInv, [Next]_vars PROVE IInv'
    OBVIOUS
  <1> USE DEF IInv, Typed
  <1>1. CASE \E options \in Options : Start(options)
    BY <1>1, StartKeeps
  <1>2. CASE WriteEnds
    <2>1. file' = status /\ runs' = runs /\ \A e \in Experiments : FindValidRun(e) <=> FindValidRun(e)'
      BY <1>2 DEF WriteEnds, FindValidRun
    <2>2. CASE after = "off"
      BY <1>2, <2>1, <2>2, StopKeeps DEF WriteEnds, Truthful
    <2>3. CASE after # "off"
      BY <1>2, <2>1, <2>3, QuietStep DEF WriteEnds, GoOn, Truthful
    <2> QED
      BY <2>2, <2>3
  <1>3. CASE ReconcileRow
    BY <1>3, ReconcileKeeps
  <1>4. CASE ReconcileEnds
    BY <1>4, PersistKeeps DEF ReconcileEnds, FindValidRun
  <1>5. CASE \/ NoStageLeft \/ SelectStage \/ StartBatch \/ LoopEnds \/ StopServices
            \/ WriteDataset \/ WriteTransitionAudit \/ WriteOwnershipAudit
    <2>1. /\ UNCHANGED <<file, runs, status, after>>
          /\ pc' \notin {"running", "validate"}
      BY <1>5 DEF NoStageLeft, SelectStage, StartBatch, LoopEnds, StopServices,
                  WriteDataset, WriteTransitionAudit, WriteOwnershipAudit, GoOn
    <2> QED
      BY <2>1, QuietStep DEF Truthful, FindValidRun
  <1>6. CASE AfterBatch
    <2>1. /\ UNCHANGED <<file, runs, status>>
          /\ pc' \in {"stage_end", "loop", "recycle"}
          /\ after' \in {after, "loop"}
      BY <1>6 DEF AfterBatch, GoOn, Recycle
    <2> QED
      BY <2>1, QuietStep DEF Truthful, FindValidRun
  <1>7. CASE \E e \in Experiments : RunRow(e)
    BY <1>7, RunRowKeeps
  <1>8. CASE BatchEnds
    BY <1>8, PersistKeeps DEF BatchEnds, FindValidRun
  <1>9. CASE StageEnds
    <2>1. CASE Stop
      BY <1>9, <2>1, StopKeeps DEF StageEnds, FindValidRun, Truthful
    <2>2. CASE Recycle(job, AtEnd)
      BY <1>9, <2>2, QuietStep DEF StageEnds, Recycle, AtEnd, FindValidRun, Truthful
    <2> QED
      BY <1>9, <2>1, <2>2 DEF StageEnds
  <1>10. CASE ServicesUp
    <2>1. CASE after = "off"
      BY <1>10, <2>1, StopKeeps DEF ServicesUp, FindValidRun, Truthful
    <2>2. CASE after # "off"
      BY <1>10, <2>2, QuietStep DEF ServicesUp, GoOn, FindValidRun, Truthful
    <2> QED
      BY <2>1, <2>2
  <1>11. CASE WriteObserverAudit
    BY <1>11, StopKeeps DEF WriteObserverAudit, FindValidRun, Truthful
  <1>12. CASE Crash
    <2>1. file' \in Table /\ \A e \in Experiments : file'.rows[e] \in ReadsComplete => FindValidRun(e)
      BY <1>12, TornIsTruthful DEF Crash, Truthful
    <2>2. Stop /\ runs' = runs
      BY <1>12 DEF Crash
    <2> QED
      BY <2>1, <2>2, StopKeeps DEF FindValidRun, Truthful
  <1>13. CASE RestoreServices \/ UNCHANGED vars
    <2>1. UNCHANGED <<file, runs, status, pc, after, job>>
      BY <1>13 DEF RestoreServices, vars
    <2> QED
      BY <2>1 DEF Truthful, RunUnderWay, FindValidRun, Current
  <1> QED
    BY <1>1, <1>2, <1>3, <1>4, <1>5, <1>6, <1>7, <1>8, <1>9, <1>10, <1>11, <1>12, <1>13
    DEF Next, Step

\* What the status file calls COMPLETE has a valid run directory behind it, for
\* every manifest, command line and number of crashes (persist_status,
\* execute_one and reconcile_status_with_artifacts of phase6_runner.py).
THEOREM StatusIsTruthful == Spec => []CompleteHasValidRun
  <1>1. IInv => CompleteHasValidRun
    BY DEF IInv, Truthful, CompleteHasValidRun
  <1> QED
    BY InitEstablishes, NextKeeps, <1>1, PTL DEF Spec

-----------------------------------------------------------------------------
\* No step loses or moves away a valid run.
LEMMA ValidIsKept ==
    ASSUME IInv, [Next]_vars
    PROVE  \A e \in Experiments : runs'[e].valid >= runs[e].valid
  <1> USE DEF IInv, Typed
  <1>1. CASE UNCHANGED runs
    BY <1>1 DEF RunDirs
  <1>2. ASSUME NEW e \in Experiments, runs' = Quarantined(e)
        PROVE  \A d \in Experiments : runs'[d].valid >= runs[d].valid
    BY <1>2 DEF Quarantined, RunDirs
  <1>3. CASE ReconcileRow
    BY <1>1, <1>2, <1>3 DEF ReconcileRow
  <1>4. CASE \E e \in Experiments : RunRow(e)
    <2>1. PICK e \in Experiments : RunRow(e)
      BY <1>4
    <2>2. CASE BeginRun(e) \/ AttemptsUnreadable(e)
      BY <1>2, <2>2 DEF BeginRun, AttemptsUnreadable
    <2>3. CASE MakeRunDir(e)
      BY <2>3 DEF MakeRunDir, RunDirs
    <2>4. CASE RunProducesValid(e)
      BY <2>4 DEF RunProducesValid, RunDirs, Smaller
    <2>5. CASE RunRaises(e) \/ RunInterrupted(e) \/ RunProducesInvalid(e) \/ Validate(e)
      BY <1>1, <2>5 DEF RunRaises, RunInterrupted, RunProducesInvalid, Validate
    <2> QED
      BY <2>1, <2>2, <2>3, <2>4, <2>5 DEF RunRow
  <1>5. ASSUME Next, ~ReconcileRow, ~(\E e \in Experiments : RunRow(e))
        PROVE  UNCHANGED runs
    BY <1>5 DEF Next, Step, Start, WriteEnds, ReconcileEnds, NoStageLeft, SelectStage,
       StartBatch, LoopEnds, BatchEnds, AfterBatch, StopServices, ServicesUp, StageEnds,
       WriteDataset, WriteTransitionAudit, WriteOwnershipAudit, WriteObserverAudit,
       RestoreServices, Crash
  <1> QED
    BY <1>1, <1>3, <1>4, <1>5 DEF vars

\* Where a restart of the services and a write of the status file go on.
Returns ==
    /\ pc \in {"recycle", "restart"} => after \in {"loop", "finalize", "off"}
    /\ pc = "writing" => after \in {"off", "reconcile", "select", "reset", "row", "checkpoint"}

LEMMA ReturnsKeeps ==
    ASSUME IInv, Returns, [Next]_vars
    PROVE  Returns'
  <1> USE DEF Returns, IInv, Typed
  <1>1. CASE AfterBatch \/ StageEnds
    BY <1>1 DEF AfterBatch, StageEnds, Recycle, AtEnd, GoOn, Stop
  <1>2. CASE WriteEnds
    BY <1>2 DEF WriteEnds, Stop, GoOn
  <1>3. CASE ServicesUp
    BY <1>3 DEF ServicesUp, Stop, GoOn
  <1>4. CASE \/ \E options \in Options : Start(options)
            \/ ReconcileEnds \/ BatchEnds \/ \E e \in Experiments : RunRow(e)
    BY <1>4 DEF Start, ReconcileEnds, BatchEnds, RunRow, BeginRun, AttemptsUnreadable, MakeRunDir,
       RunRaises, RunInterrupted, RunProducesValid, RunProducesInvalid, Validate, Settle,
       Persist, Stop, GoOn
  <1>5. CASE \/ ReconcileRow \/ NoStageLeft \/ SelectStage \/ StartBatch \/ LoopEnds
            \/ StopServices \/ RestoreServices \/ UNCHANGED vars
    BY <1>5 DEF ReconcileRow, NoStageLeft, SelectStage, StartBatch, LoopEnds, StopServices,
       RestoreServices, vars, GoOn
  <1>6. CASE \/ WriteDataset \/ WriteTransitionAudit \/ WriteOwnershipAudit
            \/ WriteObserverAudit \/ Crash
    BY <1>6 DEF WriteDataset, WriteTransitionAudit, WriteOwnershipAudit, WriteObserverAudit,
       Crash, Stop, GoOn
  <1> QED
    BY <1>1, <1>2, <1>3, <1>4, <1>5, <1>6 DEF Next, Step

\* The runner is on its way to the end of the run it has begun.
Underway(e) ==
    /\ Current(e)
    /\ pc \in {"reset", "running"} \/ (pc = "writing" /\ after = "reset")

\* No experiment has two valid runs, and the one under way has none yet.
OnceInv ==
    \A e \in Experiments : runs[e].valid <= 1 /\ (Underway(e) => ~FindValidRun(e))

LEMMA OnceKeeps ==
    ASSUME IInv, Returns, OnceInv, [Next]_vars
    PROVE  OnceInv'
  <1> USE DEF IInv, Typed
  <1>1. ASSUME UNCHANGED runs \/ \E e \in Experiments : runs' = Quarantined(e),
               \A e \in Experiments : Underway(e)' => Underway(e) \/ ~FindValidRun(e)
        PROVE  OnceInv'
    BY <1>1 DEF OnceInv, Quarantined, RunDirs, FindValidRun
  <1>2. CASE \E e \in Experiments : RunRow(e)
    <2>1. PICK e \in Experiments : RunRow(e)
      BY <1>2
    <2>2. CASE BeginRun(e)
      <3>1. Current(e)' /\ Current(e) /\ ~FindValidRun(e) /\ job' = job
        BY <2>2 DEF BeginRun, AtRow, Current, Persist
      <3> QED
        BY <1>1, <2>2, <3>1 DEF BeginRun, Underway, Current
    <2>3. CASE MakeRunDir(e)
      BY <2>3 DEF MakeRunDir, GoOn, OnceInv, Underway, Current, FindValidRun, RunDirs
    <2>4. CASE RunProducesValid(e)
      BY <2>4 DEF RunProducesValid, GoOn, OnceInv, Underway, Current, FindValidRun, RunDirs, Smaller
    <2>5. CASE AttemptsUnreadable(e) \/ RunRaises(e) \/ RunInterrupted(e)
               \/ RunProducesInvalid(e) \/ Validate(e)
      <3>1. UNCHANGED runs \/ runs' = Quarantined(e)
        BY <2>5 DEF AttemptsUnreadable, RunRaises, RunInterrupted, RunProducesInvalid, Validate
      <3>2. \A d \in Experiments : ~Underway(d)'
        BY <2>5 DEF AttemptsUnreadable, RunRaises, RunInterrupted, RunProducesInvalid, Validate,
           Underway, Stop, Settle, Persist, GoOn
      <3> QED
        BY <1>1, <3>1, <3>2
    <2> QED
      BY <2>1, <2>2, <2>3, <2>4, <2>5 DEF RunRow
  <1>3. CASE ReconcileRow
    BY <1>1, <1>3 DEF ReconcileRow, Underway
  <1>4. CASE WriteEnds
    <2>1. UNCHANGED runs /\ pc = "writing"
      BY <1>4 DEF WriteEnds
    <2>2. pc' = "off" \/ (pc' = after /\ UNCHANGED <<job, after>>)
      BY <1>4 DEF WriteEnds, Stop, GoOn
    <2>3. \A e \in Experiments : Underway(e)' => Underway(e)
      BY <2>1, <2>2 DEF Underway, Current
    <2> QED
      BY <1>1, <2>1, <2>3
  <1>5. CASE ServicesUp
    <2>1. UNCHANGED runs /\ pc' \in {"loop", "finalize", "off"}
      BY <1>5 DEF ServicesUp, Stop, GoOn, Returns
    <2> QED
      BY <1>1, <2>1 DEF Underway
  <1>6. CASE (\E options \in Options : Start(options)) \/ ReconcileEnds \/ BatchEnds
    BY <1>1, <1>6 DEF Start, ReconcileEnds, BatchEnds, Persist, Underway
  <1>7. CASE \/ NoStageLeft \/ SelectStage \/ StartBatch \/ LoopEnds \/ AfterBatch \/ StageEnds
            \/ StopServices \/ WriteDataset \/ WriteTransitionAudit \/ WriteOwnershipAudit
            \/ WriteObserverAudit \/ Crash
    BY <1>1, <1>7 DEF NoStageLeft, SelectStage, StartBatch, LoopEnds, AfterBatch, StageEnds,
       StopServices, WriteDataset, WriteTransitionAudit, WriteOwnershipAudit, WriteObserverAudit,
       Crash, Stop, GoOn, Recycle, Underway
  <1>8. CASE RestoreServices \/ UNCHANGED vars
    BY <1>1, <1>8 DEF RestoreServices, vars, Underway, Current
  <1> QED
    BY <1>2, <1>3, <1>4, <1>5, <1>6, <1>7, <1>8 DEF Next, Step

-----------------------------------------------------------------------------
\* j is a record of the runner's memory.
IsJob(j) ==
    \E o \in Options \cup {NoOption} : \E st, c, p, i, b, f, k :
        j = [ options |-> o, stage |-> st, cursor |-> c, pending |-> p,
              index |-> i, batch |-> b, failed |-> f, completed |-> k ]

\* What each step does to the memory: it is dropped, it is new, or its command
\* line stays.
LEMMA JobStep ==
    ASSUME IsJob(job), [Next]_vars
    PROVE  /\ IsJob(job')
           /\ \/ Stop
              \/ \E options \in Options : Start(options) /\ job'.options = options
              \/ job'.options = job.options /\ (pc = "off" => pc' = "off")
  <1> DEFINE Rec(o, st, c, p, i, b, f, k) ==
               [ options |-> o, stage |-> st, cursor |-> c, pending |-> p,
                 index |-> i, batch |-> b, failed |-> f, completed |-> k ]
  <1>0. PICK o \in Options \cup {NoOption} : \E st, c, p, i, b, f, k : job = Rec(o, st, c, p, i, b, f, k)
    BY DEF IsJob
  <1> PICK st, c, p, i, b, f, k : job = Rec(o, st, c, p, i, b, f, k)
    BY <1>0
  <1>1. CASE Stop
    BY <1>1 DEF Stop, NoJob, IsJob
  <1>2. ASSUME NEW options \in Options, Start(options)
        PROVE  IsJob(job') /\ job'.options = options
    BY <1>2 DEF Start, Persist, NoJob, IsJob
  <1>3. CASE UNCHANGED job /\ (pc = "off" => pc' = "off")
    BY <1>3
  <1>4. CASE ReconcileRow
    <2>1. job' = Rec(o, st, c + 1, p, i, b, f, k)
      BY <1>4 DEF ReconcileRow
    <2> QED
      BY <1>4, <2>1 DEF IsJob, ReconcileRow
  <1>5. CASE SelectStage
    <2>1. PICK s \in OpenStages : job' = Rec(o, s, c, Pending(s), 0, b, f, k)
      BY <1>5 DEF SelectStage, GoOn
    <2> QED
      BY <1>5, <2>1 DEF IsJob, SelectStage
  <1>6. CASE StartBatch
    <2>1. job' = Rec(o, st, c, p, i, BatchRows, FALSE, k)
      BY <1>6 DEF StartBatch, GoOn
    <2> QED
      BY <1>6, <2>1 DEF IsJob, StartBatch
  <1>7. CASE AfterBatch
    <2>1. job' = job \/ \E x : job' = Rec(o, st, c, p, i + BatchSize, b, f, x)
      BY <1>7 DEF AfterBatch, GoOn, Recycle
    <2> QED
      BY <1>7, <2>1, <1>3 DEF IsJob, AfterBatch
  <1>8. CASE \E e \in Experiments : RunRow(e)
    <2>1. ASSUME NEW e, NEW s, Settle(e, s)
          PROVE  \E x : job' = Rec(o, st, c, p, i, Tail(b), x, k)
      <3>1. job' = Rec(o, st, c, p, i, Tail(b), (f \/ s # "COMPLETE"), k)
        BY <2>1 DEF Settle, Persist
      <3> QED
        BY <3>1
    <2>2. (\E e, s : Settle(e, s)) => IsJob(job') /\ job'.options = o
      BY <2>1 DEF IsJob
    <2>3. UNCHANGED job \/ Stop \/ \E e, s : Settle(e, s)
      BY <1>8 DEF RunRow, BeginRun, AttemptsUnreadable, MakeRunDir, RunRaises, RunInterrupted,
         RunProducesValid, RunProducesInvalid, Validate, Persist, GoOn
    <2>4. pc # "off"
      BY <1>8 DEF RunRow, BeginRun, AttemptsUnreadable, MakeRunDir, RunRaises, RunInterrupted,
         RunProducesValid, RunProducesInvalid, Validate, AtRow
    <2> QED
      BY <1>1, <1>3, <2>2, <2>3, <2>4
  <1>9. CASE \/ WriteEnds \/ ReconcileEnds \/ NoStageLeft \/ LoopEnds \/ BatchEnds
            \/ StopServices \/ ServicesUp \/ StageEnds \/ WriteDataset \/ WriteTransitionAudit
            \/ WriteOwnershipAudit \/ WriteObserverAudit \/ RestoreServices \/ Crash
    BY <1>9, <1>1, <1>3 DEF WriteEnds, ReconcileEnds, NoStageLeft, LoopEnds, BatchEnds,
       StopServices, ServicesUp, StageEnds, WriteDataset, WriteTransitionAudit,
       WriteOwnershipAudit, WriteObserverAudit, RestoreServices, Crash, Persist, Recycle, GoOn
  <1> QED
    BY <1>2, <1>3, <1>4, <1>5, <1>6, <1>7, <1>8, <1>9 DEF Next, Step, vars

-----------------------------------------------------------------------------
\* An invocation that is past its resume audit, or on its way there, has met
\* running services, unless it stopped them itself.
ServicesInv ==
    /\ job.options.auditOnly => pc \in {"off", "writing", "reconcile"}
    /\ job.options.auditOnly /\ pc = "writing" => after \in {"off", "reconcile"}
    /\ pc \notin {"off", "restart"} => job.options.auditOnly \/ services

LEMMA ServicesKeep ==
    ASSUME IInv, Returns, IsJob(job), ServicesInv, [Next]_vars
    PROVE  ServicesInv'
  <1> USE DEF ServicesInv
  <1>1. ASSUME Stop PROVE ServicesInv'
    BY <1>1 DEF Stop, NoJob, NoOption
  <1>2. ASSUME NEW options \in Options, Start(options), job'.options = options
        PROVE  ServicesInv'
    BY <1>2 DEF Start, Persist, PreflightPasses
  <1> SUFFICES ASSUME job'.options = job.options, ~Stop, pc = "off" => pc' = "off"
               PROVE  ServicesInv'
    <2> HIDE DEF ServicesInv
    <2> QED
      BY <1>1, <1>2, JobStep
  <1>3. CASE WriteEnds
    <2>1. pc = "writing" /\ pc' = after /\ UNCHANGED <<services, after>>
      BY <1>3 DEF WriteEnds, GoOn
    <2> QED
      BY <2>1 DEF IInv, Typed
  <1>4. CASE ReconcileRow \/ ReconcileEnds \/ BatchEnds
    BY <1>4 DEF ReconcileRow, ReconcileEnds, BatchEnds, Persist
  <1>5. CASE \E e \in Experiments : RunRow(e)
    BY <1>5 DEF RunRow, BeginRun, AttemptsUnreadable, MakeRunDir, RunRaises, RunInterrupted,
       RunProducesValid, RunProducesInvalid, Validate, Settle, Persist, GoOn, AtRow
  <1>6. CASE \/ NoStageLeft \/ SelectStage \/ StartBatch \/ LoopEnds \/ AfterBatch \/ StageEnds
            \/ StopServices \/ ServicesUp
    BY <1>6 DEF NoStageLeft, SelectStage, StartBatch, LoopEnds, AfterBatch, StageEnds,
       StopServices, ServicesUp, GoOn, Recycle, Returns
  <1>7. CASE \/ WriteDataset \/ WriteTransitionAudit \/ WriteOwnershipAudit
            \/ WriteObserverAudit \/ Crash \/ RestoreServices \/ UNCHANGED vars
    BY <1>7 DEF WriteDataset, WriteTransitionAudit, WriteOwnershipAudit, WriteObserverAudit,
       Crash, RestoreServices, GoOn, vars
  <1>8. CASE \E options \in Options : Start(options)
    BY <1>8 DEF Start, Persist
  <1> QED
    BY <1>3, <1>4, <1>5, <1>6, <1>7, <1>8 DEF Next, Step

-----------------------------------------------------------------------------
\* The operator never restricts the stages.
NoStageNamed == \A options \in Options : options.stages = Stages

\* The runner has seen the whole manifest complete and is about to write the
\* dataset.
AboutToWrite == pc = "finalize" \/ (pc \in {"recycle", "restart"} /\ after = "finalize")

\* The rows of the dataset are those the command line asks for, at least.
WholeInv ==
    /\ pc # "off" => job.options \in Options
    /\ AboutToWrite => CoversStages(DatasetRows)
    /\ \A d \in dataset :
          d \subseteq Experiments /\ CoversStages(d) /\ \A e \in d : FindValidRun(e)

\* The stages asked for are covered when nothing in them is open.
LEMMA NothingOpen ==
    ASSUME job.options \in Options, OpenStages = {}
    PROVE  CoversStages(DatasetRows)
  BY DEF OpenStages, Unfinished, CoversStages, DatasetRows

LEMMA AllIsCovered ==
    ASSUME job.options \in Options, AllComplete
    PROVE  CoversStages(DatasetRows)
  BY DEF AllComplete, CoversStages, DatasetRows

\* Where no stage is named, what covers the stages is everything.
LEMMA CoveredIsWhole ==
    ASSUME NoStageNamed, NEW d, d \subseteq Experiments, CoversStages(d)
    PROVE  d = Experiments
  <1>1. \A e \in Experiments : StageOf[e] \in Stages
    BY DEF Stages
  <1> QED
    BY <1>1 DEF CoversStages, NoStageNamed

LEMMA WholeKeeps ==
    ASSUME IInv, Returns, IsJob(job), WholeInv, [Next]_vars
    PROVE  WholeInv'
  <1> USE DEF WholeInv
  <1>1. \A e \in Experiments : FindValidRun(e) => FindValidRun(e)'
    <2> TAKE e \in Experiments
    <2>1. runs'[e].valid >= runs[e].valid
      BY ValidIsKept
    <2>2. runs[e].valid \in Nat /\ runs'[e].valid \in Nat
      BY NextKeeps DEF IInv, Typed, RunDirs
    <2> QED
      BY <2>1, <2>2 DEF FindValidRun
  <1>2. pc' # "off" => job'.options \in Options
    <2>1. CASE Stop
      BY <2>1 DEF Stop
    <2>2. CASE \E options \in Options : Start(options) /\ job'.options = options
      BY <2>2
    <2>3. CASE job'.options = job.options /\ (pc = "off" => pc' = "off")
      BY <2>3
    <2> QED
      BY <2>1, <2>2, <2>3, JobStep
  <1>3. AboutToWrite' => CoversStages(DatasetRows)'
    <2>0. ASSUME UNCHANGED status
          PROVE  CoversStages(DatasetRows)' = CoversStages(DatasetRows)
      BY <2>0 DEF CoversStages, DatasetRows, Status
    <2>1. CASE NoStageLeft
      BY <2>1, <2>0, NothingOpen DEF NoStageLeft, GoOn
    <2>2. CASE StageEnds
      BY <2>2, <2>0, AllIsCovered DEF StageEnds, Recycle, AtEnd, Stop, AboutToWrite
    <2>3. CASE StopServices \/ ServicesUp \/ RestoreServices \/ UNCHANGED vars
      BY <2>3, <2>0 DEF StopServices, ServicesUp, RestoreServices, vars, GoOn, Stop, AboutToWrite
    <2>4. CASE AfterBatch
      BY <2>4 DEF AfterBatch, GoOn, Recycle, AboutToWrite
    <2>5. CASE WriteEnds
      BY <2>5 DEF WriteEnds, GoOn, Stop, AboutToWrite, Returns
    <2>6. CASE \/ \E options \in Options : Start(options)
              \/ ReconcileEnds \/ BatchEnds \/ \E e \in Experiments : RunRow(e)
      BY <2>6 DEF Start, ReconcileEnds, BatchEnds, RunRow, BeginRun, AttemptsUnreadable, MakeRunDir,
         RunRaises, RunInterrupted, RunProducesValid, RunProducesInvalid, Validate, Settle,
         Persist, Stop, GoOn, AboutToWrite
    <2>7. CASE \/ ReconcileRow \/ SelectStage \/ StartBatch \/ LoopEnds
              \/ WriteDataset \/ WriteTransitionAudit \/ WriteOwnershipAudit
              \/ WriteObserverAudit \/ Crash
      BY <2>7 DEF ReconcileRow, SelectStage, StartBatch, LoopEnds, WriteDataset,
         WriteTransitionAudit, WriteOwnershipAudit, WriteObserverAudit, Crash, Stop, GoOn,
         AboutToWrite
    <2> QED
      BY <2>1, <2>2, <2>3, <2>4, <2>5, <2>6, <2>7 DEF Next, Step
  <1>4. dataset' = dataset \/ (pc = "finalize" /\ dataset' = {DatasetRows})
    BY DEF Next, Step, Start, WriteEnds, ReconcileRow, ReconcileEnds, NoStageLeft, SelectStage,
       StartBatch, LoopEnds, BatchEnds, AfterBatch, StopServices, ServicesUp, StageEnds,
       WriteDataset, WriteTransitionAudit, WriteOwnershipAudit, WriteObserverAudit, Crash,
       RestoreServices, RunRow, BeginRun, AttemptsUnreadable, MakeRunDir, RunRaises,
       RunInterrupted, RunProducesValid, RunProducesInvalid, Validate, outputs, vars
  <1>5. \A d \in dataset' :
           d \subseteq Experiments /\ CoversStages(d) /\ \A e \in d : FindValidRun(e)
    <2>1. CASE pc = "finalize" /\ dataset' = {DatasetRows}
      <3>1. CoversStages(DatasetRows)
        BY <2>1 DEF AboutToWrite
      <3>2. DatasetRows \subseteq Experiments /\ \A e \in DatasetRows : FindValidRun(e)
        BY DEF DatasetRows, Status, IInv, Truthful, ReadsComplete
      <3> QED
        BY <2>1, <3>1, <3>2
    <2> QED
      BY <1>4, <2>1
  <1>6. \A d : CoversStages(d)' = CoversStages(d)
    BY DEF CoversStages
  <1> QED
    BY <1>1, <1>2, <1>3, <1>5, <1>6

-----------------------------------------------------------------------------
\* The resume audit has e before it.
ToCome(e) == \E i \in Experiments : job.cursor <= i /\ Manifest[i] = e

\* Once the resume audit is past an experiment, the table in memory knows of its
\* valid run, except while that is validated or the process gives up.
KnownInv ==
    /\ pc = "writing" /\ after = "reconcile" => job.cursor = 1
    /\ pc = "reconcile" => job.cursor \in Nat
    /\ \A e \in Experiments : pc = "validate" /\ Current(e) /\ runs[e].broken => ~FindValidRun(e)
    /\ \A e \in Experiments : FindValidRun(e) =>
          \/ Status(e) = "COMPLETE"
          \/ pc = "off"
          \/ pc = "writing" /\ after \in {"off", "reconcile"}
          \/ pc = "reconcile" /\ ToCome(e)
          \/ pc = "validate" /\ Current(e)

\* A step that leaves the table and the runs alone, and is past the resume audit
\* before and after.
LEMMA QuietIsKnown ==
    ASSUME KnownInv, UNCHANGED <<status, runs>>, pc \notin {"off", "writing", "reconcile", "validate"},
           pc' \notin {"reconcile", "validate"}, pc' = "writing" => after' # "reconcile"
    PROVE  KnownInv'
  BY DEF KnownInv, FindValidRun, Status

LEMMA StopIsKnown ==
    ASSUME Stop
    PROVE  KnownInv'
  BY DEF KnownInv, Stop

LEMMA AuditIsKnown ==
    ASSUME IInv, IsJob(job), KnownInv, ReconcileRow \/ ReconcileEnds
    PROVE  KnownInv'
  <1>1. CASE ReconcileEnds
    <2>1. /\ pc = "reconcile" /\ pc' = "writing" /\ after' \in {"off", "select"}
          /\ UNCHANGED <<status, runs>>
      BY <1>1 DEF ReconcileEnds, Persist
    <2>2. \A i \in Experiments : ~(job.cursor <= i)
      <3>1. job.cursor \in Nat /\ job.cursor > N
        BY <1>1 DEF ReconcileEnds, KnownInv
      <3> QED
        <4>1. \A i \in Experiments : i \in Nat /\ i <= N
          BY CampaignAssumption DEF Experiments
        <4> QED
          BY <3>1, <4>1, CampaignAssumption
    <2>3. \A e \in Experiments : FindValidRun(e) => Status(e) = "COMPLETE"
      BY <2>1, <2>2 DEF KnownInv, ToCome
    <2> QED
      BY <2>1, <2>3 DEF KnownInv, FindValidRun, Status
  <1>2. CASE ReconcileRow
    <2>1. PICK e \in Experiments : /\ e = Manifest[job.cursor]
                                   /\ status' = Marked(e, Reconciled(e))
                                   /\ runs' = IF FindValidRun(e) THEN runs ELSE Quarantined(e)
      BY <1>2 DEF ReconcileRow
    <2>2. pc = "reconcile" /\ pc' = "reconcile" /\ job.cursor \in Nat
      BY <1>2 DEF ReconcileRow, KnownInv
    <2>3. job'.cursor = job.cursor + 1
      BY <1>2 DEF ReconcileRow, IsJob
    <2>4. \A d \in Experiments : FindValidRun(d)' = FindValidRun(d)
      BY <2>1, QuarantineKeeps DEF IInv, Typed, FindValidRun
    <2>5. ASSUME NEW d \in Experiments, FindValidRun(d)'
          PROVE  Status(d)' = "COMPLETE" \/ ToCome(d)'
      <3>1. CASE d = e
        BY <2>1, <2>4, <2>5, <3>1 DEF Reconciled, Status, Marked, IInv, Typed, Table
      <3>2. CASE d # e
        <4>1. Status(d)' = Status(d)
          BY <2>1, <3>2 DEF Status, Marked, IInv, Typed, Table
        <4>2. Status(d) = "COMPLETE" \/ ToCome(d)
          BY <2>2, <2>4, <2>5 DEF KnownInv
        <4>3. ToCome(d) => ToCome(d)'
          BY <2>1, <2>2, <2>3, <3>2 DEF ToCome, Experiments
        <4> QED
          BY <4>1, <4>2, <4>3
      <3> QED
        BY <3>1, <3>2
    <2> QED
      BY <2>2, <2>3, <2>5 DEF KnownInv
  <1> QED
    BY <1>1, <1>2

LEMMA RunRowIsKnown ==
    ASSUME IInv, OnceInv, KnownInv, NEW e \in Experiments, RunRow(e)
    PROVE  KnownInv'
  <1> USE DEF IInv, Typed
  <1>1. ASSUME NEW s \in Entry, NEW k, NEW j, Persist(Marked(e, s), j, k), k # "reconcile",
               \A d \in Experiments : FindValidRun(d)' = FindValidRun(d),
               FindValidRun(e) => s = "COMPLETE",
               pc \in {"row", "reset", "running", "validate"},
               Current(e)
        PROVE  KnownInv'
    <2>1. ASSUME NEW d \in Experiments, FindValidRun(d)
          PROVE  Status(d)' = "COMPLETE"
      <3>1. CASE d = e
        BY <1>1, <2>1, <3>1 DEF Persist, Status, Marked, Table
      <3>2. CASE d # e
        BY <1>1, <2>1, <3>2 DEF Persist, Status, Marked, Table, KnownInv, Current
      <3> QED
        BY <3>1, <3>2
    <2> QED
      BY <1>1, <2>1 DEF Persist, KnownInv
  <1>2. CASE BeginRun(e)
    <2>1. \A d \in Experiments : FindValidRun(d)' = FindValidRun(d)
      BY <1>2, QuarantineKeeps DEF BeginRun, FindValidRun
    <2> QED
      BY <1>1, <1>2, <2>1 DEF BeginRun, AtRow, Current, Entry
  <1>3. CASE AttemptsUnreadable(e)
    BY <1>3, StopIsKnown DEF AttemptsUnreadable
  <1>4. CASE MakeRunDir(e)
    BY <1>4 DEF MakeRunDir, GoOn, KnownInv, FindValidRun, Status, RunDirs
  <1>5. CASE RunRaises(e)
    <2>1. ~FindValidRun(e)
      BY <1>5 DEF RunRaises, OnceInv, Underway
    <2> QED
      BY <1>1, <1>5, <2>1 DEF RunRaises, Settle, Entry, Outcome, FindValidRun
  <1>6. CASE RunInterrupted(e)
    BY <1>6 DEF RunInterrupted, Persist, KnownInv
  <1>7. CASE RunProducesValid(e)
    <2>1. /\ pc = "running" /\ pc' = "validate" /\ UNCHANGED <<job, status>> /\ Current(e)
          /\ runs'[e].broken = FALSE
          /\ \A d \in Experiments : d # e => runs'[d] = runs[d]
      BY <1>7 DEF RunProducesValid, GoOn
    <2>2. ASSUME NEW d \in Experiments, d # e
          PROVE  ~Current(d)' /\ FindValidRun(d)' = FindValidRun(d) /\ Status(d)' = Status(d)
      BY <2>1, <2>2 DEF Current, FindValidRun, Status
    <2>3. Current(e)'
      BY <2>1 DEF Current
    <2> QED
      BY <2>1, <2>2, <2>3 DEF KnownInv
  <1>8. CASE RunProducesInvalid(e)
    <2>1. ~FindValidRun(e)
      BY <1>8 DEF RunProducesInvalid, OnceInv, Underway
    <2>2. \A d \in Experiments : Current(d) => d = e
      BY <1>8 DEF RunProducesInvalid, Current
    <2> QED
      BY <1>8, <2>1, <2>2 DEF RunProducesInvalid, GoOn, KnownInv, FindValidRun, Status, Current
  <1>9. CASE Validate(e)
    <2>1. runs[e].broken => ~FindValidRun(e)
      BY <1>9 DEF Validate, KnownInv
    <2> QED
      BY <1>1, <1>9, <2>1 DEF Validate, Settle, Entry, Outcome, FindValidRun
  <1> QED
    BY <1>2, <1>3, <1>4, <1>5, <1>6, <1>7, <1>8, <1>9 DEF RunRow

LEMMA KnownKeeps ==
    ASSUME IInv, Returns, OnceInv, IsJob(job), KnownInv, [Next]_vars
    PROVE  KnownInv'
  <1>1. CASE \E options \in Options : Start(options)
    BY <1>1 DEF Start, Persist, NoJob, KnownInv
  <1>2. CASE WriteEnds
    <2>1. CASE after = "off"
      BY <1>2, <2>1, StopIsKnown DEF WriteEnds
    <2>2. CASE after = "reconcile"
      <3>1. pc' = "reconcile" /\ job'.cursor = 1
        BY <1>2, <2>2 DEF WriteEnds, GoOn, KnownInv
      <3>2. \A e \in Experiments : ToCome(e)'
        BY <3>1, CampaignAssumption DEF ToCome, Experiments
      <3> QED
        BY <3>1, <3>2 DEF KnownInv
    <2>3. CASE after \notin {"off", "reconcile"}
      <3>1. /\ pc = "writing" /\ pc' = after /\ UNCHANGED <<status, runs>>
            /\ after \notin {"validate", "writing"}
        BY <1>2, <2>3 DEF WriteEnds, GoOn, Returns, IInv, Typed
      <3> QED
        BY <2>3, <3>1 DEF KnownInv, FindValidRun, Status
    <2> QED
      BY <2>1, <2>2, <2>3
  <1>3. CASE \/ NoStageLeft \/ SelectStage \/ StartBatch \/ LoopEnds \/ AfterBatch \/ StopServices
            \/ WriteDataset \/ WriteTransitionAudit \/ WriteOwnershipAudit
    BY <1>3, QuietIsKnown DEF NoStageLeft, SelectStage, StartBatch, LoopEnds, AfterBatch,
       StopServices, WriteDataset, WriteTransitionAudit, WriteOwnershipAudit, GoOn, Recycle
  <1>4. CASE BatchEnds \/ ServicesUp \/ StageEnds
    BY <1>4, QuietIsKnown, StopIsKnown DEF BatchEnds, ServicesUp, StageEnds, Persist, GoOn,
       Recycle, Returns
  <1>5. CASE WriteObserverAudit \/ Crash
    BY <1>5, StopIsKnown DEF WriteObserverAudit, Crash
  <1>6. CASE RestoreServices \/ UNCHANGED vars
    BY <1>6 DEF RestoreServices, vars, KnownInv, ToCome, Current, FindValidRun, Status
  <1> QED
    BY <1>1, <1>2, <1>3, <1>4, <1>5, <1>6, AuditIsKnown, RunRowIsKnown DEF Next, Step

-----------------------------------------------------------------------------
\* All of it together.
CampaignInv ==
    /\ IInv /\ Returns /\ OnceInv
    /\ IsJob(job) /\ ServicesInv
    /\ WholeInv /\ KnownInv

LEMMA CampaignStarts == ASSUME Init PROVE CampaignInv
  <1>1. Returns /\ OnceInv
    BY DEF Init, Returns, OnceInv, Underway
  <1>2. IsJob(job) /\ ServicesInv
    BY DEF Init, IsJob, NoJob, NoOption, ServicesInv
  <1>3. WholeInv /\ KnownInv
    BY DEF Init, WholeInv, AboutToWrite, KnownInv
  <1> QED
    BY <1>1, <1>2, <1>3, InitEstablishes DEF CampaignInv

LEMMA CampaignInvariant == Spec => []CampaignInv
  <1>1. Init => CampaignInv
    BY CampaignStarts
  <1>2. CampaignInv /\ [Next]_vars => CampaignInv'
    <2> SUFFICES ASSUME CampaignInv, [Next]_vars PROVE CampaignInv'
      OBVIOUS
    <2>1. IInv' /\ Returns' /\ OnceInv'
      BY NextKeeps, ReturnsKeeps, OnceKeeps DEF CampaignInv
    <2>2. IsJob(job)' /\ ServicesInv'
      BY JobStep, ServicesKeep DEF CampaignInv
    <2>3. WholeInv' /\ KnownInv'
      BY WholeKeeps, KnownKeeps DEF CampaignInv
    <2> QED
      BY <2>1, <2>2, <2>3 DEF CampaignInv
  <1> QED
    BY <1>1, <1>2, PTL DEF Spec

\* No experiment ever has two valid runs, whatever was interrupted
\* (find_valid_completed_run in reconcile_status_with_artifacts and
\* execute_batch).
THEOREM RunsAreNotRepeated == Spec => []AtMostOneValidRun
  <1>1. CampaignInv => AtMostOneValidRun
    BY DEF CampaignInv, OnceInv, AtMostOneValidRun
  <1> QED
    BY CampaignInvariant, <1>1, PTL

\* No step, quarantine_invalid_runs among them, takes a valid run away.
THEOREM RunsAreKept == Spec => ValidRunsStay
  <1>1. CampaignInv /\ [Next]_vars =>
          [\A e \in Experiments : runs'[e].valid >= runs[e].valid]_vars
    BY ValidIsKept DEF CampaignInv
  <1> QED
    BY CampaignInvariant, <1>1, PTL DEF Spec, ValidRunsStay

\* execute_one never runs an experiment while the application services are
\* stopped, wherever recycle_application_services was cut short.
THEOREM ServicesAreMet == Spec => []RunsMeetServices
  <1>1. CampaignInv => RunsMeetServices
    BY DEF CampaignInv, ServicesInv, RunsMeetServices
  <1> QED
    BY CampaignInvariant, <1>1, PTL

\* finalize_dataset writes the rows of the stages that were asked for, each of which
\* has a valid run, and at least the rows of the dataset it replaces, wherever the
\* invocations before it were stopped.
THEOREM DatasetsAreWhole == Spec => []DatasetIsWhole
  <1>1. CampaignInv => DatasetIsWhole
    <2> SUFFICES ASSUME CampaignInv PROVE DatasetIsWhole
      OBVIOUS
    <2>1. \A d \in dataset :
             d \subseteq Experiments /\ CoversStages(d) /\ \A e \in d : FindValidRun(e)
      BY DEF CampaignInv, WholeInv
    <2>2. pc = "finalize" => \A e \in Experiments : FindValidRun(e) => e \in DatasetRows
      BY DEF CampaignInv, KnownInv, DatasetRows
    <2> QED
      BY <2>1, <2>2 DEF DatasetIsWhole
  <1> QED
    BY CampaignInvariant, <1>1, PTL


-----------------------------------------------------------------------------
(* Induction, with the set of the numbers for which it is proved: the      *)
(* library's least elements take no operator.                              *)

\* The pairs of numbers in their order.
Less == { p \in Nat \X Nat : p[1] < p[2] }

\* A set of numbers that is not empty has a least one.
LEMMA LeastNumber ==
    ASSUME NEW T, T \subseteq Nat, T # {}
    PROVE  \E x \in T : \A y \in T : x <= y
  <1>1. IsWellFoundedOn(Less, Nat)
    BY NatLessThanWellFounded, Zenon DEF Less, OpToRel
  <1>2. PICK x \in T : \A y \in T : ~(<<y, x>> \in Less)
    BY <1>1, WFMin
  <1>3. ASSUME NEW y \in T
        PROVE  x <= y
    <2>1. x \in Nat /\ y \in Nat /\ ~(y < x)
      BY <1>2 DEF Less
    <2> QED
      BY <2>1
  <1> QED
    BY <1>3

\* A set with 0, and with the successor of each of its numbers, has them all.
LEMMA Induction ==
    ASSUME NEW T, 0 \in T, \A n \in Nat : n \in T => n + 1 \in T
    PROVE  Nat \subseteq T
  <1> SUFFICES ASSUME Nat \ T # {} PROVE FALSE
    OBVIOUS
  <1>1. PICK x \in Nat \ T : \A y \in Nat \ T : x <= y
    BY LeastNumber
  <1>2. x # 0 /\ x - 1 \in Nat /\ x - 1 \notin T
    BY <1>1
  <1> QED
    BY <1>1, <1>2

\* The rows of a stage that are due.
Due(s, e) == StageOf[e] = s /\ Status(e) # "COMPLETE"

\* The list of pending rows after the first i of the manifest, from the one before.
Grown(s, list, i) == IF Due(s, Manifest[i]) THEN Append(list, Manifest[i]) ELSE list

\* The list of pending rows is built one row of the manifest at a time.
LEMMA PendingIsBuilt ==
    ASSUME NEW s
    PROVE  \E f : /\ f = [i \in 0..N |-> IF i = 0 THEN <<>> ELSE Grown(s, f[i - 1], i)]
                  /\ Pending(s) = f[N]
  <1> DEFINE Builds(n, f) == f = [i \in 0..n |-> IF i = 0 THEN <<>> ELSE Grown(s, f[i - 1], i)]
             T == { n \in Nat : \E f : Builds(n, f) }
  <1>1. 0 \in T
    <2>1. Builds(0, [i \in 0..0 |-> <<>>])
      OBVIOUS
    <2> QED
      BY <2>1
  <1>2. ASSUME NEW n \in Nat, n \in T
        PROVE  n + 1 \in T
    <2>1. PICK f : Builds(n, f)
      BY <1>2
    <2> DEFINE g == [i \in 0..(n + 1) |-> IF i <= n THEN f[i] ELSE Grown(s, f[n], n + 1)]
    <2>2. \A i \in 0..(n + 1) : g[i] = IF i = 0 THEN <<>> ELSE Grown(s, g[i - 1], i)
      <3> TAKE i \in 0..(n + 1)
      <3>1. CASE i = 0
        BY <2>1, <3>1
      <3>2. CASE i # 0 /\ i <= n
        <4>1. f[i] = Grown(s, f[i - 1], i) /\ g[i - 1] = f[i - 1] /\ g[i] = f[i]
          BY <2>1, <3>2
        <4> QED
          BY <3>2, <4>1
      <3>3. CASE i = n + 1
        <4>1. g[i - 1] = f[n] /\ g[i] = Grown(s, f[n], n + 1)
          BY <3>3
        <4> QED
          BY <3>3, <4>1
      <3> QED
        BY <3>1, <3>2, <3>3
    <2>3. Builds(n + 1, g)
      <3> HIDE DEF g
      <3>1. g = [i \in 0..(n + 1) |-> g[i]]
        BY DEF g
      <3> QED
        BY <2>2, <3>1
    <2> HIDE DEF Builds
    <2> QED
      BY <2>3
  <1>3. PICK f : Builds(N, f)
    <2> HIDE DEF T
    <2>1. N \in T
      BY <1>1, <1>2, Induction, CampaignAssumption
    <2> QED
      BY <2>1 DEF T
  <1>4. PICK g : Builds(N, g) /\ Pending(s) = g[N]
    <2> DEFINE g == CHOOSE g : Builds(N, g)
    <2>1. Builds(N, g)
      BY <1>3
    <2>2. Pending(s) = g[N]
      BY DEF Pending, Grown, Due
    <2> QED
      BY <2>1, <2>2
  <1> QED
    BY <1>4

\* The pending rows are all that are due, and no more than the manifest has.
LEMMA PendingIsAllDue ==
    ASSUME NEW s
    PROVE  /\ Pending(s) \in Seq(Experiments)
           /\ Len(Pending(s)) <= N
           /\ \A e \in Experiments : Due(s, e) =>
                 \E k \in 1..Len(Pending(s)) : Pending(s)[k] = e
  <1>1. PICK f : /\ f = [i \in 0..N |-> IF i = 0 THEN <<>> ELSE Grown(s, f[i - 1], i)]
                 /\ Pending(s) = f[N]
    BY PendingIsBuilt
  <1> DEFINE Has(list, e) == \E k \in 1..Len(list) : list[k] = e
             Good(i) == /\ f[i] \in Seq(Experiments) /\ Len(f[i]) <= i
                        /\ \A j \in 1..i : Due(s, Manifest[j]) => Has(f[i], Manifest[j])
             T == { n \in Nat : n <= N => Good(n) }
  <1>2. N \in Nat /\ \A i \in 1..N : Manifest[i] \in Experiments
    BY CampaignAssumption DEF Experiments
  <1>3. 0 \in T
    <2>1. f[0] = <<>>
      BY <1>1, <1>2
    <2>2. f[0] \in Seq(Experiments) /\ Len(f[0]) = 0
      BY <2>1
    <2> HIDE DEF Has
    <2> QED
      BY <2>2
  <1>4. ASSUME NEW n \in Nat, n \in T
        PROVE  n + 1 \in T
    <2> SUFFICES ASSUME n + 1 <= N PROVE Good(n + 1)
      OBVIOUS
    <2>1. Good(n)
      BY <1>2, <1>4
    <2>2. f[n + 1] = Grown(s, f[n], n + 1)
      BY <1>1, <1>2
    <2>3. CASE Due(s, Manifest[n + 1])
      <3>1. f[n + 1] = Append(f[n], Manifest[n + 1])
        BY <2>2, <2>3 DEF Grown
      <3>2. /\ f[n + 1] \in Seq(Experiments) /\ Len(f[n + 1]) = Len(f[n]) + 1
            /\ f[n + 1][Len(f[n]) + 1] = Manifest[n + 1]
            /\ \A k \in 1..Len(f[n]) : f[n + 1][k] = f[n][k]
        BY <1>2, <2>1, <3>1
      <3>3. Has(f[n + 1], Manifest[n + 1])
        BY <2>1, <3>2
      <3>4. ASSUME NEW j \in 1..n, Due(s, Manifest[j])
            PROVE  Has(f[n + 1], Manifest[j])
        <4>1. PICK k \in 1..Len(f[n]) : f[n][k] = Manifest[j]
          BY <2>1, <3>4
        <4>2. k \in 1..Len(f[n + 1]) /\ f[n + 1][k] = Manifest[j]
          BY <2>1, <3>2, <4>1
        <4> QED
          BY <4>2
      <3> HIDE DEF Has
      <3> QED
        BY <2>1, <3>2, <3>3, <3>4
    <2>4. CASE ~Due(s, Manifest[n + 1])
      <3>1. f[n + 1] = f[n]
        BY <2>2, <2>4 DEF Grown
      <3> HIDE DEF Has
      <3> QED
        BY <2>1, <2>4, <3>1
    <2> QED
      BY <2>3, <2>4
  <1>5. N \in T
    <2> HIDE DEF T
    <2> QED
      BY <1>2, <1>3, <1>4, Induction
  <1>6. Good(N)
    BY <1>2, <1>5
  <1>7. ASSUME NEW e \in Experiments, Due(s, e)
        PROVE  Has(f[N], e)
    <2>1. PICK j \in 1..N : Manifest[j] = e
      BY CampaignAssumption DEF Experiments
    <2> QED
      BY <1>6, <1>7, <2>1
  <1> QED
    BY <1>1, <1>6, <1>7

-----------------------------------------------------------------------------
(* The batches leave no row of a stage out.                                *)

\* What the process holds in memory.
Memory == [ options : Option, stage : Nat, cursor : Nat, pending : Seq(Experiments),
            index : Nat, batch : Seq(Experiments), failed : BOOLEAN, completed : Nat ]

\* Where the runner is, or will be when the write or the restart under way ends.
At == IF pc \in {"writing", "recycle", "restart"} THEN after ELSE pc

\* Within a batch.
AtBatch == {"row", "reset", "running", "validate", "checkpoint"}

\* No limit of the command line cuts this invocation short.
Unlimited == job.options.maxBatches = N /\ job.options.maxExperiments = N

\* Experiment e is among the pending ones after the first i; or left of the batch.
Ahead(e, i) == \E k \in (i + 1)..Len(job.pending) : job.pending[k] = e
InBatch(e) == \E k \in 1..Len(job.batch) : job.batch[k] = e

\* A row that is due is still ahead, in this batch or a later one, or one failed.
Covered(e) ==
    /\ At = "loop" => Ahead(e, job.index)
    /\ At \in AtBatch => job.failed \/ InBatch(e) \/ Ahead(e, job.index + BatchSize)
    /\ At = "stage_end" => job.failed

\* With no limits, every row of the stage that is due is covered.
StageInv ==
    /\ job \in Memory /\ Len(job.pending) <= N
    /\ At = "checkpoint" => job.batch = <<>>
    /\ Unlimited => \A e \in Experiments : Due(job.stage, e) => Covered(e)

\* Where no stage is worked on there is nothing to cover.
LEMMA StageIsOver ==
    ASSUME job' \in Memory, Len(job'.pending) <= N, At' \notin AtBatch \cup {"loop", "stage_end"}
    PROVE  StageInv'
  BY DEF StageInv, Covered, AtBatch

\* A process begins with nothing in memory.
LEMMA MemoryIsNew == NoJob \in Memory /\ NoJob.pending = <<>>
  BY CampaignAssumption DEF NoJob, NoOption, Memory, Option

\* The process stops, and has nothing to cover.
LEMMA StopIsOver ==
    ASSUME Stop
    PROVE  StageInv'
  BY StageIsOver, MemoryIsNew, CampaignAssumption DEF Stop, At, AtBatch

\* The runner goes on within a batch, or to where it was to go.
LEMMA StageGoesOn ==
    ASSUME StageInv, UNCHANGED <<job, status>>,
           \/ At' = At
           \/ At \in AtBatch /\ At' \in AtBatch \ {"checkpoint"}
    PROVE  StageInv'
  BY DEF StageInv, Covered, Unlimited, Due, Ahead, InBatch, Status, AtBatch

\* All that is due in the stage is ahead when it is begun.
LEMMA StageBegins ==
    ASSUME StageInv, SelectStage
    PROVE  StageInv'
  <1>1. PICK s \in OpenStages :
           /\ job' = [job EXCEPT !.stage = s, !.pending = Pending(s), !.index = 0]
           /\ pc' = "loop" /\ UNCHANGED <<after, status>>
    BY DEF SelectStage, GoOn
  <1>2. s \in Nat
    BY CampaignAssumption DEF OpenStages, StageInv, Memory, Option, Stages
  <1>3. /\ Pending(s) \in Seq(Experiments) /\ Len(Pending(s)) <= N
        /\ \A e \in Experiments : Due(s, e) => \E k \in 1..Len(Pending(s)) : Pending(s)[k] = e
    BY PendingIsAllDue
  <1>4. /\ job' \in Memory
        /\ job'.stage = s /\ job'.pending = Pending(s) /\ job'.index = 0
    BY <1>1, <1>2, <1>3 DEF StageInv, Memory
  <1>5. At' = "loop"
    BY <1>1 DEF At
  <1>6. ASSUME NEW e \in Experiments, Due(job.stage, e)'
        PROVE  Covered(e)'
    <2>1. Due(s, e)
      BY <1>1, <1>4, <1>6 DEF Due, Status
    <2>2. Ahead(e, job.index)'
      BY <1>3, <1>4, <2>1 DEF Ahead
    <2> QED
      BY <1>5, <2>2 DEF Covered, AtBatch
  <1> QED
    BY <1>3, <1>4, <1>5, <1>6 DEF StageInv

\* A row that is ahead is in the next batch, or ahead of it too.
LEMMA BatchBegins ==
    ASSUME StageInv, StartBatch
    PROVE  StageInv'
  <1> DEFINE limit == job.options.maxExperiments
             size == Smaller(BatchSize, limit - job.index)
             top == Smaller(Len(job.pending), job.index + size)
  <1>1. /\ job \in Memory /\ Len(job.pending) <= N
        /\ job' = [job EXCEPT !.batch = BatchRows, !.failed = FALSE]
        /\ pc = "loop" /\ pc' = "row" /\ UNCHANGED <<after, status>>
        /\ ~LoopIsOver
    BY DEF StageInv, StartBatch, GoOn
  <1>2. /\ job.pending \in Seq(Experiments) /\ job.index \in Nat /\ limit \in Nat
        /\ BatchSize \in Nat \ {0} /\ N \in Nat /\ Len(job.pending) \in Nat
    BY <1>1, CampaignAssumption DEF Memory, Option
  <1>3. /\ top \in Nat /\ top <= Len(job.pending) /\ job.index + 1 <= top
        /\ limit = N => top = Smaller(Len(job.pending), job.index + BatchSize)
    <2>1. job.index < Len(job.pending) /\ job.index < limit
      BY <1>1, <1>2 DEF LoopIsOver
    <2>2. /\ size \in Nat \ {0}
          /\ size = BatchSize \/ (size = limit - job.index /\ size <= BatchSize)
      BY <1>2, <2>1 DEF Smaller
    <2> HIDE DEF size
    <2>3. top \in Nat /\ top <= Len(job.pending) /\ job.index + 1 <= top
      BY <1>2, <2>1, <2>2 DEF Smaller
    <2>4. limit = N => top = Smaller(Len(job.pending), job.index + BatchSize)
      BY <1>1, <1>2, <2>1, <2>2 DEF Smaller
    <2> QED
      BY <2>3, <2>4
  <1>4. BatchRows = SubSeq(job.pending, job.index + 1, top)
    BY DEF BatchRows
  <1> HIDE DEF top, limit
  <1>5. /\ BatchRows \in Seq(Experiments) /\ Len(BatchRows) = top - job.index
        /\ \A k \in 1..(top - job.index) : BatchRows[k] = job.pending[job.index + k]
    <2>1. /\ SubSeq(job.pending, job.index + 1, top) \in Seq(Experiments)
          /\ Len(SubSeq(job.pending, job.index + 1, top)) = top - job.index
      BY <1>2, <1>3
    <2>2. ASSUME NEW k \in 1..(top - job.index)
          PROVE  SubSeq(job.pending, job.index + 1, top)[k] = job.pending[job.index + k]
      BY <1>2, <1>3
    <2> QED
      BY <1>4, <2>1, <2>2
  <1>6. /\ job' \in Memory /\ job'.batch = BatchRows /\ job'.pending = job.pending
        /\ job'.index = job.index /\ job'.stage = job.stage /\ job'.options = job.options
    BY <1>1, <1>5 DEF Memory
  <1>7. At = "loop" /\ At' = "row"
    BY <1>1 DEF At
  <1>8. ASSUME Unlimited, NEW e \in Experiments, Due(job.stage, e)
        PROVE  Covered(e)'
    <2>1. PICK k \in (job.index + 1)..Len(job.pending) : job.pending[k] = e
      BY <1>7, <1>8 DEF StageInv, Covered, Ahead
    <2>2. CASE k <= job.index + BatchSize
      <3>0. limit = N
        BY <1>8 DEF Unlimited, limit
      <3>1. k <= top
        BY <1>2, <1>3, <2>1, <2>2, <3>0 DEF Smaller
      <3>2. k - job.index \in 1..(top - job.index) /\ job.index + (k - job.index) = k
        BY <1>2, <1>3, <2>1, <3>1
      <3>3. k - job.index \in 1..Len(BatchRows) /\ BatchRows[k - job.index] = e
        BY <1>5, <2>1, <3>2
      <3> QED
        BY <1>6, <1>7, <3>3 DEF Covered, InBatch
    <2>3. CASE k > job.index + BatchSize
      BY <1>2, <1>6, <1>7, <2>1, <2>3 DEF Covered, Ahead
    <2> QED
      BY <1>2, <2>1, <2>2, <2>3
  <1>9. Unlimited' = Unlimited /\ \A e : Due(job.stage, e)' = Due(job.stage, e)
    BY <1>1, <1>6 DEF Unlimited, Due, Status
  <1> QED
    BY <1>1, <1>6, <1>7, <1>8, <1>9 DEF StageInv

\* The loop is only over with nothing ahead, if there are no limits.
LEMMA LoopIsDone ==
    ASSUME StageInv, LoopEnds
    PROVE  StageInv'
  <1>1. /\ pc = "loop" /\ pc' = "stage_end" /\ UNCHANGED <<after, status, job>>
        /\ At = "loop" /\ At' = "stage_end"
    BY DEF LoopEnds, GoOn, At
  <1>2. ASSUME Unlimited
        PROVE  job.index >= Len(job.pending)
    <2>1. /\ job.index \in Nat /\ Len(job.pending) \in Nat /\ Len(job.pending) <= N
          /\ N \in Nat /\ BatchSize \in Nat \ {0}
      BY CampaignAssumption DEF StageInv, Memory
    <2>2. job.index \div BatchSize <= job.index
      BY <2>1
    <2>3. job.index \div BatchSize \in Nat
      BY <2>1
    <2> QED
      BY <1>2, <2>1, <2>2, <2>3 DEF LoopEnds, LoopIsOver, Unlimited
  <1>3. ASSUME Unlimited, NEW e \in Experiments, Due(job.stage, e)
        PROVE  FALSE
    BY <1>1, <1>2, <1>3 DEF StageInv, Covered, Ahead, Memory
  <1>4. Unlimited' = Unlimited /\ \A e : Due(job.stage, e)' = Due(job.stage, e)
    BY <1>1 DEF Unlimited, Due, Status
  <1> QED
    BY <1>1, <1>3, <1>4 DEF StageInv

\* A row that is run is of the batch.
LEMMA RunBegins ==
    ASSUME StageInv, status \in Table, NEW e \in Experiments, BeginRun(e)
    PROVE  StageInv'
  <1>1. /\ pc = "row" /\ pc' = "writing" /\ after' = "reset" /\ job' = job
        /\ status' = Marked(e, "RUNNING") /\ At = "row" /\ At' = "reset"
        /\ job.batch # <<>> /\ e = Head(job.batch)
    BY DEF BeginRun, AtRow, Persist, At
  <1>2. InBatch(e)
    <2>1. job.batch \in Seq(Experiments)
      BY DEF StageInv, Memory
    <2>2. 1 \in 1..Len(job.batch) /\ job.batch[1] = e
      BY <1>1, <2>1
    <2> QED
      BY <2>2 DEF InBatch
  <1>3. ASSUME NEW d \in Experiments, d # e, Due(job.stage, d)'
        PROVE  Due(job.stage, d)
    BY <1>1, <1>3, MarkedIsATable DEF Due, Status, Entry
  <1>4. \A d \in Experiments : Covered(d) \/ d = e => Covered(d)'
    BY <1>1, <1>2 DEF Covered, AtBatch, InBatch, Ahead
  <1>5. Unlimited' = Unlimited
    BY <1>1 DEF Unlimited
  <1> QED
    BY <1>1, <1>3, <1>4, <1>5 DEF StageInv

\* Execute_one leaves a row complete, or the batch failed.
LEMMA RunSettles ==
    ASSUME StageInv, status \in Table, NEW e \in Experiments, Current(e),
           pc \in {"reset", "running", "validate"}, NEW s \in Entry, Settle(e, s)
    PROVE  StageInv'
  <1>1. /\ pc' = "writing" /\ after' = "row" /\ status' = Marked(e, s)
        /\ job' = [job EXCEPT !.batch = Tail(@), !.failed = @ \/ s # "COMPLETE"]
        /\ At \in AtBatch /\ At' = "row" /\ job.batch # <<>> /\ e = Head(job.batch)
    BY DEF Settle, Persist, At, AtBatch, Current
  <1>2. job \in Memory /\ job.batch \in Seq(Experiments)
    BY DEF StageInv, Memory
  <1>3. /\ Tail(job.batch) \in Seq(Experiments) /\ Len(Tail(job.batch)) = Len(job.batch) - 1
        /\ job.batch[1] = e
        /\ \A k \in 2..Len(job.batch) : Tail(job.batch)[k - 1] = job.batch[k]
    BY <1>1, <1>2
  <1>4. /\ job' \in Memory /\ job'.batch = Tail(job.batch) /\ job'.pending = job.pending
        /\ job'.index = job.index /\ job'.stage = job.stage /\ job'.options = job.options
    BY <1>1, <1>2, <1>3 DEF Memory
  <1>5. (job.failed \/ s # "COMPLETE") => job'.failed
    BY <1>1, <1>2, Zenon DEF Memory
  <1>6. ASSUME Unlimited, NEW d \in Experiments, Due(job.stage, d)'
        PROVE  Covered(d)'
    <2>1. CASE d = e
      <3>1. s # "COMPLETE"
        BY <1>1, <1>6, <2>1, MarkedIsATable DEF Due, Status
      <3> QED
        BY <1>1, <1>5, <3>1 DEF Covered
    <2>2. CASE d # e
      <3>1. Due(job.stage, d)
        BY <1>1, <1>4, <1>6, <2>2, MarkedIsATable DEF Due, Status
      <3>2. job.failed \/ InBatch(d) \/ Ahead(d, job.index + BatchSize)
        BY <1>1, <1>6, <3>1 DEF StageInv, Covered
      <3>3. InBatch(d) => InBatch(d)'
        <4> SUFFICES ASSUME InBatch(d) PROVE InBatch(d)'
          OBVIOUS
        <4>1. PICK k \in 1..Len(job.batch) : job.batch[k] = d
          BY DEF InBatch
        <4>2. k \in 2..Len(job.batch)
          BY <1>2, <1>3, <2>2, <4>1
        <4>3. k - 1 \in 1..Len(Tail(job.batch)) /\ Tail(job.batch)[k - 1] = d
          BY <1>2, <1>3, <4>1, <4>2
        <4> QED
          BY <1>4, <4>3 DEF InBatch
      <3>4. Ahead(d, job.index + BatchSize) => Ahead(d, job.index + BatchSize)'
        BY <1>4 DEF Ahead
      <3> QED
        BY <1>1, <1>5, <3>2, <3>3, <3>4 DEF Covered
    <2> QED
      BY <2>1, <2>2
  <1>7. Unlimited' = Unlimited
    BY <1>4 DEF Unlimited
  <1> QED
    BY <1>1, <1>4, <1>6, <1>7 DEF StageInv

\* A batch that did not fail leaves what is due to the batches after it.
LEMMA BatchIsDone ==
    ASSUME StageInv, AfterBatch
    PROVE  StageInv'
  <1> DEFINE sum == job.completed + Len(BatchRows)
  <1>1. /\ pc = "checkpoint" /\ At = "checkpoint" /\ job.batch = <<>> /\ status' = status
        /\ job \in Memory /\ Len(job.pending) <= N
    BY DEF AfterBatch, StageInv, At, GoOn, Recycle
  <1>2. CASE job.failed /\ GoOn("stage_end", job)
    <2>1. job' = job /\ At' = "stage_end"
      BY <1>2 DEF GoOn, At
    <2> QED
      BY <1>1, <1>2, <2>1 DEF StageInv, Covered, AtBatch
  <1>3. CASE /\ ~job.failed
             /\ \E x \in Nat : job' = [job EXCEPT !.index = @ + BatchSize, !.completed = x]
             /\ At' = "loop"
    <2>1. /\ job' \in Memory /\ job'.index = job.index + BatchSize
          /\ job'.pending = job.pending /\ job'.stage = job.stage /\ job'.options = job.options
      <3>1. PICK x \in Nat : job' = [job EXCEPT !.index = @ + BatchSize, !.completed = x]
        BY <1>3
      <3>2. job.index \in Nat /\ job.index + BatchSize \in Nat
        BY <1>1, CampaignAssumption DEF Memory
      <3> QED
        BY <1>1, <3>1, <3>2 DEF Memory
    <2>2. ASSUME Unlimited, NEW e \in Experiments, Due(job.stage, e)
          PROVE  Ahead(e, job.index + BatchSize)
      <3>1. ~InBatch(e)
        BY <1>1 DEF InBatch
      <3> QED
        BY <1>1, <1>3, <2>2, <3>1 DEF StageInv, Covered, AtBatch
    <2>3. \A e : Due(job.stage, e)' = Due(job.stage, e)
      BY <1>1, <2>1 DEF Due, Status
    <2>4. Unlimited' = Unlimited
      BY <2>1 DEF Unlimited
    <2>5. \A e : Ahead(e, job.index + BatchSize) => Ahead(e, job.index)'
      BY <2>1 DEF Ahead
    <2> QED
      BY <1>1, <1>3, <2>1, <2>2, <2>3, <2>4, <2>5 DEF StageInv, Covered, AtBatch
  <1>4. BatchRows \in Seq(Experiments)
    BY <1>1, CampaignAssumption DEF BatchRows, Memory, Option, Smaller
  <1>5. sum \in Nat
    BY <1>1, <1>4 DEF Memory
  <1>6. CASE ~job.failed /\ sum < RecycleEvery
             /\ GoOn("loop", [[job EXCEPT !.index = @ + BatchSize] EXCEPT !.completed = sum])
    <2>1. [[job EXCEPT !.index = @ + BatchSize] EXCEPT !.completed = sum]
             = [job EXCEPT !.index = @ + BatchSize, !.completed = sum]
      OBVIOUS
    <2>2. At' = "loop" /\ job' = [job EXCEPT !.index = @ + BatchSize, !.completed = sum]
      BY <1>6, <2>1 DEF GoOn, At
    <2> QED
      BY <1>3, <1>5, <1>6, <2>2
  <1>7. CASE ~job.failed
             /\ Recycle([[job EXCEPT !.index = @ + BatchSize] EXCEPT !.completed = 0], "loop")
    <2>1. At' = "loop" /\ job' = [job EXCEPT !.index = @ + BatchSize, !.completed = 0]
      BY <1>7 DEF Recycle, At
    <2> QED
      BY <1>3, <1>7, <2>1
  <1> QED
    BY <1>2, <1>6, <1>7 DEF AfterBatch

\* One row of the batch, from its head to its outcome.
LEMMA RowKeepsStage ==
    ASSUME IInv, StageInv, NEW e \in Experiments, RunRow(e)
    PROVE  StageInv'
  <1>0. status \in Table
    BY DEF IInv, Typed
  <1>1. CASE BeginRun(e)
    BY <1>0, <1>1, RunBegins
  <1>2. CASE AttemptsUnreadable(e)
    BY <1>2, StopIsOver DEF AttemptsUnreadable
  <1>3. CASE MakeRunDir(e) \/ RunProducesValid(e) \/ RunProducesInvalid(e)
    BY <1>3, StageGoesOn DEF MakeRunDir, RunProducesValid, RunProducesInvalid, GoOn, At, AtBatch
  <1>4. CASE RunRaises(e) \/ Validate(e)
    <2>1. PICK s \in {"INFRA_RETRY", "FAILED_BLOCKED", "COMPLETE", "INVALIDATED"} : Settle(e, s)
      BY <1>4 DEF RunRaises, Validate
    <2>2. s \in Entry /\ Current(e) /\ pc \in {"reset", "running", "validate"}
      BY <1>4 DEF RunRaises, Validate, Entry, Outcome
    <2> QED
      BY <1>0, <2>1, <2>2, RunSettles
  <1>5. CASE RunInterrupted(e)
    <2>1. job' = job /\ At' = "off"
      BY <1>5 DEF RunInterrupted, Persist, At
    <2> QED
      BY <2>1, StageIsOver DEF StageInv, AtBatch
  <1> QED
    BY <1>1, <1>2, <1>3, <1>4, <1>5 DEF RunRow

\* No step leaves a row of the stage out.
LEMMA StageKeeps ==
    ASSUME IInv, Returns, StageInv, [Next]_vars
    PROVE  StageInv'
  <1>0. job \in Memory /\ Len(job.pending) <= N
    BY DEF StageInv
  <1>1. ASSUME NEW options \in Options, Start(options)
        PROVE  StageInv'
    <2>1. /\ job' = [NoJob EXCEPT !.options = options, !.cursor = 1]
          /\ At' = "reconcile" /\ options \in Option
      BY <1>1, CampaignAssumption DEF Start, Persist, At
    <2>2. job' \in Memory /\ job'.pending = <<>>
      BY <2>1, MemoryIsNew DEF Memory
    <2> QED
      BY <2>1, <2>2, StageIsOver, CampaignAssumption DEF AtBatch
  <1>2. CASE WriteEnds
    <2>1. CASE after = "off"
      BY <1>2, <2>1, StopIsOver DEF WriteEnds
    <2>2. CASE after # "off"
      BY <1>2, <2>2, StageGoesOn DEF WriteEnds, GoOn, At, Returns
    <2> QED
      BY <2>1, <2>2
  <1>3. CASE ReconcileRow
    <2>1. job' = [job EXCEPT !.cursor = @ + 1] /\ At' = "reconcile"
      BY <1>3 DEF ReconcileRow, At
    <2>2. job' \in Memory /\ job'.pending = job.pending
      BY <1>0, <2>1 DEF Memory
    <2> QED
      BY <1>0, <2>1, <2>2, StageIsOver DEF AtBatch
  <1>4. CASE ReconcileEnds \/ NoStageLeft \/ StageEnds
    <2>1. Stop \/ (job' = job /\ At' \in {"off", "select", "finalize"})
      BY <1>4 DEF ReconcileEnds, NoStageLeft, StageEnds, Persist, GoOn, Recycle, At, AtEnd
    <2> QED
      BY <1>0, <2>1, StopIsOver, StageIsOver DEF AtBatch
  <1>5. CASE SelectStage \/ StartBatch \/ LoopEnds \/ AfterBatch
    BY <1>5, StageBegins, BatchBegins, LoopIsDone, BatchIsDone
  <1>6. ASSUME NEW e \in Experiments, RunRow(e)
        PROVE  StageInv'
    BY <1>6, RowKeepsStage
  <1>7. CASE BatchEnds
    <2>1. /\ UNCHANGED <<status, job>> /\ At = "row" /\ At' = "checkpoint"
          /\ job.batch = <<>>
      BY <1>7 DEF BatchEnds, Persist, At
    <2> QED
      BY <2>1 DEF StageInv, Covered, Unlimited, Due, Ahead, InBatch, Status, AtBatch
  <1>8. CASE StopServices \/ ServicesUp
    <2>1. Stop \/ (UNCHANGED <<status, job>> /\ At' = At)
      BY <1>8 DEF StopServices, ServicesUp, GoOn, At, Returns
    <2> QED
      BY <2>1, StopIsOver, StageGoesOn
  <1>9. CASE WriteDataset \/ WriteTransitionAudit \/ WriteOwnershipAudit \/ WriteObserverAudit
    <2>1. Stop \/ (job' = job /\ At' \in {"transitions", "ownership", "observer"})
      BY <1>9 DEF WriteDataset, WriteTransitionAudit, WriteOwnershipAudit, WriteObserverAudit,
         GoOn, At
    <2> QED
      BY <1>0, <2>1, StopIsOver, StageIsOver DEF AtBatch
  <1>10. CASE RestoreServices \/ UNCHANGED vars
    BY <1>10, StageGoesOn DEF RestoreServices, vars, At
  <1>11. CASE Crash
    BY <1>11, StopIsOver DEF Crash
  <1> QED
    BY <1>1, <1>2, <1>3, <1>4, <1>5, <1>6, <1>7, <1>8, <1>9, <1>10, <1>11 DEF Next, Step

\* An invocation that no limit and no failed batch cut short has completed its
\* stage, for every manifest and every size of a batch (execute_manifest).
THEOREM StagesAreExhausted == Spec => []StageIsExhausted
  <1>1. Init => StageInv
    BY StageIsOver, MemoryIsNew, CampaignAssumption DEF Init, StageInv, At, AtBatch, Covered
  <1>2. IInv /\ Returns /\ StageInv /\ [Next]_vars => StageInv'
    BY StageKeeps
  <1>3. StageInv => StageIsExhausted
    BY DEF StageInv, StageIsExhausted, At, Unlimited, Due, Covered, AtBatch
  <1>4. CampaignInv => IInv /\ Returns
    BY DEF CampaignInv
  <1> QED
    BY <1>1, <1>2, <1>3, <1>4, CampaignInvariant, PTL DEF Spec

=============================================================================
