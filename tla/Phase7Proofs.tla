---------------------------- MODULE Phase7Proofs ----------------------------
(***************************************************************************)
(* Theorems about phase 7.  What it publishes: for every manifest, every   *)
(* set of command lines of either program, any number of crashes of both,  *)
(* within a write of the status file too.  What it computes: for samples   *)
(* and families of any size, and a matrix of any seeds.                    *)
(***************************************************************************)
EXTENDS MCPhase7, Phase6Proofs, FiniteSetTheorems, SequenceTheorems

\* A table with a COMPLETE row that is cut off, other than its last row, has rows
\* that are not COMPLETE.
CutIsSeen(t) ==
    (\E e \in Experiments : e # N /\ t.rows[e] = "CUT") =>
        \E e \in Experiments : t.rows[e] \notin ReadsComplete

NothingCut(t) == \A e \in Experiments : t.rows[e] # "CUT"

\* A row that was cut off is in the table in memory only until it is reconciled;
\* what is written in the meantime has rows that are not COMPLETE.
CutInv ==
    /\ CutIsSeen(file)
    /\ pc = "writing" => CutIsSeen(status)
    /\ pc = "writing" /\ after = "reconcile" => job.cursor = 1
    /\ pc = "reconcile" =>
          /\ job.cursor \in Nat
          /\ \A i \in Experiments : i < job.cursor => status.rows[Manifest[i]] # "CUT"
    /\ pc \notin {"off", "reconcile"} /\ ~(pc = "writing" /\ after = "reconcile") => NothingCut(status)

\* When no stage is named, every audit is of the whole manifest.
AuditsInv ==
    /\ audits \in Audits
    /\ NoStageNamed =>
          /\ pc \in {"transitions", "ownership"} => AllComplete
          /\ \A a \in audits.transitions \cup audits.ownership : a = Experiments

RunnerInv == CampaignInv /\ CutInv /\ AuditsInv

Covers(a, d) ==
    NoStageNamed => /\ \E x \in a.transitions : d \subseteq x
                    /\ \E x \in a.ownership : d \subseteq x

\* What phase 7 has read, written and is about to export.
ReaderInv ==
    /\ reader = "extract" => \A e \in Experiments :
          /\ table.rows[e] = "COMPLETE" => FindValidRun(e)
          /\ e # N => table.rows[e] = "COMPLETE"
    /\ \A d \in published : d \subseteq Experiments
    /\ reader = "audits" => published = {rows}
    /\ mode = "all" /\ reader \in {"analyze", "export"} =>
          published # {} /\ audited.observer /\ \A d \in published : Covers(audited, d)
    /\ mode = "all" /\ reader = "export" => tables = published

IInv7 == RunnerInv /\ ReaderInv /\ PublishedIsWholeButTheLast /\ BundleIsOfOnePiece

-----------------------------------------------------------------------------
\* The status file.

LEMMA ExperimentNumbers ==
    /\ N \in Nat /\ N \in Experiments
    /\ \A e \in Experiments : e \in Nat /\ e <= N
    /\ \A i \in Experiments : Manifest[i] \in Experiments
<1>1. N \in Nat /\ N # 0 /\ Manifest \in [Experiments -> Experiments]
  BY CampaignAssumption
<1> QED
  BY <1>1 DEF Experiments

LEMMA TornIsSeen ==
    ASSUME NEW t \in Table, CutIsSeen(t), NEW f \in Torn(t)
    PROVE  CutIsSeen(f)
<1>0. PICK c \in Experiments : f \in { Prefix(t, c, x, b) : x \in Left(t.rows[c]), b \in BOOLEAN }
  BY DEF Torn
<1>1. PICK x \in Left(t.rows[c]), b \in BOOLEAN : f = Prefix(t, c, x, b)
  BY <1>0
<1>2. \A e \in Experiments :
         f.rows[e] = IF e < c THEN t.rows[e] ELSE IF e = c THEN x ELSE "ABSENT"
  <2>1. \A e \in Experiments : e < c => e # c
    BY ExperimentNumbers
  <2> QED
    BY <1>1, <2>1 DEF Prefix
<1> SUFFICES ASSUME NEW e \in Experiments, e # N, f.rows[e] = "CUT"
             PROVE  \E d \in Experiments : f.rows[d] \notin ReadsComplete
  BY DEF CutIsSeen
<1>3. N \in Experiments /\ \A d \in Experiments : d # N => d < N
  BY ExperimentNumbers
<1>4. CASE c # N
  <2>1. f.rows[N] = "ABSENT"
    BY <1>2, <1>3, <1>4 DEF Experiments
  <2> QED
    BY <1>3, <2>1 DEF ReadsComplete
<1>5. CASE c = N
  <2>1. t.rows[e] = "CUT"
    BY <1>2, <1>3, <1>5
  <2>2. PICK d \in Experiments : t.rows[d] \notin ReadsComplete
    BY <2>1 DEF CutIsSeen
  <2>3. CASE d # N
    BY <1>2, <1>3, <1>5, <2>2, <2>3
  <2>4. CASE d = N
    <3>1. x \in {t.rows[N], "ABSENT", "GARBLED"}
      BY <1>1, <1>5, <2>2, <2>4 DEF Left
    <3>2. f.rows[N] = x
      BY <1>2, <1>3, <1>5, ExperimentNumbers
    <3> QED
      BY <1>3, <2>2, <2>4, <3>1, <3>2 DEF ReadsComplete
  <2> QED
    BY <2>3, <2>4
<1> QED
  BY <1>4, <1>5

LEMMA EmptyIsSeen == CutIsSeen(Empty) /\ NothingCut(Empty)
  BY DEF Empty, CutIsSeen, NothingCut

LEMMA NothingCutIsSeen == ASSUME NEW t, NothingCut(t) PROVE CutIsSeen(t)
  BY DEF NothingCut, CutIsSeen

LEMMA StopIsSeen ==
    ASSUME Stop, CutIsSeen(file')
    PROVE  CutInv'
  BY DEF Stop, CutInv, CutIsSeen

\* A step of the process between two writes, when it has reconciled.
LEMMA QuietIsSeen ==
    ASSUME CutInv, UNCHANGED <<file, status>>,
           pc \notin {"off", "reconcile", "writing"}, pc' \notin {"off", "reconcile", "writing"}
    PROVE  CutInv'
  BY DEF CutInv, CutIsSeen, NothingCut

LEMMA PersistIsSeen ==
    ASSUME NEW t, NEW j, NEW k, Persist(t, j, k), NothingCut(t), k # "reconcile"
    PROVE  CutInv'
  BY EmptyIsSeen, NothingCutIsSeen DEF Persist, CutInv, CutIsSeen, NothingCut

LEMMA MarkedIsNotCut ==
    ASSUME status \in Table, NothingCut(status), NEW e \in Experiments, NEW s \in Entry, s # "CUT"
    PROVE  NothingCut(Marked(e, s))
  BY MarkedIsATable DEF NothingCut

LEMMA StartIsSeen ==
    ASSUME IInv, CutInv, NEW options, Start(options)
    PROVE  CutInv'
<1> DEFINE t == [ rows  |-> [e \in Experiments |->
                               IF file.rows[e] = "ABSENT" THEN "PENDING" ELSE file.rows[e]],
                  extra |-> file.extra ]
<1>1. Persist(t, [NoJob EXCEPT !.options = options, !.cursor = 1], "reconcile")
  BY DEF Start
<1>2. CutIsSeen(t)
  BY DEF CutInv, CutIsSeen, ReadsComplete
<1>3. job'.cursor = 1
  BY <1>1 DEF Persist, NoJob
<1> HIDE DEF t
<1> QED
  BY <1>1, <1>2, <1>3, EmptyIsSeen DEF Persist, CutInv, CutIsSeen

LEMMA ReconcileIsSeen ==
    ASSUME IInv, IsJob(job), CutInv, ReconcileRow \/ ReconcileEnds
    PROVE  CutInv'
<1> USE DEF IInv, Typed
<1>1. CASE ReconcileRow
  <2>1. PICK e \in Experiments : e = Manifest[job.cursor] /\ status' = Marked(e, Reconciled(e))
    BY <1>1 DEF ReconcileRow
  <2>2. Reconciled(e) \in Entry /\ Reconciled(e) # "CUT"
    <3>1. Status(e) \in Entry
      BY DEF Status, Table
    <3> QED
      BY <3>1 DEF Reconciled, Entry, Outcome, ReadsComplete
  <2>3. \A d \in Experiments : status'.rows[d] = IF d = e THEN Reconciled(e) ELSE status.rows[d]
    BY <2>1, <2>2, MarkedIsATable
  <2>4. job.cursor \in Nat /\ job'.cursor = job.cursor + 1
    BY <1>1 DEF CutInv, IsJob, ReconcileRow
  <2>5. \A i \in Experiments : i < job'.cursor => status'.rows[Manifest[i]] # "CUT"
    <3> SUFFICES ASSUME NEW i \in Experiments, i < job.cursor + 1
                 PROVE  status'.rows[Manifest[i]] # "CUT"
      BY <2>4
    <3>1. i \in Nat /\ Manifest[i] \in Experiments
      BY ExperimentNumbers
    <3>2. CASE i = job.cursor
      BY <3>1, <3>2, <2>1, <2>2, <2>3
    <3>3. CASE i < job.cursor
      BY <3>1, <3>3, <2>2, <2>3, <1>1 DEF CutInv, ReconcileRow
    <3> QED
      BY <2>4, <3>1, <3>2, <3>3
  <2>6. pc' = "reconcile" /\ file' = file /\ pc = "reconcile" /\ job'.cursor \in Nat
    BY <1>1, <2>4 DEF ReconcileRow
  <2> QED
    BY <2>5, <2>6 DEF CutInv, CutIsSeen
<1>2. CASE ReconcileEnds
  <2>1. \A i \in Experiments : i < job.cursor
    <3>1. job.cursor \in Nat /\ job.cursor > N
      BY <1>2 DEF CutInv, ReconcileEnds
    <3> QED
      BY <3>1, ExperimentNumbers
  <2>2. NothingCut(status)
    BY <1>2, <2>1, CampaignAssumption DEF CutInv, ReconcileEnds, NothingCut
  <2> QED
    BY <1>2, <2>2, PersistIsSeen DEF ReconcileEnds
<1> QED
  BY <1>1, <1>2

LEMMA RunRowIsSeen ==
    ASSUME IInv, CutInv, NEW e \in Experiments, RunRow(e)
    PROVE  CutInv'
<1> USE DEF IInv, Typed
<1>1. pc \in {"row", "reset", "running", "validate"} /\ NothingCut(status)
  BY DEF RunRow, BeginRun, AtRow, AttemptsUnreadable, MakeRunDir, RunRaises, RunInterrupted,
     RunProducesValid, RunProducesInvalid, Validate, CutInv
<1>2. ASSUME NEW s \in Entry, s # "CUT", NEW j, NEW k, k # "reconcile", Persist(Marked(e, s), j, k)
      PROVE  CutInv'
  BY <1>1, <1>2, MarkedIsNotCut, PersistIsSeen
<1>3. CASE BeginRun(e)
  BY <1>2, <1>3 DEF BeginRun, Entry
<1>4. CASE AttemptsUnreadable(e)
  BY <1>4, StopIsSeen DEF AttemptsUnreadable, CutInv
<1>5. CASE MakeRunDir(e) \/ RunProducesValid(e) \/ RunProducesInvalid(e)
  BY <1>1, <1>5, QuietIsSeen DEF MakeRunDir, RunProducesValid, RunProducesInvalid, GoOn
<1>6. CASE RunRaises(e) \/ Validate(e)
  <2>1. PICK s \in Outcome : Settle(e, s)
    BY <1>6 DEF RunRaises, Validate, Outcome
  <2> QED
    BY <2>1, <1>2 DEF Settle, Outcome, Entry
<1>7. CASE RunInterrupted(e)
  BY <1>1, <1>7, PersistIsSeen DEF RunInterrupted
<1> QED
  BY <1>3, <1>4, <1>5, <1>6, <1>7 DEF RunRow

LEMMA CutKeeps ==
    ASSUME IInv, Returns, IsJob(job), CutInv, [Next]_vars
    PROVE  CutInv'
<1> USE DEF IInv, Typed
<1>1. CASE WriteEnds
  <2>1. file' = status /\ CutIsSeen(file')
    BY <1>1 DEF WriteEnds, CutInv
  <2>2. CASE after = "off"
    BY <1>1, <2>1, <2>2, StopIsSeen DEF WriteEnds
  <2>3. CASE after = "reconcile"
    <3>1. pc' = "reconcile" /\ job'.cursor = 1
      BY <1>1, <2>3 DEF WriteEnds, GoOn, CutInv
    <3>2. \A i \in Experiments : ~(i < 1)
      BY DEF Experiments
    <3> QED
      BY <2>1, <3>1, <3>2 DEF CutInv
  <2>4. CASE after \in {"select", "reset", "row", "checkpoint"}
    BY <1>1, <2>1, <2>4 DEF WriteEnds, GoOn, CutInv, NothingCut
  <2> QED
    BY <1>1, <2>2, <2>3, <2>4 DEF WriteEnds, Returns
<1>2. CASE \/ NoStageLeft \/ SelectStage \/ StartBatch \/ LoopEnds \/ StopServices \/ WriteDataset
           \/ WriteTransitionAudit \/ WriteOwnershipAudit
  BY <1>2, QuietIsSeen DEF NoStageLeft, SelectStage, StartBatch, LoopEnds, StopServices,
     WriteDataset, WriteTransitionAudit, WriteOwnershipAudit, GoOn
<1>3. CASE AfterBatch
  BY <1>3, QuietIsSeen DEF AfterBatch, GoOn, Recycle
<1>4. CASE BatchEnds
  BY <1>4, PersistIsSeen DEF BatchEnds, CutInv
<1>5. CASE ServicesUp
  BY <1>5, StopIsSeen, QuietIsSeen DEF ServicesUp, GoOn, CutInv, Returns
<1>6. CASE StageEnds
  BY <1>6, StopIsSeen, QuietIsSeen DEF StageEnds, Recycle, CutInv
<1>7. CASE WriteObserverAudit
  BY <1>7, StopIsSeen DEF WriteObserverAudit, CutInv
<1>8. CASE Crash
  <2>1. CutIsSeen(file')
    BY <1>8, TornIsSeen DEF Crash, CutInv
  <2> QED
    BY <1>8, <2>1, StopIsSeen DEF Crash
<1>9. CASE RestoreServices \/ UNCHANGED vars
  BY <1>9 DEF RestoreServices, vars, CutInv, CutIsSeen, NothingCut
<1> QED
  BY <1>1, <1>2, <1>3, <1>4, <1>5, <1>6, <1>7, <1>8, <1>9, StartIsSeen, ReconcileIsSeen,
     RunRowIsSeen DEF Next, Step

-----------------------------------------------------------------------------
\* The audits of phase 6.

LEMMA AuditsKeep ==
    ASSUME IInv, Returns, IsJob(job), WholeInv, AuditsInv, [Next]_vars
    PROVE  AuditsInv'
<1> USE DEF IInv, Typed
<1>1. audits' \in Audits
  <2>1. {DatasetRows} \in SUBSET SUBSET Experiments /\ audits \in Audits
    BY DEF DatasetRows, AuditsInv
  <2>2. CASE WriteTransitionAudit \/ WriteOwnershipAudit \/ WriteObserverAudit
    <3>1. \A x \in SUBSET SUBSET Experiments :
             /\ [audits EXCEPT !.transitions = x] \in Audits
             /\ [audits EXCEPT !.ownership = x] \in Audits
             /\ [audits EXCEPT !.observer = TRUE] \in Audits
      BY <2>1 DEF Audits
    <3> HIDE DEF IInv, Typed
    <3> QED
      BY <2>1, <2>2, <3>1 DEF WriteTransitionAudit, WriteOwnershipAudit, WriteObserverAudit
  <2>3. audits' = audits \/ WriteTransitionAudit \/ WriteOwnershipAudit \/ WriteObserverAudit
    BY DEF Next, Step, Start, WriteEnds, ReconcileRow, ReconcileEnds, NoStageLeft, SelectStage,
       StartBatch, LoopEnds, BatchEnds, AfterBatch, StopServices, ServicesUp, StageEnds,
       WriteDataset, Crash, RestoreServices, RunRow, BeginRun, AttemptsUnreadable, MakeRunDir,
       RunRaises, RunInterrupted, RunProducesValid, RunProducesInvalid, Validate, outputs, vars
  <2> QED
    BY <2>2, <2>3 DEF AuditsInv
<1> SUFFICES ASSUME NoStageNamed
             PROVE  /\ pc' \in {"transitions", "ownership"} => AllComplete'
                    /\ \A a \in audits'.transitions \cup audits'.ownership : a = Experiments
  BY <1>1 DEF AuditsInv, NoStageNamed
<1>2. ASSUME AllComplete PROVE DatasetRows = Experiments
  BY <1>2 DEF DatasetRows, AllComplete
<1>0. AboutToWrite => AllComplete
  BY CoveredIsWhole DEF WholeInv, DatasetRows, AllComplete
<1>3. CASE WriteDataset
  BY <1>0, <1>3 DEF WriteDataset, AboutToWrite, GoOn, AllComplete, Status, AuditsInv
<1>4. CASE WriteTransitionAudit
  <2>1. AllComplete /\ audits'.transitions = {DatasetRows} /\ audits'.ownership = audits.ownership
    BY <1>4 DEF WriteTransitionAudit, AuditsInv, Audits
  <2>2. AllComplete'
    BY <1>4, <2>1 DEF WriteTransitionAudit, GoOn, AllComplete, Status
  <2> QED
    BY <1>2, <2>1, <2>2 DEF AuditsInv
<1>5. CASE WriteOwnershipAudit
  <2>1. AllComplete /\ audits'.ownership = {DatasetRows} /\ audits'.transitions = audits.transitions
    BY <1>5 DEF WriteOwnershipAudit, AuditsInv, Audits
  <2>2. pc' = "observer"
    BY <1>5 DEF WriteOwnershipAudit, GoOn
  <2> QED
    BY <1>2, <2>1, <2>2 DEF AuditsInv
<1>6. CASE WriteObserverAudit
  <2>1. audits'.ownership = audits.ownership /\ audits'.transitions = audits.transitions
    BY <1>6 DEF WriteObserverAudit, AuditsInv, Audits
  <2> QED
    BY <1>6, <2>1 DEF WriteObserverAudit, Stop, AuditsInv
<1>7. CASE UNCHANGED vars \/ RestoreServices
  BY <1>7 DEF vars, RestoreServices, AllComplete, Status, AuditsInv, outputs
<1>8. ASSUME pc' \notin {"transitions", "ownership"}, audits' = audits
      PROVE  /\ pc' \in {"transitions", "ownership"} => AllComplete'
             /\ \A a \in audits'.transitions \cup audits'.ownership : a = Experiments
  BY <1>8 DEF AuditsInv
<1>9. CASE \/ \E options \in Options : Start(options)
           \/ ReconcileEnds \/ BatchEnds \/ \E e \in Experiments : RunRow(e)
  BY <1>8, <1>9 DEF Start, ReconcileEnds, BatchEnds, RunRow, BeginRun, AttemptsUnreadable,
     MakeRunDir, RunRaises, RunInterrupted, RunProducesValid, RunProducesInvalid, Validate, Settle,
     Persist, Stop, GoOn, outputs
<1>10. CASE WriteEnds \/ ServicesUp
  BY <1>8, <1>10 DEF WriteEnds, ServicesUp, Stop, GoOn, Returns, outputs
<1>11. CASE \/ ReconcileRow \/ NoStageLeft \/ SelectStage \/ StartBatch \/ LoopEnds \/ AfterBatch
            \/ StopServices \/ StageEnds \/ Crash
  BY <1>8, <1>11 DEF ReconcileRow, NoStageLeft, SelectStage, StartBatch, LoopEnds, AfterBatch,
     StopServices, StageEnds, Crash, Recycle, Stop, GoOn, outputs
<1> QED
  BY <1>3, <1>4, <1>5, <1>6, <1>7, <1>9, <1>10, <1>11 DEF Next, Step

LEMMA RunnerKeeps == RunnerInv /\ [Next]_vars => RunnerInv'
<1> SUFFICES ASSUME RunnerInv, [Next]_vars PROVE RunnerInv'
  OBVIOUS
<1> USE DEF RunnerInv, CampaignInv
<1>1. IInv' /\ Returns' /\ OnceInv' /\ IsJob(job)' /\ ServicesInv'
  BY NextKeeps, ReturnsKeeps, OnceKeeps, JobStep, ServicesKeep
<1>2. WholeInv' /\ KnownInv'
  BY WholeKeeps, KnownKeeps
<1>3. CutInv' /\ AuditsInv'
  BY CutKeeps, AuditsKeep
<1> QED
  BY <1>1, <1>2, <1>3

-----------------------------------------------------------------------------
\* Phase 7.

\* A valid run stays one, whoever takes a step.
LEMMA ValidStays ==
    ASSUME RunnerInv, [Next]_vars
    PROVE  \A e \in Experiments : FindValidRun(e) => FindValidRun(e)'
<1> TAKE e \in Experiments
<1>1. runs'[e].valid >= runs[e].valid
  BY ValidIsKept DEF RunnerInv, CampaignInv
<1>2. runs[e].valid \in Nat /\ runs'[e].valid \in Nat
  BY RunnerKeeps DEF RunnerInv, CampaignInv, IInv, Typed, RunDirs
<1> QED
  BY <1>1, <1>2 DEF FindValidRun

\* What phase 7 may read is typed and truthful, and passes its audit only when
\* nothing but its last row is cut off.
LEMMA ReadableIsTruthful ==
    ASSUME RunnerInv, NEW t \in Readable, PassesAudit(t)
    PROVE  /\ \A e \in Experiments : t.rows[e] = "COMPLETE" => FindValidRun(e)
           /\ \A e \in Experiments : e # N => t.rows[e] = "COMPLETE"
<1> USE DEF RunnerInv, CampaignInv, IInv, Typed
<1>1. t \in Table /\ Truthful(t) /\ CutIsSeen(t)
  <2>1. CASE pc = "writing" /\ t \in Torn(status)
    BY <2>1, TornIsTruthful, TornIsSeen DEF CutInv
  <2>2. CASE t = Empty
    BY <2>2, EmptyIsTruthful, EmptyIsSeen
  <2>3. CASE t = file
    BY <2>3 DEF CutInv
  <2> QED
    BY <2>1, <2>2, <2>3 DEF Readable
<1> QED
  BY <1>1 DEF Truthful, ReadsComplete, PassesAudit, CutIsSeen

\* A step of phase 6 leaves phase 7 what it has.
LEMMA RunnerStepKeeps ==
    ASSUME IInv7, [Next]_vars, UNCHANGED vars7
    PROVE  IInv7'
<1>1. RunnerInv' /\ \A e \in Experiments : FindValidRun(e) => FindValidRun(e)'
  BY RunnerKeeps, ValidStays DEF IInv7
<1>2. ReaderInv'
  BY <1>1 DEF IInv7, ReaderInv, vars7, Covers, NoStageNamed
<1>3. PublishedIsWholeButTheLast'
  BY <1>1 DEF IInv7, ReaderInv, vars7, PublishedIsWholeButTheLast
<1>4. BundleIsOfOnePiece'
  BY DEF IInv7, vars7, BundleIsOfOnePiece
<1> QED
  BY <1>1, <1>2, <1>3, <1>4 DEF IInv7

\* A step of phase 7 leaves phase 6 what it has.
LEMMA RunnerStays ==
    ASSUME RunnerInv, UNCHANGED vars
    PROVE  RunnerInv' /\ \A e : FindValidRun(e)' = FindValidRun(e)
  BY RunnerKeeps DEF vars, FindValidRun

LEMMA LoadKeeps ==
    ASSUME IInv7, UNCHANGED vars, NEW m \in Modes, Load(m)
    PROVE  IInv7'
<1>1. RunnerInv' /\ \A e : FindValidRun(e)' = FindValidRun(e)
  BY RunnerStays DEF IInv7
<1>2. /\ \A e \in Experiments : table'.rows[e] = "COMPLETE" => FindValidRun(e)
      /\ \A e \in Experiments : e # N => table'.rows[e] = "COMPLETE"
  BY ReadableIsTruthful DEF Load, IInv7
<1>3. ReaderInv'
  BY <1>1, <1>2 DEF Load, Start7, IInv7, ReaderInv
<1>4. PublishedIsWholeButTheLast' /\ BundleIsOfOnePiece'
  BY <1>1 DEF Load, IInv7, ReaderInv, PublishedIsWholeButTheLast, BundleIsOfOnePiece
<1> QED
  BY <1>1, <1>3, <1>4 DEF IInv7

LEMMA ExtractKeeps ==
    ASSUME IInv7, UNCHANGED vars, Extract
    PROVE  IInv7'
<1>1. RunnerInv' /\ \A e : FindValidRun(e)' = FindValidRun(e)
  BY RunnerStays DEF IInv7
<1>2. Usable \subseteq Experiments /\ \A e \in Usable : FindValidRun(e)
  BY DEF Usable
<1>3. Experiments \ Usable \subseteq {N}
  BY DEF Extract, IInv7, ReaderInv, Usable
<1>4. ReaderInv'
  BY <1>2 DEF Extract, ReaderInv
<1>5. PublishedIsWholeButTheLast'
  BY <1>1, <1>2, <1>3 DEF Extract, PublishedIsWholeButTheLast
<1>6. BundleIsOfOnePiece'
  BY DEF Extract, IInv7, BundleIsOfOnePiece
<1> QED
  BY <1>1, <1>4, <1>5, <1>6 DEF IInv7

LEMMA AuditKeeps ==
    ASSUME IInv7, UNCHANGED vars, CopyAudits \/ RecomputeAudits
    PROVE  IInv7'
<1>1. RunnerInv' /\ \A e : FindValidRun(e)' = FindValidRun(e)
  BY RunnerStays DEF IInv7
<1>2. published = {rows} /\ rows \subseteq Experiments /\ UNCHANGED <<published, tables, bundle>>
  BY DEF IInv7, ReaderInv, CopyAudits, RecomputeAudits
<1>3. reader' # "off" => audited'.observer /\ Covers(audited', rows)
  <2>1. CASE CopyAudits
    <3>1. audited' = audits /\ audits.observer /\ audits.transitions # {} /\ audits.ownership # {}
      BY <2>1 DEF CopyAudits, Phase6Audited
    <3>2. NoStageNamed => \A a \in audits.transitions \cup audits.ownership : a = Experiments
      BY DEF IInv7, RunnerInv, AuditsInv
    <3> QED
      BY <1>2, <3>1, <3>2 DEF Covers
  <2>2. CASE RecomputeAudits
    BY <2>2 DEF RecomputeAudits, AfterAudits, Stop7, Covers
  <2> QED
    BY <2>1, <2>2
<1>4. /\ reader' \in {"off", "analyze"}
      /\ reader' # "off" => mode' = mode
  BY DEF CopyAudits, RecomputeAudits, AfterAudits, GoOn7, Stop7
<1>5. ReaderInv'
  BY <1>2, <1>3, <1>4 DEF ReaderInv
<1>6. PublishedIsWholeButTheLast' /\ BundleIsOfOnePiece'
  BY <1>1, <1>2 DEF IInv7, ReaderInv, PublishedIsWholeButTheLast, BundleIsOfOnePiece
<1> QED
  BY <1>1, <1>5, <1>6 DEF IInv7

LEMMA LaterKeeps ==
    ASSUME IInv7, UNCHANGED vars,
           Analyze \/ Export \/ Crash7 \/ \E m \in Modes : Resume(m)
    PROVE  IInv7'
<1>1. RunnerInv' /\ \A e : FindValidRun(e)' = FindValidRun(e)
  BY RunnerStays DEF IInv7
<1>2. UNCHANGED <<published, audited>>
  BY DEF Analyze, Export, Crash7, Resume
<1>3. ReaderInv'
  <2>1. CASE Analyze
    BY <2>1 DEF Analyze, GoOn7, Stop7, IInv7, ReaderInv, Covers
  <2>2. CASE Export \/ Crash7
    BY <2>2 DEF Export, Crash7, Stop7, IInv7, ReaderInv
  <2>3. CASE \E m \in Modes : Resume(m)
    BY <2>3 DEF Resume, Start7, IInv7, ReaderInv
  <2> QED
    BY <2>1, <2>2, <2>3
<1>4. PublishedIsWholeButTheLast'
  BY <1>1, <1>2 DEF IInv7, ReaderInv, PublishedIsWholeButTheLast
<1>5. BundleIsOfOnePiece'
  <2>1. CASE Export
    BY <2>1 DEF Export, IInv7, ReaderInv, BundleIsOfOnePiece, Covers, NoStageNamed
  <2>2. CASE UNCHANGED bundle
    BY <2>2 DEF IInv7, BundleIsOfOnePiece
  <2> QED
    BY <2>1, <2>2 DEF Analyze, Crash7, Resume
<1> QED
  BY <1>1, <1>3, <1>4, <1>5 DEF IInv7

LEMMA PublicationInvariant == Spec7 => []IInv7
<1>1. Init7 => IInv7
  <2> SUFFICES ASSUME Init7 PROVE IInv7
    OBVIOUS
  <2>1. CampaignInv
    BY CampaignStarts DEF Init7
  <2>2. CutInv
    BY EmptyIsSeen DEF Init7, Init, CutInv
  <2>3. AuditsInv
    BY DEF Init7, Init, AuditsInv, Audits, NoAudits
  <2>4. ReaderInv /\ PublishedIsWholeButTheLast /\ BundleIsOfOnePiece
    BY DEF Init7, ReaderInv, PublishedIsWholeButTheLast, BundleIsOfOnePiece
  <2> QED
    BY <2>1, <2>2, <2>3, <2>4 DEF IInv7, RunnerInv
<1>2. IInv7 /\ [Next7]_allVars => IInv7'
  <2> SUFFICES ASSUME IInv7, [Next7]_allVars PROVE IInv7'
    OBVIOUS
  <2>1. CASE [Next]_vars /\ UNCHANGED vars7
    BY <2>1, RunnerStepKeeps
  <2>2. CASE Step7 /\ UNCHANGED vars
    BY <2>2, LoadKeeps, ExtractKeeps, AuditKeeps, LaterKeeps DEF Step7
  <2> QED
    BY <2>1, <2>2 DEF Next7, allVars
<1> QED
  BY <1>1, <1>2, PTL DEF Spec7

\* What phase 7 publishes lacks the experiment of the last status row at most, and
\* has a valid run for each of its rows (PublishedIsWholeButTheLast).
THEOREM PublicationsAreWhole == Spec7 => []PublishedIsWholeButTheLast
<1>1. IInv7 => PublishedIsWholeButTheLast
  BY DEF IInv7
<1> QED
  BY <1>1, PublicationInvariant, PTL

\* A bundle of one run of all of phase 7 has the tables of its dataset and audits
\* that cover it (BundleIsOfOnePiece).
THEOREM BundlesAreOfOnePiece == Spec7 => []BundleIsOfOnePiece
<1>1. IInv7 => BundleIsOfOnePiece
  BY DEF IInv7
<1> QED
  BY <1>1, PublicationInvariant, PTL

-----------------------------------------------------------------------------
(* Functions defined by recursion.                                         *)

\* A function defined by recursion on 0..n.
Recurses(f, n, V, first, step) ==
    /\ f \in [0..n -> V]
    /\ \A k \in 0..n : f[k] = IF k = 0 THEN first ELSE step[<<f[k - 1], k>>]

\* There is one.
LEMMA RecursionIsDefined ==
    ASSUME NEW n \in Nat, NEW V, NEW first \in V, NEW step \in [V \X (1..n) -> V]
    PROVE  \E f : Recurses(f, n, V, first, step)
  <1> DEFINE Builds(m, f) == f \in [0..m -> V] /\ \A k \in 0..m :
    f[k] = IF k = 0 THEN first ELSE step[<<f[k - 1], k>>]
             T == { m \in Nat : m <= n => \E f : Builds(m, f) }
  <1>1. 0 \in T
    <2>1. Builds(0, [k \in 0..0 |-> first])
      OBVIOUS
    <2> QED
      BY <2>1
  <1>2. ASSUME NEW m \in Nat, m \in T
        PROVE  m + 1 \in T
    <2> SUFFICES ASSUME m + 1 <= n PROVE \E f : Builds(m + 1, f)
      OBVIOUS
    <2>1. PICK f : Builds(m, f)
      BY <1>2
    <2> DEFINE v == step[<<f[m], m + 1>>]
               g == [k \in 0..(m + 1) |-> IF k <= m THEN f[k] ELSE v]
    <2>2. v \in V
      BY <2>1
    <2>3. g \in [0..(m + 1) -> V]
      BY <2>1, <2>2
    <2>4. ASSUME NEW k \in 0..(m + 1)
          PROVE  g[k] = IF k = 0 THEN first ELSE step[<<g[k - 1], k>>]
      <3>0. v = step[<<f[m], m + 1>>]
        OBVIOUS
      <3> HIDE DEF v
      <3>1. CASE k = 0
        <4>1. 0 \in 0..m /\ g[0] = f[0]
          OBVIOUS
        <4>2. f[0] = first
          BY <2>1, <4>1
        <4> QED
          BY <3>1, <4>1, <4>2
      <3>2. CASE k # 0 /\ k <= m
        <4>1. g[k - 1] = f[k - 1] /\ g[k] = f[k] /\ k \in 0..m
          BY <3>2
        <4> QED
          BY <2>1, <3>2, <4>1
      <3>3. CASE k = m + 1
        <4>1. g[k - 1] = f[m] /\ g[k] = v
          BY <2>1, <3>3
        <4>2. k # 0 /\ step[<<g[k - 1], k>>] = step[<<f[m], m + 1>>]
          BY <3>3, <4>1
        <4> QED
          BY <3>0, <4>1, <4>2
      <3> QED
        BY <3>1, <3>2, <3>3
    <2> HIDE DEF g
    <2>5. Builds(m + 1, g)
      BY <2>3, <2>4, Zenon
    <2> HIDE DEF Builds
    <2> QED
      BY <2>5
  <1> HIDE DEF T
  <1>3. n \in T
    BY <1>1, <1>2, Induction
  <1> QED
    BY <1>3 DEF T, Recurses

-----------------------------------------------------------------------------
(* Holm's correction.                                                      *)

Before(p, i) == { j \in DOMAIN p : p[j] < p[i] \/ (p[j] = p[i] /\ j <= i) }

\* The p-values of a family of rows.
IsFamily(p, one) ==
    /\ one \in Nat
    /\ DOMAIN p \subseteq Int /\ IsFiniteSet(DOMAIN p)
    /\ p \in [DOMAIN p -> 0..one]

\* Place is the place in the sorted order.
LEMMA PlaceIsAnOrder ==
    ASSUME NEW p, NEW one, IsFamily(p, one), NEW i \in DOMAIN p, NEW j \in DOMAIN p
    PROVE  /\ Place(p, i) \in 1..Cardinality(DOMAIN p)
           /\ Place(p, j) <= Place(p, i) <=> j \in Before(p, i)
           /\ Place(p, j) = Place(p, i) => j = i
  <1>1. ASSUME NEW k \in DOMAIN p
        PROVE  /\ IsFiniteSet(Before(p, k)) /\ Place(p, k) = Cardinality(Before(p, k))
               /\ Cardinality(Before(p, k)) \in 1..Cardinality(DOMAIN p)
    <2>1. Before(p, k) \subseteq DOMAIN p /\ IsFiniteSet(DOMAIN p)
      BY DEF Before, IsFamily
    <2>2. k \in Before(p, k)
      BY DEF Before, IsFamily
    <2>3. /\ IsFiniteSet(Before(p, k)) /\ Cardinality(Before(p, k)) <= Cardinality(DOMAIN p)
      BY <2>1, FS_Subset
    <2>4. /\ Cardinality(Before(p, k)) \in Nat /\ Cardinality(DOMAIN p) \in Nat
          /\ Cardinality(Before(p, k)) # 0
      BY <2>1, <2>2, <2>3, FS_CardinalityType, FS_EmptySet
    <2>5. Place(p, k) = Cardinality(Before(p, k))
      BY DEF Place, Before
    <2> QED
      BY <2>3, <2>4, <2>5
  <1>2. ASSUME NEW x \in DOMAIN p, NEW y \in DOMAIN p, x \in Before(p, y)
        PROVE  Before(p, x) \subseteq Before(p, y)
    BY <1>2 DEF Before, IsFamily
  <1>3. ASSUME NEW x \in DOMAIN p, NEW y \in DOMAIN p, x \notin Before(p, y)
        PROVE  y \in Before(p, x)
    BY <1>3 DEF Before, IsFamily
  <1>4. ASSUME NEW x \in DOMAIN p, NEW y \in DOMAIN p, x \in Before(p, y), y \in Before(p, x)
        PROVE  x = y
    BY <1>4 DEF Before, IsFamily
  <1>5. ASSUME NEW x \in DOMAIN p, NEW y \in DOMAIN p, x \in Before(p, y)
        PROVE  Place(p, x) <= Place(p, y) /\ (Place(p, x) = Place(p, y) => x = y)
    <2>1. Before(p, x) \subseteq Before(p, y)
      BY <1>2, <1>5
    <2>2. /\ Cardinality(Before(p, x)) <= Cardinality(Before(p, y))
          /\ Cardinality(Before(p, y)) = Cardinality(Before(p, x)) => Before(p, y) = Before(p, x)
      BY <1>1, <2>1, FS_Subset
    <2>3. y \in Before(p, y)
      BY DEF Before, IsFamily
    <2> QED
      BY <1>1, <1>4, <1>5, <2>2, <2>3
  <1>6. Place(p, j) \in Int /\ Place(p, i) \in Int
    BY <1>1
  <1> QED
    BY <1>1, <1>3, <1>5, <1>6

\* Every place is taken.
LEMMA PlacesAreTaken ==
    ASSUME NEW p, NEW one, IsFamily(p, one)
    PROVE  /\ \A i \in DOMAIN p : AtPlace(p, Place(p, i)) = i
           /\ \A k \in 1..Cardinality(DOMAIN p) : AtPlace(p, k) \in DOMAIN p /\ Place(p, AtPlace(p, k)) = k
  <1> DEFINE m == Cardinality(DOMAIN p)
             f == [i \in DOMAIN p |-> Place(p, i)]
  <1>1. m \in Nat /\ IsFiniteSet(1..m) /\ Cardinality(1..m) = m
    <2>1. m \in Nat
      BY FS_CardinalityType DEF IsFamily
    <2> HIDE DEF m
    <2> QED
      BY <2>1, FS_Interval
  <1>2. f \in Injection(DOMAIN p, 1..m)
    BY PlaceIsAnOrder DEF Injection, IsInjective
  <1>3. f \in Surjection(DOMAIN p, 1..m)
    <2> HIDE DEF f, m
    <2> QED
      BY <1>1, <1>2, FS_Injection DEF m
  <1>4. \A k \in 1..m : \E i \in DOMAIN p : Place(p, i) = k
    BY <1>3 DEF Surjection
  <1>5. ASSUME NEW k \in 1..m
        PROVE  AtPlace(p, k) \in DOMAIN p /\ Place(p, AtPlace(p, k)) = k
    BY <1>4 DEF AtPlace
  <1>6. ASSUME NEW i \in DOMAIN p
        PROVE  AtPlace(p, Place(p, i)) = i
    BY <1>5, PlaceIsAnOrder
  <1> QED
    BY <1>5, <1>6

\* What a p-value weighs at its place.
Weighted(p, k) == (Cardinality(DOMAIN p) - k + 1) * p[AtPlace(p, k)]

\* The adjusted value at place k, from the one before it.
Adjusted(p, one, before, k) == Lesser(one, Greater(before, Weighted(p, k)))

\* Weights are numbers.
LEMMA WeightsAreNumbers ==
    ASSUME NEW p, NEW one, IsFamily(p, one)
    PROVE  /\ Cardinality(DOMAIN p) \in Nat
           /\ \A k \in 1..Cardinality(DOMAIN p) : Weighted(p, k) \in Nat
  <1>1. Cardinality(DOMAIN p) \in Nat
    BY FS_CardinalityType DEF IsFamily
  <1>2. ASSUME NEW k \in 1..Cardinality(DOMAIN p)
        PROVE  Weighted(p, k) \in Nat
    <2>1. p[AtPlace(p, k)] \in Nat
      BY PlacesAreTaken DEF IsFamily
    <2>2. Cardinality(DOMAIN p) - k + 1 \in Nat
      BY <1>1
    <2>3. \A x, y \in Nat : x * y \in Nat
      OBVIOUS
    <2> QED
      BY <2>1, <2>2, <2>3 DEF Weighted
  <1> QED
    BY <1>1, <1>2

\* The values are adjusted one after the other, in their order.
LEMMA ValuesAreAdjusted ==
    ASSUME NEW p, NEW one, IsFamily(p, one)
    PROVE  \E f : /\ f \in [0..Cardinality(DOMAIN p) -> Nat] /\ f[0] = 0
                  /\ \A k \in 1..Cardinality(DOMAIN p) : f[k] = Adjusted(p, one, f[k - 1], k)
                  /\ HolmAdjust(p, one) = [i \in DOMAIN p |-> f[Place(p, i)]]
  <1> DEFINE m == Cardinality(DOMAIN p)
             step == [x \in Nat \X (1..m) |-> Adjusted(p, one, x[1], x[2])]
             Builds(f) == f = [k \in 0..m |-> IF k = 0 THEN 0 ELSE Adjusted(p, one, f[k - 1], k)]
             g == CHOOSE g : Builds(g)
  <1>1. m \in Nat /\ one \in Nat /\ \A k \in 1..m : Weighted(p, k) \in Nat
    BY WeightsAreNumbers DEF IsFamily
  <1>2. \A v \in Nat, k \in 1..m : Adjusted(p, one, v, k) \in Nat
    BY <1>1 DEF Adjusted, Lesser, Greater
  <1>3. \E f : Builds(f)
    <2>1. step \in [Nat \X (1..m) -> Nat]
      BY <1>2
    <2>2. \A v \in Nat, k \in 1..m : step[<<v, k>>] = Adjusted(p, one, v, k)
      OBVIOUS
    <2> HIDE DEF m, step
    <2>0. PICK f : Recurses(f, m, Nat, 0, step)
      <3>1. m \in Nat /\ 0 \in Nat
        BY <1>1
      <3> QED
        BY <2>1, <3>1, RecursionIsDefined
    <2>3. /\ f \in [0..m -> Nat]
          /\ \A k \in 0..m : f[k] = IF k = 0 THEN 0 ELSE step[<<f[k - 1], k>>]
      BY <2>0 DEF Recurses
    <2>4. ASSUME NEW k \in 0..m
          PROVE  f[k] = IF k = 0 THEN 0 ELSE Adjusted(p, one, f[k - 1], k)
      <3>1. CASE k = 0
        BY <2>3, <3>1
      <3>2. CASE k # 0
        <4>1. k - 1 \in 0..m /\ k \in 1..m
          BY <1>1, <3>2
        <4>2. f[k - 1] \in Nat
          BY <2>3, <4>1
        <4> QED
          BY <2>2, <2>3, <3>2, <4>1, <4>2
      <3> QED
        BY <3>1, <3>2
    <2>5. f = [k \in 0..m |-> f[k]]
      BY <2>3
    <2>6. f = [k \in 0..m |-> IF k = 0 THEN 0 ELSE Adjusted(p, one, f[k - 1], k)]
      BY <2>4, <2>5
    <2> QED
      BY <2>6
  <1>4. Builds(g)
    BY <1>3
  <1>5. HolmAdjust(p, one) = [i \in DOMAIN p |-> g[Place(p, i)]]
    BY DEF HolmAdjust, Adjusted, Weighted
  <1> HIDE DEF g
  <1>6. /\ g[0] = 0 /\ \A k \in 1..m : g[k] = Adjusted(p, one, g[k - 1], k)
    <2> HIDE DEF m
    <2>1. 0 \in 0..m
      BY <1>1
    <2>2. \A k \in 0..m : g[k] = IF k = 0 THEN 0 ELSE Adjusted(p, one, g[k - 1], k)
      BY <1>4
    <2>3. \A k \in 1..m : k \in 0..m /\ k # 0
      BY <1>1
    <2> QED
      BY <2>1, <2>2, <2>3
  <1>7. \A k \in 0..m : g[k] \in Nat
    <2> DEFINE T == { k \in Nat : k <= m => g[k] \in Nat }
    <2> HIDE DEF m
    <2>1. 0 \in T
      BY <1>6
    <2>2. ASSUME NEW k \in Nat, k \in T
          PROVE  k + 1 \in T
      BY <1>1, <1>2, <1>6, <2>2
    <2> HIDE DEF T
    <2>3. Nat \subseteq T
      BY <2>1, <2>2, Induction
    <2> QED
      BY <1>1, <2>3 DEF T
  <1>8. g \in [0..m -> Nat]
    BY <1>4, <1>7
  <1> QED
    BY <1>5, <1>6, <1>8

\* An adjusted value is at most alpha exactly if all weighted values up to its
\* place are.
LEMMA AdjustedIsGreatest ==
    ASSUME NEW p, NEW one, IsFamily(p, one), NEW alpha \in 0..(one - 1), NEW f,
           f \in [0..Cardinality(DOMAIN p) -> Nat], f[0] = 0,
           \A k \in 1..Cardinality(DOMAIN p) : f[k] = Adjusted(p, one, f[k - 1], k)
    PROVE  \A k \in 0..Cardinality(DOMAIN p) :
              f[k] <= alpha <=> \A j \in 1..k : Weighted(p, j) <= alpha
  <1> DEFINE m == Cardinality(DOMAIN p)
             Good(k) == f[k] <= alpha <=> \A j \in 1..k : Weighted(p, j) <= alpha
             T == { k \in Nat : k <= m => Good(k) }
  <1>1. m \in Nat /\ one \in Nat /\ \A k \in 1..m : Weighted(p, k) \in Nat
    BY WeightsAreNumbers DEF IsFamily
  <1> HIDE DEF m
  <1>2. 0 \in T
    BY <1>1
  <1>3. ASSUME NEW k \in Nat, k \in T
        PROVE  k + 1 \in T
    <2> SUFFICES ASSUME k + 1 <= m PROVE Good(k + 1)
      OBVIOUS
    <2>1. Good(k) /\ k + 1 \in 1..m /\ k \in 0..m
      BY <1>1, <1>3
    <2>2. f[k + 1] = Adjusted(p, one, f[k], k + 1) /\ f[k] \in Nat /\ Weighted(p, k + 1) \in Nat
      <3>1. (k + 1) - 1 = k
        OBVIOUS
      <3>2. f[k + 1] = Adjusted(p, one, f[(k + 1) - 1], k + 1)
        BY <2>1 DEF m
      <3> QED
        BY <1>1, <2>1, <3>1, <3>2 DEF m
    <2>3. f[k + 1] <= alpha <=> f[k] <= alpha /\ Weighted(p, k + 1) <= alpha
      BY <1>1, <2>2 DEF Adjusted, Lesser, Greater
    <2>4. \A j : j \in 1..(k + 1) <=> j \in 1..k \/ j = k + 1
      OBVIOUS
    <2> QED
      BY <2>1, <2>3, <2>4
  <1> HIDE DEF T
  <1>4. Nat \subseteq T
    BY <1>2, <1>3, Induction
  <1> QED
    BY <1>1, <1>4 DEF T, m

\* The adjusted values reject at any level what the procedure rejects.
LEMMA HolmIsStepDown ==
    ASSUME NEW p, NEW one, IsFamily(p, one)
    PROVE  AdjustedRejectsLikeStepDown(p, one)
  <1> DEFINE m == Cardinality(DOMAIN p)
  <1> SUFFICES ASSUME NEW alpha \in 0..(one - 1), NEW i \in DOMAIN p
               PROVE  HolmAdjust(p, one)[i] <= alpha <=>
                        \A j \in DOMAIN p : Place(p, j) <= Place(p, i) =>
                            (m - Place(p, j) + 1) * p[j] <= alpha
    BY DEF AdjustedRejectsLikeStepDown, StepDown
  <1>1. PICK f : /\ f \in [0..m -> Nat] /\ f[0] = 0
                 /\ \A k \in 1..m : f[k] = Adjusted(p, one, f[k - 1], k)
                 /\ HolmAdjust(p, one) = [d \in DOMAIN p |-> f[Place(p, d)]]
    BY ValuesAreAdjusted
  <1>2. \A d \in DOMAIN p : Place(p, d) \in 1..m /\ AtPlace(p, Place(p, d)) = d
    BY PlaceIsAnOrder, PlacesAreTaken
  <1>3. \A k \in 1..m : AtPlace(p, k) \in DOMAIN p /\ Place(p, AtPlace(p, k)) = k
    BY PlacesAreTaken
  <1>4. m \in Nat
    BY WeightsAreNumbers
  <1>5. f[Place(p, i)] <= alpha <=> \A k \in 1..Place(p, i) : Weighted(p, k) <= alpha
    <2>1. Place(p, i) \in 0..m
      BY <1>2
    <2> QED
      BY <1>1, <2>1, AdjustedIsGreatest
  <1>6. \A d \in DOMAIN p : Weighted(p, Place(p, d)) = (m - Place(p, d) + 1) * p[d]
    BY <1>2 DEF Weighted
  <1>7. (\A k \in 1..Place(p, i) : Weighted(p, k) <= alpha) <=>
           \A j \in DOMAIN p : Place(p, j) <= Place(p, i) => Weighted(p, Place(p, j)) <= alpha
    <2> HIDE DEF m
    <2>1. \A j \in DOMAIN p : Place(p, j) <= Place(p, i) => Place(p, j) \in 1..Place(p, i)
      BY <1>2, <1>4
    <2>2. \A k \in 1..Place(p, i) : k \in 1..m /\ k <= Place(p, i)
      BY <1>2, <1>4
    <2> QED
      BY <1>3, <2>1, <2>2
  <1> QED
    BY <1>1, <1>5, <1>6, <1>7

-----------------------------------------------------------------------------
(* The rank test.                                                          *)

\* The pairs of places that satisfy a relation, the second of which is one of the
\* first k.
LessPairs(a, b, k) == { x \in (DOMAIN a) \X (1..k) : a[x[1]] < b[x[2]] }
AtMostPairs(a, b, k) == { x \in (DOMAIN a) \X (1..k) : a[x[1]] <= b[x[2]] }

LessPlaces(a, v) == { i \in DOMAIN a : a[i] < v }
AtMostPlaces(a, v) == { i \in DOMAIN a : a[i] <= v }

IsSample(a) == a \in Seq(Int)

\* The places of a sequence are finitely many.
LEMMA PlacesAreFinite ==
    ASSUME NEW a, IsSample(a), NEW P, P \subseteq DOMAIN a
    PROVE  /\ IsFiniteSet(DOMAIN a) /\ Cardinality(DOMAIN a) = Len(a)
           /\ IsFiniteSet(P) /\ Cardinality(P) \in Nat
  <1>1. DOMAIN a = 1..Len(a) /\ Len(a) \in Nat
    BY DEF IsSample
  <1>2. IsFiniteSet(1..Len(a)) /\ Cardinality(1..Len(a)) = Len(a)
    BY <1>1, FS_Interval
  <1> QED
    BY <1>1, <1>2, FS_Subset, FS_CardinalityType

\* Q has the pairs of P, and those of D with k, which P has not.
OneMore(Q, P, D, k) == Q = P \cup (D \X {k}) /\ P \cap (D \X {k}) = {}

\* The pairs with one place more, counted.
LEMMA OneMorePlace ==
    ASSUME NEW P, NEW Q, NEW D, NEW k, IsFiniteSet(P), IsFiniteSet(D), OneMore(Q, P, D, k)
    PROVE  IsFiniteSet(Q) /\ Cardinality(Q) = Cardinality(P) + Cardinality(D)
  <1> DEFINE K == {k}
  <1>1. IsFiniteSet(K) /\ Cardinality(K) = 1
    BY FS_Singleton
  <1> HIDE DEF K
  <1>2. IsFiniteSet(D \X K) /\ Cardinality(D \X K) = Cardinality(D) * 1
    BY <1>1, FS_Product
  <1>3. Cardinality(D) \in Nat /\ Cardinality(P) \in Nat
    BY FS_CardinalityType
  <1>4. IsFiniteSet(Q) /\ Cardinality(Q) = Cardinality(P) + Cardinality(D \X K) - Cardinality({})
    BY <1>2, FS_Union DEF K, OneMore
  <1> QED
    BY <1>2, <1>3, <1>4, FS_EmptySet

\* The pairs up to place k + 1 are those up to k, and those of k + 1.
LEMMA PairsGrow ==
    ASSUME NEW a, IsSample(a), NEW b, IsSample(b), NEW k \in 0..(Len(b) - 1),
           IsFiniteSet(LessPairs(a, b, k)), IsFiniteSet(AtMostPairs(a, b, k))
    PROVE  /\ IsFiniteSet(LessPairs(a, b, k + 1)) /\ IsFiniteSet(AtMostPairs(a, b, k + 1))
           /\ Cardinality(LessPairs(a, b, k + 1))
                = Cardinality(LessPairs(a, b, k)) + Cardinality(LessPlaces(a, b[k + 1]))
           /\ Cardinality(AtMostPairs(a, b, k + 1))
                = Cardinality(AtMostPairs(a, b, k)) + Cardinality(AtMostPlaces(a, b[k + 1]))
  <1>1. Len(b) \in Nat /\ \A x : x \in 1..(k + 1) <=> x \in 1..k \/ x = k + 1
    BY DEF IsSample
  <1>2. OneMore(LessPairs(a, b, k + 1), LessPairs(a, b, k), LessPlaces(a, b[k + 1]), k + 1)
    BY <1>1 DEF LessPairs, LessPlaces, OneMore
  <1>3. OneMore(AtMostPairs(a, b, k + 1), AtMostPairs(a, b, k), AtMostPlaces(a, b[k + 1]), k + 1)
    BY <1>1 DEF AtMostPairs, AtMostPlaces, OneMore
  <1>4. IsFiniteSet(LessPlaces(a, b[k + 1])) /\ IsFiniteSet(AtMostPlaces(a, b[k + 1]))
    BY PlacesAreFinite DEF LessPlaces, AtMostPlaces
  <1>5. /\ IsFiniteSet(LessPairs(a, b, k + 1))
        /\ Cardinality(LessPairs(a, b, k + 1))
             = Cardinality(LessPairs(a, b, k)) + Cardinality(LessPlaces(a, b[k + 1]))
    BY <1>2, <1>4, OneMorePlace
  <1>6. /\ IsFiniteSet(AtMostPairs(a, b, k + 1))
        /\ Cardinality(AtMostPairs(a, b, k + 1))
             = Cardinality(AtMostPairs(a, b, k)) + Cardinality(AtMostPlaces(a, b[k + 1]))
    BY <1>3, <1>4, OneMorePlace
  <1> QED
    BY <1>5, <1>6

\* The pairs of A and B that are not in P.
Rest(P, A, B) == (A \X B) \ P

\* Q has the pairs of P, read the other way.
Turned(P, Q, A, B) ==
    /\ P \subseteq A \X B /\ Q \subseteq B \X A
    /\ \A i \in A, j \in B : <<i, j>> \in P <=> <<j, i>> \in Q

\* The rest, counted.
LEMMA RestIsCounted ==
    ASSUME NEW A, IsFiniteSet(A), NEW B, IsFiniteSet(B), NEW P, P \cup Rest(P, A, B) = A \X B
    PROVE  /\ Rest(P, A, B) \subseteq A \X B
           /\ IsFiniteSet(Rest(P, A, B)) /\ Cardinality(Rest(P, A, B)) \in Nat
           /\ Cardinality(Rest(P, A, B)) = Cardinality(A) * Cardinality(B) - Cardinality(P)
  <1> DEFINE AB == A \X B
  <1>1. AB \cap P = P /\ Rest(P, A, B) = AB \ P
    BY DEF Rest
  <1>2. IsFiniteSet(AB) /\ Cardinality(AB) = Cardinality(A) * Cardinality(B)
    BY FS_Product
  <1> HIDE DEF AB
  <1>3. IsFiniteSet(AB \ P) /\ Cardinality(AB \ P) = Cardinality(AB) - Cardinality(AB \cap P)
    BY <1>2, FS_Difference
  <1> QED
    BY <1>1, <1>2, <1>3, FS_CardinalityType DEF AB

\* Two sets with the same pairs, read the other way in one, are of one size.
LEMMA PairsTurned ==
    ASSUME NEW A, NEW B, NEW P, NEW Q, Turned(P, Q, A, B), IsFiniteSet(P)
    PROVE  IsFiniteSet(Q) /\ Cardinality(Q) = Cardinality(P)
  <1> DEFINE f == [x \in P |-> <<x[2], x[1]>>]
  <1> USE DEF Turned
  <1>1. f \in [P -> Q]
    OBVIOUS
  <1>2. ASSUME NEW x \in P, NEW y \in P, f[x] = f[y]
        PROVE  x = y
    BY <1>2
  <1>3. ASSUME NEW y \in Q
        PROVE  \E x \in P : f[x] = y
    <2>1. PICK i \in A, j \in B : y = <<j, i>>
      OBVIOUS
    <2>2. <<i, j>> \in P /\ f[<<i, j>>] = y
      BY <2>1
    <2> QED
      BY <2>2
  <1>4. f \in Bijection(P, Q)
    <2> HIDE DEF f
    <2> QED
      BY <1>1, <1>2, <1>3 DEF Bijection, Injection, Surjection, IsInjective
  <1> HIDE DEF f
  <1> QED
    BY <1>4, FS_Bijection DEF ExistsBijection

\* A value is compared with those of both samples.
LEMMA PlacesOfBoth ==
    ASSUME NEW a, IsSample(a), NEW b, IsSample(b), NEW v \in Int
    PROVE  /\ Cardinality(LessPlaces(a \o b, v))
                = Cardinality(LessPlaces(a, v)) + Cardinality(LessPlaces(b, v))
           /\ Cardinality(AtMostPlaces(a \o b, v))
                = Cardinality(AtMostPlaces(a, v)) + Cardinality(AtMostPlaces(b, v))
  <1> DEFINE Shifted(P) == { i + Len(a) : i \in P }
  <1>1. /\ Len(a) \in Nat /\ Len(b) \in Nat /\ DOMAIN a = 1..Len(a) /\ DOMAIN b = 1..Len(b)
        /\ DOMAIN (a \o b) = 1..(Len(a) + Len(b))
        /\ \A i \in 1..(Len(a) + Len(b)) :
              (a \o b)[i] = IF i <= Len(a) THEN a[i] ELSE b[i - Len(a)]
    BY DEF IsSample
  <1>2. ASSUME NEW P, NEW Q, NEW C, P \subseteq DOMAIN a, Q \subseteq DOMAIN b, C = P \cup Shifted(Q)
        PROVE  Cardinality(C) = Cardinality(P) + Cardinality(Q)
    <2>1. IsFiniteSet(P) /\ IsFiniteSet(Q) /\ Cardinality(P) \in Nat /\ Cardinality(Q) \in Nat
      BY <1>2, PlacesAreFinite
    <2> DEFINE f == [i \in Q |-> i + Len(a)]
    <2>2. f \in Bijection(Q, Shifted(Q))
      BY <1>1, <1>2 DEF Bijection, Injection, Surjection, IsInjective
    <2>3. ExistsBijection(Q, Shifted(Q))
      BY <2>2 DEF ExistsBijection
    <2> DEFINE S == Shifted(Q)
    <2>4. P \cap S = {}
      BY <1>1, <1>2
    <2> HIDE DEF S
    <2>5. IsFiniteSet(S) /\ Cardinality(S) = Cardinality(Q)
      BY <2>1, <2>3, FS_Bijection DEF S
    <2>6. Cardinality(P \cup S) = Cardinality(P) + Cardinality(S) - Cardinality({})
      BY <2>1, <2>4, <2>5, FS_Union
    <2>7. C = P \cup S
      BY <1>2 DEF S
    <2> QED
      BY <2>1, <2>5, <2>6, <2>7, FS_EmptySet
  <1>3. ASSUME NEW P, NEW Q, NEW C, P \subseteq DOMAIN a, Q \subseteq DOMAIN b, C \subseteq DOMAIN (a \o b),
               \A i \in 1..Len(a) : i \in C <=> i \in P,
               \A i \in 1..Len(b) : i + Len(a) \in C <=> i \in Q
        PROVE  C = P \cup Shifted(Q)
    <2>1. ASSUME NEW i \in C
          PROVE  i \in P \cup Shifted(Q)
      <3>1. CASE i <= Len(a)
        BY <1>1, <1>3, <3>1
      <3>2. CASE i > Len(a)
        <4>1. i - Len(a) \in 1..Len(b) /\ (i - Len(a)) + Len(a) = i
          BY <1>1, <1>3, <3>2
        <4>2. i - Len(a) \in Q
          BY <1>3, <4>1
        <4> QED
          BY <4>1, <4>2
      <3> QED
        BY <1>1, <1>3, <3>1, <3>2
    <2>2. ASSUME NEW i \in P \cup Shifted(Q)
          PROVE  i \in C
      BY <1>1, <1>3
    <2> QED
      BY <2>1, <2>2
  <1> HIDE DEF Shifted
  <1>4. /\ \A i \in 1..Len(a) : i \in 1..(Len(a) + Len(b)) /\ (a \o b)[i] = a[i]
        /\ \A i \in 1..Len(b) : i + Len(a) \in 1..(Len(a) + Len(b)) /\ (a \o b)[i + Len(a)] = b[i]
    BY <1>1
  <1>5. /\ \A i \in 1..Len(a) : i \in LessPlaces(a \o b, v) <=> i \in LessPlaces(a, v)
        /\ \A i \in 1..Len(b) : i + Len(a) \in LessPlaces(a \o b, v) <=> i \in LessPlaces(b, v)
        /\ LessPlaces(a, v) \subseteq DOMAIN a /\ LessPlaces(b, v) \subseteq DOMAIN b
        /\ LessPlaces(a \o b, v) \subseteq DOMAIN (a \o b)
    BY <1>1, <1>4 DEF LessPlaces
  <1>6. /\ \A i \in 1..Len(a) : i \in AtMostPlaces(a \o b, v) <=> i \in AtMostPlaces(a, v)
        /\ \A i \in 1..Len(b) : i + Len(a) \in AtMostPlaces(a \o b, v) <=> i \in AtMostPlaces(b, v)
        /\ AtMostPlaces(a, v) \subseteq DOMAIN a /\ AtMostPlaces(b, v) \subseteq DOMAIN b
        /\ AtMostPlaces(a \o b, v) \subseteq DOMAIN (a \o b)
    BY <1>1, <1>4 DEF AtMostPlaces
  <1>7. /\ LessPlaces(a \o b, v) = LessPlaces(a, v) \cup Shifted(LessPlaces(b, v))
        /\ AtMostPlaces(a \o b, v) = AtMostPlaces(a, v) \cup Shifted(AtMostPlaces(b, v))
    BY <1>3, <1>5, <1>6
  <1> QED
    BY <1>2, <1>5, <1>6, <1>7

\* The rank sum, in pairs: what it counts up to place k.
Counted(a, b, k) ==
    Cardinality(LessPairs(a, a, k)) + Cardinality(AtMostPairs(a, a, k))
      + Cardinality(LessPairs(b, a, k)) + Cardinality(AtMostPairs(b, a, k)) + k

FinitePairs(a, b, k) ==
    /\ IsFiniteSet(LessPairs(a, b, k)) /\ IsFiniteSet(AtMostPairs(a, b, k))
    /\ Cardinality(LessPairs(a, b, k)) \in Nat /\ Cardinality(AtMostPairs(a, b, k)) \in Nat

\* Samples have finitely many pairs.
LEMMA PairsAreFinite ==
    ASSUME NEW a, IsSample(a), NEW b, IsSample(b), NEW k \in 0..Len(b)
    PROVE  FinitePairs(a, b, k)
  <1> DEFINE K == 1..k
  <1>1. IsFiniteSet(DOMAIN a) /\ IsFiniteSet(K)
    BY PlacesAreFinite, FS_Interval DEF IsSample
  <1> HIDE DEF K
  <1>2. IsFiniteSet((DOMAIN a) \X K)
    BY <1>1, FS_Product
  <1>3. LessPairs(a, b, k) \subseteq (DOMAIN a) \X K /\ AtMostPairs(a, b, k) \subseteq (DOMAIN a) \X K
    BY DEF LessPairs, AtMostPairs, K
  <1> HIDE DEF LessPairs, AtMostPairs
  <1>4. IsFiniteSet(LessPairs(a, b, k)) /\ IsFiniteSet(AtMostPairs(a, b, k))
    BY <1>2, <1>3, FS_Subset
  <1> QED
    BY <1>4, FS_CardinalityType DEF FinitePairs

\* A value's rank is what is counted at its place.
LEMMA RankIsCounted ==
    ASSUME NEW a, IsSample(a), NEW b, IsSample(b), NEW k \in 0..(Len(a) - 1)
    PROVE  /\ DoubleRank(a \o b, a[k + 1]) \in Nat
           /\ Counted(a, b, k) \in Nat
           /\ Counted(a, b, k + 1) = Counted(a, b, k) + DoubleRank(a \o b, a[k + 1])
  <1>1. Len(a) \in Nat /\ k \in 0..Len(a) /\ a[k + 1] \in Int /\ k \in Nat
    BY DEF IsSample
  <1>2. FinitePairs(a, a, k) /\ FinitePairs(b, a, k)
    BY <1>1, PairsAreFinite
  <1> DEFINE v == a[k + 1]
             La == Cardinality(LessPlaces(a, v))
             Lb == Cardinality(LessPlaces(b, v))
             Ma == Cardinality(AtMostPlaces(a, v))
             Mb == Cardinality(AtMostPlaces(b, v))
  <1>3. La \in Nat /\ Lb \in Nat /\ Ma \in Nat /\ Mb \in Nat
    BY PlacesAreFinite DEF LessPlaces, AtMostPlaces
  <1>4. DoubleRank(a \o b, v) = Cardinality(LessPlaces(a \o b, v)) + 1 + Cardinality(AtMostPlaces(a \o b, v))
    BY DEF DoubleRank, LessPlaces, AtMostPlaces
  <1>5. /\ Cardinality(LessPlaces(a \o b, v)) = La + Lb
        /\ Cardinality(AtMostPlaces(a \o b, v)) = Ma + Mb
    BY <1>1, PlacesOfBoth
  <1>6. /\ Cardinality(LessPairs(a, a, k + 1)) = Cardinality(LessPairs(a, a, k)) + La
        /\ Cardinality(AtMostPairs(a, a, k + 1)) = Cardinality(AtMostPairs(a, a, k)) + Ma
    BY <1>2, PairsGrow DEF FinitePairs
  <1>7. /\ Cardinality(LessPairs(b, a, k + 1)) = Cardinality(LessPairs(b, a, k)) + Lb
        /\ Cardinality(AtMostPairs(b, a, k + 1)) = Cardinality(AtMostPairs(b, a, k)) + Mb
    BY <1>2, PairsGrow DEF FinitePairs
  <1> HIDE DEF La, Lb, Ma, Mb, v
  <1>8. DoubleRank(a \o b, v) = La + Lb + 1 + Ma + Mb
    BY <1>3, <1>4, <1>5
  <1>9. Counted(a, b, k) \in Nat
    BY <1>1, <1>2 DEF Counted, FinitePairs
  <1>10. Counted(a, b, k + 1) = Counted(a, b, k) + DoubleRank(a \o b, v)
    <2> DEFINE c1 == Cardinality(LessPairs(a, a, k))
               c2 == Cardinality(AtMostPairs(a, a, k))
               c3 == Cardinality(LessPairs(b, a, k))
               c4 == Cardinality(AtMostPairs(b, a, k))
    <2>1. c1 \in Nat /\ c2 \in Nat /\ c3 \in Nat /\ c4 \in Nat
      BY <1>2 DEF FinitePairs
    <2>2. Counted(a, b, k) = c1 + c2 + c3 + c4 + k
      BY DEF Counted
    <2>3. Counted(a, b, k + 1) = (c1 + La) + (c2 + Ma) + (c3 + Lb) + (c4 + Mb) + (k + 1)
      BY <1>6, <1>7 DEF Counted
    <2> HIDE DEF c1, c2, c3, c4
    <2> QED
      BY <1>1, <1>3, <1>8, <2>1, <2>2, <2>3
  <1> QED
    BY <1>3, <1>8, <1>9, <1>10 DEF v

\* The rank sum counts all pairs.
LEMMA RankSumIsCounted ==
    ASSUME NEW a, IsSample(a), NEW b, IsSample(b)
    PROVE  DoubleRankSum(a, b) = Counted(a, b, Len(a))
  <1> DEFINE n == Len(a)
             rank(k) == DoubleRank(a \o b, a[k])
             Builds(f) == f = [k \in 0..n |-> IF k = 0 THEN 0 ELSE f[k - 1] + rank(k)]
             sum == [k \in 0..n |-> Counted(a, b, k)]
             g == CHOOSE g : Builds(g)
  <1>1. n \in Nat /\ \A k \in 1..n : k - 1 \in 0..(n - 1) /\ (k - 1) + 1 = k
    BY DEF IsSample
  <1>2. Counted(a, b, 0) = 0
    <2>1. LessPairs(a, a, 0) = {} /\ AtMostPairs(a, a, 0) = {} /\ LessPairs(b, a, 0) = {}
            /\ AtMostPairs(b, a, 0) = {}
      BY DEF LessPairs, AtMostPairs
    <2> QED
      BY <2>1, FS_EmptySet DEF Counted
  <1>3. \A k \in 1..n : Counted(a, b, k) = Counted(a, b, k - 1) + rank(k)
    BY <1>1, RankIsCounted
  <1> HIDE DEF n, rank
  <1>4. Builds(sum)
    <2>1. \A k \in 0..n : sum[k] = IF k = 0 THEN 0 ELSE sum[k - 1] + rank(k)
      BY <1>1, <1>2, <1>3
    <2> QED
      BY <2>1
  <1>5. Builds(g)
    <2> HIDE DEF Builds, sum
    <2> QED
      BY <1>4
  <1>6. DoubleRankSum(a, b) = g[n]
    BY DEF DoubleRankSum, n, rank
  <1> HIDE DEF g
  <1>7. \A k \in 0..n : g[k] = Counted(a, b, k)
    <2> DEFINE T == { k \in Nat : k <= n => g[k] = Counted(a, b, k) }
    <2>1. 0 \in T
      BY <1>1, <1>2, <1>5
    <2>2. ASSUME NEW k \in Nat, k \in T
          PROVE  k + 1 \in T
      <3> SUFFICES ASSUME k + 1 <= n PROVE g[k + 1] = Counted(a, b, k + 1)
        OBVIOUS
      <3>1. k + 1 \in 1..n /\ (k + 1) - 1 = k /\ g[k] = Counted(a, b, k)
        BY <1>1, <2>2
      <3>2. g[k + 1] = g[(k + 1) - 1] + rank(k + 1)
        BY <1>1, <1>5, <3>1
      <3>3. Counted(a, b, k + 1) = Counted(a, b, (k + 1) - 1) + rank(k + 1)
        BY <1>3, <3>1
      <3> QED
        BY <3>1, <3>2, <3>3
    <2> HIDE DEF T
    <2>3. Nat \subseteq T
      BY <2>1, <2>2, Induction
    <2> QED
      BY <1>1, <2>3 DEF T
  <1> QED
    BY <1>1, <1>6, <1>7 DEF n

\* The pairs of a sample with itself: each is less, or the other way at most.
LEMMA OwnPairs ==
    ASSUME NEW a, IsSample(a)
    PROVE  /\ Cardinality(LessPairs(a, a, Len(a))) + Cardinality(AtMostPairs(a, a, Len(a)))
                = Len(a) * Len(a)
           /\ FinitePairs(a, a, Len(a))
  <1> DEFINE D == DOMAIN a
             L == LessPairs(a, a, Len(a))
             M == AtMostPairs(a, a, Len(a))
  <1>1. /\ Len(a) \in Nat /\ D = 1..Len(a) /\ \A i \in D : a[i] \in Int
        /\ FinitePairs(a, a, Len(a))
    BY PairsAreFinite DEF IsSample
  <1>2. IsFiniteSet(D) /\ Cardinality(D) = Len(a)
    BY PlacesAreFinite
  <1>3. Turned(L, Rest(M, D, D), D, D) /\ M \cup Rest(M, D, D) = D \X D
    BY <1>1 DEF LessPairs, AtMostPairs, Rest, Turned
  <1>4. IsFiniteSet(L) /\ IsFiniteSet(M) /\ Cardinality(M) \in Nat
    BY <1>1 DEF FinitePairs
  <1> HIDE DEF L, M, D
  <1>5. /\ Cardinality(Rest(M, D, D)) \in Nat
        /\ Cardinality(Rest(M, D, D)) = Len(a) * Len(a) - Cardinality(M)
    BY <1>2, <1>3, RestIsCounted
  <1>6. Cardinality(Rest(M, D, D)) = Cardinality(L)
    BY <1>3, <1>4, PairsTurned
  <1>7. Len(a) * Len(a) \in Nat
    BY <1>1
  <1>8. Cardinality(L) + Cardinality(M) = Len(a) * Len(a)
    BY <1>4, <1>5, <1>6, <1>7
  <1> QED
    BY <1>1, <1>8 DEF L, M

\* The pairs of two samples, as cliffs_delta counts them.
LEMMA CrossPairs ==
    ASSUME NEW a, IsSample(a), NEW b, IsSample(b)
    PROVE  /\ CliffsDelta(a, b) \in Int
           /\ Cardinality(LessPairs(b, a, Len(a))) + Cardinality(AtMostPairs(b, a, Len(a)))
                = Len(a) * Len(b) - CliffsDelta(a, b)
           /\ FinitePairs(b, a, Len(a))
  <1> DEFINE A == DOMAIN a
             B == DOMAIN b
             L == LessPairs(b, a, Len(a))
             M == AtMostPairs(b, a, Len(a))
             gt == { x \in A \X B : b[x[2]] > a[x[1]] }
             lt == { x \in A \X B : b[x[2]] < a[x[1]] }
  <1>1. /\ Len(a) \in Nat /\ A = 1..Len(a) /\ \A i \in A : a[i] \in Int
        /\ Len(b) \in Nat /\ B = 1..Len(b) /\ \A i \in B : b[i] \in Int
        /\ FinitePairs(b, a, Len(a))
    BY PairsAreFinite DEF IsSample
  <1>2. IsFiniteSet(A) /\ Cardinality(A) = Len(a) /\ IsFiniteSet(B) /\ Cardinality(B) = Len(b)
    BY PlacesAreFinite
  <1>3. Turned(L, lt, B, A) /\ Turned(Rest(M, B, A), gt, B, A) /\ M \cup Rest(M, B, A) = B \X A
    BY <1>1 DEF LessPairs, AtMostPairs, Rest, Turned
  <1>4. CliffsDelta(a, b) = Cardinality(gt) - Cardinality(lt)
    BY DEF CliffsDelta
  <1>5. IsFiniteSet(L) /\ Cardinality(L) \in Nat /\ IsFiniteSet(M) /\ Cardinality(M) \in Nat
    BY <1>1 DEF FinitePairs
  <1> HIDE DEF L, M, A, B, gt, lt
  <1>6. /\ IsFiniteSet(Rest(M, B, A)) /\ Cardinality(Rest(M, B, A)) \in Nat
        /\ Cardinality(Rest(M, B, A)) = Len(b) * Len(a) - Cardinality(M)
    BY <1>2, <1>3, RestIsCounted
  <1>7. Cardinality(lt) = Cardinality(L) /\ Cardinality(gt) = Cardinality(Rest(M, B, A))
    BY <1>3, <1>5, <1>6, PairsTurned
  <1>8. Len(b) * Len(a) = Len(a) * Len(b) /\ Len(a) * Len(b) \in Nat
    BY <1>1
  <1>9. CliffsDelta(a, b) = Len(a) * Len(b) - Cardinality(M) - Cardinality(L)
    BY <1>4, <1>6, <1>7, <1>8
  <1>10. /\ CliffsDelta(a, b) \in Int
         /\ Cardinality(L) + Cardinality(M) = Len(a) * Len(b) - CliffsDelta(a, b)
    BY <1>5, <1>8, <1>9
  <1> QED
    BY <1>1, <1>10 DEF L, M

\* The test's distance from the mean is the size of delta.
LEMMA TestIsDelta ==
    ASSUME NEW a, IsSample(a), NEW b, IsSample(b)
    PROVE  TestAndEffectAgree(a, b)
  <1> DEFINE n == Len(a)
             nn == Len(a) * Len(a)
             nm == Len(a) * Len(b)
             delta == CliffsDelta(a, b)
             L1 == Cardinality(LessPairs(a, a, n))
             M1 == Cardinality(AtMostPairs(a, a, n))
             L2 == Cardinality(LessPairs(b, a, n))
             M2 == Cardinality(AtMostPairs(b, a, n))
  <1>1. n \in Nat /\ nn \in Nat /\ nm \in Nat /\ n * (n + 1) = nn + n
    <2>1. n \in Nat /\ Len(b) \in Nat
      BY DEF IsSample
    <2> QED
      BY <2>1
  <1>2. L1 \in Nat /\ M1 \in Nat /\ L1 + M1 = nn
    BY OwnPairs DEF FinitePairs
  <1>3. L2 \in Nat /\ M2 \in Nat /\ L2 + M2 = nm - delta /\ delta \in Int
    BY CrossPairs DEF FinitePairs
  <1>4. DoubleU(a, b) = (L1 + M1 + L2 + M2 + n) - n * (n + 1)
    BY RankSumIsCounted DEF DoubleU, Counted
  <1> HIDE DEF n, nn, nm, delta, L1, M1, L2, M2
  <1>5. DoubleU(a, b) - nm = -delta
    BY <1>1, <1>2, <1>3, <1>4
  <1>6. MannWhitneyZ(a, b) = IF -delta < 0 THEN -(-delta) ELSE -delta
    BY <1>5 DEF MannWhitneyZ, nm
  <1>7. MannWhitneyZ(a, b) = IF delta < 0 THEN -delta ELSE delta
    BY <1>3, <1>6
  <1> QED
    BY <1>7 DEF TestAndEffectAgree, delta

-----------------------------------------------------------------------------
(* The rows of the matrix.                                                 *)

\* A row is the record of its columns.
IsRow(r) ==
    r = Planned(r.group, r.workload, r.variant, r.downstream_capability, r.failure_scenario,
                r.failure_probability, r.concurrency, r.fanout, r.suffix, r.seed)

\* Two rows agree in every column but the seed.
Alike(q, r) ==
    /\ q.group = r.group /\ q.workload = r.workload /\ q.variant = r.variant
    /\ q.downstream_capability = r.downstream_capability
    /\ q.failure_scenario = r.failure_scenario
    /\ q.failure_probability = r.failure_probability
    /\ q.concurrency = r.concurrency /\ q.fanout = r.fanout /\ q.suffix = r.suffix

\* What the rows of each group have in their columns.
InBaseline(r) ==
    /\ r.group = "group_a_baseline" /\ r.workload = "create_order"
    /\ r.variant \in Variants /\ r.downstream_capability = CapFor(r.variant)
    /\ r.failure_scenario = "F0" /\ r.failure_probability = 0
    /\ r.concurrency \in {1, 10, 50, 100} /\ r.fanout = 0 /\ r.suffix = ""

InAmbiguous(r) ==
    /\ r.group = "group_b_ambiguous" /\ r.workload = "create_order"
    /\ r.variant \in Variants /\ r.downstream_capability = CapFor(r.variant)
    /\ r.failure_scenario \in {"F3", "F4", "F8", "F9"} /\ r.failure_probability \in {1, 5, 10, 20}
    /\ r.concurrency \in {10, 50} /\ r.fanout = 0 /\ r.suffix = ""

InDuplicates(r) ==
    /\ r.group = "group_c_duplicates" /\ r.workload = "create_order"
    /\ r.variant \in Variants /\ r.downstream_capability = CapFor(r.variant)
    /\ r.failure_scenario \in {"F5", "F6", "F11"} /\ r.failure_probability = 0
    /\ r.concurrency = 50 /\ r.fanout \in {2, 5, 10} /\ r.suffix = ""

InCapability(r) ==
    /\ r.group = "group_d_capability" /\ r.workload = "create_order"
    /\ r.variant \in {"V2", "V3", "V4", "V5"} /\ r.downstream_capability \in {"C0", "C1", "C2"}
    /\ ~(r.variant = "V3" /\ r.downstream_capability = "C0")
    /\ r.failure_scenario \in {"F3", "F8"} /\ r.failure_probability = 10
    /\ r.concurrency = 50 /\ r.fanout = 0 /\ r.suffix = "_CAP"

InSafeControls(r) ==
    /\ r.group = "group_e_safe_controls" /\ r.workload = "create_order"
    /\ r.variant \in Variants /\ r.downstream_capability = CapFor(r.variant)
    /\ r.failure_scenario \in {"F1", "F2", "F7"} /\ r.failure_probability = 10
    /\ r.concurrency = 50 /\ r.fanout = 0 /\ r.suffix = ""

InGeneralization(r) ==
    /\ r.group = "group_f_generalization"
    /\ r.workload \in {"charge_payment", "reserve_inventory", "send_notification"}
    /\ r.variant \in {"V0", "V2", "V4", "V5"} /\ r.downstream_capability = CapFor(r.variant)
    /\ r.failure_scenario \in {"F3", "F8"} /\ r.failure_probability = 10
    /\ r.concurrency = 50 /\ r.fanout = 0 /\ r.suffix = ""

InSomeGroup(r) ==
    \/ InBaseline(r) \/ InAmbiguous(r) \/ InDuplicates(r)
    \/ InCapability(r) \/ InSafeControls(r) \/ InGeneralization(r)

\* A row of each group, from what varies in it.
BaselineRow(v, c, s) ==
    Planned("group_a_baseline", "create_order", v, CapFor(v), "F0", 0, c, 0, "", s)

AmbiguousRow(f, v, p, c, s) ==
    Planned("group_b_ambiguous", "create_order", v, CapFor(v), f, p, c, 0, "", s)

DuplicatesRow(f, v, n, s) ==
    Planned("group_c_duplicates", "create_order", v, CapFor(v), f, 0, 50, n, "", s)

CapabilityRow(vc, f, s) ==
    Planned("group_d_capability", "create_order", vc[1], vc[2], f, 10, 50, 0, "_CAP", s)

SafeControlsRow(f, v, s) ==
    Planned("group_e_safe_controls", "create_order", v, CapFor(v), f, 10, 50, 0, "", s)

GeneralizationRow(w, v, f, s) ==
    Planned("group_f_generalization", w, v, CapFor(v), f, 10, 50, 0, "", s)

\* The rows generated for a seed are those of the six groups with that seed.
LEMMA RowsOfSeed ==
    ASSUME NEW s, NEW r
    PROVE  /\ r \in Baseline(s) <=> IsRow(r) /\ r.seed = s /\ InBaseline(r)
           /\ r \in Ambiguous(s) <=> IsRow(r) /\ r.seed = s /\ InAmbiguous(r)
           /\ r \in Duplicates(s) <=> IsRow(r) /\ r.seed = s /\ InDuplicates(r)
           /\ r \in CapabilityRows(s) <=> IsRow(r) /\ r.seed = s /\ InCapability(r)
           /\ r \in SafeControls(s) <=> IsRow(r) /\ r.seed = s /\ InSafeControls(r)
           /\ r \in Generalization(s) <=> IsRow(r) /\ r.seed = s /\ InGeneralization(r)
  <1>1. r \in Baseline(s) <=> IsRow(r) /\ r.seed = s /\ InBaseline(r)
    <2>1. r \in Baseline(s) <=> \E v \in Variants, c \in {1, 10, 50, 100} : r = BaselineRow(v, c, s)
      <3>1. Baseline(s) = { BaselineRow(v, c, s) : v \in Variants, c \in {1, 10, 50, 100} }
        BY SMT DEF Baseline, BaselineRow
      <3> QED
        BY <3>1
    <2>2. ASSUME NEW v \in Variants, NEW c \in {1, 10, 50, 100}, r = BaselineRow(v, c, s)
          PROVE  IsRow(r) /\ r.seed = s /\ InBaseline(r)
      <3>1. /\ r.group = "group_a_baseline" /\ r.workload = "create_order" /\ r.variant = v
            /\ r.downstream_capability = CapFor(v)
            /\ r.failure_scenario = "F0" /\ r.failure_probability = 0 /\ r.concurrency = c
            /\ r.fanout = 0 /\ r.suffix = "" /\ r.seed = s
        BY <2>2 DEF BaselineRow, Planned
      <3>2. IsRow(r)
        BY <2>2 DEF BaselineRow, IsRow, Planned
      <3> QED
        BY <3>1, <2>2, <3>2 DEF InBaseline
    <2>3. ASSUME IsRow(r), r.seed = s, InBaseline(r)
          PROVE  \E v \in Variants, c \in {1, 10, 50, 100} : r = BaselineRow(v, c, s)
      <3>1. r = BaselineRow(r.variant, r.concurrency, s)
        BY <2>3 DEF BaselineRow, IsRow, InBaseline, Planned
      <3> QED
        BY <2>3, <3>1 DEF InBaseline
    <2> QED
      BY <2>1, <2>2, <2>3
  <1>2. r \in Ambiguous(s) <=> IsRow(r) /\ r.seed = s /\ InAmbiguous(r)
    <2>1. r \in Ambiguous(s) <=> \E f \in {"F3", "F4", "F8", "F9"}, v \in Variants, p \in {1, 5, 10, 20},
            c \in {10, 50} : r = AmbiguousRow(f, v, p, c, s)
      <3>1. Ambiguous(s) = { AmbiguousRow(f, v, p, c, s) : f \in {"F3", "F4", "F8", "F9"},
              v \in Variants, p \in {1, 5, 10, 20}, c \in {10, 50} }
        BY SMT DEF Ambiguous, AmbiguousRow
      <3> QED
        BY <3>1
    <2>2. ASSUME NEW f \in {"F3", "F4", "F8", "F9"}, NEW v \in Variants, NEW p \in {1, 5, 10, 20},
                 NEW c \in {10, 50}, r = AmbiguousRow(f, v, p, c, s)
          PROVE  IsRow(r) /\ r.seed = s /\ InAmbiguous(r)
      <3>1. /\ r.group = "group_b_ambiguous" /\ r.workload = "create_order" /\ r.variant = v
            /\ r.downstream_capability = CapFor(v)
            /\ r.failure_scenario = f /\ r.failure_probability = p /\ r.concurrency = c
            /\ r.fanout = 0 /\ r.suffix = "" /\ r.seed = s
        BY <2>2 DEF AmbiguousRow, Planned
      <3>2. IsRow(r)
        BY <2>2 DEF AmbiguousRow, IsRow, Planned
      <3> QED
        BY <3>1, <2>2, <3>2 DEF InAmbiguous
    <2>3. ASSUME IsRow(r), r.seed = s, InAmbiguous(r)
          PROVE  \E f \in {"F3", "F4", "F8", "F9"}, v \in Variants, p \in {1, 5, 10, 20}, c \in {10, 50} :
                 r = AmbiguousRow(f, v, p, c, s)
      <3>1. r = AmbiguousRow(r.failure_scenario, r.variant, r.failure_probability, r.concurrency, s)
        BY <2>3 DEF AmbiguousRow, IsRow, InAmbiguous, Planned
      <3>2. /\ r.failure_scenario \in {"F3", "F4", "F8", "F9"} /\ r.variant \in Variants
            /\ r.failure_probability \in {1, 5, 10, 20} /\ r.concurrency \in {10, 50}
        BY <2>3 DEF InAmbiguous
      <3> USE <3>2
      <3> WITNESS r.failure_scenario \in {"F3", "F4", "F8", "F9"}, r.variant \in Variants,
                  r.failure_probability \in {1, 5, 10, 20}, r.concurrency \in {10, 50}
      <3> QED
        BY <3>1
    <2> QED
      BY <2>1, <2>2, <2>3
  <1>3. r \in Duplicates(s) <=> IsRow(r) /\ r.seed = s /\ InDuplicates(r)
    <2>1. r \in Duplicates(s) <=> \E f \in {"F5", "F6", "F11"}, v \in Variants, n \in {2, 5, 10} :
            r = DuplicatesRow(f, v, n, s)
      <3>1. Duplicates(s) = { DuplicatesRow(f, v, n, s) : f \in {"F5", "F6", "F11"}, v \in Variants,
              n \in {2, 5, 10} }
        BY SMT DEF Duplicates, DuplicatesRow
      <3> QED
        BY <3>1
    <2>2. ASSUME NEW f \in {"F5", "F6", "F11"}, NEW v \in Variants, NEW n \in {2, 5, 10},
                 r = DuplicatesRow(f, v, n, s)
          PROVE  IsRow(r) /\ r.seed = s /\ InDuplicates(r)
      <3>1. /\ r.group = "group_c_duplicates" /\ r.workload = "create_order" /\ r.variant = v
            /\ r.downstream_capability = CapFor(v)
            /\ r.failure_scenario = f /\ r.failure_probability = 0 /\ r.concurrency = 50
            /\ r.fanout = n /\ r.suffix = "" /\ r.seed = s
        BY <2>2 DEF DuplicatesRow, Planned
      <3>2. IsRow(r)
        BY <2>2 DEF DuplicatesRow, IsRow, Planned
      <3> QED
        BY <3>1, <2>2, <3>2 DEF InDuplicates
    <2>3. ASSUME IsRow(r), r.seed = s, InDuplicates(r)
          PROVE  \E f \in {"F5", "F6", "F11"}, v \in Variants, n \in {2, 5, 10} : r = DuplicatesRow(f, v, n, s)
      <3>1. r = DuplicatesRow(r.failure_scenario, r.variant, r.fanout, s)
        BY <2>3 DEF DuplicatesRow, IsRow, InDuplicates, Planned
      <3> QED
        BY <2>3, <3>1 DEF InDuplicates
    <2> QED
      BY <2>1, <2>2, <2>3
  <1>4. r \in CapabilityRows(s) <=> IsRow(r) /\ r.seed = s /\ InCapability(r)
    <2>1. r \in CapabilityRows(s)
            <=> \E vc \in ({"V2", "V3", "V4", "V5"} \X {"C0", "C1", "C2"}) \ {<<"V3", "C0">>},
            f \in {"F3", "F8"} : r = CapabilityRow(vc, f, s)
      <3>1. CapabilityRows(s) = { CapabilityRow(vc, f, s) :
              vc \in ({"V2", "V3", "V4", "V5"} \X {"C0", "C1", "C2"}) \ {<<"V3", "C0">>}, f \in {"F3", "F8"} }
        BY SMT DEF CapabilityRows, CapabilityRow
      <3> QED
        BY <3>1
    <2>2. ASSUME NEW vc \in ({"V2", "V3", "V4", "V5"} \X {"C0", "C1", "C2"}) \ {<<"V3", "C0">>},
                 NEW f \in {"F3", "F8"}, r = CapabilityRow(vc, f, s)
          PROVE  IsRow(r) /\ r.seed = s /\ InCapability(r)
      <3>1. /\ r.group = "group_d_capability" /\ r.workload = "create_order" /\ r.variant = vc[1]
            /\ r.downstream_capability = vc[2]
            /\ r.failure_scenario = f /\ r.failure_probability = 10 /\ r.concurrency = 50
            /\ r.fanout = 0 /\ r.suffix = "_CAP" /\ r.seed = s
        BY <2>2 DEF CapabilityRow, Planned
      <3>2. IsRow(r)
        BY <2>2 DEF CapabilityRow, IsRow, Planned
      <3> QED
        BY <3>1, <2>2, <3>2 DEF InCapability
    <2>3. ASSUME IsRow(r), r.seed = s, InCapability(r)
          PROVE  \E vc \in ({"V2", "V3", "V4", "V5"} \X {"C0", "C1", "C2"}) \ {<<"V3", "C0">>},
                 f \in {"F3", "F8"} : r = CapabilityRow(vc, f, s)
      <3> DEFINE pair == <<r.variant, r.downstream_capability>>
      <3>1. pair \in ({"V2", "V3", "V4", "V5"} \X {"C0", "C1", "C2"}) \ {<<"V3", "C0">>}
            /\ pair[1] = r.variant /\ pair[2] = r.downstream_capability
        BY <2>3 DEF InCapability
      <3> HIDE DEF pair
      <3>2. r = CapabilityRow(pair, r.failure_scenario, s)
        BY <2>3, <3>1 DEF CapabilityRow, IsRow, InCapability, Planned
      <3> QED
        BY <2>3, <3>1, <3>2 DEF InCapability
    <2> QED
      BY <2>1, <2>2, <2>3
  <1>5. r \in SafeControls(s) <=> IsRow(r) /\ r.seed = s /\ InSafeControls(r)
    <2>1. r \in SafeControls(s) <=> \E f \in {"F1", "F2", "F7"}, v \in Variants : r = SafeControlsRow(f, v, s)
      <3>1. SafeControls(s) = { SafeControlsRow(f, v, s) : f \in {"F1", "F2", "F7"}, v \in Variants }
        BY SMT DEF SafeControls, SafeControlsRow
      <3> QED
        BY <3>1
    <2>2. ASSUME NEW f \in {"F1", "F2", "F7"}, NEW v \in Variants, r = SafeControlsRow(f, v, s)
          PROVE  IsRow(r) /\ r.seed = s /\ InSafeControls(r)
      <3>1. /\ r.group = "group_e_safe_controls" /\ r.workload = "create_order" /\ r.variant = v
            /\ r.downstream_capability = CapFor(v)
            /\ r.failure_scenario = f /\ r.failure_probability = 10 /\ r.concurrency = 50
            /\ r.fanout = 0 /\ r.suffix = "" /\ r.seed = s
        BY <2>2 DEF SafeControlsRow, Planned
      <3>2. IsRow(r)
        BY <2>2 DEF SafeControlsRow, IsRow, Planned
      <3> QED
        BY <3>1, <2>2, <3>2 DEF InSafeControls
    <2>3. ASSUME IsRow(r), r.seed = s, InSafeControls(r)
          PROVE  \E f \in {"F1", "F2", "F7"}, v \in Variants : r = SafeControlsRow(f, v, s)
      <3>1. r = SafeControlsRow(r.failure_scenario, r.variant, s)
        BY <2>3 DEF SafeControlsRow, IsRow, InSafeControls, Planned
      <3> QED
        BY <2>3, <3>1 DEF InSafeControls
    <2> QED
      BY <2>1, <2>2, <2>3
  <1>6. r \in Generalization(s) <=> IsRow(r) /\ r.seed = s /\ InGeneralization(r)
    <2>1. r \in Generalization(s)
            <=> \E w \in {"charge_payment", "reserve_inventory", "send_notification"},
            v \in {"V0", "V2", "V4", "V5"}, f \in {"F3", "F8"} : r = GeneralizationRow(w, v, f, s)
      <3>1. Generalization(s) = { GeneralizationRow(w, v, f, s) :
              w \in {"charge_payment", "reserve_inventory", "send_notification"},
              v \in {"V0", "V2", "V4", "V5"}, f \in {"F3", "F8"} }
        BY SMT DEF Generalization, GeneralizationRow
      <3> QED
        BY <3>1
    <2>2. ASSUME NEW w \in {"charge_payment", "reserve_inventory", "send_notification"},
                 NEW v \in {"V0", "V2", "V4", "V5"}, NEW f \in {"F3", "F8"}, r = GeneralizationRow(w, v, f, s)
          PROVE  IsRow(r) /\ r.seed = s /\ InGeneralization(r)
      <3>1. /\ r.group = "group_f_generalization" /\ r.workload = w /\ r.variant = v
            /\ r.downstream_capability = CapFor(v)
            /\ r.failure_scenario = f /\ r.failure_probability = 10 /\ r.concurrency = 50
            /\ r.fanout = 0 /\ r.suffix = "" /\ r.seed = s
        BY <2>2 DEF GeneralizationRow, Planned
      <3>2. IsRow(r)
        BY <2>2 DEF GeneralizationRow, IsRow, Planned
      <3> QED
        BY <3>1, <2>2, <3>2 DEF InGeneralization
    <2>3. ASSUME IsRow(r), r.seed = s, InGeneralization(r)
          PROVE  \E w \in {"charge_payment", "reserve_inventory", "send_notification"},
                 v \in {"V0", "V2", "V4", "V5"}, f \in {"F3", "F8"} : r = GeneralizationRow(w, v, f, s)
      <3>1. r = GeneralizationRow(r.workload, r.variant, r.failure_scenario, s)
        BY <2>3 DEF GeneralizationRow, IsRow, InGeneralization, Planned
      <3> QED
        BY <2>3, <3>1 DEF InGeneralization
    <2> QED
      BY <2>1, <2>2, <2>3
  <1> QED
    BY <1>1, <1>2, <1>3, <1>4, <1>5, <1>6

\* The matrix is what its six groups have, for each of the seeds.
LEMMA MatrixIsSixGroups ==
    ASSUME NEW r
    PROVE  r \in Matrix <=> IsRow(r) /\ r.seed \in Seeds /\ InSomeGroup(r)
  BY RowsOfSeed DEF Matrix, InSomeGroup

\* Two rows that agree in all columns are one row.
LEMMA RowsDiffer ==
    ASSUME NEW q, NEW r, IsRow(q), IsRow(r)
    PROVE  /\ Alike(q, r) /\ q.seed = r.seed => q = r
           /\ Condition(q) = Condition(r) <=> Alike(q, r)
  <1>1. Alike(q, r) /\ q.seed = r.seed => q = r
    BY DEF Alike, IsRow, Planned
  <1> DEFINE columns == { "group", "workload", "variant", "downstream_capability",
                          "failure_scenario", "failure_probability", "concurrency", "fanout", "suffix" }
  <1>2. DOMAIN q \ {"seed"} = columns /\ DOMAIN r \ {"seed"} = columns
    BY DEF IsRow, Planned
  <1>3. Condition(q) = [k \in columns |-> q[k]] /\ Condition(r) = [k \in columns |-> r[k]]
    BY <1>2 DEF Condition
  <1>4. (\A k \in columns : q[k] = r[k]) <=> Alike(q, r)
    BY DEF Alike
  <1>5. [k \in columns |-> q[k]] = [k \in columns |-> r[k]] <=> \A k \in columns : q[k] = r[k]
    <2> HIDE DEF columns
    <2>1. ASSUME [k \in columns |-> q[k]] = [k \in columns |-> r[k]], NEW k \in columns
          PROVE  q[k] = r[k]
      <3>1. [j \in columns |-> q[j]][k] = [j \in columns |-> r[j]][k]
        BY <2>1
      <3> QED
        BY <3>1
    <2> QED
      BY <2>1
  <1> QED
    BY <1>1, <1>3, <1>4, <1>5

\* A row has one of each seed beside it.
LEMMA OtherSeeds ==
    ASSUME NEW r \in Matrix, NEW s \in Seeds
    PROVE  \E q \in Matrix : Alike(q, r) /\ q.seed = s
  <1> DEFINE q == Planned(r.group, r.workload, r.variant, r.downstream_capability, r.failure_scenario,
                          r.failure_probability, r.concurrency, r.fanout, r.suffix, s)
  <1>1. Alike(q, r) /\ q.seed = s /\ IsRow(q)
    BY DEF Alike, IsRow, Planned
  <1> HIDE DEF q
  <1>2. InSomeGroup(r)
    BY MatrixIsSixGroups
  <1>4. InSomeGroup(q)
    BY <1>1, <1>2
    DEF Alike, InSomeGroup, InBaseline, InAmbiguous, InDuplicates, InCapability, InSafeControls,
      InGeneralization
  <1>3. q \in Matrix
    BY <1>1, <1>4, MatrixIsSixGroups
  <1> QED
    BY <1>1, <1>3

-----------------------------------------------------------------------------
(* Cells.                                                                  *)

Columns == { "group", "workload", "variant", "downstream_capability",
             "failure_scenario", "failure_probability", "concurrency", "fanout", "suffix" }

\* A key is made of columns; rows with the same key agree in them.
LEMMA KeysTell ==
    ASSUME NEW q, NEW r, NEW keys
    PROVE  /\ Key(q, keys) = Key(r, keys) <=> \A k \in keys : q[k] = r[k]
           /\ keys \subseteq Columns /\ Alike(q, r) => Key(q, keys) = Key(r, keys)
  <1>1. ASSUME Key(q, keys) = Key(r, keys), NEW k \in keys
        PROVE  q[k] = r[k]
    <2>1. Key(q, keys)[k] = q[k] /\ Key(r, keys)[k] = r[k]
      BY DEF Key
    <2> QED
      BY <1>1, <2>1
  <1>2. ASSUME \A k \in keys : q[k] = r[k]
        PROVE  Key(q, keys) = Key(r, keys)
    BY <1>2 DEF Key
  <1>3. Alike(q, r) => \A k \in Columns : q[k] = r[k]
    BY DEF Alike, Columns
  <1> QED
    BY <1>1, <1>2, <1>3

\* What the rows of each group are selected by: their group names it.
LEMMA GroupsAreNamed ==
    ASSUME NEW r \in Matrix
    PROVE  /\ IsRow(r) /\ r.seed \in Seeds /\ InSomeGroup(r)
           /\ r.group = "group_a_baseline" <=> InBaseline(r)
           /\ r.group = "group_b_ambiguous" <=> InAmbiguous(r)
           /\ r.group = "group_c_duplicates" <=> InDuplicates(r)
           /\ r.group = "group_d_capability" <=> InCapability(r)
           /\ r.group = "group_e_safe_controls" <=> InSafeControls(r)
           /\ r.group = "group_f_generalization" <=> InGeneralization(r)
  <1>1. IsRow(r) /\ r.seed \in Seeds /\ InSomeGroup(r)
    BY MatrixIsSixGroups
  <1> QED
    BY <1>1 DEF InSomeGroup, InBaseline, InAmbiguous, InDuplicates, InCapability, InSafeControls,
      InGeneralization

\* A cell of the tab has exactly the rows of one condition.
TellsConditions(tab, data) ==
    /\ tab.rows \subseteq data /\ tab.keys \subseteq Columns
    /\ \A q, r \in tab.rows : Key(q, tab.keys) = Key(r, tab.keys) => Alike(q, r)
    /\ \A r \in tab.rows, q \in data : Alike(q, r) => q \in tab.rows

\* Then it is what the reader takes it for.
LEMMA CellsOfConditions ==
    ASSUME NEW data \in SUBSET Matrix, NEW tab, TellsConditions(tab, data), NEW r \in tab.rows
    PROVE  /\ \A q \in Cell(tab, r) : Condition(q) = Condition(r)
           /\ { q.seed : q \in Cell(tab, r) }
                = Seeds \ { q.seed : q \in { l \in Lost(data) : Condition(l) = Condition(r) } }
  <1>1. r \in Matrix /\ tab.rows \subseteq Matrix /\ Lost(data) \subseteq Matrix
    BY DEF TellsConditions, Lost
  <1>2. \A q \in Matrix : Condition(q) = Condition(r) <=> Alike(q, r)
    BY <1>1, RowsDiffer, GroupsAreNamed
  <1>3. \A q : q \in Cell(tab, r) <=> q \in data /\ Alike(q, r)
    <2>1. ASSUME NEW q \in Cell(tab, r)
          PROVE  q \in data /\ Alike(q, r)
      BY DEF Cell, TellsConditions
    <2>2. ASSUME NEW q \in data, Alike(q, r)
          PROVE  q \in Cell(tab, r)
      <3>1. q \in tab.rows /\ tab.keys \subseteq Columns
        BY <2>2 DEF TellsConditions
      <3>2. Key(q, tab.keys) = Key(r, tab.keys)
        BY <2>2, <3>1, KeysTell
      <3> QED
        BY <3>1, <3>2 DEF Cell
    <2> QED
      BY <2>1, <2>2
  <1>4. ASSUME NEW q \in Cell(tab, r)
        PROVE  Condition(q) = Condition(r)
    BY <1>2, <1>3
  <1> DEFINE kept == { q.seed : q \in Cell(tab, r) }
             gone == { q.seed : q \in { l \in Lost(data) : Condition(l) = Condition(r) } }
  <1>5. \A s : s \in kept <=> \E q \in data : Alike(q, r) /\ q.seed = s
    BY <1>3
  <1>6. \A s : s \in gone <=> \E q \in Matrix \ data : Alike(q, r) /\ q.seed = s
    BY <1>2 DEF Lost
  <1>7. \A q \in Matrix : q.seed \in Seeds
    BY GroupsAreNamed
  <1>8. \A p, q \in Matrix : Alike(p, r) /\ Alike(q, r) /\ p.seed = q.seed => p = q
    <2>1. ASSUME NEW p \in Matrix, NEW q \in Matrix, Alike(p, r), Alike(q, r), p.seed = q.seed
          PROVE  p = q
      <3>1. Alike(p, q) /\ IsRow(p) /\ IsRow(q)
        BY <2>1, GroupsAreNamed DEF Alike
      <3> QED
        BY <2>1, <3>1, RowsDiffer
    <2> QED
      BY <2>1
  <1>9. \A s \in Seeds : \E q \in Matrix : Alike(q, r) /\ q.seed = s
    BY <1>1, OtherSeeds
  <1> HIDE DEF kept, gone
  <1>10. kept = Seeds \ gone
    BY <1>5, <1>6, <1>7, <1>8, <1>9
  <1> QED
    BY <1>4, <1>10 DEF kept, gone

\* The rows agree in the columns of the key.
SameKey(q, r, keys) == \A k \in keys : q[k] = r[k]

\* The cells of a table are conditions if the columns it leaves out are the same
\* in all rows it selects, or follow from those it has.
LEMMA TableTells ==
    ASSUME NEW data \in SUBSET Matrix, NEW selected \in SUBSET data, NEW keys, keys \subseteq Columns,
           \A q, r \in selected : SameKey(q, r, keys) => Alike(q, r),
           \A r \in selected, q \in data : Alike(q, r) => q \in selected
    PROVE  TellsConditions(Grouped(selected, keys), data)
  <1> DEFINE tab == Grouped(selected, keys)
  <1>1. tab.rows = selected /\ tab.keys = keys
    BY DEF Grouped
  <1> HIDE DEF tab
  <1>2. \A q, r : Key(q, keys) = Key(r, keys) => SameKey(q, r, keys)
    BY KeysTell DEF SameKey
  <1>3. TellsConditions(tab, data)
    BY <1>1, <1>2 DEF TellsConditions
  <1> QED
    BY <1>3 DEF tab

\* Each table of conditions.
LEMMA Rq1Tells == ASSUME NEW data \in SUBSET Matrix PROVE TellsConditions(Rq1Ambiguous(data), data)
  <1> DEFINE keys == {"failure_scenario", "variant", "failure_probability", "concurrency"}
             selected == InGroup(data, "group_b_ambiguous")
  <1>1. ASSUME NEW q \in selected, NEW r \in selected, SameKey(q, r, keys)
        PROVE  Alike(q, r)
    <2>1. InAmbiguous(q) /\ InAmbiguous(r)
      BY <1>1, GroupsAreNamed DEF InGroup
    <2> QED
      BY <1>1, <2>1 DEF Alike, InAmbiguous, SameKey
  <1>2. ASSUME NEW r \in selected, NEW q \in data, Alike(q, r)
        PROVE  q \in selected
    BY <1>2 DEF Alike, InGroup
  <1>3. keys \subseteq Columns /\ selected \in SUBSET data
    BY DEF Columns, InGroup
  <1>4. Rq1Ambiguous(data) = Grouped(selected, keys)
    BY DEF Rq1Ambiguous
  <1> HIDE DEF selected, keys
  <1> QED
    BY <1>1, <1>2, <1>3, <1>4, TableTells

LEMMA RecoveryTells == ASSUME NEW data \in SUBSET Matrix PROVE TellsConditions(AmbiguityRecovery(data), data)
  <1> DEFINE keys == {"failure_scenario", "failure_probability", "concurrency", "variant"}
             selected == { r \in InGroup(data, "group_b_ambiguous") :
               r.failure_scenario \in {"F3", "F4", "F8", "F9"} }
  <1>1. ASSUME NEW q \in selected, NEW r \in selected, SameKey(q, r, keys)
        PROVE  Alike(q, r)
    <2>1. InAmbiguous(q) /\ InAmbiguous(r)
      BY <1>1, GroupsAreNamed DEF InGroup
    <2> QED
      BY <1>1, <2>1 DEF Alike, InAmbiguous, SameKey
  <1>2. ASSUME NEW r \in selected, NEW q \in data, Alike(q, r)
        PROVE  q \in selected
    BY <1>2 DEF Alike, InGroup
  <1>3. keys \subseteq Columns /\ selected \in SUBSET data
    BY DEF Columns, InGroup
  <1>4. AmbiguityRecovery(data) = Grouped(selected, keys)
    BY DEF AmbiguityRecovery
  <1> HIDE DEF selected, keys
  <1> QED
    BY <1>1, <1>2, <1>3, <1>4, TableTells

LEMMA PressureTells == ASSUME NEW data \in SUBSET Matrix PROVE TellsConditions(DuplicatePressure(data), data)
  <1> DEFINE keys == {"failure_scenario", "variant", "fanout"}
             selected == InGroup(data, "group_c_duplicates")
  <1>1. ASSUME NEW q \in selected, NEW r \in selected, SameKey(q, r, keys)
        PROVE  Alike(q, r)
    <2>1. InDuplicates(q) /\ InDuplicates(r)
      BY <1>1, GroupsAreNamed DEF InGroup
    <2> QED
      BY <1>1, <2>1 DEF Alike, InDuplicates, SameKey
  <1>2. ASSUME NEW r \in selected, NEW q \in data, Alike(q, r)
        PROVE  q \in selected
    BY <1>2 DEF Alike, InGroup
  <1>3. keys \subseteq Columns /\ selected \in SUBSET data
    BY DEF Columns, InGroup
  <1>4. DuplicatePressure(data) = Grouped(selected, keys)
    BY DEF DuplicatePressure
  <1> HIDE DEF selected, keys
  <1> QED
    BY <1>1, <1>2, <1>3, <1>4, TableTells

LEMMA AmplificationTells == ASSUME NEW data \in SUBSET Matrix PROVE TellsConditions(RetryAmplification(data), data)
  <1> DEFINE keys == {"failure_scenario", "variant", "fanout"}
             selected == { r \in data : r.failure_scenario \in {"F5", "F6", "F11"} }
  <1>1. ASSUME NEW q \in selected, NEW r \in selected, SameKey(q, r, keys)
        PROVE  Alike(q, r)
    <2>1. InDuplicates(q) /\ InDuplicates(r)
      BY <1>1, GroupsAreNamed
      DEF InSomeGroup, InBaseline, InAmbiguous, InCapability, InSafeControls, InGeneralization
    <2> QED
      BY <1>1, <2>1 DEF Alike, InDuplicates, SameKey
  <1>2. ASSUME NEW r \in selected, NEW q \in data, Alike(q, r)
        PROVE  q \in selected
    BY <1>2 DEF Alike
  <1>3. keys \subseteq Columns /\ selected \in SUBSET data
    BY DEF Columns
  <1>4. RetryAmplification(data) = Grouped(selected, keys)
    BY DEF RetryAmplification
  <1> HIDE DEF selected, keys
  <1> QED
    BY <1>1, <1>2, <1>3, <1>4, TableTells

LEMMA PlacementTells == ASSUME NEW data \in SUBSET Matrix PROVE TellsConditions(CapabilityPlacement(data), data)
  <1> DEFINE keys == {"failure_scenario", "variant", "downstream_capability"}
             selected == InGroup(data, "group_d_capability")
  <1>1. ASSUME NEW q \in selected, NEW r \in selected, SameKey(q, r, keys)
        PROVE  Alike(q, r)
    <2>1. InCapability(q) /\ InCapability(r)
      BY <1>1, GroupsAreNamed DEF InGroup
    <2> QED
      BY <1>1, <2>1 DEF Alike, InCapability, SameKey
  <1>2. ASSUME NEW r \in selected, NEW q \in data, Alike(q, r)
        PROVE  q \in selected
    BY <1>2 DEF Alike, InGroup
  <1>3. keys \subseteq Columns /\ selected \in SUBSET data
    BY DEF Columns, InGroup
  <1>4. CapabilityPlacement(data) = Grouped(selected, keys)
    BY DEF CapabilityPlacement
  <1> HIDE DEF selected, keys
  <1> QED
    BY <1>1, <1>2, <1>3, <1>4, TableTells

LEMMA ControlsTell == ASSUME NEW data \in SUBSET Matrix PROVE TellsConditions(SafeControlTable(data), data)
  <1> DEFINE keys == {"failure_scenario", "variant"}
             selected == InGroup(data, "group_e_safe_controls")
  <1>1. ASSUME NEW q \in selected, NEW r \in selected, SameKey(q, r, keys)
        PROVE  Alike(q, r)
    <2>1. InSafeControls(q) /\ InSafeControls(r)
      BY <1>1, GroupsAreNamed DEF InGroup
    <2> QED
      BY <1>1, <2>1 DEF Alike, InSafeControls, SameKey
  <1>2. ASSUME NEW r \in selected, NEW q \in data, Alike(q, r)
        PROVE  q \in selected
    BY <1>2 DEF Alike, InGroup
  <1>3. keys \subseteq Columns /\ selected \in SUBSET data
    BY DEF Columns, InGroup
  <1>4. SafeControlTable(data) = Grouped(selected, keys)
    BY DEF SafeControlTable
  <1> HIDE DEF selected, keys
  <1> QED
    BY <1>1, <1>2, <1>3, <1>4, TableTells

LEMMA LimitationTells == ASSUME NEW data \in SUBSET Matrix PROVE TellsConditions(C0Limitation(data), data)
  <1> DEFINE keys == {"failure_scenario", "variant", "downstream_capability"}
             selected == { r \in data : /\ r.downstream_capability = "C0"
                                  /\ r.failure_scenario \in {"F3", "F8", "F9"}
                                  /\ r.variant \in {"V2", "V4", "V5"} }
  <1>1. ASSUME NEW q \in selected, NEW r \in selected, SameKey(q, r, keys)
        PROVE  Alike(q, r)
    <2>1. InCapability(q) /\ InCapability(r)
      BY <1>1, GroupsAreNamed
      DEF InSomeGroup, InBaseline, InAmbiguous, InDuplicates, InSafeControls, InGeneralization, CapFor
    <2> QED
      BY <1>1, <2>1 DEF Alike, InCapability, SameKey
  <1>2. ASSUME NEW r \in selected, NEW q \in data, Alike(q, r)
        PROVE  q \in selected
    BY <1>2 DEF Alike
  <1>3. keys \subseteq Columns /\ selected \in SUBSET data
    BY DEF Columns
  <1>4. C0Limitation(data) = Grouped(selected, keys)
    BY DEF C0Limitation
  <1> HIDE DEF selected, keys
  <1> QED
    BY <1>1, <1>2, <1>3, <1>4, TableTells

LEMMA BaselineTells == ASSUME NEW data \in SUBSET Matrix PROVE TellsConditions(BaselineMeans(data), data)
  <1> DEFINE keys == {"variant", "concurrency"}
             selected == InGroup(data, "group_a_baseline")
  <1>1. ASSUME NEW q \in selected, NEW r \in selected, SameKey(q, r, keys)
        PROVE  Alike(q, r)
    <2>1. InBaseline(q) /\ InBaseline(r)
      BY <1>1, GroupsAreNamed DEF InGroup
    <2> QED
      BY <1>1, <2>1 DEF Alike, InBaseline, SameKey
  <1>2. ASSUME NEW r \in selected, NEW q \in data, Alike(q, r)
        PROVE  q \in selected
    BY <1>2 DEF Alike, InGroup
  <1>3. keys \subseteq Columns /\ selected \in SUBSET data
    BY DEF Columns, InGroup
  <1>4. BaselineMeans(data) = Grouped(selected, keys)
    BY DEF BaselineMeans
  <1> HIDE DEF selected, keys
  <1> QED
    BY <1>1, <1>2, <1>3, <1>4, TableTells

\* The suffix goes with the group.
LEMMA SuffixIsOfGroup ==
    ASSUME NEW q \in Matrix, NEW r \in Matrix, q.group = r.group
    PROVE  q.suffix = r.suffix
  BY GroupsAreNamed
  DEF InSomeGroup, InBaseline, InAmbiguous, InDuplicates, InCapability, InSafeControls, InGeneralization


LEMMA SummaryTells == ASSUME NEW data \in SUBSET Matrix PROVE TellsConditions(MasterSummary(data), data)
  <1> DEFINE keys == { "group", "workload", "failure_scenario", "variant", "downstream_capability",
                       "failure_probability", "concurrency", "fanout" }
             selected == data
  <1>1. ASSUME NEW q \in selected, NEW r \in selected, SameKey(q, r, keys)
        PROVE  Alike(q, r)
    BY <1>1, SuffixIsOfGroup DEF Alike, SameKey
  <1>2. ASSUME NEW r \in selected, NEW q \in data, Alike(q, r)
        PROVE  q \in selected
    BY <1>2 DEF Alike
  <1>3. keys \subseteq Columns /\ selected \in SUBSET data
    BY DEF Columns
  <1>4. MasterSummary(data) = Grouped(selected, keys)
    BY DEF MasterSummary
  <1> HIDE DEF selected, keys
  <1> QED
    BY <1>1, <1>2, <1>3, <1>4, TableTells

LEMMA EffectsTell == ASSUME NEW data \in SUBSET Matrix PROVE TellsConditions(EffectAudit(data), data)
  <1> DEFINE keys == { "group", "workload", "failure_scenario", "variant", "downstream_capability",
                       "failure_probability", "concurrency", "fanout" }
             selected == { r \in data : r.variant \in {"V2", "V3", "V4", "V5"} /\ r.failure_scenario # "F0" }
  <1>1. ASSUME NEW q \in selected, NEW r \in selected, SameKey(q, r, keys)
        PROVE  Alike(q, r)
    BY <1>1, SuffixIsOfGroup DEF Alike, SameKey
  <1>2. ASSUME NEW r \in selected, NEW q \in data, Alike(q, r)
        PROVE  q \in selected
    BY <1>2 DEF Alike
  <1>3. keys \subseteq Columns /\ selected \in SUBSET data
    BY DEF Columns
  <1>4. EffectAudit(data) = Grouped(selected, keys)
    BY DEF EffectAudit
  <1> HIDE DEF selected, keys
  <1> QED
    BY <1>1, <1>2, <1>3, <1>4, TableTells

LEMMA TradeoffTells == ASSUME NEW data \in SUBSET Matrix PROVE TellsConditions(CostTradeoff(data), data)
  <1> DEFINE keys == {"group", "failure_scenario", "variant"}
             selected == { r \in data :
                             \/ /\ r.group = "group_b_ambiguous" /\ r.failure_scenario \in {"F3", "F8"}
                                /\ r.failure_probability = 10 /\ r.concurrency = 50
                             \/ r.group = "group_a_baseline" /\ r.concurrency = 50 }
  <1>1. ASSUME NEW q \in selected, NEW r \in selected, SameKey(q, r, keys)
        PROVE  Alike(q, r)
    <2>1. q.group = r.group /\ q.failure_scenario = r.failure_scenario /\ q.variant = r.variant
      BY <1>1 DEF SameKey
    <2>2. CASE r.group = "group_b_ambiguous"
      <3>1. InAmbiguous(q) /\ InAmbiguous(r)
        BY <1>1, <2>1, <2>2, GroupsAreNamed
      <3>2. q.failure_probability = r.failure_probability /\ q.concurrency = r.concurrency
        BY <1>1, <2>1, <2>2
      <3> QED
        BY <2>1, <3>1, <3>2 DEF Alike, InAmbiguous
    <2>3. CASE r.group = "group_a_baseline"
      <3>1. InBaseline(q) /\ InBaseline(r)
        BY <1>1, <2>1, <2>3, GroupsAreNamed
      <3>2. q.concurrency = r.concurrency
        BY <1>1, <2>1, <2>3
      <3> QED
        BY <2>1, <3>1, <3>2 DEF Alike, InBaseline
    <2> QED
      BY <1>1, <2>2, <2>3
  <1>2. ASSUME NEW r \in selected, NEW q \in data, Alike(q, r)
        PROVE  q \in selected
    BY <1>2 DEF Alike
  <1>3. keys \subseteq Columns /\ selected \in SUBSET data
    BY DEF Columns
  <1>4. CostTradeoff(data) = Grouped(selected, keys)
    BY DEF CostTradeoff
  <1> HIDE DEF selected, keys
  <1> QED
    BY <1>1, <1>2, <1>3, <1>4, TableTells

\* In the tables of conditions the cells are conditions, whatever has been lost.
LEMMA TablesTell ==
    ASSUME NEW data \in SUBSET Matrix, NEW r
    PROVE  CellIsOneCondition(data, r)
  <1>1. \A tab \in ConditionTables(data) : TellsConditions(tab, data)
    BY Rq1Tells, RecoveryTells, SummaryTells, PressureTells, AmplificationTells, PlacementTells,
       ControlsTell, LimitationTells, BaselineTells, EffectsTell, TradeoffTells
    DEF ConditionTables
  <1> QED
    BY <1>1, CellsOfConditions DEF CellIsOneCondition

-----------------------------------------------------------------------------
(* Comparisons.                                                            *)

\* The rows of a condition.
OfCondition(r, data) == { q \in data : Alike(q, r) }

\* Among any rows of the matrix those of a condition are told apart by their seeds;
\* the matrix has one for each.
LEMMA ConditionsHaveSeeds ==
    ASSUME NEW r \in Matrix, NEW data \in SUBSET Matrix
    PROVE  /\ IsFiniteSet(OfCondition(r, data))
           /\ Cardinality({ q.seed : q \in OfCondition(r, data) }) = Cardinality(OfCondition(r, data))
           /\ IsFiniteSet(OfCondition(r, Matrix)) /\ Cardinality(OfCondition(r, Matrix)) = Cardinality(Seeds)
  <1>1. ASSUME NEW D \in SUBSET Matrix
        PROVE  /\ { q.seed : q \in OfCondition(r, D) } \in SUBSET Seeds
               /\ IsFiniteSet(OfCondition(r, D))
               /\ Cardinality({ q.seed : q \in OfCondition(r, D) }) = Cardinality(OfCondition(r, D))
    <2> DEFINE C == OfCondition(r, D)
               S == { q.seed : q \in C }
               f == [q \in C |-> q.seed]
    <2>1. S \in SUBSET Seeds
      BY GroupsAreNamed DEF OfCondition
    <2>2. \A p, q \in C : p.seed = q.seed => p = q
      <3>1. ASSUME NEW p \in C, NEW q \in C, p.seed = q.seed
            PROVE  p = q
        <4>1. Alike(p, q) /\ IsRow(p) /\ IsRow(q)
          BY GroupsAreNamed DEF Alike, OfCondition
        <4> QED
          BY <3>1, <4>1, RowsDiffer
      <3> QED
        BY <3>1
    <2> HIDE DEF C
    <2>3. f \in Injection(C, S) /\ f \in Surjection(C, S)
      BY <2>2 DEF Injection, Surjection, IsInjective
    <2>4. IsFiniteSet(S)
      BY <2>1, SeedsAssumption, FS_Subset
    <2> HIDE DEF f, S
    <2>5. IsFiniteSet(C) /\ Cardinality(S) = Cardinality(C)
      BY <2>3, <2>4, FS_Injection
    <2> QED
      BY <2>1, <2>5 DEF C, S
  <1>2. { q.seed : q \in OfCondition(r, Matrix) } = Seeds
    <2>1. \A s \in Seeds : \E q \in OfCondition(r, Matrix) : q.seed = s
      BY OtherSeeds DEF OfCondition
    <2> QED
      BY <1>1, <2>1
  <1> QED
    BY <1>1, <1>2

\* Rows of one condition have one setting.
LEMMA AlikeInSetting ==
    ASSUME NEW q, NEW r, IsRow(q), IsRow(r), q.group = r.group, q.workload = r.workload,
           q.failure_scenario = r.failure_scenario, q.failure_probability = r.failure_probability,
           q.concurrency = r.concurrency, q.fanout = r.fanout, q.suffix = r.suffix
    PROVE  Setting(q) = Setting(r)
  <1> DEFINE columns == { "group", "workload", "failure_scenario", "failure_probability",
                          "concurrency", "fanout", "suffix" }
  <1>1. /\ DOMAIN q \ {"seed", "variant", "downstream_capability"} = columns
        /\ DOMAIN r \ {"seed", "variant", "downstream_capability"} = columns
    BY DEF IsRow, Planned
  <1>2. \A k \in columns : q[k] = r[k]
    OBVIOUS
  <1> HIDE DEF columns
  <1>3. Setting(q) = [k \in columns |-> q[k]] /\ Setting(r) = [k \in columns |-> r[k]]
    BY <1>1 DEF Setting
  <1> QED
    BY <1>2, <1>3

\* The sides of a comparison are two conditions of one setting.
SidesAre(comp, ra, rb) ==
    /\ ra \in Matrix /\ rb \in Matrix
    /\ \A data \in SUBSET Matrix : RowsA(data, comp) = OfCondition(ra, data)
       /\ RowsB(data, comp) = OfCondition(rb, data)
    /\ Setting(ra) = Setting(rb) /\ ~Alike(ra, rb)

\* Then it compares like with like, also when a run is lost.
LEMMA SidesAreBalanced ==
    ASSUME NEW data \in SUBSET Matrix, IsFiniteSet(Lost(data)), Cardinality(Lost(data)) <= 1,
           NEW comp, NEW ra, NEW rb, SidesAre(comp, ra, rb)
    PROVE  ComparesLikeWithLike(data, comp)
  <1> DEFINE a == OfCondition(ra, data)
             b == OfCondition(rb, data)
             la == OfCondition(ra, Lost(data))
             lb == OfCondition(rb, Lost(data))
             n == Cardinality(Seeds)
  <1>1. /\ RowsA(data, comp) = a /\ RowsB(data, comp) = b
        /\ RowsA(Lost(data), comp) = la /\ RowsB(Lost(data), comp) = lb
        /\ ra \in Matrix /\ rb \in Matrix /\ Lost(data) \in SUBSET Matrix
    BY DEF SidesAre, Lost
  <1>2. n \in Nat /\ n # 0
    BY SeedsAssumption, FS_CardinalityType, FS_EmptySet
  <1>3. /\ IsFiniteSet(a) /\ Cardinality(a) = Cardinality({ r.seed : r \in a })
        /\ IsFiniteSet(b) /\ Cardinality(b) = Cardinality({ r.seed : r \in b })
        /\ IsFiniteSet(la) /\ IsFiniteSet(lb)
        /\ IsFiniteSet(OfCondition(ra, Matrix)) /\ Cardinality(OfCondition(ra, Matrix)) = n
        /\ IsFiniteSet(OfCondition(rb, Matrix)) /\ Cardinality(OfCondition(rb, Matrix)) = n
    BY <1>1, ConditionsHaveSeeds
  <1>4. /\ OfCondition(ra, Matrix) = a \cup la /\ a \cap la = {}
        /\ OfCondition(rb, Matrix) = b \cup lb /\ b \cap lb = {}
    BY DEF OfCondition, Lost
  <1>5. la \cap lb = {}
    BY DEF OfCondition, Alike, SidesAre
  <1>6. \A q \in a \cup b : Setting(q) = Setting(ra)
    <2>1. \A q \in Matrix : Alike(q, ra) => Setting(q) = Setting(ra)
      BY <1>1, AlikeInSetting, GroupsAreNamed DEF Alike
    <2>2. \A q \in Matrix : Alike(q, rb) => Setting(q) = Setting(rb)
      BY <1>1, AlikeInSetting, GroupsAreNamed DEF Alike
    <2> QED
      BY <2>1, <2>2 DEF OfCondition, SidesAre
  <1>7. la \cup lb \subseteq Lost(data)
    BY DEF OfCondition
  <1> HIDE DEF a, b, la, lb, n
  <1>8. /\ Cardinality(a) \in Nat /\ Cardinality(b) \in Nat
        /\ Cardinality(la) \in Nat /\ Cardinality(lb) \in Nat
        /\ Cardinality({}) = 0
    BY <1>3, FS_CardinalityType, FS_EmptySet
  <1>9. n = Cardinality(a) + Cardinality(la) /\ n = Cardinality(b) + Cardinality(lb)
    <2>1. Cardinality(a \cup la) = Cardinality(a) + Cardinality(la) - Cardinality({})
      BY <1>3, <1>4, FS_Union
    <2>2. Cardinality(b \cup lb) = Cardinality(b) + Cardinality(lb) - Cardinality({})
      BY <1>3, <1>4, FS_Union
    <2> QED
      BY <1>3, <1>4, <1>8, <2>1, <2>2
  <1>10. Cardinality(la \cup lb) = Cardinality(la) + Cardinality(lb)
    <2>1. Cardinality(la \cup lb) = Cardinality(la) + Cardinality(lb) - Cardinality({})
      BY <1>3, <1>5, FS_Union
    <2> QED
      BY <1>8, <2>1
  <1>11. Cardinality(la \cup lb) <= 1
    <2>1. Cardinality(la \cup lb) <= Cardinality(Lost(data)) /\ Cardinality(Lost(data)) \in Nat
      BY <1>7, FS_Subset, FS_CardinalityType
    <2> QED
      BY <1>8, <1>10, <2>1
  <1>12. Cardinality(a) + Cardinality(b) = 2 * n - Cardinality(la \cup lb)
    BY <1>2, <1>8, <1>9, <1>10
  <1>13. a \cup b # {}
    <2>1. CASE a = {} /\ b = {}
      <3>1. Cardinality(a) = 0 /\ Cardinality(b) = 0
        BY <2>1, <1>8
      <3> QED
        BY <1>2, <1>8, <1>10, <1>11, <1>12, <3>1
    <2> QED
      BY <2>1
  <1>14. { Setting(r) : r \in a \cup b } = {Setting(ra)}
    BY <1>6, <1>13
  <1>15. Cardinality({ Setting(r) : r \in a \cup b }) = 1
    BY <1>14, FS_Singleton
  <1> QED
    BY <1>1, <1>3, <1>12, <1>15 DEF ComparesLikeWithLike, n

\* A side of a comparison is a condition.
SideIs(comp, variant, capability, c) ==
    /\ c \in Matrix
    /\ \A q \in Matrix : Alike(q, c) <=> /\ Common(q, comp) /\ q.variant = variant
                                         /\ capability \in {"", q.downstream_capability}

\* Two such conditions are the sides of a comparison, in whatever data.
LEMMA SidesFrom ==
    ASSUME NEW comp, NEW ra, NEW rb, SideIs(comp, comp.variant_a, comp.capability_a, ra),
           SideIs(comp, comp.variant_b, comp.capability_b, rb),
           Setting(ra) = Setting(rb), ~Alike(ra, rb)
    PROVE  SidesAre(comp, ra, rb)
  BY DEF SideIs, SidesAre, RowsA, RowsB, Side, OfCondition

\* The side of a variant, in each of the groups that are compared in.
LEMMA AmbiguousSide ==
    ASSUME NEW comp, NEW f \in {"F3", "F8", "F9"}, comp.fixed = AmbiguousCell(f), NEW v \in Variants,
           NEW s \in Seeds
    PROVE  SideIs(comp, v, "", AmbiguousRow(f, v, 10, 50, s))
  <1> DEFINE c == AmbiguousRow(f, v, 10, 50, s)
  <1>1. /\ IsRow(c) /\ c.group = "group_b_ambiguous" /\ c.workload = "create_order" /\ c.variant = v
        /\ c.downstream_capability = CapFor(v) /\ c.failure_scenario = f /\ c.failure_probability = 10
        /\ c.concurrency = 50 /\ c.fanout = 0 /\ c.suffix = "" /\ c.seed = s
    BY DEF AmbiguousRow, Planned, IsRow
  <1> HIDE DEF c
  <1>2. InAmbiguous(c)
    BY <1>1 DEF InAmbiguous
  <1>3. c \in Matrix
    BY <1>1, <1>2, MatrixIsSixGroups DEF InSomeGroup
  <1>4. \A q : Common(q, comp) <=> q.group = "group_b_ambiguous" /\ q.failure_scenario = f
          /\ q.concurrency = 50 /\ q.failure_probability = 10
    BY DEF Common, AmbiguousCell
  <1>5. ASSUME NEW q \in Matrix, Common(q, comp), q.variant = v
        PROVE  Alike(q, c)
    <2>1. InAmbiguous(q)
      BY <1>4, <1>5, GroupsAreNamed
    <2> QED
      BY <1>1, <1>4, <1>5, <2>1 DEF InAmbiguous, Alike
  <1>6. ASSUME NEW q \in Matrix, Alike(q, c)
        PROVE  Common(q, comp) /\ q.variant = v
    BY <1>1, <1>4, <1>6 DEF Alike
  <1>7. SideIs(comp, v, "", c)
    BY <1>3, <1>5, <1>6 DEF SideIs
  <1> QED
    BY <1>7 DEF c

LEMMA DuplicatesSide ==
    ASSUME NEW comp, NEW f \in {"F6", "F11"}, NEW v \in Variants, NEW s \in Seeds,
           comp.fixed = [group |-> "group_c_duplicates", failure_scenario |-> f, fanout |-> 10]
    PROVE  SideIs(comp, v, "", DuplicatesRow(f, v, 10, s))
  <1> DEFINE c == DuplicatesRow(f, v, 10, s)
  <1>1. /\ IsRow(c) /\ c.group = "group_c_duplicates" /\ c.workload = "create_order" /\ c.variant = v
        /\ c.downstream_capability = CapFor(v) /\ c.failure_scenario = f /\ c.failure_probability = 0
        /\ c.concurrency = 50 /\ c.fanout = 10 /\ c.suffix = "" /\ c.seed = s
    BY DEF DuplicatesRow, Planned, IsRow
  <1> HIDE DEF c
  <1>2. InDuplicates(c)
    BY <1>1 DEF InDuplicates
  <1>3. c \in Matrix
    BY <1>1, <1>2, MatrixIsSixGroups DEF InSomeGroup
  <1>4. \A q : Common(q, comp) <=> q.group = "group_c_duplicates" /\ q.failure_scenario = f /\ q.fanout = 10
    BY DEF Common
  <1>5. ASSUME NEW q \in Matrix, Common(q, comp), q.variant = v
        PROVE  Alike(q, c)
    <2>1. InDuplicates(q)
      BY <1>4, <1>5, GroupsAreNamed
    <2> QED
      BY <1>1, <1>4, <1>5, <2>1 DEF InDuplicates, Alike
  <1>6. ASSUME NEW q \in Matrix, Alike(q, c)
        PROVE  Common(q, comp) /\ q.variant = v
    BY <1>1, <1>4, <1>6 DEF Alike
  <1>7. SideIs(comp, v, "", c)
    BY <1>3, <1>5, <1>6 DEF SideIs
  <1> QED
    BY <1>7 DEF c

LEMMA BaselineSide ==
    ASSUME NEW comp, NEW n \in {50, 100}, NEW v \in Variants, NEW s \in Seeds,
           comp.fixed = [group |-> "group_a_baseline", failure_scenario |-> "F0", concurrency |-> n]
    PROVE  SideIs(comp, v, "", BaselineRow(v, n, s))
  <1> DEFINE c == BaselineRow(v, n, s)
  <1>1. /\ IsRow(c) /\ c.group = "group_a_baseline" /\ c.workload = "create_order" /\ c.variant = v
        /\ c.downstream_capability = CapFor(v) /\ c.failure_scenario = "F0" /\ c.failure_probability = 0
        /\ c.concurrency = n /\ c.fanout = 0 /\ c.suffix = "" /\ c.seed = s
    BY DEF BaselineRow, Planned, IsRow
  <1> HIDE DEF c
  <1>2. InBaseline(c)
    BY <1>1 DEF InBaseline
  <1>3. c \in Matrix
    BY <1>1, <1>2, MatrixIsSixGroups DEF InSomeGroup
  <1>4. \A q : Common(q, comp) <=> q.group = "group_a_baseline" /\ q.failure_scenario = "F0"
          /\ q.concurrency = n
    BY DEF Common
  <1>5. ASSUME NEW q \in Matrix, Common(q, comp), q.variant = v
        PROVE  Alike(q, c)
    <2>1. InBaseline(q)
      BY <1>4, <1>5, GroupsAreNamed
    <2> QED
      BY <1>1, <1>4, <1>5, <2>1 DEF InBaseline, Alike
  <1>6. ASSUME NEW q \in Matrix, Alike(q, c)
        PROVE  Common(q, comp) /\ q.variant = v
    BY <1>1, <1>4, <1>6 DEF Alike
  <1>7. SideIs(comp, v, "", c)
    BY <1>3, <1>5, <1>6 DEF SideIs
  <1> QED
    BY <1>7 DEF c

LEMMA CapabilitySide ==
    ASSUME NEW comp, NEW v \in {"V2", "V4", "V5"}, NEW k \in {"C0", "C1", "C2"}, NEW s \in Seeds,
           comp.fixed = [group |-> "group_d_capability", failure_scenario |-> "F8"]
    PROVE  SideIs(comp, v, k, CapabilityRow(<<v, k>>, "F8", s))
  <1> DEFINE c == CapabilityRow(<<v, k>>, "F8", s)
  <1>1. /\ IsRow(c) /\ c.group = "group_d_capability" /\ c.workload = "create_order" /\ c.variant = v
        /\ c.downstream_capability = k /\ c.failure_scenario = "F8" /\ c.failure_probability = 10
        /\ c.concurrency = 50 /\ c.fanout = 0 /\ c.suffix = "_CAP" /\ c.seed = s
    BY DEF CapabilityRow, Planned, IsRow
  <1> HIDE DEF c
  <1>2. InCapability(c)
    BY <1>1 DEF InCapability
  <1>3. c \in Matrix
    BY <1>1, <1>2, MatrixIsSixGroups DEF InSomeGroup
  <1>4. \A q : Common(q, comp) <=> q.group = "group_d_capability" /\ q.failure_scenario = "F8"
    BY DEF Common
  <1>5. ASSUME NEW q \in Matrix, Common(q, comp), q.variant = v, q.downstream_capability = k
        PROVE  Alike(q, c)
    <2>1. InCapability(q)
      BY <1>4, <1>5, GroupsAreNamed
    <2> QED
      BY <1>1, <1>4, <1>5, <2>1 DEF InCapability, Alike
  <1>6. ASSUME NEW q \in Matrix, Alike(q, c)
        PROVE  Common(q, comp) /\ q.variant = v /\ q.downstream_capability = k
    BY <1>1, <1>4, <1>6 DEF Alike
  <1>7. SideIs(comp, v, k, c)
    BY <1>3, <1>5, <1>6 DEF SideIs
  <1> QED
    BY <1>7 DEF c

\* Two variants side by side, in each of the groups.
LEMMA AmbiguousPair ==
    ASSUME NEW f \in {"F3", "F8", "F9"}, NEW v \in Variants, NEW w \in Variants, v # w,
           NEW comp, comp = Comparison(v, w, AmbiguousCell(f))
    PROVE  \E ra, rb : SidesAre(comp, ra, rb)
  <1>1. PICK s \in Seeds : TRUE
    BY SeedsAssumption
  <1> DEFINE ra == AmbiguousRow(f, v, 10, 50, s)
             rb == AmbiguousRow(f, w, 10, 50, s)
  <1>2. /\ comp.fixed = AmbiguousCell(f) /\ comp.variant_a = v /\ comp.variant_b = w
        /\ comp.capability_a = "" /\ comp.capability_b = ""
    BY DEF Comparison
  <1>3. SideIs(comp, v, "", ra) /\ SideIs(comp, w, "", rb)
    BY <1>2, AmbiguousSide
  <1>4. Setting(ra) = Setting(rb)
    <2>1. /\ IsRow(ra) /\ IsRow(rb) /\ ra.group = rb.group /\ ra.workload = rb.workload
          /\ ra.failure_scenario = rb.failure_scenario /\ ra.failure_probability = rb.failure_probability
          /\ ra.concurrency = rb.concurrency /\ ra.fanout = rb.fanout /\ ra.suffix = rb.suffix
      BY DEF AmbiguousRow, Planned, IsRow
    <2> HIDE DEF ra, rb
    <2> QED
      BY <2>1, AlikeInSetting
  <1>5. ~Alike(ra, rb)
    BY DEF Alike, AmbiguousRow, Planned
  <1> HIDE DEF ra, rb
  <1>6. SidesAre(comp, ra, rb)
    BY <1>2, <1>3, <1>4, <1>5, SidesFrom
  <1> QED
    BY <1>6

LEMMA DuplicatesPair ==
    ASSUME NEW f \in {"F6", "F11"}, NEW v \in Variants, NEW w \in Variants, v # w,
           NEW comp, comp = Comparison(v, w, [group |-> "group_c_duplicates", failure_scenario |-> f, fanout |-> 10])
    PROVE  \E ra, rb : SidesAre(comp, ra, rb)
  <1>1. PICK s \in Seeds : TRUE
    BY SeedsAssumption
  <1> DEFINE ra == DuplicatesRow(f, v, 10, s)
             rb == DuplicatesRow(f, w, 10, s)
  <1>2. /\ comp.fixed = [group |-> "group_c_duplicates", failure_scenario |-> f, fanout |-> 10]
           /\ comp.variant_a = v /\ comp.variant_b = w
        /\ comp.capability_a = "" /\ comp.capability_b = ""
    BY DEF Comparison
  <1>3. SideIs(comp, v, "", ra) /\ SideIs(comp, w, "", rb)
    BY <1>2, DuplicatesSide
  <1>4. Setting(ra) = Setting(rb)
    <2>1. /\ IsRow(ra) /\ IsRow(rb) /\ ra.group = rb.group /\ ra.workload = rb.workload
          /\ ra.failure_scenario = rb.failure_scenario /\ ra.failure_probability = rb.failure_probability
          /\ ra.concurrency = rb.concurrency /\ ra.fanout = rb.fanout /\ ra.suffix = rb.suffix
      BY DEF DuplicatesRow, Planned, IsRow
    <2> HIDE DEF ra, rb
    <2> QED
      BY <2>1, AlikeInSetting
  <1>5. ~Alike(ra, rb)
    BY DEF Alike, DuplicatesRow, Planned
  <1> HIDE DEF ra, rb
  <1>6. SidesAre(comp, ra, rb)
    BY <1>2, <1>3, <1>4, <1>5, SidesFrom
  <1> QED
    BY <1>6

LEMMA BaselinePair ==
    ASSUME NEW n \in {50, 100}, NEW v \in Variants, NEW w \in Variants, v # w,
           NEW comp, comp = Comparison(v, w, [group |-> "group_a_baseline", failure_scenario |-> "F0", concurrency |-> n])
    PROVE  \E ra, rb : SidesAre(comp, ra, rb)
  <1>1. PICK s \in Seeds : TRUE
    BY SeedsAssumption
  <1> DEFINE ra == BaselineRow(v, n, s)
             rb == BaselineRow(w, n, s)
  <1>2. /\ comp.fixed = [group |-> "group_a_baseline", failure_scenario |-> "F0", concurrency |-> n]
           /\ comp.variant_a = v /\ comp.variant_b = w
        /\ comp.capability_a = "" /\ comp.capability_b = ""
    BY DEF Comparison
  <1>3. SideIs(comp, v, "", ra) /\ SideIs(comp, w, "", rb)
    BY <1>2, BaselineSide
  <1>4. Setting(ra) = Setting(rb)
    <2>1. /\ IsRow(ra) /\ IsRow(rb) /\ ra.group = rb.group /\ ra.workload = rb.workload
          /\ ra.failure_scenario = rb.failure_scenario /\ ra.failure_probability = rb.failure_probability
          /\ ra.concurrency = rb.concurrency /\ ra.fanout = rb.fanout /\ ra.suffix = rb.suffix
      BY DEF BaselineRow, Planned, IsRow
    <2> HIDE DEF ra, rb
    <2> QED
      BY <2>1, AlikeInSetting
  <1>5. ~Alike(ra, rb)
    BY DEF Alike, BaselineRow, Planned
  <1> HIDE DEF ra, rb
  <1>6. SidesAre(comp, ra, rb)
    BY <1>2, <1>3, <1>4, <1>5, SidesFrom
  <1> QED
    BY <1>6

LEMMA CapabilityPair ==
    ASSUME NEW v \in {"V2", "V4", "V5"}, NEW k \in {"C0", "C1", "C2"}, NEW l \in {"C0", "C1", "C2"}, k # l,
           NEW comp, comp = [ Comparison(v, v, [group |-> "group_d_capability", failure_scenario |-> "F8"])
                                EXCEPT !.capability_a = k, !.capability_b = l ]
    PROVE  \E ra, rb : SidesAre(comp, ra, rb)
  <1>1. PICK s \in Seeds : TRUE
    BY SeedsAssumption
  <1> DEFINE ra == CapabilityRow(<<v, k>>, "F8", s)
             rb == CapabilityRow(<<v, l>>, "F8", s)
  <1>2. /\ comp.fixed = [group |-> "group_d_capability", failure_scenario |-> "F8"]
        /\ comp.variant_a = v /\ comp.variant_b = v
        /\ comp.capability_a = k /\ comp.capability_b = l
    BY DEF Comparison
  <1>3. SideIs(comp, v, k, ra) /\ SideIs(comp, v, l, rb)
    BY <1>2, CapabilitySide
  <1>4. Setting(ra) = Setting(rb)
    <2>1. /\ IsRow(ra) /\ IsRow(rb) /\ ra.group = rb.group /\ ra.workload = rb.workload
          /\ ra.failure_scenario = rb.failure_scenario /\ ra.failure_probability = rb.failure_probability
          /\ ra.concurrency = rb.concurrency /\ ra.fanout = rb.fanout /\ ra.suffix = rb.suffix
      BY DEF CapabilityRow, Planned, IsRow
    <2> HIDE DEF ra, rb
    <2> QED
      BY <2>1, AlikeInSetting
  <1>5. ~Alike(ra, rb)
    BY DEF Alike, CapabilityRow, Planned
  <1> HIDE DEF ra, rb
  <1>6. SidesAre(comp, ra, rb)
    BY <1>2, <1>3, <1>4, <1>5, SidesFrom
  <1> QED
    BY <1>6

\* Every comparison of the registry has two sides that are conditions of one setting.
LEMMA Rq1Sides == ASSUME NEW comp \in Rq1Comparisons PROVE \E ra, rb : SidesAre(comp, ra, rb)
  <1>1. PICK f \in {"F3", "F8", "F9"}, v \in Variants, w \in Variants :
           v # w /\ comp = Comparison(v, w, AmbiguousCell(f))
    <2>1. PICK ab \in { <<"V0", "V2">>, <<"V0", "V4">>, <<"V0", "V5">>,
                        <<"V2", "V4">>, <<"V2", "V5">>, <<"V4", "V5">> }, f \in {"F3", "F8"} :
             comp = Comparison(ab[1], ab[2], AmbiguousCell(f))
      BY DEF Rq1Comparisons
    <2>2. ab[1] \in Variants /\ ab[2] \in Variants /\ ab[1] # ab[2]
      BY DEF Variants
    <2> QED
      BY <2>1, <2>2
  <1> QED
    BY <1>1, AmbiguousPair

LEMMA Rq2Sides == ASSUME NEW comp \in Rq2Comparisons PROVE \E ra, rb : SidesAre(comp, ra, rb)
  <1>1. PICK x \in { <<"V2", "C0", "C1">>, <<"V2", "C1", "C2">>, <<"V4", "C0", "C1">>,
                     <<"V4", "C1", "C2">>, <<"V5", "C1", "C2">> } :
           comp = [ Comparison(x[1], x[1], [group |-> "group_d_capability", failure_scenario |-> "F8"])
                      EXCEPT !.capability_a = x[2], !.capability_b = x[3] ]
    BY DEF Rq2Comparisons
  <1>2. /\ x[1] \in {"V2", "V4", "V5"} /\ x[2] \in {"C0", "C1", "C2"} /\ x[3] \in {"C0", "C1", "C2"}
        /\ x[2] # x[3]
    OBVIOUS
  <1> QED
    BY <1>1, <1>2, CapabilityPair

LEMMA Rq3Sides == ASSUME NEW comp \in Rq3Comparisons PROVE \E ra, rb : SidesAre(comp, ra, rb)
  <1>1. {"V0", "V4", "V5"} \subseteq Variants /\ "V4" # "V5" /\ "V0" # "V5"
    BY DEF Variants
  <1>2. CASE comp \in { Comparison("V4", "V5", AmbiguousCell(f)) : f \in {"F8", "F9"} }
    <2>1. PICK f \in {"F8", "F9"} : comp = Comparison("V4", "V5", AmbiguousCell(f))
      BY <1>2
    <2> QED
      BY <1>1, <2>1, AmbiguousPair
  <1>3. CASE comp \in { Comparison("V0", "V5", [ group |-> "group_c_duplicates", failure_scenario |-> f,
                                                 fanout |-> 10 ]) : f \in {"F6", "F11"} }
    <2>1. PICK f \in {"F6", "F11"} :
             comp = Comparison("V0", "V5", [ group |-> "group_c_duplicates", failure_scenario |-> f, fanout |-> 10 ])
      BY <1>3
    <2> QED
      BY <1>1, <2>1, DuplicatesPair
  <1> QED
    BY <1>2, <1>3 DEF Rq3Comparisons

LEMMA Rq4Sides == ASSUME NEW comp \in Rq4Comparisons PROVE \E ra, rb : SidesAre(comp, ra, rb)
  <1>1. PICK v \in {"V2", "V3", "V4", "V5"}, n \in {50, 100} :
           comp = Comparison("V0", v, [ group |-> "group_a_baseline", failure_scenario |-> "F0", concurrency |-> n ])
    BY DEF Rq4Comparisons
  <1>2. "V0" \in Variants /\ v \in Variants /\ "V0" # v
    BY DEF Variants
  <1> QED
    BY <1>1, <1>2, BaselinePair

\* So the registry compares like with like.
LEMMA RegistryIsBalanced ==
    ASSUME NEW data \in SUBSET Matrix, IsFiniteSet(Lost(data)), Cardinality(Lost(data)) <= 1,
           NEW comp \in ComparisonRegistry
    PROVE  ComparesLikeWithLike(data, comp)
  BY Rq1Sides, Rq2Sides, Rq3Sides, Rq4Sides, SidesAreBalanced DEF ComparisonRegistry

-----------------------------------------------------------------------------
(* Ids, stages and the number of rows.                                     *)

\* The group is not in the id, but goes with what is.
LEMMA IdsTell ==
    ASSUME NEW q \in Matrix, NEW r \in Matrix, ExperimentId(q) = ExperimentId(r)
    PROVE  q = r
  <1>1. /\ q.workload = r.workload /\ q.variant = r.variant
        /\ q.downstream_capability = r.downstream_capability /\ q.failure_scenario = r.failure_scenario
        /\ q.failure_probability = r.failure_probability /\ q.concurrency = r.concurrency
        /\ q.fanout = r.fanout /\ q.suffix = r.suffix /\ q.seed = r.seed
    BY DEF ExperimentId
  <1>2. InSomeGroup(q) /\ InSomeGroup(r) /\ IsRow(q) /\ IsRow(r)
    BY GroupsAreNamed
  <1>3. q.group = r.group
    BY <1>1, <1>2
    DEF InSomeGroup, InBaseline, InAmbiguous, InDuplicates, InCapability, InSafeControls, InGeneralization
  <1> QED
    BY <1>1, <1>2, <1>3, RowsDiffer DEF Alike

HasStage(k, group, failure, workload) ==
    /\ StageDefinitions[k].group = group /\ StageDefinitions[k].failure = failure
    /\ StageDefinitions[k].workload = workload

\* Which rows each stage has.
LEMMA StagesAreThirteen ==
    ASSUME NEW r \in Matrix
    PROVE  /\ DOMAIN StageDefinitions = 1..13
           /\ RowMatchesStage(r, StageDefinitions[1]) <=> r.group = "group_a_baseline"
           /\ RowMatchesStage(r, StageDefinitions[2]) <=> r.group = "group_b_ambiguous"
              /\ r.failure_scenario = "F3"
           /\ RowMatchesStage(r, StageDefinitions[3]) <=> r.group = "group_b_ambiguous"
              /\ r.failure_scenario = "F4"
           /\ RowMatchesStage(r, StageDefinitions[4]) <=> r.group = "group_b_ambiguous"
              /\ r.failure_scenario = "F8"
           /\ RowMatchesStage(r, StageDefinitions[5]) <=> r.group = "group_b_ambiguous"
              /\ r.failure_scenario = "F9"
           /\ RowMatchesStage(r, StageDefinitions[6]) <=> r.group = "group_c_duplicates"
              /\ r.failure_scenario = "F5"
           /\ RowMatchesStage(r, StageDefinitions[7]) <=> r.group = "group_c_duplicates"
              /\ r.failure_scenario = "F6"
           /\ RowMatchesStage(r, StageDefinitions[8]) <=> r.group = "group_c_duplicates"
              /\ r.failure_scenario = "F11"
           /\ RowMatchesStage(r, StageDefinitions[9]) <=> r.group = "group_d_capability"
           /\ RowMatchesStage(r, StageDefinitions[10]) <=> r.group = "group_e_safe_controls"
           /\ RowMatchesStage(r, StageDefinitions[11]) <=> r.group = "group_f_generalization"
              /\ r.workload = "charge_payment"
           /\ RowMatchesStage(r, StageDefinitions[12]) <=> r.group = "group_f_generalization"
              /\ r.workload = "reserve_inventory"
           /\ RowMatchesStage(r, StageDefinitions[13]) <=> r.group = "group_f_generalization"
              /\ r.workload = "send_notification"
  <1>0. DOMAIN StageDefinitions = 1..13
    BY DEF StageDefinitions
  <1>1. RowMatchesStage(r, StageDefinitions[1]) <=> r.group = "group_a_baseline"
    <2>1. HasStage(1, "group_a_baseline", "", "")
      BY DEF HasStage, StageDefinitions, StageDef
    <2> QED
      BY <2>1 DEF HasStage, RowMatchesStage
  <1>2. RowMatchesStage(r, StageDefinitions[2]) <=> r.group = "group_b_ambiguous" /\ r.failure_scenario = "F3"
    <2>1. HasStage(2, "group_b_ambiguous", "F3", "")
      BY DEF HasStage, StageDefinitions, StageDef
    <2> QED
      BY <2>1 DEF HasStage, RowMatchesStage
  <1>3. RowMatchesStage(r, StageDefinitions[3]) <=> r.group = "group_b_ambiguous" /\ r.failure_scenario = "F4"
    <2>1. HasStage(3, "group_b_ambiguous", "F4", "")
      BY DEF HasStage, StageDefinitions, StageDef
    <2> QED
      BY <2>1 DEF HasStage, RowMatchesStage
  <1>4. RowMatchesStage(r, StageDefinitions[4]) <=> r.group = "group_b_ambiguous" /\ r.failure_scenario = "F8"
    <2>1. HasStage(4, "group_b_ambiguous", "F8", "")
      BY DEF HasStage, StageDefinitions, StageDef
    <2> QED
      BY <2>1 DEF HasStage, RowMatchesStage
  <1>5. RowMatchesStage(r, StageDefinitions[5]) <=> r.group = "group_b_ambiguous" /\ r.failure_scenario = "F9"
    <2>1. HasStage(5, "group_b_ambiguous", "F9", "")
      BY DEF HasStage, StageDefinitions, StageDef
    <2> QED
      BY <2>1 DEF HasStage, RowMatchesStage
  <1>6. RowMatchesStage(r, StageDefinitions[6]) <=> r.group = "group_c_duplicates" /\ r.failure_scenario = "F5"
    <2>1. HasStage(6, "group_c_duplicates", "F5", "")
      BY DEF HasStage, StageDefinitions, StageDef
    <2> QED
      BY <2>1 DEF HasStage, RowMatchesStage
  <1>7. RowMatchesStage(r, StageDefinitions[7]) <=> r.group = "group_c_duplicates" /\ r.failure_scenario = "F6"
    <2>1. HasStage(7, "group_c_duplicates", "F6", "")
      BY DEF HasStage, StageDefinitions, StageDef
    <2> QED
      BY <2>1 DEF HasStage, RowMatchesStage
  <1>8. RowMatchesStage(r, StageDefinitions[8]) <=> r.group = "group_c_duplicates" /\ r.failure_scenario = "F11"
    <2>1. HasStage(8, "group_c_duplicates", "F11", "")
      BY DEF HasStage, StageDefinitions, StageDef
    <2> QED
      BY <2>1 DEF HasStage, RowMatchesStage
  <1>9. RowMatchesStage(r, StageDefinitions[9]) <=> r.group = "group_d_capability"
    <2>1. HasStage(9, "group_d_capability", "", "")
      BY DEF HasStage, StageDefinitions, StageDef
    <2> QED
      BY <2>1 DEF HasStage, RowMatchesStage
  <1>10. RowMatchesStage(r, StageDefinitions[10]) <=> r.group = "group_e_safe_controls"
    <2>1. HasStage(10, "group_e_safe_controls", "", "")
      BY DEF HasStage, StageDefinitions, StageDef
    <2> QED
      BY <2>1 DEF HasStage, RowMatchesStage
  <1>11. RowMatchesStage(r, StageDefinitions[11]) <=> r.group = "group_f_generalization"
           /\ r.workload = "charge_payment"
    <2>1. HasStage(11, "group_f_generalization", "", "charge_payment")
      BY DEF HasStage, StageDefinitions, StageDef
    <2> QED
      BY <2>1 DEF HasStage, RowMatchesStage
  <1>12. RowMatchesStage(r, StageDefinitions[12]) <=> r.group = "group_f_generalization"
           /\ r.workload = "reserve_inventory"
    <2>1. HasStage(12, "group_f_generalization", "", "reserve_inventory")
      BY DEF HasStage, StageDefinitions, StageDef
    <2> QED
      BY <2>1 DEF HasStage, RowMatchesStage
  <1>13. RowMatchesStage(r, StageDefinitions[13]) <=> r.group = "group_f_generalization"
           /\ r.workload = "send_notification"
    <2>1. HasStage(13, "group_f_generalization", "", "send_notification")
      BY DEF HasStage, StageDefinitions, StageDef
    <2> QED
      BY <2>1 DEF HasStage, RowMatchesStage
  <1> QED
    BY <1>0, <1>1, <1>2, <1>3, <1>4, <1>5, <1>6, <1>7, <1>8, <1>9, <1>10, <1>11, <1>12, <1>13

\* Each row is in one of them.
LEMMA StageIsOne ==
    ASSUME NEW r \in Matrix
    PROVE  Cardinality(StagesOf(r)) = 1
  <1> DEFINE Is(k) == /\ k \in DOMAIN StageDefinitions /\ RowMatchesStage(r, StageDefinitions[k])
                      /\ \A i \in DOMAIN StageDefinitions : RowMatchesStage(r, StageDefinitions[i]) => i = k
  <1>1. InSomeGroup(r)
    BY GroupsAreNamed
  <1>2. \A i : i \in 1..13 <=> i \in {1, 2, 3, 4, 5, 6, 7, 8, 9, 10, 11, 12, 13}
    OBVIOUS
  <1>3. \E k : Is(k)
    <2>1. CASE InBaseline(r)
      <3>1. Is(1)
        BY <1>2, <2>1, StagesAreThirteen DEF InBaseline
      <3> QED
        BY <3>1
    <2>2. CASE InAmbiguous(r)
      <3>1. CASE r.failure_scenario = "F3"
        <4>1. Is(2)
          BY <1>2, <2>2, <3>1, StagesAreThirteen DEF InAmbiguous
        <4> QED
          BY <4>1
      <3>2. CASE r.failure_scenario = "F4"
        <4>1. Is(3)
          BY <1>2, <2>2, <3>2, StagesAreThirteen DEF InAmbiguous
        <4> QED
          BY <4>1
      <3>3. CASE r.failure_scenario = "F8"
        <4>1. Is(4)
          BY <1>2, <2>2, <3>3, StagesAreThirteen DEF InAmbiguous
        <4> QED
          BY <4>1
      <3>4. CASE r.failure_scenario = "F9"
        <4>1. Is(5)
          BY <1>2, <2>2, <3>4, StagesAreThirteen DEF InAmbiguous
        <4> QED
          BY <4>1
      <3> QED
        BY <2>2, <3>1, <3>2, <3>3, <3>4 DEF InAmbiguous
    <2>3. CASE InDuplicates(r)
      <3>1. CASE r.failure_scenario = "F5"
        <4>1. Is(6)
          BY <1>2, <2>3, <3>1, StagesAreThirteen DEF InDuplicates
        <4> QED
          BY <4>1
      <3>2. CASE r.failure_scenario = "F6"
        <4>1. Is(7)
          BY <1>2, <2>3, <3>2, StagesAreThirteen DEF InDuplicates
        <4> QED
          BY <4>1
      <3>3. CASE r.failure_scenario = "F11"
        <4>1. Is(8)
          BY <1>2, <2>3, <3>3, StagesAreThirteen DEF InDuplicates
        <4> QED
          BY <4>1
      <3> QED
        BY <2>3, <3>1, <3>2, <3>3 DEF InDuplicates
    <2>4. CASE InCapability(r)
      <3>1. Is(9)
        BY <1>2, <2>4, StagesAreThirteen DEF InCapability
      <3> QED
        BY <3>1
    <2>5. CASE InSafeControls(r)
      <3>1. Is(10)
        BY <1>2, <2>5, StagesAreThirteen DEF InSafeControls
      <3> QED
        BY <3>1
    <2>6. CASE InGeneralization(r)
      <3>1. CASE r.workload = "charge_payment"
        <4>1. Is(11)
          BY <1>2, <2>6, <3>1, StagesAreThirteen DEF InGeneralization
        <4> QED
          BY <4>1
      <3>2. CASE r.workload = "reserve_inventory"
        <4>1. Is(12)
          BY <1>2, <2>6, <3>2, StagesAreThirteen DEF InGeneralization
        <4> QED
          BY <4>1
      <3>3. CASE r.workload = "send_notification"
        <4>1. Is(13)
          BY <1>2, <2>6, <3>3, StagesAreThirteen DEF InGeneralization
        <4> QED
          BY <4>1
      <3> QED
        BY <2>6, <3>1, <3>2, <3>3 DEF InGeneralization
    <2> QED
      BY <1>1, <2>1, <2>2, <2>3, <2>4, <2>5, <2>6 DEF InSomeGroup
  <1>4. PICK k : Is(k)
    BY <1>3
  <1>5. StagesOf(r) = {k}
    BY <1>4 DEF StagesOf
  <1> QED
    BY <1>5, FS_Singleton

\* A set that is counted.
Counts(S, n) == IsFiniteSet(S) /\ Cardinality(S) = n

\* One element more is one more.
LEMMA OneMoreCounts ==
    ASSUME NEW S, NEW x, NEW n \in Nat, Counts(S, n), x \notin S
    PROVE  Counts(S \cup {x}, n + 1)
  <1>1. /\ IsFiniteSet(S \cup {x})
        /\ Cardinality(S \cup {x}) = IF x \in S THEN Cardinality(S) ELSE Cardinality(S) + 1
    BY FS_AddElement DEF Counts
  <1> QED
    BY <1>1 DEF Counts

\* The elements of a set, each once.
IsPair(S, a, b) == S = {a, b} /\ a # b
IsTriple(S, a, b, c) == S = {a, b, c} /\ a # b /\ c \notin {a, b}
IsFour(S, a, b, c, d) == S = {a, b, c, d} /\ a # b /\ c \notin {a, b} /\ d \notin {a, b, c}

\* So they can be counted.
LEMMA PairCounts ==
    ASSUME NEW S, NEW a, NEW b, IsPair(S, a, b)
    PROVE  Counts(S, 2)
  <1> DEFINE one == {a}
  <1>1. Counts(one, 1)
    BY FS_Singleton DEF Counts
  <1>2. S = one \cup {b} /\ b \notin one
    BY DEF IsPair
  <1> HIDE DEF one
  <1>3. Counts(one \cup {b}, 1 + 1)
    BY <1>1, <1>2, OneMoreCounts
  <1> QED
    BY <1>2, <1>3

LEMMA TripleCounts ==
    ASSUME NEW S, NEW a, NEW b, NEW c, IsTriple(S, a, b, c)
    PROVE  Counts(S, 3)
  <1> DEFINE two == {a, b}
  <1>1. IsPair(two, a, b)
    BY DEF IsPair, IsTriple
  <1>2. S = two \cup {c} /\ c \notin two
    BY DEF IsTriple
  <1> HIDE DEF two
  <1>3. Counts(two \cup {c}, 2 + 1)
    BY <1>1, <1>2, PairCounts, OneMoreCounts
  <1> QED
    BY <1>2, <1>3

LEMMA FourCounts ==
    ASSUME NEW S, NEW a, NEW b, NEW c, NEW d, IsFour(S, a, b, c, d)
    PROVE  Counts(S, 4)
  <1> DEFINE three == {a, b, c}
  <1>1. IsTriple(three, a, b, c)
    BY DEF IsTriple, IsFour
  <1>2. S = three \cup {d} /\ d \notin three
    BY DEF IsFour
  <1> HIDE DEF three
  <1>3. Counts(three \cup {d}, 3 + 1)
    BY <1>1, <1>2, TripleCounts, OneMoreCounts
  <1> QED
    BY <1>2, <1>3

\* Products are multiplied, unions added.
LEMMA ProductCounts ==
    ASSUME NEW S, NEW T, NEW m \in Nat, NEW n \in Nat, Counts(S, m), Counts(T, n)
    PROVE  Counts(S \X T, m * n)
  BY FS_Product DEF Counts

LEMMA UnionCounts ==
    ASSUME NEW S, NEW T, NEW m \in Nat, NEW n \in Nat, Counts(S, m), Counts(T, n), S \cap T = {}
    PROVE  Counts(S \cup T, m + n)
  <1>1. Cardinality(S \cup T) = m + n - Cardinality({}) /\ IsFiniteSet(S \cup T)
    BY FS_Union DEF Counts
  <1> QED
    BY <1>1, FS_EmptySet DEF Counts

LEMMA SixVariants == Counts(Variants, 6)
  <1> DEFINE four == {"V0", "V1", "V2", "V3"}
             two == {"V4", "V5"}
  <1>1. Variants = four \cup two /\ four \cap two = {}
    BY DEF Variants
  <1>2. IsFour(four, "V0", "V1", "V2", "V3") /\ IsPair(two, "V4", "V5")
    BY DEF IsFour, IsPair
  <1> HIDE DEF four, two
  <1>3. Counts(four \cup two, 4 + 2)
    BY <1>1, <1>2, FourCounts, PairCounts, UnionCounts
  <1> QED
    BY <1>1, <1>3

\* Two sets with a function between them that leaves nothing out and keeps all apart.
Matches(S, T, f) == f \in Injection(S, T) /\ f \in Surjection(S, T)

\* Then they count the same.
LEMMA MatchCounts ==
    ASSUME NEW S, NEW T, NEW f, NEW n \in Nat, Matches(S, T, f), Counts(T, n)
    PROVE  Counts(S, n)
  BY FS_Injection DEF Matches, Counts

\* The rows of each group.
LEMMA BaselineCounts == Counts({ r \in Matrix : InBaseline(r) }, 24 * Cardinality(Seeds))
  <1> DEFINE R == { r \in Matrix : InBaseline(r) }
             A == Variants
             B == {1, 10, 50, 100}
             T == (A \X B) \X Seeds
             f == [r \in R |-> <<<<r.variant, r.concurrency>>, r.seed>>]
  <1>1. \A r \in R : r.variant \in A /\ r.concurrency \in B /\ r.seed \in Seeds
    BY GroupsAreNamed DEF InBaseline
  <1>2. ASSUME NEW q \in R, NEW r \in R, q.variant = r.variant /\ q.concurrency = r.concurrency, q.seed = r.seed
        PROVE  q = r
    <2>1. InBaseline(q) /\ InBaseline(r) /\ IsRow(q) /\ IsRow(r)
      BY GroupsAreNamed
    <2>2. Alike(q, r)
      BY <1>2, <2>1 DEF Alike, InBaseline
    <2> QED
      BY <1>2, <2>1, <2>2, RowsDiffer
  <1>3. ASSUME NEW a \in A, NEW b \in B, NEW s \in Seeds
        PROVE  \E r \in R : r.variant = a /\ r.concurrency = b /\ r.seed = s
    <2> DEFINE r == BaselineRow(a, b, s)
    <2>1. /\ IsRow(r) /\ r.seed = s /\ InBaseline(r)
          /\ r.variant = a /\ r.concurrency = b
      BY DEF BaselineRow, Planned, IsRow, InBaseline
    <2> HIDE DEF r
    <2>2. r \in R
      BY <2>1, MatrixIsSixGroups DEF InSomeGroup
    <2> QED
      BY <2>1, <2>2
  <1>4. Counts(T, 24 * Cardinality(Seeds))
    <2>1. Counts(A, 6) /\ Counts(B, 4)
      <3>1. IsFour(B, 1, 10, 50, 100)
        BY DEF IsFour
      <3> HIDE DEF B
      <3> QED
        BY SixVariants, <3>1, FourCounts
    <2>2. Cardinality(Seeds) \in Nat /\ Counts(Seeds, Cardinality(Seeds))
      BY SeedsAssumption, FS_CardinalityType DEF Counts
    <2> HIDE DEF A, B
    <2>3. Counts(A \X B, 24)
      <3>1. Counts(A \X B, 6 * 4)
        BY <2>1, ProductCounts
      <3> QED
        BY <3>1
    <2> QED
      BY <2>2, <2>3, ProductCounts
  <1> HIDE DEF R, A, B
  <1>5. f \in Injection(R, T)
    <2>1. f \in [R -> T]
      BY <1>1
    <2> QED
      BY <1>2, <2>1 DEF Injection, IsInjective
  <1>6. \A t \in T : \E r \in R : f[r] = t
    <2> TAKE t \in T
    <2>1. /\ t[1][1] \in A /\ t[1][2] \in B /\ t[2] \in Seeds
          /\ t = <<<<t[1][1], t[1][2]>>, t[2]>>
      OBVIOUS
    <2>2. PICK r \in R : r.variant = t[1][1] /\ r.concurrency = t[1][2] /\ r.seed = t[2]
      BY <1>3, <2>1
    <2>3. f[r] = t
      BY <2>1, <2>2
    <2> QED
      BY <2>3
  <1> HIDE DEF f
  <1>7. Matches(R, T, f)
    BY <1>5, <1>6 DEF Matches, Injection, Surjection
  <1>8. Cardinality(Seeds) \in Nat
    BY SeedsAssumption, FS_CardinalityType
  <1> HIDE DEF T
  <1> QED
    BY <1>4, <1>7, <1>8, MatchCounts DEF R

LEMMA AmbiguousCounts == Counts({ r \in Matrix : InAmbiguous(r) }, 192 * Cardinality(Seeds))
  <1> DEFINE R == { r \in Matrix : InAmbiguous(r) }
             A == {"F3", "F4", "F8", "F9"}
             B == Variants
             C == {1, 5, 10, 20}
             D == {10, 50}
             T == (((A \X B) \X C) \X D) \X Seeds
             f == [r \in R |->
                     <<<<<<<<r.failure_scenario, r.variant>>, r.failure_probability>>, r.concurrency>>, r.seed>>]
  <1>1. \A r \in R : r.failure_scenario \in A /\ r.variant \in B /\ r.failure_probability \in C
          /\ r.concurrency \in D /\ r.seed \in Seeds
    BY GroupsAreNamed DEF InAmbiguous
  <1>2. ASSUME NEW q \in R, NEW r \in R, q.failure_scenario = r.failure_scenario
               /\ q.variant = r.variant /\ q.failure_probability = r.failure_probability
               /\ q.concurrency = r.concurrency, q.seed = r.seed
        PROVE  q = r
    <2>1. InAmbiguous(q) /\ InAmbiguous(r) /\ IsRow(q) /\ IsRow(r)
      BY GroupsAreNamed
    <2>2. Alike(q, r)
      BY <1>2, <2>1 DEF Alike, InAmbiguous
    <2> QED
      BY <1>2, <2>1, <2>2, RowsDiffer
  <1>3. ASSUME NEW a \in A, NEW b \in B, NEW c \in C, NEW d \in D, NEW s \in Seeds
        PROVE  \E r \in R : r.failure_scenario = a /\ r.variant = b /\ r.failure_probability = c
               /\ r.concurrency = d /\ r.seed = s
    <2> DEFINE r == AmbiguousRow(a, b, c, d, s)
    <2>1. /\ IsRow(r) /\ r.seed = s /\ InAmbiguous(r)
          /\ r.failure_scenario = a /\ r.variant = b /\ r.failure_probability = c /\ r.concurrency = d
      BY DEF AmbiguousRow, Planned, IsRow, InAmbiguous
    <2> HIDE DEF r
    <2>2. r \in R
      BY <2>1, MatrixIsSixGroups DEF InSomeGroup
    <2> QED
      BY <2>1, <2>2
  <1>4. Counts(T, 192 * Cardinality(Seeds))
    <2>1. Counts(A, 4) /\ Counts(B, 6) /\ Counts(C, 4) /\ Counts(D, 2)
      <3>1. IsFour(A, "F3", "F4", "F8", "F9")
        BY DEF IsFour
      <3>2. IsFour(C, 1, 5, 10, 20)
        BY DEF IsFour
      <3>3. IsPair(D, 10, 50)
        BY DEF IsPair
      <3> HIDE DEF A, C, D
      <3> QED
        BY <3>1, SixVariants, <3>2, <3>3, FourCounts, PairCounts
    <2>2. Cardinality(Seeds) \in Nat /\ Counts(Seeds, Cardinality(Seeds))
      BY SeedsAssumption, FS_CardinalityType DEF Counts
    <2> HIDE DEF A, B, C, D
    <2>3. Counts(A \X B, 24)
      <3>1. Counts(A \X B, 4 * 6)
        BY <2>1, ProductCounts
      <3> QED
        BY <3>1
    <2>4. Counts((A \X B) \X C, 96)
      <3>1. Counts((A \X B) \X C, 24 * 4)
        BY <2>1, <2>3, ProductCounts
      <3> QED
        BY <3>1
    <2>5. Counts(((A \X B) \X C) \X D, 192)
      <3>1. Counts(((A \X B) \X C) \X D, 96 * 2)
        BY <2>1, <2>4, ProductCounts
      <3> QED
        BY <3>1
    <2> QED
      BY <2>2, <2>5, ProductCounts
  <1> HIDE DEF R, A, B, C, D
  <1>5. f \in Injection(R, T)
    <2>1. f \in [R -> T]
      BY <1>1
    <2> QED
      BY <1>2, <2>1 DEF Injection, IsInjective
  <1>6. \A t \in T : \E r \in R : f[r] = t
    <2> TAKE t \in T
    <2>1. /\ t[1][1][1][1] \in A /\ t[1][1][1][2] \in B /\ t[1][1][2] \in C /\ t[1][2] \in D /\ t[2] \in Seeds
          /\ t = <<<<<<<<t[1][1][1][1], t[1][1][1][2]>>, t[1][1][2]>>, t[1][2]>>, t[2]>>
      OBVIOUS
    <2>2. PICK r \in R : r.failure_scenario = t[1][1][1][1] /\ r.variant = t[1][1][1][2]
               /\ r.failure_probability = t[1][1][2] /\ r.concurrency = t[1][2] /\ r.seed = t[2]
      BY <1>3, <2>1
    <2>3. f[r] = t
      BY <2>1, <2>2
    <2> QED
      BY <2>3
  <1> HIDE DEF f
  <1>7. Matches(R, T, f)
    BY <1>5, <1>6 DEF Matches, Injection, Surjection
  <1>8. Cardinality(Seeds) \in Nat
    BY SeedsAssumption, FS_CardinalityType
  <1> HIDE DEF T
  <1> QED
    BY <1>4, <1>7, <1>8, MatchCounts DEF R

LEMMA DuplicatesCounts == Counts({ r \in Matrix : InDuplicates(r) }, 54 * Cardinality(Seeds))
  <1> DEFINE R == { r \in Matrix : InDuplicates(r) }
             A == {"F5", "F6", "F11"}
             B == Variants
             C == {2, 5, 10}
             T == ((A \X B) \X C) \X Seeds
             f == [r \in R |-> <<<<<<r.failure_scenario, r.variant>>, r.fanout>>, r.seed>>]
  <1>1. \A r \in R : r.failure_scenario \in A /\ r.variant \in B /\ r.fanout \in C /\ r.seed \in Seeds
    BY GroupsAreNamed DEF InDuplicates
  <1>2. ASSUME NEW q \in R, NEW r \in R, q.failure_scenario = r.failure_scenario
               /\ q.variant = r.variant /\ q.fanout = r.fanout, q.seed = r.seed
        PROVE  q = r
    <2>1. InDuplicates(q) /\ InDuplicates(r) /\ IsRow(q) /\ IsRow(r)
      BY GroupsAreNamed
    <2>2. Alike(q, r)
      BY <1>2, <2>1 DEF Alike, InDuplicates
    <2> QED
      BY <1>2, <2>1, <2>2, RowsDiffer
  <1>3. ASSUME NEW a \in A, NEW b \in B, NEW c \in C, NEW s \in Seeds
        PROVE  \E r \in R : r.failure_scenario = a /\ r.variant = b /\ r.fanout = c /\ r.seed = s
    <2> DEFINE r == DuplicatesRow(a, b, c, s)
    <2>1. /\ IsRow(r) /\ r.seed = s /\ InDuplicates(r)
          /\ r.failure_scenario = a /\ r.variant = b /\ r.fanout = c
      BY DEF DuplicatesRow, Planned, IsRow, InDuplicates
    <2> HIDE DEF r
    <2>2. r \in R
      BY <2>1, MatrixIsSixGroups DEF InSomeGroup
    <2> QED
      BY <2>1, <2>2
  <1>4. Counts(T, 54 * Cardinality(Seeds))
    <2>1. Counts(A, 3) /\ Counts(B, 6) /\ Counts(C, 3)
      <3>1. IsTriple(A, "F5", "F6", "F11")
        BY DEF IsTriple
      <3>2. IsTriple(C, 2, 5, 10)
        BY DEF IsTriple
      <3> HIDE DEF A, C
      <3> QED
        BY <3>1, SixVariants, <3>2, TripleCounts
    <2>2. Cardinality(Seeds) \in Nat /\ Counts(Seeds, Cardinality(Seeds))
      BY SeedsAssumption, FS_CardinalityType DEF Counts
    <2> HIDE DEF A, B, C
    <2>3. Counts(A \X B, 18)
      <3>1. Counts(A \X B, 3 * 6)
        BY <2>1, ProductCounts
      <3> QED
        BY <3>1
    <2>4. Counts((A \X B) \X C, 54)
      <3>1. Counts((A \X B) \X C, 18 * 3)
        BY <2>1, <2>3, ProductCounts
      <3> QED
        BY <3>1
    <2> QED
      BY <2>2, <2>4, ProductCounts
  <1> HIDE DEF R, A, B, C
  <1>5. f \in Injection(R, T)
    <2>1. f \in [R -> T]
      BY <1>1
    <2> QED
      BY <1>2, <2>1 DEF Injection, IsInjective
  <1>6. \A t \in T : \E r \in R : f[r] = t
    <2> TAKE t \in T
    <2>1. /\ t[1][1][1] \in A /\ t[1][1][2] \in B /\ t[1][2] \in C /\ t[2] \in Seeds
          /\ t = <<<<<<t[1][1][1], t[1][1][2]>>, t[1][2]>>, t[2]>>
      OBVIOUS
    <2>2. PICK r \in R : r.failure_scenario = t[1][1][1] /\ r.variant = t[1][1][2] /\ r.fanout = t[1][2]
               /\ r.seed = t[2]
      BY <1>3, <2>1
    <2>3. f[r] = t
      BY <2>1, <2>2
    <2> QED
      BY <2>3
  <1> HIDE DEF f
  <1>7. Matches(R, T, f)
    BY <1>5, <1>6 DEF Matches, Injection, Surjection
  <1>8. Cardinality(Seeds) \in Nat
    BY SeedsAssumption, FS_CardinalityType
  <1> HIDE DEF T
  <1> QED
    BY <1>4, <1>7, <1>8, MatchCounts DEF R

LEMMA SafeControlsCounts == Counts({ r \in Matrix : InSafeControls(r) }, 18 * Cardinality(Seeds))
  <1> DEFINE R == { r \in Matrix : InSafeControls(r) }
             A == {"F1", "F2", "F7"}
             B == Variants
             T == (A \X B) \X Seeds
             f == [r \in R |-> <<<<r.failure_scenario, r.variant>>, r.seed>>]
  <1>1. \A r \in R : r.failure_scenario \in A /\ r.variant \in B /\ r.seed \in Seeds
    BY GroupsAreNamed DEF InSafeControls
  <1>2. ASSUME NEW q \in R, NEW r \in R, q.failure_scenario = r.failure_scenario
               /\ q.variant = r.variant, q.seed = r.seed
        PROVE  q = r
    <2>1. InSafeControls(q) /\ InSafeControls(r) /\ IsRow(q) /\ IsRow(r)
      BY GroupsAreNamed
    <2>2. Alike(q, r)
      BY <1>2, <2>1 DEF Alike, InSafeControls
    <2> QED
      BY <1>2, <2>1, <2>2, RowsDiffer
  <1>3. ASSUME NEW a \in A, NEW b \in B, NEW s \in Seeds
        PROVE  \E r \in R : r.failure_scenario = a /\ r.variant = b /\ r.seed = s
    <2> DEFINE r == SafeControlsRow(a, b, s)
    <2>1. /\ IsRow(r) /\ r.seed = s /\ InSafeControls(r)
          /\ r.failure_scenario = a /\ r.variant = b
      BY DEF SafeControlsRow, Planned, IsRow, InSafeControls
    <2> HIDE DEF r
    <2>2. r \in R
      BY <2>1, MatrixIsSixGroups DEF InSomeGroup
    <2> QED
      BY <2>1, <2>2
  <1>4. Counts(T, 18 * Cardinality(Seeds))
    <2>1. Counts(A, 3) /\ Counts(B, 6)
      <3>1. IsTriple(A, "F1", "F2", "F7")
        BY DEF IsTriple
      <3> HIDE DEF A
      <3> QED
        BY <3>1, SixVariants, TripleCounts
    <2>2. Cardinality(Seeds) \in Nat /\ Counts(Seeds, Cardinality(Seeds))
      BY SeedsAssumption, FS_CardinalityType DEF Counts
    <2> HIDE DEF A, B
    <2>3. Counts(A \X B, 18)
      <3>1. Counts(A \X B, 3 * 6)
        BY <2>1, ProductCounts
      <3> QED
        BY <3>1
    <2> QED
      BY <2>2, <2>3, ProductCounts
  <1> HIDE DEF R, A, B
  <1>5. f \in Injection(R, T)
    <2>1. f \in [R -> T]
      BY <1>1
    <2> QED
      BY <1>2, <2>1 DEF Injection, IsInjective
  <1>6. \A t \in T : \E r \in R : f[r] = t
    <2> TAKE t \in T
    <2>1. /\ t[1][1] \in A /\ t[1][2] \in B /\ t[2] \in Seeds
          /\ t = <<<<t[1][1], t[1][2]>>, t[2]>>
      OBVIOUS
    <2>2. PICK r \in R : r.failure_scenario = t[1][1] /\ r.variant = t[1][2] /\ r.seed = t[2]
      BY <1>3, <2>1
    <2>3. f[r] = t
      BY <2>1, <2>2
    <2> QED
      BY <2>3
  <1> HIDE DEF f
  <1>7. Matches(R, T, f)
    BY <1>5, <1>6 DEF Matches, Injection, Surjection
  <1>8. Cardinality(Seeds) \in Nat
    BY SeedsAssumption, FS_CardinalityType
  <1> HIDE DEF T
  <1> QED
    BY <1>4, <1>7, <1>8, MatchCounts DEF R

LEMMA GeneralizationCounts == Counts({ r \in Matrix : InGeneralization(r) }, 24 * Cardinality(Seeds))
  <1> DEFINE R == { r \in Matrix : InGeneralization(r) }
             A == {"charge_payment", "reserve_inventory", "send_notification"}
             B == {"V0", "V2", "V4", "V5"}
             C == {"F3", "F8"}
             T == ((A \X B) \X C) \X Seeds
             f == [r \in R |-> <<<<<<r.workload, r.variant>>, r.failure_scenario>>, r.seed>>]
  <1>1. \A r \in R : r.workload \in A /\ r.variant \in B /\ r.failure_scenario \in C /\ r.seed \in Seeds
    BY GroupsAreNamed DEF InGeneralization
  <1>2. ASSUME NEW q \in R, NEW r \in R, q.workload = r.workload /\ q.variant = r.variant
               /\ q.failure_scenario = r.failure_scenario, q.seed = r.seed
        PROVE  q = r
    <2>1. InGeneralization(q) /\ InGeneralization(r) /\ IsRow(q) /\ IsRow(r)
      BY GroupsAreNamed
    <2>2. Alike(q, r)
      BY <1>2, <2>1 DEF Alike, InGeneralization
    <2> QED
      BY <1>2, <2>1, <2>2, RowsDiffer
  <1>3. ASSUME NEW a \in A, NEW b \in B, NEW c \in C, NEW s \in Seeds
        PROVE  \E r \in R : r.workload = a /\ r.variant = b /\ r.failure_scenario = c /\ r.seed = s
    <2> DEFINE r == GeneralizationRow(a, b, c, s)
    <2>1. /\ IsRow(r) /\ r.seed = s /\ InGeneralization(r)
          /\ r.workload = a /\ r.variant = b /\ r.failure_scenario = c
      BY DEF GeneralizationRow, Planned, IsRow, InGeneralization
    <2> HIDE DEF r
    <2>2. r \in R
      BY <2>1, MatrixIsSixGroups DEF InSomeGroup
    <2> QED
      BY <2>1, <2>2
  <1>4. Counts(T, 24 * Cardinality(Seeds))
    <2>1. Counts(A, 3) /\ Counts(B, 4) /\ Counts(C, 2)
      <3>1. IsTriple(A, "charge_payment", "reserve_inventory", "send_notification")
        BY DEF IsTriple
      <3>2. IsFour(B, "V0", "V2", "V4", "V5")
        BY DEF IsFour
      <3>3. IsPair(C, "F3", "F8")
        BY DEF IsPair
      <3> HIDE DEF A, B, C
      <3> QED
        BY <3>1, <3>2, <3>3, FourCounts, PairCounts, TripleCounts
    <2>2. Cardinality(Seeds) \in Nat /\ Counts(Seeds, Cardinality(Seeds))
      BY SeedsAssumption, FS_CardinalityType DEF Counts
    <2> HIDE DEF A, B, C
    <2>3. Counts(A \X B, 12)
      <3>1. Counts(A \X B, 3 * 4)
        BY <2>1, ProductCounts
      <3> QED
        BY <3>1
    <2>4. Counts((A \X B) \X C, 24)
      <3>1. Counts((A \X B) \X C, 12 * 2)
        BY <2>1, <2>3, ProductCounts
      <3> QED
        BY <3>1
    <2> QED
      BY <2>2, <2>4, ProductCounts
  <1> HIDE DEF R, A, B, C
  <1>5. f \in Injection(R, T)
    <2>1. f \in [R -> T]
      BY <1>1
    <2> QED
      BY <1>2, <2>1 DEF Injection, IsInjective
  <1>6. \A t \in T : \E r \in R : f[r] = t
    <2> TAKE t \in T
    <2>1. /\ t[1][1][1] \in A /\ t[1][1][2] \in B /\ t[1][2] \in C /\ t[2] \in Seeds
          /\ t = <<<<<<t[1][1][1], t[1][1][2]>>, t[1][2]>>, t[2]>>
      OBVIOUS
    <2>2. PICK r \in R : r.workload = t[1][1][1] /\ r.variant = t[1][1][2]
               /\ r.failure_scenario = t[1][2] /\ r.seed = t[2]
      BY <1>3, <2>1
    <2>3. f[r] = t
      BY <2>1, <2>2
    <2> QED
      BY <2>3
  <1> HIDE DEF f
  <1>7. Matches(R, T, f)
    BY <1>5, <1>6 DEF Matches, Injection, Surjection
  <1>8. Cardinality(Seeds) \in Nat
    BY SeedsAssumption, FS_CardinalityType
  <1> HIDE DEF T
  <1> QED
    BY <1>4, <1>7, <1>8, MatchCounts DEF R

\* The capabilities each variant is planned with in the fourth group.
Placements == ({"V2", "V3", "V4", "V5"} \X {"C0", "C1", "C2"}) \ {<<"V3", "C0">>}

\* Eleven: four variants with three capabilities, less one.
LEMMA PlacementsCount == Counts(Placements, 11)
  <1> DEFINE A == {"V2", "V3", "V4", "V5"}
             B == {"C0", "C1", "C2"}
             x == <<"V3", "C0">>
  <1>1. Counts(A, 4) /\ Counts(B, 3)
    <2>1. IsFour(A, "V2", "V3", "V4", "V5") /\ IsTriple(B, "C0", "C1", "C2")
      BY DEF IsFour, IsTriple
    <2> HIDE DEF A, B
    <2> QED
      BY <2>1, FourCounts, TripleCounts
  <1>2. Placements = (A \X B) \ {x} /\ x \in A \X B
    BY DEF Placements
  <1> HIDE DEF A, B, x
  <1>3. Counts(A \X B, 12)
    <2>1. Counts(A \X B, 4 * 3)
      BY <1>1, ProductCounts
    <2> QED
      BY <2>1
  <1>4. IsFiniteSet(Placements) /\ Cardinality(Placements) \in Nat
    BY <1>2, <1>3, FS_Subset, FS_CardinalityType DEF Counts
  <1>5. Counts(Placements \cup {x}, Cardinality(Placements) + 1)
    <2>1. Counts(Placements, Cardinality(Placements)) /\ x \notin Placements
      BY <1>2, <1>4 DEF Counts
    <2> QED
      BY <1>4, <2>1, OneMoreCounts
  <1>6. Placements \cup {x} = A \X B
    BY <1>2
  <1> QED
    BY <1>3, <1>4, <1>5, <1>6 DEF Counts

\* The rows of the fourth group.
LEMMA CapabilityCounts == Counts({ r \in Matrix : InCapability(r) }, 22 * Cardinality(Seeds))
  <1> DEFINE R == { r \in Matrix : InCapability(r) }
             B == {"F3", "F8"}
             T == (Placements \X B) \X Seeds
             f == [r \in R |-> <<<<<<r.variant, r.downstream_capability>>, r.failure_scenario>>, r.seed>>]
  <1>1. \A r \in R : /\ <<r.variant, r.downstream_capability>> \in Placements /\ r.failure_scenario \in B
                     /\ r.seed \in Seeds
    BY GroupsAreNamed DEF InCapability, Placements
  <1>2. ASSUME NEW q \in R, NEW r \in R, q.variant = r.variant,
               q.downstream_capability = r.downstream_capability,
               q.failure_scenario = r.failure_scenario, q.seed = r.seed
        PROVE  q = r
    <2>1. InCapability(q) /\ InCapability(r) /\ IsRow(q) /\ IsRow(r)
      BY GroupsAreNamed
    <2>2. Alike(q, r)
      BY <1>2, <2>1 DEF Alike, InCapability
    <2> QED
      BY <1>2, <2>1, <2>2, RowsDiffer
  <1>3. ASSUME NEW a \in Placements, NEW b \in B, NEW s \in Seeds
        PROVE  \E r \in R : /\ r.variant = a[1] /\ r.downstream_capability = a[2]
                            /\ r.failure_scenario = b /\ r.seed = s
    <2> DEFINE r == CapabilityRow(a, b, s)
    <2>1. /\ IsRow(r) /\ r.seed = s /\ InCapability(r)
          /\ r.variant = a[1] /\ r.downstream_capability = a[2] /\ r.failure_scenario = b
      BY DEF CapabilityRow, Planned, IsRow, InCapability, Placements
    <2> HIDE DEF r
    <2>2. r \in R
      BY <2>1, MatrixIsSixGroups DEF InSomeGroup
    <2> QED
      BY <2>1, <2>2
  <1>4. Counts(T, 22 * Cardinality(Seeds))
    <2>1. Counts(B, 2)
      <3>1. IsPair(B, "F3", "F8")
        BY DEF IsPair
      <3> HIDE DEF B
      <3> QED
        BY <3>1, PairCounts
    <2>2. Cardinality(Seeds) \in Nat /\ Counts(Seeds, Cardinality(Seeds))
      BY SeedsAssumption, FS_CardinalityType DEF Counts
    <2> HIDE DEF B
    <2>3. Counts(Placements \X B, 22)
      <3>1. Counts(Placements \X B, 11 * 2)
        BY <2>1, PlacementsCount, ProductCounts
      <3> QED
        BY <3>1
    <2> QED
      BY <2>2, <2>3, ProductCounts
  <1>5. \A a \in Placements : a = <<a[1], a[2]>>
    BY DEF Placements
  <1> HIDE DEF R, B
  <1>6. f \in Injection(R, T)
    <2>1. f \in [R -> T]
      BY <1>1
    <2> QED
      BY <1>2, <2>1 DEF Injection, IsInjective
  <1>7. \A t \in T : \E r \in R : f[r] = t
    <2> TAKE t \in T
    <2>1. /\ t[1][1] \in Placements /\ t[1][2] \in B /\ t[2] \in Seeds
          /\ t = <<<<t[1][1], t[1][2]>>, t[2]>>
      OBVIOUS
    <2>2. PICK r \in R : /\ r.variant = t[1][1][1] /\ r.downstream_capability = t[1][1][2]
                         /\ r.failure_scenario = t[1][2] /\ r.seed = t[2]
      BY <1>3, <2>1
    <2>3. <<r.variant, r.downstream_capability>> = t[1][1]
      BY <1>5, <2>1, <2>2
    <2>4. f[r] = t
      BY <2>1, <2>2, <2>3
    <2> QED
      BY <2>4
  <1> HIDE DEF f
  <1>8. Matches(R, T, f)
    BY <1>6, <1>7 DEF Matches, Injection, Surjection
  <1>9. Cardinality(Seeds) \in Nat
    BY SeedsAssumption, FS_CardinalityType
  <1> HIDE DEF T
  <1> QED
    BY <1>4, <1>8, <1>9, MatchCounts DEF R

\* Of every seed there are 334 rows.
LEMMA MatrixCounts == Cardinality(Matrix) = 334 * Cardinality(Seeds)
  <1> DEFINE n == Cardinality(Seeds)
             A == { r \in Matrix : InBaseline(r) }
             B == { r \in Matrix : InAmbiguous(r) }
             C == { r \in Matrix : InDuplicates(r) }
             D == { r \in Matrix : InCapability(r) }
             E == { r \in Matrix : InSafeControls(r) }
             F == { r \in Matrix : InGeneralization(r) }
  <1>1. n \in Nat
    BY SeedsAssumption, FS_CardinalityType
  <1>2. /\ Counts(A, 24 * n) /\ Counts(B, 192 * n) /\ Counts(C, 54 * n)
        /\ Counts(D, 22 * n) /\ Counts(E, 18 * n) /\ Counts(F, 24 * n)
    BY BaselineCounts, AmbiguousCounts, DuplicatesCounts, CapabilityCounts, SafeControlsCounts,
      GeneralizationCounts
  <1> DEFINE AB == A \cup B
             AC == AB \cup C
             AD == AC \cup D
             AE == AD \cup E
  <1>3. Matrix = AE \cup F
    BY GroupsAreNamed DEF InSomeGroup
  <1>4. A \cap B = {} /\ AB \cap C = {} /\ AC \cap D = {} /\ AD \cap E = {} /\ AE \cap F = {}
    BY DEF InBaseline, InAmbiguous, InDuplicates, InCapability, InSafeControls, InGeneralization
  <1> HIDE DEF n, A, B, C, D, E, F
  <1>5. /\ 24 * n \in Nat /\ 192 * n \in Nat /\ 54 * n \in Nat /\ 22 * n \in Nat /\ 18 * n \in Nat
        /\ 216 * n \in Nat /\ 270 * n \in Nat /\ 292 * n \in Nat /\ 310 * n \in Nat
        /\ 24 * n + 192 * n = 216 * n /\ 216 * n + 54 * n = 270 * n /\ 270 * n + 22 * n = 292 * n
        /\ 292 * n + 18 * n = 310 * n /\ 310 * n + 24 * n = 334 * n
    BY <1>1
  <1>6. Counts(AB, 216 * n)
    <2>1. Counts(A \cup B, 24 * n + 192 * n)
      <3> HIDE DEF AB, AC, AD, AE
      <3> QED
        BY <1>4, <1>5, <1>2, UnionCounts
    <2> QED
      BY <1>5, <2>1
  <1>7. Counts(AC, 270 * n)
    <2>1. Counts(AB \cup C, 216 * n + 54 * n)
      <3> HIDE DEF AB, AC, AD, AE
      <3> QED
        BY <1>4, <1>5, <1>2, <1>6, UnionCounts
    <2> QED
      BY <1>5, <2>1
  <1>8. Counts(AD, 292 * n)
    <2>1. Counts(AC \cup D, 270 * n + 22 * n)
      <3> HIDE DEF AB, AC, AD, AE
      <3> QED
        BY <1>4, <1>5, <1>2, <1>7, UnionCounts
    <2> QED
      BY <1>5, <2>1
  <1>9. Counts(AE, 310 * n)
    <2>1. Counts(AD \cup E, 292 * n + 18 * n)
      <3> HIDE DEF AB, AC, AD, AE
      <3> QED
        BY <1>4, <1>5, <1>2, <1>8, UnionCounts
    <2> QED
      BY <1>5, <2>1
  <1> HIDE DEF AB, AC, AD, AE
  <1>10. Counts(AE \cup F, 310 * n + 24 * n)
    BY <1>2, <1>4, <1>5, <1>9, UnionCounts
  <1> QED
    BY <1>3, <1>5, <1>10 DEF Counts, n

\* Every row is planned once.
LEMMA RowsArePlannedOnce ==
    ASSUME NEW r \in Matrix
    PROVE  PlannedOnce(r)
  <1>1. InSomeGroup(r)
    BY GroupsAreNamed
  <1>2. ~SharesItsId(r)
    BY IdsTell DEF SharesItsId
  <1>3. r.variant = "V3" => r.downstream_capability # "C0"
    <2>1. CapFor("V3") = "C1"
      BY DEF CapFor
    <2>2. InCapability(r) \/ r.downstream_capability = CapFor(r.variant)
      BY <1>1 DEF InSomeGroup, InBaseline, InAmbiguous, InDuplicates, InSafeControls, InGeneralization
    <2>3. CASE InCapability(r)
      BY <2>3 DEF InCapability
    <2> QED
      BY <2>1, <2>2, <2>3
  <1>4. r.group = "group_c_duplicates" => r.fanout > 0
    <2>1. r.group = "group_c_duplicates" => r.fanout \in {2, 5, 10}
      BY GroupsAreNamed DEF InDuplicates
    <2>2. \A n \in {2, 5, 10} : n > 0
      OBVIOUS
    <2> QED
      BY <2>1, <2>2
  <1>5. r.group = "group_d_capability" => r.suffix = "_CAP"
    BY GroupsAreNamed DEF InCapability
  <1> QED
    BY <1>2, <1>3, <1>4, <1>5, MatrixCounts, StageIsOne DEF PlannedOnce, RowIsValid

-----------------------------------------------------------------------------
(* The rates of a run.                                                     *)

\* A run of any size: finitely many measured operations, at least one, and a table
\* of events.
IsRun(run) ==
    /\ IsFiniteSet(run.measured) /\ run.measured # {}
    /\ IsFiniteSet(DOMAIN run.events)
    /\ \A k \in DOMAIN run.events : run.events[k].replayed \in BOOLEAN

\* The numbers c counts from 1 for each o, and the sets of things that E has of each o.
Numbered(D, c) == UNION { {o} \X (1..c[o]) : o \in D }
Together(D, E) == UNION { E[o] : o \in D }

\* They are as many, if c counts what E has, and nothing is in two of the sets.
LEMMA SumIsUnion ==
    ASSUME NEW D, NEW c, NEW E, IsFiniteSet(Together(D, E)),
           \A o \in D : IsFiniteSet(E[o]) /\ c[o] = Cardinality(E[o]),
           \A o, q \in D : o # q => E[o] \cap E[q] = {}
    PROVE  Cardinality(Numbered(D, c)) = Cardinality(Together(D, E))
  <1> DEFINE P == Numbered(D, c)
             U == Together(D, E)
             b == [o \in D |-> CHOOSE f : f \in Bijection(1..c[o], E[o])]
             F == [p \in P |-> b[p[1]][p[2]]]
  <1>1. ASSUME NEW o \in D
        PROVE  /\ b[o] \in Bijection(1..c[o], E[o])
    <2>1. ExistsBijection(1..c[o], E[o])
      BY FS_CardinalityType
    <2> QED
      BY <2>1 DEF ExistsBijection
  <1>2. ASSUME NEW p \in P
        PROVE  p[1] \in D /\ p[2] \in 1..c[p[1]] /\ p = <<p[1], p[2]>>
    BY DEF Numbered
  <1>3. \A o \in D : \A i \in 1..c[o] : <<o, i>> \in P
    BY DEF Numbered
  <1>4. \A x : x \in U <=> \E o \in D : x \in E[o]
    BY DEF Together
  <1>5. \A p \in P : F[p] = b[p[1]][p[2]]
    OBVIOUS
  <1>6. ASSUME NEW S, NEW T, NEW f, f \in Bijection(S, T)
        PROVE  /\ \A i \in S : f[i] \in T
               /\ \A i, j \in S : f[i] = f[j] => i = j
               /\ \A x \in T : \E i \in S : f[i] = x
    BY <1>6 DEF Bijection, Injection, IsInjective, Surjection
  <1>0. F = [p \in P |-> F[p]]
    OBVIOUS
  <1> HIDE DEF b, F, P, U
  <1>7. /\ \A o \in D : \A i \in 1..c[o] : b[o][i] \in E[o]
        /\ \A o \in D : \A i, j \in 1..c[o] : b[o][i] = b[o][j] => i = j
        /\ \A o \in D : \A x \in E[o] : \E i \in 1..c[o] : b[o][i] = x
    <2>1. ASSUME NEW o \in D
          PROVE  /\ \A i \in 1..c[o] : b[o][i] \in E[o]
                 /\ \A i, j \in 1..c[o] : b[o][i] = b[o][j] => i = j
                 /\ \A x \in E[o] : \E i \in 1..c[o] : b[o][i] = x
      <3> DEFINE S == 1..c[o]
                 f == b[o]
      <3>1. f \in Bijection(S, E[o])
        BY <1>1
      <3> HIDE DEF S, f
      <3>2. /\ \A i \in S : f[i] \in E[o]
            /\ \A i, j \in S : f[i] = f[j] => i = j
            /\ \A x \in E[o] : \E i \in S : f[i] = x
        BY <1>6, <3>1
      <3> QED
        BY <3>2 DEF S, f
    <2> QED
      BY <2>1
  <1>9. \A p \in P : F[p] \in E[p[1]] /\ F[p] \in U
    BY <1>2, <1>4, <1>5, <1>7
  <1>10. F \in Injection(P, U)
    <2>1. ASSUME NEW p \in P, NEW q \in P, F[p] = F[q]
          PROVE  p = q
      <3>1. p[1] = q[1]
        BY <1>2, <1>9, <2>1
      <3>2. p[2] = q[2]
        BY <1>2, <1>5, <1>7, <2>1, <3>1
      <3> QED
        BY <1>2, <3>1, <3>2
    <2> QED
      BY <1>0, <1>9, <2>1 DEF Injection, IsInjective
  <1>11. F \in Surjection(P, U)
    <2>1. ASSUME NEW x \in U
          PROVE  \E p \in P : F[p] = x
      <3>1. PICK o \in D : x \in E[o]
        BY <1>4
      <3>2. PICK i \in 1..c[o] : b[o][i] = x
        BY <1>7, <3>1
      <3>3. <<o, i>> \in P /\ F[<<o, i>>] = x
        BY <1>3, <1>5, <3>2
      <3> QED
        BY <3>3
    <2> QED
      BY <1>0, <1>9, <2>1 DEF Surjection
  <1>12. Cardinality(P) = Cardinality(U)
    BY <1>10, <1>11, FS_Injection DEF U
  <1> QED
    BY <1>12 DEF P, U

\* A bool is read from a file as it was written, by each of the readers.
LEMMA TextIsRead ==
    ASSUME NEW b \in BOOLEAN
    PROVE  /\ Text(b) = "True" <=> b
           /\ Lower[Text(b)] = "true" <=> b
           /\ Lower[Text(b)] \in {"true", "1"} <=> b
           /\ Truthy(Text(b)) <=> b
  BY DEF Text, Lower, Truthy

\* A row of operations.csv has the counts and the state of the row in memory, and
\* its bools as text.
LEMMA OperationsRead ==
    ASSUME NEW run
    PROVE  /\ DOMAIN OperationsCsv(run) = run.measured /\ DOMAIN SummarizeOperations(run) = run.measured
           /\ \A o \in run.measured :
                 LET row == SummarizeOperations(run)[o]
                     read == OperationsCsv(run)[o]
                 IN  /\ read.effect_count = row.effect_count
                     /\ read.attempt_count = row.attempt_count
                     /\ read.downstream_call_count = row.downstream_call_count
                     /\ read.final_state = row.final_state
                     /\ row.replayed \in BOOLEAN /\ read.replayed = Text(row.replayed)
                     /\ row.reconciled \in BOOLEAN /\ read.reconciled = Text(row.reconciled)
  BY DEF OperationsCsv, SummarizeOperations, OperationRow

\* The measured attempts of a run, and those that were replays.
MeasuredRows(run) ==
    { k \in DOMAIN run.events : run.events[k].op \in run.measured /\ run.events[k].type = "agent_attempt" }
ReplayedRows(run) == { k \in MeasuredRows(run) : run.events[k].replayed }

\* The sum of the attempts of operations.csv is the number of measured attempts.
LEMMA AttemptsAddUp ==
    ASSUME NEW run, IsRun(run)
    PROVE  Total(OperationsCsv(run), "attempt_count") = Cardinality(MeasuredRows(run))
  <1> DEFINE E == [o \in run.measured |-> RowsOf(run, o, "agent_attempt")]
             c == [o \in run.measured |-> Cardinality(E[o])]
             ops == OperationsCsv(run)
  <1>1. Together(run.measured, E) = MeasuredRows(run)
    <2>1. MeasuredRows(run)
            = { k \in DOMAIN run.events :
                  run.events[k].op \in run.measured /\ run.events[k].type = "agent_attempt" }
      BY DEF MeasuredRows
    <2>2. \A o \in run.measured : E[o] = RowsOf(run, o, "agent_attempt")
      OBVIOUS
    <2> HIDE DEF E
    <2>3. \A k : k \in Together(run.measured, E) <=>
            \E o \in run.measured : k \in RowsOf(run, o, "agent_attempt")
      BY <2>2 DEF Together
    <2> QED
      BY <2>1, <2>3 DEF RowsOf
  <1>2. MeasuredRows(run) \subseteq DOMAIN run.events
    BY DEF MeasuredRows
  <1>3. \A o \in run.measured : E[o] \subseteq DOMAIN run.events
    BY DEF RowsOf
  <1>4. \A o, q \in run.measured : o # q => E[o] \cap E[q] = {}
    BY DEF RowsOf
  <1>5. DOMAIN ops = run.measured
    BY OperationsRead
  <1>6. \A o \in run.measured : ops[o]["attempt_count"] = c[o]
    BY OperationsRead DEF SummarizeOperations, OperationRow
  <1>7. \A o \in run.measured : c[o] = Cardinality(E[o])
    OBVIOUS
  <1> HIDE DEF E, c, ops
  <1>8. Cardinality(Numbered(run.measured, c)) = Cardinality(Together(run.measured, E))
    <2>1. IsFiniteSet(Together(run.measured, E))
      BY <1>1, <1>2, FS_Subset DEF IsRun
    <2>2. \A o \in run.measured : IsFiniteSet(E[o])
      BY <1>3, FS_Subset DEF IsRun
    <2> QED
      BY <1>4, <1>7, <2>1, <2>2, SumIsUnion
  <1>9. Total(ops, "attempt_count") = Cardinality(Numbered(run.measured, c))
    BY <1>5, <1>6 DEF Total, Numbered
  <1> QED
    BY <1>1, <1>8, <1>9 DEF ops

\* The operations that were answered by a replay, and whether one was twice.
ReplayedOperations(run) == { o \in run.measured : Replays(run, o) # {} }

ReplayedTwice(run) == \E o \in run.measured : Cardinality(Replays(run, o)) > 1

\* A finite set counts more than one exactly if two of its elements differ.
LEMMA MoreThanOne ==
    ASSUME NEW S, IsFiniteSet(S)
    PROVE  Cardinality(S) > 1 <=> \E x, y \in S : x # y
  <1>1. ASSUME NEW x \in S, NEW y \in S, x # y
        PROVE  Cardinality(S) > 1
    <2> DEFINE one == {x}
               two == one \cup {y}
    <2>1. IsFiniteSet(one) /\ Cardinality(one) = 1 /\ y \notin one
      BY <1>1, FS_Singleton
    <2>2. two \subseteq S
      OBVIOUS
    <2> HIDE DEF one
    <2>3. Cardinality(two) = 2
      BY <2>1, FS_AddElement
    <2> HIDE DEF two
    <2>4. Cardinality(two) <= Cardinality(S) /\ Cardinality(S) \in Nat
      BY <2>2, FS_Subset, FS_CardinalityType
    <2> QED
      BY <2>3, <2>4
  <1>2. ASSUME \A x, y \in S : x = y
        PROVE  ~(Cardinality(S) > 1)
    <2>1. CASE S = {}
      BY <2>1, FS_EmptySet
    <2>2. CASE S # {}
      <3>1. PICK x : S = {x}
        BY <1>2, <2>2
      <3>2. Cardinality(S) = 1
        BY <3>1, FS_Singleton
      <3> QED
        BY <3>2
    <2> QED
      BY <2>1, <2>2
  <1> QED
    BY <1>1, <1>2

\* There are as many replayed operations as replays, unless one has two.
LEMMA ReplaysByOperation ==
    ASSUME NEW run, IsRun(run)
    PROVE  /\ Cardinality(ReplayedRows(run)) \in Nat
           /\ Cardinality(ReplayedOperations(run)) \in Nat
           /\ Cardinality(ReplayedOperations(run)) = Cardinality(ReplayedRows(run)) <=> ~ReplayedTwice(run)
  <1> DEFINE S == ReplayedRows(run)
             T == ReplayedOperations(run)
             f == [k \in S |-> run.events[k].op]
  <1>1. \A k : k \in S <=> \E o \in run.measured : k \in Replays(run, o)
    BY DEF ReplayedRows, Replays, MeasuredRows, RowsOf
  <1>2. \A o : \A k \in Replays(run, o) : run.events[k].op = o
    BY DEF Replays, RowsOf
  <1>3. \A o : o \in T <=> o \in run.measured /\ Replays(run, o) # {}
    BY DEF ReplayedOperations
  <1>4. \A o : IsFiniteSet(Replays(run, o)) /\ Replays(run, o) \subseteq DOMAIN run.events
    BY FS_Subset DEF IsRun, Replays, RowsOf
  <1>5. IsFiniteSet(S)
    <2>1. S \subseteq DOMAIN run.events
      BY <1>1, <1>4
    <2> QED
      BY <2>1, FS_Subset DEF IsRun
  <1>6. /\ f = [k \in S |-> f[k]]
        /\ \A k \in S : f[k] = run.events[k].op
    OBVIOUS
  <1> HIDE DEF S, T, f
  <1>7. f \in Surjection(S, T)
    <2>1. \A k \in S : f[k] \in T
      BY <1>1, <1>2, <1>3, <1>6
    <2>2. \A o \in T : \E k \in S : f[k] = o
      BY <1>1, <1>2, <1>3, <1>6
    <2> QED
      BY <1>6, <2>1, <2>2 DEF Surjection
  <1>8. f \in Injection(S, T) <=> \A j, k \in S : f[j] = f[k] => j = k
    BY <1>7 DEF Surjection, Injection, IsInjective
  <1>9. ReplayedTwice(run) <=> \E j, k \in S : f[j] = f[k] /\ j # k
    <2>1. ReplayedTwice(run) <=> \E o \in run.measured : \E j, k \in Replays(run, o) : j # k
      BY <1>4, MoreThanOne DEF ReplayedTwice
    <2> QED
      BY <1>1, <1>2, <1>6, <2>1
  <1>10. /\ IsFiniteSet(T)
         /\ Cardinality(T) = Cardinality(S) <=> f \in Injection(S, T)
    BY <1>5, <1>7, FS_Surjection
  <1>11. Cardinality(S) \in Nat /\ Cardinality(T) \in Nat
    BY <1>5, <1>10, FS_CardinalityType
  <1> QED
    BY <1>8, <1>9, <1>10, <1>11 DEF S, T

\* A row of events.csv has its type, and its bools as text.
LEMMA RowsRead ==
    ASSUME NEW run, IsRun(run)
    PROVE  LET events == EventsCsv(run)
           IN  /\ DOMAIN events = DOMAIN run.events
               /\ \A k \in DOMAIN run.events :
                     /\ events[k].event_type = run.events[k].type
                     /\ events[k].measured = Text(run.events[k].op \in run.measured)
                     /\ events[k].replayed = Text(run.events[k].replayed)
  BY DEF EventsCsv

\* All readers take the same rows for measured attempts, and for replays.
LEMMA AttemptsRead ==
    ASSUME NEW run, IsRun(run)
    PROVE  LET events == EventsCsv(run)
           IN  /\ MeasuredEvents6(events) = MeasuredRows(run)
               /\ { k \in MeasuredRows(run) : Lower[events[k].replayed] \in {"true", "1"} } = ReplayedRows(run)
               /\ { k \in DOMAIN events : Truthy(events[k].measured) /\ events[k].event_type = "agent_attempt" } = MeasuredRows(run)
               /\ { k \in MeasuredRows(run) : Truthy(events[k].replayed) } = ReplayedRows(run)
  <1> DEFINE events == EventsCsv(run)
  <1>1. DOMAIN events = DOMAIN run.events
    BY RowsRead
  <1>2. ASSUME NEW k \in DOMAIN run.events
        PROVE  /\ events[k].event_type = run.events[k].type
               /\ Lower[events[k].measured] \in {"true", "1"} <=> run.events[k].op \in run.measured
               /\ Lower[events[k].replayed] \in {"true", "1"} <=> run.events[k].replayed
               /\ Truthy(events[k].measured) <=> run.events[k].op \in run.measured
               /\ Truthy(events[k].replayed) <=> run.events[k].replayed
    <2>1. (run.events[k].op \in run.measured) \in BOOLEAN /\ run.events[k].replayed \in BOOLEAN
      BY DEF IsRun
    <2> QED
      BY <2>1, RowsRead, TextIsRead
  <1>3. MeasuredRows(run) \subseteq DOMAIN run.events
    BY DEF MeasuredRows
  <1> HIDE DEF events
  <1>4. MeasuredEvents6(events) = MeasuredRows(run)
    BY <1>1, <1>2 DEF MeasuredEvents6, MeasuredRows
  <1>5. { k \in MeasuredRows(run) : Lower[events[k].replayed] \in {"true", "1"} } = ReplayedRows(run)
    BY <1>2, <1>3 DEF ReplayedRows
  <1>6. { k \in DOMAIN events : Truthy(events[k].measured) /\ events[k].event_type = "agent_attempt" } = MeasuredRows(run)
    BY <1>1, <1>2 DEF MeasuredRows
  <1>7. { k \in MeasuredRows(run) : Truthy(events[k].replayed) } = ReplayedRows(run)
    BY <1>2, <1>3 DEF ReplayedRows
  <1> QED
    BY <1>4, <1>5, <1>6, <1>7 DEF events

\* The operations a rate counts are the same in memory and in the file.
LEMMA OperationsCounted ==
    ASSUME NEW run
    PROVE  LET ops == SummarizeOperations(run)
               csv == OperationsCsv(run)
           IN  /\ { o \in DOMAIN csv : csv[o].effect_count > 1 } = { o \in DOMAIN ops : ops[o].effect_count > 1 }
               /\ { o \in DOMAIN csv : csv[o].effect_count = 1 } = { o \in DOMAIN ops : ops[o].effect_count = 1 }
               /\ { o \in DOMAIN csv : csv[o].effect_count = 0 } = { o \in DOMAIN ops : ops[o].effect_count = 0 }
               /\ { o \in DOMAIN csv : csv[o].final_state = "UNKNOWN" }
                    = { o \in DOMAIN ops : ops[o].final_state = "UNKNOWN" }
               /\ { o \in DOMAIN csv : csv[o].final_state \in {"UNKNOWN", "COMPLETED"} }
                    = { o \in DOMAIN ops : ops[o].final_state \in {"UNKNOWN", "COMPLETED"} }
               /\ Total(csv, "downstream_call_count") = Total(ops, "downstream_call_count")
               /\ { o \in DOMAIN csv : Lower[csv[o].reconciled] = "true" } = { o \in DOMAIN ops : ops[o].reconciled }
               /\ { o \in DOMAIN csv : Truthy(csv[o].reconciled) } = { o \in DOMAIN ops : ops[o].reconciled }
               /\ { o \in DOMAIN csv : csv[o].reconciled = "True" } = { o \in DOMAIN ops : ops[o].reconciled }
               /\ { o \in DOMAIN csv : csv[o].replayed = "True" } = ReplayedOperations(run)
  <1> DEFINE ops == SummarizeOperations(run)
             csv == OperationsCsv(run)
  <1>1. DOMAIN csv = DOMAIN ops /\ DOMAIN ops = run.measured
    BY OperationsRead
  <1>2. ASSUME NEW o \in DOMAIN ops
        PROVE  /\ csv[o].effect_count = ops[o].effect_count
               /\ csv[o].final_state = ops[o].final_state
               /\ csv[o].downstream_call_count = ops[o].downstream_call_count
               /\ Lower[csv[o].reconciled] = "true" <=> ops[o].reconciled
               /\ Truthy(csv[o].reconciled) <=> ops[o].reconciled
               /\ csv[o].reconciled = "True" <=> ops[o].reconciled
               /\ csv[o].replayed = "True" <=> ops[o].replayed
    <2>1. o \in run.measured
      BY <1>1
    <2>2. ops[o].replayed \in BOOLEAN /\ csv[o].replayed = Text(ops[o].replayed)
      BY <2>1, OperationsRead
    <2>3. ops[o].reconciled \in BOOLEAN /\ csv[o].reconciled = Text(ops[o].reconciled)
      BY <2>1, OperationsRead
    <2>4. /\ csv[o].effect_count = ops[o].effect_count
          /\ csv[o].final_state = ops[o].final_state
          /\ csv[o].downstream_call_count = ops[o].downstream_call_count
      BY <2>1, OperationsRead
    <2> HIDE DEF ops, csv
    <2>5. Text(ops[o].replayed) = "True" <=> ops[o].replayed
      BY <2>2, TextIsRead
    <2>6. /\ Lower[Text(ops[o].reconciled)] = "true" <=> ops[o].reconciled
          /\ Truthy(Text(ops[o].reconciled)) <=> ops[o].reconciled
          /\ Text(ops[o].reconciled) = "True" <=> ops[o].reconciled
      BY <2>3, TextIsRead
    <2> QED
      BY <2>2, <2>3, <2>4, <2>5, <2>6
  <1>3. \A o \in DOMAIN ops : ops[o].replayed <=> Replays(run, o) # {}
    BY DEF SummarizeOperations, OperationRow, Replays
  <1> HIDE DEF ops, csv
  <1>4. { o \in DOMAIN csv : csv[o].replayed = "True" } = ReplayedOperations(run)
    BY <1>1, <1>2, <1>3 DEF ReplayedOperations
  <1>5. Total(csv, "downstream_call_count") = Total(ops, "downstream_call_count")
    <2>1. \A o \in DOMAIN ops : 1..csv[o]["downstream_call_count"] = 1..ops[o]["downstream_call_count"]
      BY <1>2
    <2>2. UNION { {o} \X (1..csv[o]["downstream_call_count"]) : o \in DOMAIN csv }
            = UNION { {o} \X (1..ops[o]["downstream_call_count"]) : o \in DOMAIN ops }
      BY <1>1, <2>1
    <2> QED
      BY <2>2 DEF Total
  <1>6. { o \in DOMAIN csv : csv[o].effect_count > 1 } = { o \in DOMAIN ops : ops[o].effect_count > 1 }
    BY <1>1, <1>2
  <1>7. { o \in DOMAIN csv : csv[o].effect_count = 1 } = { o \in DOMAIN ops : ops[o].effect_count = 1 }
    BY <1>1, <1>2
  <1>8. { o \in DOMAIN csv : csv[o].effect_count = 0 } = { o \in DOMAIN ops : ops[o].effect_count = 0 }
    BY <1>1, <1>2
  <1>9. { o \in DOMAIN csv : csv[o].final_state = "UNKNOWN" } = { o \in DOMAIN ops : ops[o].final_state = "UNKNOWN" }
    BY <1>1, <1>2
  <1>10. { o \in DOMAIN csv : csv[o].final_state \in {"UNKNOWN", "COMPLETED"} }
           = { o \in DOMAIN ops : ops[o].final_state \in {"UNKNOWN", "COMPLETED"} }
    BY <1>1, <1>2
  <1>11. { o \in DOMAIN csv : Lower[csv[o].reconciled] = "true" } = { o \in DOMAIN ops : ops[o].reconciled }
    BY <1>1, <1>2
  <1>12. { o \in DOMAIN csv : Truthy(csv[o].reconciled) } = { o \in DOMAIN ops : ops[o].reconciled }
    BY <1>1, <1>2
  <1>13. { o \in DOMAIN csv : csv[o].reconciled = "True" } = { o \in DOMAIN ops : ops[o].reconciled }
    BY <1>1, <1>2
  <1> QED
    BY <1>4, <1>5, <1>6, <1>7, <1>8, <1>9, <1>10, <1>11, <1>12, <1>13 DEF ops, csv

\* What the runner divides.
LEMMA SummaryOf ==
    ASSUME NEW run
    PROVE  LET ops == SummarizeOperations(run)
               total == AtLeast(Cardinality(DOMAIN ops), 1)
               retries == AtLeast(Cardinality(MeasuredRows(run)) - total, 0)
           IN  /\ SummarizeRun(run).RAF = <<Cardinality(MeasuredRows(run)), total>>
               /\ SummarizeRun(run).RRR = <<Cardinality(ReplayedRows(run)), AtLeast(retries, 1)>>
  BY DEF SummarizeRun, MeasuredRows, ReplayedRows

\* What all four report.
Metric == { "logical_operations", "DER", "EOER", "LER", "RSR", "RAF", "DAF", "RRR", "UAR" }

\* A run has operations: len(ops) or 1 is their number.
LEMMA OperationsAreCounted ==
    ASSUME NEW run, IsRun(run)
    PROVE  LET ops == SummarizeOperations(run)
           IN  /\ DOMAIN OperationsCsv(run) = DOMAIN ops
               /\ Cardinality(DOMAIN ops) \in Nat
               /\ AtLeast(Cardinality(DOMAIN ops), 1) = Cardinality(DOMAIN ops)
  <1>1. Cardinality(run.measured) \in Nat /\ Cardinality(run.measured) # 0
    BY FS_CardinalityType, FS_EmptySet DEF IsRun
  <1> QED
    BY <1>1, OperationsRead DEF AtLeast

\* Phase 6 recomputes each rate as it was reported.
LEMMA Phase6Agrees ==
    ASSUME NEW run, IsRun(run)
    PROVE  Deviations(SummarizeRun(run), RecomputeMetrics(OperationsCsv(run), EventsCsv(run))) = {}
  <1> DEFINE ops == SummarizeOperations(run)
             csv == OperationsCsv(run)
             events == EventsCsv(run)
             S == SummarizeRun(run)
             R == RecomputeMetrics(csv, events)
  <1>0. DOMAIN csv = DOMAIN ops /\ Cardinality(DOMAIN ops) = AtLeast(Cardinality(DOMAIN ops), 1)
    BY OperationsAreCounted
  <1>1. R.logical_operations = S.logical_operations
    BY <1>0 DEF RecomputeMetrics, SummarizeRun
  <1>2. R.DER = S.DER
    BY <1>0, OperationsCounted DEF RecomputeMetrics, SummarizeRun
  <1>3. R.EOER = S.EOER
    BY <1>0, OperationsCounted DEF RecomputeMetrics, SummarizeRun
  <1>4. R.LER = S.LER
    BY <1>0, OperationsCounted DEF RecomputeMetrics, SummarizeRun
  <1>5. R.RSR = S.RSR
    BY <1>0, OperationsCounted DEF RecomputeMetrics, SummarizeRun
  <1>6. R.RAF = S.RAF
    BY <1>0, AttemptsRead DEF RecomputeMetrics, SummarizeRun, MeasuredRows
  <1>7. R.DAF = S.DAF
    BY <1>0, OperationsCounted DEF RecomputeMetrics, SummarizeRun
  <1>8. R.RRR = S.RRR
    <2>1. R.RRR = <<ReplayCount6(csv, events),
                    AtLeast(AtLeast(Cardinality(MeasuredEvents6(events)) - AtLeast(Cardinality(DOMAIN csv), 1), 0), 1)>>
      BY DEF RecomputeMetrics
    <2>2. ReplayCount6(csv, events) = Cardinality(ReplayedRows(run))
      BY AttemptsRead DEF ReplayCount6
    <2>3. MeasuredEvents6(events) = MeasuredRows(run)
      BY AttemptsRead
    <2> HIDE DEF R, csv, events
    <2> QED
      BY <1>0, <2>1, <2>2, <2>3, SummaryOf
  <1>9. R.UAR = S.UAR
    BY <1>0, OperationsCounted DEF RecomputeMetrics, SummarizeRun
  <1>10. DOMAIN R = Metric
    BY DEF RecomputeMetrics, Metric
  <1> HIDE DEF R, S
  <1>11. \A m \in Metric : R[m] = S[m]
    BY <1>1, <1>2, <1>3, <1>4, <1>5, <1>6, <1>7, <1>8, <1>9 DEF Metric
  <1> QED
    BY <1>10, <1>11 DEF R, S, Deviations, SameRate

\* So does phase 7.
LEMMA Phase7Agrees ==
    ASSUME NEW run, IsRun(run)
    PROVE  Deviations(SummarizeRun(run), RecomputeRun(OperationsCsv(run), EventsCsv(run))) = {}
  <1> DEFINE ops == SummarizeOperations(run)
             csv == OperationsCsv(run)
             events == EventsCsv(run)
             S == SummarizeRun(run)
             R == RecomputeRun(csv, events)
  <1>0. DOMAIN csv = DOMAIN ops /\ Cardinality(DOMAIN ops) = AtLeast(Cardinality(DOMAIN ops), 1)
    BY OperationsAreCounted
  <1>1. R.logical_operations = S.logical_operations
    BY <1>0 DEF RecomputeRun, SummarizeRun
  <1>2. R.DER = S.DER
    BY <1>0, OperationsCounted DEF RecomputeRun, SummarizeRun
  <1>3. R.EOER = S.EOER
    BY <1>0, OperationsCounted DEF RecomputeRun, SummarizeRun
  <1>4. R.LER = S.LER
    BY <1>0, OperationsCounted DEF RecomputeRun, SummarizeRun
  <1>5. R.RSR = S.RSR
    BY <1>0, OperationsCounted DEF RecomputeRun, SummarizeRun
  <1>6. R.RAF = S.RAF
    BY <1>0, AttemptsRead DEF RecomputeRun, SummarizeRun, MeasuredRows
  <1>7. R.DAF = S.DAF
    BY <1>0, OperationsCounted DEF RecomputeRun, SummarizeRun
  <1>8. R.RRR = S.RRR
    <2> DEFINE measured == { k \in DOMAIN events :
                   Truthy(events[k].measured) /\ events[k].event_type = "agent_attempt" }
    <2>1. R.RRR = <<Cardinality({ k \in measured : Truthy(events[k].replayed) }),
                    AtLeast(AtLeast(Cardinality(measured) - AtLeast(Cardinality(DOMAIN csv), 1), 0), 1)>>
      BY DEF RecomputeRun
    <2>2. measured = MeasuredRows(run)
      BY AttemptsRead
    <2>3. { k \in MeasuredRows(run) : Truthy(events[k].replayed) } = ReplayedRows(run)
      BY AttemptsRead
    <2> HIDE DEF R, csv, events, measured
    <2> QED
      BY <1>0, <2>1, <2>2, <2>3, SummaryOf
  <1>9. R.UAR = S.UAR
    BY <1>0, OperationsCounted DEF RecomputeRun, SummarizeRun
  <1>10. DOMAIN R = Metric
    BY DEF RecomputeRun, Metric
  <1> HIDE DEF R, S
  <1>11. \A m \in Metric : R[m] = S[m]
    BY <1>1, <1>2, <1>3, <1>4, <1>5, <1>6, <1>7, <1>8, <1>9 DEF Metric
  <1> QED
    BY <1>10, <1>11 DEF R, S, Deviations, SameRate

\* The audit of phase 5 does but for the rate of replays, which it takes from other
\* counts.
LEMMA AuditDeviates ==
    ASSUME NEW run, IsRun(run)
    PROVE  Deviations(SummarizeRun(run), MetricsAudit(OperationsCsv(run)))
               = IF ReplayedTwice(run) THEN {"RRR"} ELSE {}
  <1> DEFINE ops == SummarizeOperations(run)
             csv == OperationsCsv(run)
             S == SummarizeRun(run)
             R == MetricsAudit(csv)
             d == AtLeast(AtLeast(Cardinality(MeasuredRows(run)) - AtLeast(Cardinality(DOMAIN ops), 1), 0), 1)
             m == Cardinality(ReplayedRows(run))
             n == Cardinality(ReplayedOperations(run))
  <1>0. DOMAIN csv = DOMAIN ops
    BY OperationsAreCounted
  <1>1. Total(csv, "attempt_count") = Cardinality(MeasuredRows(run))
    BY AttemptsAddUp
  <1>2. R.DER = S.DER
    BY <1>0, OperationsCounted DEF MetricsAudit, SummarizeRun
  <1>3. R.EOER = S.EOER
    BY <1>0, OperationsCounted DEF MetricsAudit, SummarizeRun
  <1>4. R.LER = S.LER
    BY <1>0, OperationsCounted DEF MetricsAudit, SummarizeRun
  <1>5. R.RSR = S.RSR
    BY <1>0, OperationsCounted DEF MetricsAudit, SummarizeRun
  <1>6. R.RAF = S.RAF
    BY <1>0, <1>1 DEF MetricsAudit, SummarizeRun, MeasuredRows
  <1>7. R.DAF = S.DAF
    BY <1>0, OperationsCounted DEF MetricsAudit, SummarizeRun
  <1>8. R.RRR = <<n, d>> /\ S.RRR = <<m, d>>
    <2>1. R.RRR = <<Cardinality({ o \in DOMAIN csv : csv[o].replayed = "True" }),
                    AtLeast(AtLeast(Total(csv, "attempt_count") - AtLeast(Cardinality(DOMAIN csv), 1), 0), 1)>>
      BY DEF MetricsAudit
    <2>2. { o \in DOMAIN csv : csv[o].replayed = "True" } = ReplayedOperations(run)
      BY OperationsCounted
    <2> HIDE DEF R, csv
    <2> QED
      BY <1>0, <1>1, <2>1, <2>2, SummaryOf
  <1>9. R.UAR = S.UAR
    BY <1>0, OperationsCounted DEF MetricsAudit, SummarizeRun
  <1>10. R.logical_operations = S.logical_operations
    BY <1>0 DEF MetricsAudit, SummarizeRun
  <1>11. DOMAIN R = Metric
    BY DEF MetricsAudit, Metric
  <1>12. m \in Nat /\ n \in Nat /\ (n = m <=> ~ReplayedTwice(run))
    BY ReplaysByOperation
  <1>13. d \in Nat /\ d # 0
    <2>1. Cardinality(MeasuredRows(run)) \in Nat /\ Cardinality(DOMAIN ops) \in Nat
      <3>1. MeasuredRows(run) \subseteq DOMAIN run.events
        BY DEF MeasuredRows
      <3> QED
        BY <3>1, FS_Subset, FS_CardinalityType, OperationsAreCounted DEF IsRun
    <2> HIDE DEF ops
    <2> QED
      BY <2>1 DEF AtLeast
  <1> HIDE DEF R, S, d, m, n
  <1>14. \A metric \in Metric \ {"RRR"} : SameRate(R[metric], S[metric])
    BY <1>2, <1>3, <1>4, <1>5, <1>6, <1>7, <1>9, <1>10 DEF Metric, SameRate
  <1>15. SameRate(R["RRR"], S["RRR"]) <=> ~ReplayedTwice(run)
    <2>1. n * d = m * d <=> n = m
      BY <1>12, <1>13
    <2> QED
      BY <1>8, <1>12, <2>1 DEF SameRate
  <1>16. "RRR" \in Metric
    BY DEF Metric
  <1> QED
    BY <1>11, <1>14, <1>15, <1>16 DEF R, S, Deviations

\* Replays are fewer than attempts by at least one for each operation that has an
\* attempt of its own.
LEMMA ReplaysAreBounded ==
    ASSUME NEW run, IsRun(run)
    PROVE  ReplayRateIsBounded(run)
  <1> SUFFICES ASSUME \A o \in run.measured : Replays(run, o) # RowsOf(run, o, "agent_attempt")
               PROVE  SummarizeRun(run).RRR[1] <= SummarizeRun(run).RRR[2]
    BY DEF ReplayRateIsBounded
  <1> DEFINE own == MeasuredRows(run) \ ReplayedRows(run)
             first == [o \in run.measured |-> CHOOSE k \in own : run.events[k].op = o]
             total == AtLeast(Cardinality(DOMAIN SummarizeOperations(run)), 1)
  <1>1. ASSUME NEW o \in run.measured
        PROVE  \E k \in own : run.events[k].op = o
    <2>1. PICK k \in RowsOf(run, o, "agent_attempt") : k \notin Replays(run, o)
      BY DEF Replays
    <2> QED
      BY <2>1 DEF Replays, RowsOf, MeasuredRows, ReplayedRows
  <1>2. \A o \in run.measured : first[o] \in own /\ run.events[first[o]].op = o
    BY <1>1
  <1>3. IsFiniteSet(MeasuredRows(run)) /\ ReplayedRows(run) \subseteq MeasuredRows(run)
    <2>1. MeasuredRows(run) \subseteq DOMAIN run.events
      BY DEF MeasuredRows
    <2> QED
      BY <2>1, FS_Subset DEF IsRun, ReplayedRows
  <1>4. Cardinality(run.measured) <= Cardinality(own)
    <2>1. first = [o \in run.measured |-> first[o]]
      OBVIOUS
    <2>2. IsFiniteSet(own)
      BY <1>3, FS_Subset
    <2> HIDE DEF first, own
    <2>3. first \in Injection(run.measured, own)
      BY <1>2, <2>1 DEF Injection, IsInjective
    <2> QED
      BY <2>2, <2>3, FS_Injection
  <1>5. Cardinality(own) = Cardinality(MeasuredRows(run)) - Cardinality(ReplayedRows(run))
    <2>1. MeasuredRows(run) \cap ReplayedRows(run) = ReplayedRows(run)
      BY <1>3
    <2> QED
      BY <1>3, <2>1, FS_Difference
  <1>6. total = Cardinality(run.measured) /\ Cardinality(run.measured) \in Nat
    BY OperationsAreCounted, OperationsRead
  <1>7. Cardinality(MeasuredRows(run)) \in Nat /\ Cardinality(ReplayedRows(run)) \in Nat
    BY <1>3, FS_Subset, FS_CardinalityType
  <1>8. SummarizeRun(run).RRR = <<Cardinality(ReplayedRows(run)),
            AtLeast(AtLeast(Cardinality(MeasuredRows(run)) - total, 0), 1)>>
    BY SummaryOf
  <1> HIDE DEF total, own
  <1>9. Cardinality(ReplayedRows(run)) <= AtLeast(AtLeast(Cardinality(MeasuredRows(run)) - total, 0), 1)
    BY <1>4, <1>5, <1>6, <1>7 DEF AtLeast
  <1> QED
    BY <1>8, <1>9

\* The recomputations of a run of any size agree.
LEMMA RunsAgree ==
    ASSUME NEW run, IsRun(run)
    PROVE  RecomputationsAgree(run)
  BY Phase6Agrees, Phase7Agrees, AuditDeviates DEF RecomputationsAgree, ReplayedTwice

-----------------------------------------------------------------------------
(* The inventory.                                                          *)

\* As many conditions as are counted, each a sequence of parts.
AreConditions(C, n) == Counts(C, n) /\ \E U : C \subseteq Seq(U)

\* The names of a sweep, all of one family.
AreNamed(ids, word, n) == Counts(ids, n) /\ \A id \in ids : id[1] = word

\* The ids of a sweep tell its conditions apart.
LEMMA IdsAreNamed ==
    ASSUME NEW word, NEW C, NEW n \in Nat, AreConditions(C, n)
    PROVE  AreNamed(Ids(word, C), word, n)
  <1>1. PICK U : C \subseteq Seq(U)
    BY DEF AreConditions
  <1> DEFINE V == U \cup {word}
             T == Ids(word, C)
             f == [c \in C |-> <<word>> \o c]
  <1>2. <<word>> \in Seq(V) /\ Len(<<word>>) = 1 /\ <<word>>[1] = word
    OBVIOUS
  <1>3. \A c \in C : c \in Seq(V)
    BY <1>1
  <1>4. T = { <<word>> \o c : c \in C }
    BY DEF Ids
  <1>5. \A c \in C : f[c] = <<word>> \o c
    OBVIOUS
  <1>6. f = [c \in C |-> f[c]]
    OBVIOUS
  <1>7. ASSUME NEW c \in C
        PROVE  (<<word>> \o c)[1] = word
    <2>1. 1 \in 1 .. Len(<<word>>) + Len(c)
      BY <1>2, <1>3
    <2> QED
      BY <1>2, <1>3, <2>1, ConcatProperties
  <1>8. ASSUME NEW c \in C, NEW d \in C, <<word>> \o c = <<word>> \o d
        PROVE  c = d
    BY <1>2, <1>3, <1>8, ConcatSimplifications
  <1> HIDE DEF f, T, V
  <1>9. f \in Surjection(C, T)
    BY <1>4, <1>5, <1>6 DEF Surjection
  <1>10. f \in Injection(C, T)
    BY <1>5, <1>8, <1>9 DEF Surjection, Injection, IsInjective
  <1>11. Counts(T, n)
    BY <1>9, <1>10, FS_Surjection DEF Counts, AreConditions
  <1>12. \A id \in T : id[1] = word
    BY <1>4, <1>7
  <1> QED
    BY <1>11, <1>12 DEF AreNamed, T

\* Conditions of one, two, three and four parts.
LEMMA OnePart ==
    ASSUME NEW A, NEW n \in Nat, Counts(A, n)
    PROVE  AreConditions({ <<a>> : a \in A }, n)
  <1> DEFINE C == { <<a>> : a \in A }
             f == [a \in A |-> <<a>>]
  <1>1. f \in Surjection(A, C) /\ f \in Injection(A, C)
    BY DEF Surjection, Injection, IsInjective
  <1>2. C \subseteq Seq(A)
    <2>1. ASSUME NEW a \in A
          PROVE  <<a>> \in Seq(A)
      OBVIOUS
    <2> QED
      BY <2>1
  <1> HIDE DEF C, f
  <1>3. Counts(C, n)
    BY <1>1, FS_Surjection DEF Counts
  <1> QED
    BY <1>2, <1>3 DEF AreConditions, C

LEMMA TwoParts ==
    ASSUME NEW A, NEW B, NEW k \in Nat, NEW l \in Nat, Counts(A, k), Counts(B, l)
    PROVE  AreConditions(A \X B, k * l)
  <1>1. Counts(A \X B, k * l)
    BY ProductCounts
  <1> DEFINE U == A \cup B
  <1>2. \A a \in A, b \in B : a \in U /\ b \in U
    OBVIOUS
  <1> HIDE DEF U
  <1>3. A \X B \subseteq Seq(U)
    <2>1. ASSUME NEW a \in A, NEW b \in B
          PROVE  <<a, b>> \in Seq(U)
      BY <1>2
    <2>2. \A s \in A \X B : s = <<s[1], s[2]>> /\ s[1] \in A /\ s[2] \in B
      OBVIOUS
    <2> QED
      BY <2>1, <2>2
  <1> QED
    BY <1>1, <1>3 DEF AreConditions

LEMMA ThreeParts ==
    ASSUME NEW A, NEW B, NEW C, NEW k \in Nat, NEW l \in Nat, NEW m \in Nat,
           Counts(A, k), Counts(B, l), Counts(C, m)
    PROVE  AreConditions(A \X B \X C, k * l * m)
  <1> DEFINE T == (A \X B) \X C
             S == A \X B \X C
             f == [t \in S |-> <<<<t[1], t[2]>>, t[3]>>]
             U == A \cup B \cup C
  <1>1. Counts(T, k * l * m)
    <2>1. Counts(A \X B, k * l) /\ k * l \in Nat
      BY ProductCounts
    <2> QED
      BY <2>1, ProductCounts
  <1>2. Matches(S, T, f)
    <2>1. \A t \in S : f[t] \in T
      OBVIOUS
    <2>2. \A s, t \in S : f[s] = f[t] => s = t
      OBVIOUS
    <2>3. ASSUME NEW u \in T
          PROVE  \E t \in S : f[t] = u
      <3>1. /\ u = <<<<u[1][1], u[1][2]>>, u[2]>>
            /\ u[1][1] \in A /\ u[1][2] \in B /\ u[2] \in C
        OBVIOUS
      <3>2. <<u[1][1], u[1][2], u[2]>> \in S /\ f[<<u[1][1], u[1][2], u[2]>>] = u
        BY <3>1
      <3> QED
        BY <3>2
    <2>4. f = [t \in S |-> f[t]]
      OBVIOUS
    <2> HIDE DEF f, S, T
    <2> QED
      BY <2>1, <2>2, <2>3, <2>4 DEF Matches, Injection, IsInjective, Surjection
  <1>3. k * l * m \in Nat
    OBVIOUS
  <1>4. \A a \in A, b \in B, c \in C : a \in U /\ b \in U /\ c \in U
    OBVIOUS
  <1> HIDE DEF f, T, U
  <1>5. S \subseteq Seq(U)
    <2>1. ASSUME NEW a \in A, NEW b \in B, NEW c \in C
          PROVE  <<a, b, c>> \in Seq(U)
      BY <1>4
    <2>2. \A s \in S : s = <<s[1], s[2], s[3]>> /\ s[1] \in A /\ s[2] \in B /\ s[3] \in C
      OBVIOUS
    <2> HIDE DEF S
    <2> QED
      BY <2>1, <2>2
  <1> HIDE DEF S
  <1>6. Counts(S, k * l * m)
    BY <1>1, <1>2, <1>3, MatchCounts
  <1>7. AreConditions(S, k * l * m)
    BY <1>5, <1>6 DEF AreConditions
  <1> QED
    BY <1>7 DEF S

LEMMA FourParts ==
    ASSUME NEW A, NEW B, NEW C, NEW D, NEW k \in Nat, NEW l \in Nat, NEW m \in Nat, NEW n \in Nat,
           Counts(A, k), Counts(B, l), Counts(C, m), Counts(D, n)
    PROVE  AreConditions(A \X B \X C \X D, k * l * m * n)
  <1> DEFINE T == ((A \X B) \X C) \X D
             S == A \X B \X C \X D
             f == [t \in S |-> <<<<<<t[1], t[2]>>, t[3]>>, t[4]>>]
             U == A \cup B \cup C \cup D
  <1>1. Counts(T, k * l * m * n)
    <2>1. Counts(A \X B, k * l) /\ k * l \in Nat
      BY ProductCounts
    <2>2. Counts((A \X B) \X C, k * l * m) /\ k * l * m \in Nat
      BY <2>1, ProductCounts
    <2> QED
      BY <2>2, ProductCounts
  <1>2. Matches(S, T, f)
    <2>1. \A t \in S : f[t] \in T
      OBVIOUS
    <2>2. \A s, t \in S : f[s] = f[t] => s = t
      OBVIOUS
    <2>3. ASSUME NEW u \in T
          PROVE  \E t \in S : f[t] = u
      <3> DEFINE t == <<u[1][1][1], u[1][1][2], u[1][2], u[2]>>
      <3>1. /\ u = <<<<<<u[1][1][1], u[1][1][2]>>, u[1][2]>>, u[2]>>
            /\ u[1][1][1] \in A /\ u[1][1][2] \in B /\ u[1][2] \in C /\ u[2] \in D
        OBVIOUS
      <3>2. t \in S /\ f[t] = u
        BY <3>1
      <3> QED
        BY <3>2
    <2>4. f = [t \in S |-> f[t]]
      OBVIOUS
    <2> HIDE DEF f, S, T
    <2> QED
      BY <2>1, <2>2, <2>3, <2>4 DEF Matches, Injection, IsInjective, Surjection
  <1>3. k * l * m * n \in Nat
    OBVIOUS
  <1>4. \A a \in A, b \in B, c \in C, d \in D : a \in U /\ b \in U /\ c \in U /\ d \in U
    OBVIOUS
  <1> HIDE DEF f, T, U
  <1>5. S \subseteq Seq(U)
    <2>1. ASSUME NEW a \in A, NEW b \in B, NEW c \in C, NEW d \in D
          PROVE  <<a, b, c, d>> \in Seq(U)
      BY <1>4
    <2>2. ASSUME NEW s \in S
          PROVE  s \in Seq(U)
      <3>1. s[1] \in A /\ s[2] \in B /\ s[3] \in C /\ s[4] \in D
        OBVIOUS
      <3>2. s = <<s[1], s[2], s[3], s[4]>>
        OBVIOUS
      <3> HIDE DEF S
      <3>3. <<s[1], s[2], s[3], s[4]>> \in Seq(U)
        BY <2>1, <3>1
      <3> QED
        BY <3>2, <3>3
    <2> HIDE DEF S
    <2> QED
      BY <2>2
  <1> HIDE DEF S
  <1>6. Counts(S, k * l * m * n)
    BY <1>1, <1>2, <1>3, MatchCounts
  <1>7. AreConditions(S, k * l * m * n)
    BY <1>5, <1>6 DEF AreConditions
  <1> QED
    BY <1>7 DEF S

\* Conditions with a rate that follows from their scenario.
Rated(A, B, C, D, rate) == { <<a, b, rate[b], c, d>> : a \in A, b \in B, c \in C, d \in D }

LEMMA RatedParts ==
    ASSUME NEW A, NEW B, NEW C, NEW D, NEW rate,
           NEW k \in Nat, NEW l \in Nat, NEW m \in Nat, NEW n \in Nat,
           Counts(A, k), Counts(B, l), Counts(C, m), Counts(D, n)
    PROVE  AreConditions(Rated(A, B, C, D, rate), k * l * m * n)
  <1> DEFINE S == A \X B \X C \X D
             T == Rated(A, B, C, D, rate)
             f == [t \in S |-> <<t[1], t[2], rate[t[2]], t[3], t[4]>>]
             R == { rate[b] : b \in B }
             U == A \cup B \cup C \cup D \cup R
  <1>1. Counts(S, k * l * m * n)
    BY FourParts DEF AreConditions
  <1>2. f \in Surjection(S, T) /\ f \in Injection(S, T)
    <2>1. \A t \in S : f[t] \in T
      BY DEF Rated
    <2>2. \A s, t \in S : f[s] = f[t] => s = t
      OBVIOUS
    <2>3. ASSUME NEW u \in T
          PROVE  \E t \in S : f[t] = u
      <3>1. PICK a \in A, b \in B, c \in C, d \in D : u = <<a, b, rate[b], c, d>>
        BY DEF Rated
      <3>2. <<a, b, c, d>> \in S /\ f[<<a, b, c, d>>] = u
        BY <3>1
      <3> QED
        BY <3>2
    <2>4. f = [t \in S |-> f[t]]
      OBVIOUS
    <2> HIDE DEF f, S, T
    <2> QED
      BY <2>1, <2>2, <2>3, <2>4 DEF Injection, IsInjective, Surjection
  <1>3. \A a \in A, b \in B, c \in C, d \in D : a \in U /\ b \in U /\ rate[b] \in U /\ c \in U /\ d \in U
    OBVIOUS
  <1> HIDE DEF f, S, R, U
  <1>4. T \subseteq Seq(U)
    <2>1. ASSUME NEW a \in A, NEW b \in B, NEW c \in C, NEW d \in D
          PROVE  <<a, b, rate[b], c, d>> \in Seq(U)
      BY <1>3
    <2>2. ASSUME NEW u \in T
          PROVE  u \in Seq(U)
      <3>1. PICK a \in A, b \in B, c \in C, d \in D : u = <<a, b, rate[b], c, d>>
        BY DEF Rated
      <3> QED
        BY <2>1, <3>1
    <2> QED
      BY <2>2
  <1> HIDE DEF T
  <1>5. k * l * m * n \in Nat
    OBVIOUS
  <1>6. Counts(T, k * l * m * n)
    BY <1>1, <1>2, <1>5, FS_Surjection DEF Counts
  <1> QED
    BY <1>4, <1>6 DEF AreConditions, T

\* A set of one element.
IsOne(S, x) == S = {x}

LEMMA OneCounts ==
    ASSUME NEW S, NEW x, IsOne(S, x)
    PROVE  Counts(S, 1)
  BY FS_Singleton DEF Counts, IsOne

LEMMA UnionIsConditions ==
    ASSUME NEW C, NEW D, NEW m \in Nat, NEW n \in Nat,
           AreConditions(C, m), AreConditions(D, n), C \cap D = {}
    PROVE  AreConditions(C \cup D, m + n)
  <1>1. PICK U : C \subseteq Seq(U)
    BY DEF AreConditions
  <1>2. PICK V : D \subseteq Seq(V)
    BY DEF AreConditions
  <1>3. C \cup D \subseteq Seq(U \cup V)
    BY <1>1, <1>2
  <1>4. Counts(C \cup D, m + n)
    BY UnionCounts DEF AreConditions
  <1> QED
    BY <1>3, <1>4 DEF AreConditions

\* What is compared, and the scenarios.
LEMMA ComparedCounts == Counts(Compared, 4)
  <1>1. IsFour(Compared, <<"V0", "C0">>, <<"V2", "C0">>, <<"V4", "C1">>, <<"V5", "C2">>)
    BY DEF Compared, IsFour
  <1> QED
    BY <1>1, FourCounts

LEMMA ScenarioCounts == Counts(Scenarios, 13)
  <1> DEFINE a == {"F0", "F1", "F2", "F3"}
             b == {"F4", "F5", "F6", "F7"}
             c == {"F8", "F9", "F10", "F11"}
             ab == a \cup b
             abc == ab \cup c
  <1>1. /\ IsFour(a, "F0", "F1", "F2", "F3") /\ IsFour(b, "F4", "F5", "F6", "F7")
        /\ IsFour(c, "F8", "F9", "F10", "F11")
    BY DEF IsFour
  <1>2. a \cap b = {} /\ ab \cap c = {} /\ "F12" \notin abc /\ Scenarios = abc \cup {"F12"}
    BY DEF Scenarios
  <1> HIDE DEF a, b, c
  <1>3. Counts(a, 4) /\ Counts(b, 4) /\ Counts(c, 4)
    BY <1>1, FourCounts
  <1>4. Counts(ab, 8)
    <2>1. Counts(ab, 4 + 4)
      BY <1>2, <1>3, UnionCounts
    <2> QED
      BY <2>1
  <1> HIDE DEF ab
  <1>5. Counts(abc, 12)
    <2>1. Counts(abc, 8 + 4)
      BY <1>2, <1>3, <1>4, UnionCounts
    <2> QED
      BY <2>1
  <1> HIDE DEF abc
  <1>6. Counts(abc \cup {"F12"}, 12 + 1)
    BY <1>2, <1>5, OneMoreCounts
  <1> QED
    BY <1>2, <1>6

\* A range of n numbers.
IsInterval(S, a, b, n) == S = a..b /\ a \in Int /\ b \in Int /\ n \in Nat /\ n = b - a + 1

LEMMA IntervalCounts ==
    ASSUME NEW S, NEW a, NEW b, NEW n, IsInterval(S, a, b, n)
    PROVE  Counts(S, n)
  <1>1. IsFiniteSet(a..b) /\ Cardinality(a..b) = IF a > b THEN 0 ELSE b - a + 1
    BY FS_Interval DEF IsInterval
  <1>2. S = a..b /\ (a > b => n = 0) /\ (~(a > b) => n = b - a + 1)
    BY DEF IsInterval
  <1> QED
    BY <1>1, <1>2 DEF Counts

\* The sweeps, in the order of DefaultPlan.
LEMMA BaselineNames == AreNamed(BaselineQualification({5001, 5002, 5003}), "BASELINE", 36)
  <1> DEFINE conc == {10, 50, 100}
             seeds == {5001, 5002, 5003}
  <1>1. IsTriple(conc, 10, 50, 100) /\ IsTriple(seeds, 5001, 5002, 5003)
    BY DEF IsTriple
  <1>2. BaselineQualification(seeds) = Ids("BASELINE", Compared \X conc \X seeds)
    BY DEF BaselineQualification
  <1> HIDE DEF conc, seeds
  <1>3. AreConditions(Compared \X conc \X seeds, 4 * 3 * 3)
    <2>1. Counts(conc, 3) /\ Counts(seeds, 3)
      BY <1>1, TripleCounts
    <2> QED
      BY <2>1, ComparedCounts, ThreeParts
  <1>4. AreNamed(Ids("BASELINE", Compared \X conc \X seeds), "BASELINE", 36)
    BY <1>3, IdsAreNamed
  <1> QED
    BY <1>2, <1>4 DEF seeds

LEMMA StressNames == AreNamed(Stress({5101}), "STRESS", 104)
  <1> DEFINE conc == {50, 100}
             seeds == {5101}
             rate == [s \in Scenarios |-> StressRate(s)]
  <1>1. Counts(conc, 2) /\ Counts(seeds, 1)
    <2>1. IsPair(conc, 50, 100) /\ IsOne(seeds, 5101)
      BY DEF IsPair, IsOne
    <2> HIDE DEF conc, seeds
    <2> QED
      BY <2>1, PairCounts, OneCounts
  <1>2. \A s \in Scenarios : rate[s] = StressRate(s)
    OBVIOUS
  <1> HIDE DEF rate
  <1>3. Stress(seeds) = Ids("STRESS", Rated(Compared, Scenarios, conc, seeds, rate))
    BY <1>2 DEF Stress, Rated
  <1> HIDE DEF conc, seeds
  <1>4. AreConditions(Rated(Compared, Scenarios, conc, seeds, rate), 4 * 13 * 2 * 1)
    BY <1>1, ComparedCounts, ScenarioCounts, RatedParts
  <1>5. AreNamed(Ids("STRESS", Rated(Compared, Scenarios, conc, seeds, rate)), "STRESS", 104)
    BY <1>4, IdsAreNamed
  <1> QED
    BY <1>3, <1>5 DEF seeds

\* The ids of one compound.
Compound(scenario) == Ids(scenario, { <<v>> : v \in Compared })

LEMMA CompoundNames == \A scenario : AreNamed(Compound(scenario), scenario, 4)
  <1>1. AreConditions({ <<v>> : v \in Compared }, 4)
    BY ComparedCounts, OnePart
  <1> QED
    BY <1>1, IdsAreNamed DEF Compound

LEMMA CompoundsCount ==
    /\ Counts(Compounds, 16)
    /\ \A id \in Compounds : id[1] \in {"CF1", "CF2", "CF3", "CF4"}
  <1> DEFINE a == Compound("CF1")
             b == Compound("CF2")
             c == Compound("CF3")
             d == Compound("CF4")
             ab == a \cup b
             cd == c \cup d
  <1>1. AreNamed(a, "CF1", 4) /\ AreNamed(b, "CF2", 4) /\ AreNamed(c, "CF3", 4) /\ AreNamed(d, "CF4", 4)
    BY CompoundNames
  <1>2. Compounds = ab \cup cd
    BY DEF Compounds, Compound
  <1> HIDE DEF a, b, c, d
  <1>3. a \cap b = {} /\ c \cap d = {} /\ ab \cap cd = {}
    BY <1>1 DEF AreNamed
  <1>4. Counts(ab, 4 + 4) /\ Counts(cd, 4 + 4)
    BY <1>1, <1>3, UnionCounts DEF AreNamed
  <1>5. \A id \in ab \cup cd : id[1] \in {"CF1", "CF2", "CF3", "CF4"}
    BY <1>1 DEF AreNamed
  <1> HIDE DEF ab, cd
  <1>6. Counts(ab \cup cd, 8 + 8)
    BY <1>3, <1>4, UnionCounts
  <1> QED
    BY <1>2, <1>5, <1>6

\* V3 over C0 is left out.
LEMMA CapabilityNames == AreNamed(Capabilities({5101, 5102, 5103}), "CAP", 99)
  <1> DEFINE failures == {"F3", "F8", "F12"}
             seeds == {5101, 5102, 5103}
             others == {"V2", "V4", "V5"}
             caps == {"C0", "C1", "C2"}
             v3 == {"V3"}
             mapping == {"C1", "C2"}
             a == others \X caps \X failures \X seeds
             b == v3 \X mapping \X failures \X seeds
  <1>1. /\ IsTriple(failures, "F3", "F8", "F12") /\ IsTriple(seeds, 5101, 5102, 5103)
        /\ IsTriple(others, "V2", "V4", "V5") /\ IsTriple(caps, "C0", "C1", "C2")
        /\ IsPair(mapping, "C1", "C2") /\ IsOne(v3, "V3")
    BY DEF IsTriple, IsPair, IsOne
  <1>2. /\ Capabilities(seeds) = Ids("CAP", a \cup b)
        /\ a \cap b = {}
    <2>1. /\ {"V2", "V3", "V4", "V5"} = others \cup v3
          /\ \A c : c \in others \X caps \X failures \X seeds => c[1] # "V3"
          /\ \A c : c \in v3 \X caps \X failures \X seeds =>
                 (c \in b <=> c[2] # "C0")
      OBVIOUS
    <2> QED
      BY <2>1 DEF Capabilities
  <1> HIDE DEF failures, seeds, others, caps, v3, mapping
  <1>3. Counts(failures, 3) /\ Counts(seeds, 3) /\ Counts(others, 3) /\ Counts(caps, 3)
        /\ Counts(mapping, 2) /\ Counts(v3, 1)
    BY <1>1, TripleCounts, PairCounts, OneCounts
  <1>4. AreConditions(a, 3 * 3 * 3 * 3)
    BY <1>3, FourParts
  <1>5. AreConditions(b, 1 * 2 * 3 * 3)
    BY <1>3, FourParts
  <1> HIDE DEF a, b
  <1>6. AreConditions(a \cup b, 81 + 18)
    BY <1>2, <1>4, <1>5, UnionIsConditions
  <1> QED
    BY <1>2, <1>6, IdsAreNamed DEF seeds

\* Conditions with parts that follow from a number.
ByTurns(I, variant, scenario) == { <<variant[i], scenario[i], i>> : i \in I }

LEMMA PartsByTurns ==
    ASSUME NEW I, NEW variant, NEW scenario, NEW n \in Nat, Counts(I, n)
    PROVE  AreConditions(ByTurns(I, variant, scenario), n)
  <1> DEFINE C == ByTurns(I, variant, scenario)
             f == [i \in I |-> <<variant[i], scenario[i], i>>]
             U == I \cup { variant[i] : i \in I } \cup { scenario[i] : i \in I }
  <1>1. f \in Surjection(I, C) /\ f \in Injection(I, C)
    BY DEF ByTurns, Surjection, Injection, IsInjective
  <1>2. \A i \in I : variant[i] \in U /\ scenario[i] \in U /\ i \in U
    OBVIOUS
  <1> HIDE DEF f, U
  <1>3. ASSUME NEW c \in C
        PROVE  c \in Seq(U)
    <2>1. PICK i \in I : c = <<variant[i], scenario[i], i>>
      BY DEF ByTurns
    <2>2. <<variant[i], scenario[i], i>> \in Seq(U)
      BY <1>2
    <2> QED
      BY <2>1, <2>2
  <1> HIDE DEF C
  <1>4. Counts(C, n)
    BY <1>1, FS_Surjection DEF Counts
  <1> QED
    BY <1>3, <1>4 DEF AreConditions, C

LEMMA IsolationNames == AreNamed(Isolation, "ISOLATION", 50)
  <1> DEFINE I == 0..49
             variant == [i \in I |-> Turn(<<"V0", "V2", "V4", "V5">>, i)]
             scenario == [i \in I |-> Turn(<<"F0", "F3", "F4", "F6", "F8", "F11">>, i)]
  <1>1. \A i \in I : /\ variant[i] = Turn(<<"V0", "V2", "V4", "V5">>, i)
                     /\ scenario[i] = Turn(<<"F0", "F3", "F4", "F6", "F8", "F11">>, i)
    OBVIOUS
  <1>2. IsInterval(I, 0, 49, 50)
    BY DEF IsInterval
  <1> HIDE DEF variant, scenario
  <1>3. Isolation = Ids("ISOLATION", ByTurns(I, variant, scenario))
    <2>1. ByTurns(I, variant, scenario)
            = { <<Turn(<<"V0", "V2", "V4", "V5">>, i),
                  Turn(<<"F0", "F3", "F4", "F6", "F8", "F11">>, i), i>> : i \in I }
      BY <1>1 DEF ByTurns
    <2> QED
      BY <2>1 DEF Isolation
  <1> HIDE DEF I
  <1>4. AreConditions(ByTurns(I, variant, scenario), 50)
    BY <1>2, IntervalCounts, PartsByTurns
  <1> QED
    BY <1>3, <1>4, IdsAreNamed

LEMMA RestartNames == AreNamed(Restart, "RESTART", 6)
  <1> DEFINE when == {"BEFORE", "AFTER"}
             service == {"tool-gateway", "orchestrator", "order-service"}
  <1>1. IsPair(when, "BEFORE", "AFTER") /\ IsTriple(service, "tool-gateway", "orchestrator", "order-service")
    BY DEF IsPair, IsTriple
  <1>2. Restart = Ids("RESTART", when \X service)
    BY DEF Restart
  <1> HIDE DEF when, service
  <1>3. Counts(when, 2) /\ Counts(service, 3)
    BY <1>1, PairCounts, TripleCounts
  <1>4. AreConditions(when \X service, 2 * 3)
    BY <1>3, TwoParts
  <1> QED
    BY <1>2, <1>4, IdsAreNamed

LEMMA ResourceNames == AreNamed(Resources, "RESOURCE", 20)
  <1> DEFINE I == 0..19
  <1>1. IsInterval(I, 0, 19, 20)
    BY DEF IsInterval
  <1>2. Resources = Ids("RESOURCE", { <<i>> : i \in I })
    BY DEF Resources
  <1> HIDE DEF I
  <1>3. AreConditions({ <<i>> : i \in I }, 20)
    BY <1>1, IntervalCounts, OnePart
  <1> QED
    BY <1>2, <1>3, IdsAreNamed

LEMMA LeaseNames == AreNamed(Lease, "LEASE", 4)
  <1> DEFINE failures == {"F0", "F2", "F8", "F6"}
  <1>1. IsFour(failures, "F0", "F2", "F8", "F6")
    BY DEF IsFour
  <1>2. Lease = Ids("LEASE", { <<s>> : s \in failures })
    BY DEF Lease
  <1> HIDE DEF failures
  <1>3. AreConditions({ <<s>> : s \in failures }, 4)
    BY <1>1, FourCounts, OnePart
  <1> QED
    BY <1>2, <1>3, IdsAreNamed

LEMMA PrestudyNames == AreNamed(Prestudy(5301..5305), "PRE", 160)
  <1> DEFINE failures == {"F0", "F3", "F8", "F6"}
             conc == {10, 50}
             seeds == 5301..5305
             rate == [s \in failures |-> IF s \in {"F0", "F6"} THEN 0 ELSE 10]
  <1>1. Counts(failures, 4) /\ Counts(conc, 2) /\ Counts(seeds, 5)
    <2>1. IsFour(failures, "F0", "F3", "F8", "F6") /\ IsPair(conc, 10, 50)
      BY DEF IsFour, IsPair
    <2>2. IsInterval(seeds, 5301, 5305, 5)
      BY DEF IsInterval
    <2> HIDE DEF failures, conc, seeds
    <2> QED
      BY <2>1, <2>2, FourCounts, PairCounts, IntervalCounts
  <1>2. \A s \in failures : rate[s] = IF s \in {"F0", "F6"} THEN 0 ELSE 10
    OBVIOUS
  <1>3. Prestudy(seeds)
          = Ids("PRE", { <<v, s, IF s \in {"F0", "F6"} THEN 0 ELSE 10, c, seed>> :
                            v \in Compared, s \in failures, c \in conc, seed \in seeds })
    BY DEF Prestudy
  <1> HIDE DEF failures, conc, seeds, rate
  <1>4. { <<v, s, IF s \in {"F0", "F6"} THEN 0 ELSE 10, c, seed>> :
             v \in Compared, s \in failures, c \in conc, seed \in seeds }
          = Rated(Compared, failures, conc, seeds, rate)
    BY <1>2 DEF Rated
  <1>5. AreConditions(Rated(Compared, failures, conc, seeds, rate), 4 * 4 * 2 * 5)
    BY <1>1, ComparedCounts, RatedParts
  <1>6. AreNamed(Ids("PRE", Rated(Compared, failures, conc, seeds, rate)), "PRE", 160)
    BY <1>5, IdsAreNamed
  <1>7. AreNamed(Prestudy(seeds), "PRE", 160)
    BY <1>3, <1>4, <1>6
  <1> QED
    BY <1>7 DEF seeds

\* Of the variants that are compared, those with a ledger.
WithLedger == Compared \ {<<"V0", "C0">>}
NotV2 == Compared \ {<<"V2", "C0">>}

LEMMA LedgerCounts == Counts(WithLedger, 3) /\ Counts(NotV2, 3)
  <1>1. /\ IsTriple(WithLedger, <<"V2", "C0">>, <<"V4", "C1">>, <<"V5", "C2">>)
        /\ IsTriple(NotV2, <<"V0", "C0">>, <<"V4", "C1">>, <<"V5", "C2">>)
    BY DEF WithLedger, NotV2, Compared, IsTriple
  <1> QED
    BY <1>1, TripleCounts

LEMMA GeneralizationNames == AreNamed(GeneralizationAudit, "GEN", 24)
  <1> DEFINE failures == {"F3", "F8"}
  <1>1. /\ IsFour(Workloads, "create_order", "charge_payment", "reserve_inventory", "send_notification")
        /\ IsPair(failures, "F3", "F8")
    BY DEF IsFour, IsPair, Workloads
  <1>2. GeneralizationAudit = Ids("GEN", Workloads \X NotV2 \X failures)
    BY DEF GeneralizationAudit, NotV2
  <1> HIDE DEF failures
  <1>3. Counts(Workloads, 4) /\ Counts(failures, 2)
    BY <1>1, FourCounts, PairCounts
  <1>4. AreConditions(Workloads \X NotV2 \X failures, 4 * 3 * 2)
    BY <1>3, LedgerCounts, ThreeParts
  <1> QED
    BY <1>2, <1>4, IdsAreNamed

\* Sweeps the inventory does not count.
IsNamed(ids, word) == \E n : AreNamed(ids, word, n)

LEMMA FairnessNames == IsNamed(FairnessAudit(5201..5205), "FAIR")
  <1> DEFINE seeds == 5201..5205
  <1>1. IsInterval(seeds, 5201, 5205, 5)
    BY DEF IsInterval
  <1>2. FairnessAudit(seeds) = Ids("FAIR", Compared \X seeds)
    BY DEF FairnessAudit
  <1> HIDE DEF seeds
  <1>3. AreConditions(Compared \X seeds, 4 * 5)
    <2>1. Counts(seeds, 5)
      BY <1>1, IntervalCounts
    <2> QED
      BY <2>1, ComparedCounts, TwoParts
  <1> QED
    BY <1>2, <1>3, IdsAreNamed DEF IsNamed, seeds

LEMMA GrowthNames == IsNamed(LedgerGrowth, "LEDGER")
  <1> DEFINE variants == {"V2", "V4", "V5"}
  <1>1. IsTriple(variants, "V2", "V4", "V5")
    BY DEF IsTriple
  <1>2. LedgerGrowth = Ids("LEDGER", { <<v>> : v \in variants })
    BY DEF LedgerGrowth
  <1> HIDE DEF variants
  <1>3. AreConditions({ <<v>> : v \in variants }, 3)
    BY <1>1, TripleCounts, OnePart
  <1> QED
    BY <1>2, <1>3, IdsAreNamed DEF IsNamed

LEMMA ProbabilityNames == IsNamed(Probability({5401, 5402, 5403}), "PROB")
  <1> DEFINE rates == {1, 5, 10, 20}
             seeds == {5401, 5402, 5403}
  <1>1. IsFour(rates, 1, 5, 10, 20) /\ IsTriple(seeds, 5401, 5402, 5403)
    BY DEF IsFour, IsTriple
  <1>2. Probability(seeds) = Ids("PROB", rates \X seeds)
    BY DEF Probability
  <1> HIDE DEF rates, seeds
  <1>3. Counts(rates, 4) /\ Counts(seeds, 3)
    BY <1>1, FourCounts, TripleCounts
  <1>4. AreConditions(rates \X seeds, 4 * 3)
    BY <1>3, TwoParts
  <1> QED
    BY <1>2, <1>4, IdsAreNamed DEF IsNamed, seeds

LEMMA OutageNames == IsNamed(LedgerOutage, "F10")
  <1> DEFINE access == {"read", "write"}
             length == {"shorter_than_retry_interval", "approximately_one_retry_interval",
                        "longer_than_one_retry_interval"}
  <1>1. /\ IsPair(access, "read", "write")
        /\ IsTriple(length, "shorter_than_retry_interval", "approximately_one_retry_interval",
                    "longer_than_one_retry_interval")
    BY DEF IsPair, IsTriple
  <1>2. LedgerOutage = Ids("F10", WithLedger \X access \X length)
    BY DEF LedgerOutage, WithLedger
  <1> HIDE DEF access, length
  <1>3. Counts(access, 2) /\ Counts(length, 3)
    BY <1>1, PairCounts, TripleCounts
  <1>4. AreConditions(WithLedger \X access \X length, 3 * 2 * 3)
    BY <1>3, LedgerCounts, ThreeParts
  <1> QED
    BY <1>2, <1>4, IdsAreNamed DEF IsNamed

LEMMA StormNames == IsNamed(RetryStorm, "F11")
  <1> DEFINE fanout == {5, 10}
             conc == {50, 100}
  <1>1. IsPair(fanout, 5, 10) /\ IsPair(conc, 50, 100)
    BY DEF IsPair
  <1>2. RetryStorm = Ids("F11", Compared \X fanout \X conc)
    BY DEF RetryStorm
  <1> HIDE DEF fanout, conc
  <1>3. Counts(fanout, 2) /\ Counts(conc, 2)
    BY <1>1, PairCounts
  <1>4. AreConditions(Compared \X fanout \X conc, 4 * 2 * 2)
    BY <1>3, ComparedCounts, ThreeParts
  <1> QED
    BY <1>2, <1>4, IdsAreNamed DEF IsNamed

\* The sweeps of the default plan, by the word their ids begin with.
SweepOf ==
    [ BASELINE |-> BaselineQualification({5001, 5002, 5003}), STRESS |-> Stress({5101}),
      CF1 |-> Compound("CF1"), CF2 |-> Compound("CF2"), CF3 |-> Compound("CF3"), CF4 |-> Compound("CF4"),
      CAP |-> Capabilities({5101, 5102, 5103}), FAIR |-> FairnessAudit(5201..5205),
      ISOLATION |-> Isolation, RESTART |-> Restart, RESOURCE |-> Resources, LEDGER |-> LedgerGrowth,
      LEASE |-> Lease, WARMUP |-> Warmup, PRE |-> Prestudy(5301..5305),
      PROB |-> Probability({5401, 5402, 5403}), GEN |-> GeneralizationAudit, F10 |-> LedgerOutage,
      F11 |-> RetryStorm ]

\* An id of the plan is of the sweep its word says.
LEMMA PlanBySweeps ==
    \A id : id \in DefaultPlan <=> id[1] \in DOMAIN SweepOf /\ id \in SweepOf[id[1]]
  <1> DEFINE words == DOMAIN SweepOf
  <1>1. \A w \in words : \A id \in SweepOf[w] : id[1] = w
    <2>1. Warmup = {<<"WARMUP">>}
      BY DEF Warmup
    <2> QED
      BY <2>1, BaselineNames, StressNames, CompoundNames, CapabilityNames, FairnessNames, IsolationNames,
        RestartNames, ResourceNames, GrowthNames, LeaseNames, PrestudyNames, ProbabilityNames,
        GeneralizationNames, OutageNames, StormNames
      DEF SweepOf, AreNamed, IsNamed
  <1>2. \A id : id \in Compounds <=> \E w \in {"CF1", "CF2", "CF3", "CF4"} : id \in Compound(w)
    BY DEF Compounds, Compound
  <1>3. \A id : id \in DefaultPlan <=> \E w \in words : id \in SweepOf[w]
    BY <1>2 DEF DefaultPlan, SweepOf
  <1> HIDE DEF words
  <1> QED
    BY <1>1, <1>3 DEF words

\* The ids of a family.
PlannedOf(f) == { id \in DefaultPlan : id[1] \in Families[f] }

\* There are as many as the inventory requires.
LEMMA FamiliesCount == \A f \in DOMAIN Required : Counts(PlannedOf(f), Required[f])
  <1>1. ASSUME NEW f, NEW w, w \in DOMAIN SweepOf, Families[f] = {w}, NEW n, AreNamed(SweepOf[w], w, n)
        PROVE  Counts(PlannedOf(f), n)
    <2>1. PlannedOf(f) = SweepOf[w]
      BY <1>1, PlanBySweeps DEF PlannedOf, AreNamed
    <2> QED
      BY <1>1, <2>1 DEF AreNamed
  <1>2. PlannedOf("compound_runs") = Compounds
    <2>1. \A id : id \in Compounds <=> \E w \in {"CF1", "CF2", "CF3", "CF4"} : id \in Compound(w)
      BY DEF Compounds, Compound
    <2>2. \A w \in {"CF1", "CF2", "CF3", "CF4"} : w \in DOMAIN SweepOf /\ SweepOf[w] = Compound(w)
      BY DEF SweepOf
    <2>3. Families["compound_runs"] = {"CF1", "CF2", "CF3", "CF4"}
      BY DEF Families
    <2>4. \A id \in Compounds : id[1] \in {"CF1", "CF2", "CF3", "CF4"} /\ id \in Compound(id[1])
      BY <2>1, CompoundNames DEF AreNamed
    <2> QED
      BY <2>1, <2>2, <2>3, <2>4, PlanBySweeps DEF PlannedOf
  <1>3. Counts(PlannedOf("compound_runs"), 16)
    BY <1>2, CompoundsCount
  <1>4. Counts(PlannedOf("baseline_runs"), 36)
    <2>1. "BASELINE" \in DOMAIN SweepOf /\ AreNamed(SweepOf["BASELINE"], "BASELINE", 36)
      BY BaselineNames DEF SweepOf
    <2>2. Families["baseline_runs"] = {"BASELINE"}
      BY DEF Families
    <2> QED
      BY <1>1, <2>1, <2>2
  <1>5. Counts(PlannedOf("stress_runs"), 104)
    <2>1. "STRESS" \in DOMAIN SweepOf /\ AreNamed(SweepOf["STRESS"], "STRESS", 104)
      BY StressNames DEF SweepOf
    <2>2. Families["stress_runs"] = {"STRESS"}
      BY DEF Families
    <2> QED
      BY <1>1, <2>1, <2>2
  <1>6. Counts(PlannedOf("capability_runs"), 99)
    <2>1. "CAP" \in DOMAIN SweepOf /\ AreNamed(SweepOf["CAP"], "CAP", 99)
      BY CapabilityNames DEF SweepOf
    <2>2. Families["capability_runs"] = {"CAP"}
      BY DEF Families
    <2> QED
      BY <1>1, <2>1, <2>2
  <1>7. Counts(PlannedOf("isolation_runs"), 50)
    <2>1. "ISOLATION" \in DOMAIN SweepOf /\ AreNamed(SweepOf["ISOLATION"], "ISOLATION", 50)
      BY IsolationNames DEF SweepOf
    <2>2. Families["isolation_runs"] = {"ISOLATION"}
      BY DEF Families
    <2> QED
      BY <1>1, <2>1, <2>2
  <1>8. Counts(PlannedOf("restart_runs"), 6)
    <2>1. "RESTART" \in DOMAIN SweepOf /\ AreNamed(SweepOf["RESTART"], "RESTART", 6)
      BY RestartNames DEF SweepOf
    <2>2. Families["restart_runs"] = {"RESTART"}
      BY DEF Families
    <2> QED
      BY <1>1, <2>1, <2>2
  <1>9. Counts(PlannedOf("resource_runs"), 20)
    <2>1. "RESOURCE" \in DOMAIN SweepOf /\ AreNamed(SweepOf["RESOURCE"], "RESOURCE", 20)
      BY ResourceNames DEF SweepOf
    <2>2. Families["resource_runs"] = {"RESOURCE"}
      BY DEF Families
    <2> QED
      BY <1>1, <2>1, <2>2
  <1>10. Counts(PlannedOf("lease_runs"), 4)
    <2>1. "LEASE" \in DOMAIN SweepOf /\ AreNamed(SweepOf["LEASE"], "LEASE", 4)
      BY LeaseNames DEF SweepOf
    <2>2. Families["lease_runs"] = {"LEASE"}
      BY DEF Families
    <2> QED
      BY <1>1, <2>1, <2>2
  <1>11. Counts(PlannedOf("prestudy_runs"), 160)
    <2>1. "PRE" \in DOMAIN SweepOf /\ AreNamed(SweepOf["PRE"], "PRE", 160)
      BY PrestudyNames DEF SweepOf
    <2>2. Families["prestudy_runs"] = {"PRE"}
      BY DEF Families
    <2> QED
      BY <1>1, <2>1, <2>2
  <1>12. Counts(PlannedOf("generalization_runs"), 24)
    <2>1. "GEN" \in DOMAIN SweepOf /\ AreNamed(SweepOf["GEN"], "GEN", 24)
      BY GeneralizationNames DEF SweepOf
    <2>2. Families["generalization_runs"] = {"GEN"}
      BY DEF Families
    <2> QED
      BY <1>1, <2>1, <2>2
  <1>13. Required =
          [ baseline_runs |-> 36, stress_runs |-> 104, compound_runs |-> 16, capability_runs |-> 99,
            isolation_runs |-> 50, restart_runs |-> 6, resource_runs |-> 20, lease_runs |-> 4,
            prestudy_runs |-> 160, generalization_runs |-> 24 ]
    BY DEF Required
  <1> QED
    BY <1>3, <1>4, <1>5, <1>6, <1>7, <1>8, <1>9, <1>10, <1>11, <1>12, <1>13

\* So a family is reported complete exactly if none of its ids is missing.
LEMMA InventoryTells ==
    ASSUME NEW missing \in SUBSET DefaultPlan
    PROVE  InventoryTellsWhatIsMissing(missing)
  <1> DEFINE There(f) == { id \in DefaultPlan \ missing : id[1] \in Families[f] }
  <1>1. ASSUME NEW f \in DOMAIN Required
        PROVE  Cardinality(There(f)) >= Required[f] <=> \A id \in missing : id[1] \notin Families[f]
    <2> DEFINE S == PlannedOf(f)
               T == There(f)
    <2>1. Counts(S, Required[f])
      BY FamiliesCount
    <2>2. T \subseteq S
      BY DEF PlannedOf
    <2>3. T = S <=> \A id \in missing : id[1] \notin Families[f]
      BY DEF PlannedOf
    <2> HIDE DEF S, T
    <2>4. /\ Cardinality(S) \in Nat /\ Cardinality(T) \in Nat
          /\ Cardinality(T) <= Cardinality(S)
          /\ Cardinality(T) = Cardinality(S) => T = S
      BY <2>1, <2>2, FS_Subset, FS_CardinalityType DEF Counts
    <2>5. Cardinality(T) >= Required[f] <=> T = S
      BY <2>1, <2>4 DEF Counts
    <2> QED
      BY <2>3, <2>5 DEF T
  <1>2. CompleteFamilies(DefaultPlan \ missing) = { f \in DOMAIN Required : Cardinality(There(f)) >= Required[f] }
    BY DEF CompleteFamilies
  <1> HIDE DEF There
  <1> QED
    BY <1>1, <1>2 DEF InventoryTellsWhatIsMissing

-----------------------------------------------------------------------------
(* The questions.                                                          *)

\* What has been asked is one of the questions.
QuestionInv ==
    /\ question.kind = "samples" => IsSample(question.a) /\ IsSample(question.b)
    /\ question.kind = "family" => IsFamily(question.p, One)
    /\ question.kind = "run" => question.row \in Matrix /\ question.data \in SUBSET Matrix
    /\ question.kind = "comparison" =>
          /\ question.comp \in ComparisonRegistry /\ question.data \in SUBSET Matrix
          /\ IsFiniteSet(Lost(question.data)) /\ Cardinality(Lost(question.data)) <= 1
    /\ question.kind = "rates" => IsRun(question.run)
    /\ question.kind = "inventory" => question.missing \in SUBSET DefaultPlan

\* Every question is well put.
THEOREM QuestionsAreWellPut == Phase7Spec => []QuestionInv
  <1>1. Phase7Init => QuestionInv
    BY DEF Phase7Init, QuestionInv
  <1>2. QuestionInv /\ [Phase7Next]_<<allVars, question>> => QuestionInv'
    <2> SUFFICES ASSUME QuestionInv, [Phase7Next]_<<allVars, question>>
                 PROVE  QuestionInv'
      OBVIOUS
    <2>1. CASE UNCHANGED question
      BY <2>1 DEF QuestionInv
    <2>2. ASSUME NEW a \in Samples, NEW b \in Samples, AskSamples(a, b)
          PROVE  QuestionInv'
      <3>1. IsSample(a) /\ IsSample(b)
        <4>1. ASSUME NEW c \in Samples
              PROVE  c \in Seq(Int)
          <5>1. PICK n \in 1..MaxSample : c \in [1..n -> Values]
            BY DEF Samples
          <5>2. n \in Nat
            BY QuestionsAssumption
          <5>3. \A i \in 1..n : c[i] \in Int
            BY <5>1, QuestionsAssumption
          <5>4. c \in [1..n -> Int]
            BY <5>1, <5>3
          <5> QED
            BY <5>2, <5>4
        <4> QED
          BY <4>1 DEF IsSample
      <3> QED
        BY <2>2, <3>1 DEF AskSamples, QuestionInv
    <2>3. ASSUME NEW tested \in SUBSET Family, NEW p \in [tested -> 0..One], AskFamily(p)
          PROVE  QuestionInv'
      <3>1. IsFamily(p, One)
        <4>1. IsFiniteSet(tested)
          BY QuestionsAssumption, FS_Subset
        <4> QED
          BY <4>1, QuestionsAssumption DEF IsFamily
      <3> QED
        BY <2>3, <3>1 DEF AskFamily, QuestionInv
    <2>4. ASSUME NEW missing \in SUBSET DefaultPlan, AskInventory(missing)
          PROVE  QuestionInv'
      BY <2>4 DEF AskInventory, QuestionInv
    <2>5. ASSUME NEW r \in Matrix, NEW lost, AskRun(r, lost)
          PROVE  QuestionInv'
      BY <2>5 DEF AskRun, QuestionInv
    <2>6. ASSUME NEW comp \in ComparisonRegistry,
                 NEW lost \in {{}} \cup { {r} : r \in InGroup(Matrix, comp.fixed.group) },
                 AskComparison(comp, lost)
          PROVE  QuestionInv'
      <3>1. lost = {} \/ \E r : lost = {r}
        OBVIOUS
      <3>2. IsFiniteSet(lost) /\ Cardinality(lost) \in {0, 1}
        <4>1. CASE lost = {}
          BY <4>1, FS_EmptySet
        <4>2. CASE \E r : lost = {r}
          BY <4>2, FS_Singleton
        <4> QED
          BY <3>1, <4>1, <4>2
      <3>3. Lost(Matrix \ lost) = lost
        BY DEF Lost, InGroup
      <3>4. /\ question'.kind = "comparison" /\ question'.comp = comp /\ question'.data = Matrix \ lost
        BY <2>6 DEF AskComparison
      <3> QED
        BY <3>2, <3>3, <3>4 DEF QuestionInv
    <2>7. ASSUME NEW measured \in (SUBSET Operations) \ {{}}, NEW n \in 0..MaxEvents,
                 NEW events \in [1..n -> Events], NEW effects,
                 AskRates([measured |-> measured, events |-> events, effects |-> effects])
          PROVE  QuestionInv'
      <3> DEFINE run == [measured |-> measured, events |-> events, effects |-> effects]
      <3>1. IsFiniteSet(measured) /\ measured # {}
        BY QuestionsAssumption, FS_Subset
      <3>2. IsFiniteSet(1..n)
        BY FS_Interval
      <3>3. DOMAIN events = 1..n
        OBVIOUS
      <3>4. run.measured = measured /\ run.events = events
        OBVIOUS
      <3> HIDE DEF run
      <3>5. IsRun(run)
        <4>1. \A e \in Events : e.replayed \in BOOLEAN
          <5>1. \A type, final, reconciled : \A replayed \in BOOLEAN :
                  \A e \in Event(type, final, replayed, reconciled) : e.replayed = replayed
            BY DEF Event
          <5>2. TRUE \in BOOLEAN /\ FALSE \in BOOLEAN
            OBVIOUS
          <5> QED
            BY <5>1, <5>2 DEF Events
        <4>2. \A k \in 1..n : events[k].replayed \in BOOLEAN
          BY <4>1
        <4> QED
          BY <3>1, <3>2, <3>3, <3>4, <4>2 DEF IsRun
      <3>6. question'.kind = "rates" /\ question'.run = run
        BY <2>7 DEF AskRates, run
      <3> QED
        BY <3>5, <3>6 DEF QuestionInv
    <2>9. CASE Ask
      <3>1. CASE \E r \in Matrix : \E lost \in {{}} \cup { {q} : q \in SameCondition(r) } : AskRun(r, lost)
        BY <2>5, <3>1
      <3>2. CASE \E comp \in ComparisonRegistry :
                   \E lost \in {{}} \cup { {r} : r \in InGroup(Matrix, comp.fixed.group) } :
                     AskComparison(comp, lost)
        BY <2>6, <3>2
      <3>3. CASE \E a, b \in Samples : AskSamples(a, b)
        BY <2>2, <3>3
      <3>4. CASE \E tested \in SUBSET Family : \E p \in [tested -> 0..One] : AskFamily(p)
        BY <2>3, <3>4
      <3>5. CASE \E missing \in {{}} \cup { {id} : id \in DefaultPlan } : AskInventory(missing)
        <4>1. {{}} \cup { {id} : id \in DefaultPlan } \subseteq SUBSET DefaultPlan
          OBVIOUS
        <4> QED
          BY <2>4, <3>5, <4>1
      <3>6. CASE \E measured \in (SUBSET Operations) \ {{}}, n \in 0..MaxEvents :
                   \E events \in [1..n -> Events], effects \in [Operations -> 0..2] :
                      AskRates([measured |-> measured, events |-> events, effects |-> effects])
        BY <2>7, <3>6
      <3> QED
        BY <2>9, <3>1, <3>2, <3>3, <3>4, <3>5, <3>6 DEF Ask
    <2> QED
      BY <2>1, <2>9 DEF Phase7Next, Processes, Questions, Answered
  <1> QED
    BY <1>1, <1>2, PTL DEF Phase7Spec

\* What the comparisons report means what it says, for samples and families of
\* any size: mann_whitney_p sees the evidence cliffs_delta sees, ties included, and
\* holm_adjust rejects at any level what the step-down procedure rejects.
THEOREM TestsMeanWhatTheySay == Phase7Spec => []TestsAreSound
  <1>1. QuestionInv => TestsAreSound
    BY TestIsDelta, HolmIsStepDown DEF QuestionInv, TestsAreSound
  <1> QED
    BY <1>1, QuestionsAreWellPut, PTL

\* The ids of generate_phase6_matrix tell its rows apart, its checks of the manifest
\* hold and every row is in one stage of the runner, whatever the seeds.
THEOREM MatrixIsSound == Phase7Spec => []EveryRunIsPlannedOnce
  <1>1. QuestionInv => EveryRunIsPlannedOnce
    BY RowsArePlannedOnce DEF QuestionInv, EveryRunIsPlannedOnce
  <1> QED
    BY <1>1, QuestionsAreWellPut, PTL

\* The cells of the tables analyze writes hold one condition each, whatever the seeds
\* and whichever runs are lost.
THEOREM TablesAreOfConditions == Phase7Spec => []CellsAreConditions
  <1>1. QuestionInv => CellsAreConditions
    BY TablesTell DEF QuestionInv, CellsAreConditions
  <1> QED
    BY <1>1, QuestionsAreWellPut, PTL

\* The comparisons of comparison_registry have two conditions of one setting for
\* sides, with a run of each seed, whatever the seeds and also when a run is lost.
THEOREM RegistryComparesLikeWithLike == Phase7Spec => []ComparisonsAreBalanced
  <1>1. QuestionInv => ComparisonsAreBalanced
    BY RegistryIsBalanced DEF QuestionInv, ComparisonsAreBalanced
  <1> QED
    BY <1>1, QuestionsAreWellPut, PTL

\* Phase 6 and phase 7, reading the run's files, recompute each rate as the runner
\* reports it; the audit of phase 5 does, too, but of RRR where an operation is
\* replayed twice; and RRR is at most 1 where each operation has an attempt that is
\* no replay.  For any operations and any number of events.
THEOREM RatesAreRecomputed == Phase7Spec => []RatesAgree
  <1>1. QuestionInv => RatesAgree
    BY RunsAgree, ReplaysAreBounded DEF QuestionInv, RatesAgree
  <1> QED
    BY <1>1, QuestionsAreWellPut, PTL

\* The inventory of phase 5 says COMPLETE of the families that lack none of the
\* directories the sweeps make, and of no others.
THEOREM InventoryIsTrue == Phase7Spec => []InventoryMatchesPlans
  <1>1. QuestionInv => InventoryMatchesPlans
    BY InventoryTells DEF QuestionInv, InventoryMatchesPlans
  <1> QED
    BY <1>1, QuestionsAreWellPut, PTL

=============================================================================
