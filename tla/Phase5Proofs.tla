---------------------------- MODULE Phase5Proofs ----------------------------
(***************************************************************************)
(* Theorems about Phase5Harness, for every set of conditions, every choice *)
(* of seed lists and filters, any number of invocations and of stops,      *)
(* within the write of a table too.                                        *)
(***************************************************************************)
EXTENDS Phase5Harness, FiniteSetTheorems, TLAPS

Run == Experiment \X Nat

Typed ==
    /\ sweep \in Sweeps \cup {"none"}
    /\ plan \in Seq(Experiment)
    /\ rows \in Seq(Run)
    /\ database \subseteq Run
    /\ directories \in [Experiment -> Seq(Directory)]
    /\ tables \in [Sweeps -> SUBSET Run]
    /\ torn \in Nat
    /\ abandoned \subseteq Run
    /\ trailing \subseteq Run
    /\ at \in {"off", "reset", "make", "run", "row", "write"}

\* Where run_one is agrees with what the process holds.
AtWork ==
    /\ at = "off" <=> sweep = "none"
    /\ at = "off" => rows = <<>> /\ plan = <<>>
    /\ at = "write" => plan = <<>>
    /\ at \in {"reset", "make", "run", "row"} => plan # <<>>
    /\ at \in {"run", "row"} => Running[2] > 0

\* From the reset of the database until the tables are read, it has rows of the
\* run under way and of runs that left requests on their way.
DatabaseIsClean ==
    /\ at = "make" => database \subseteq trailing
    /\ at = "run" => Running \in database /\ database \subseteq trailing \cup {Running}

\* What the sweep under way has run so far.
Ended == ToSet(rows) \cup (IF at = "row" THEN {Running} ELSE {})

\* The rows are of finished runs of the sweep, and so will be the rest.
RowsAreRuns ==
    /\ \A i \in DOMAIN plan : plan[i].sweep = sweep
    /\ \A i \in DOMAIN rows : rows[i][1].sweep = sweep /\ rows[i][2] \in Finished(rows[i][1])
    /\ at = "row" => Running[2] \in Finished(Running[1])

\* A later run of an experiment has a later row.
RowsAreInOrder ==
    \A i \in DOMAIN rows : \A n \in Finished(rows[i][1]) :
        n > rows[i][2] =>
            \/ \E j \in DOMAIN rows : j > i /\ rows[j] = <<rows[i][1], n>>
            \/ at = "row" /\ Running = <<rows[i][1], n>>

\* A row of a table is of a finished run; later runs of its experiment are of the
\* sweep under way, or of one that was stopped.
TablesAreCurrent ==
    \A s \in Sweeps : \A r \in tables[s] :
        /\ r[1].sweep = s
        /\ r[2] \in Finished(r[1])
        /\ \A n \in Finished(r[1]) : n > r[2] => <<r[1], n>> \in abandoned \cup Ended

\* The compounds run each experiment once: their seed is one.
CompoundsRunOnce ==
    sweep = "compounds" =>
        /\ \A i, j \in DOMAIN plan : plan[i] = plan[j] => i = j
        /\ \A i, j \in DOMAIN rows : rows[i][1] = rows[j][1] => i = j
        /\ \A i \in DOMAIN rows, j \in DOMAIN plan : rows[i][1] # plan[j]

\* A condition that has rows has a last one, and an experiment that has finished
\* runs a latest.
LastsExist ==
    /\ \A i \in DOMAIN rows : \E j \in DOMAIN rows :
          /\ Condition(rows[j]) = Condition(rows[i])
          /\ \A k \in DOMAIN rows : k > j => Condition(rows[k]) # Condition(rows[j])
    /\ \A e \in Experiment : Finished(e) # {} =>
          \E n \in Finished(e) : \A k \in Finished(e) : k <= n

\* What the audit took is what there is, as long as its result counts.
AuditIsCurrent == audited # {} => sweep = "none" /\ audited = {LatestRunDirs}

\* The inductive invariant.
IInv ==
    /\ Typed /\ AtWork /\ DatabaseIsClean /\ RunsAreSeparate
    /\ RowsAreRuns /\ RowsAreInOrder /\ TablesAreCurrent /\ CompoundsRunOnce
    /\ LastsExist /\ AuditIsCurrent

-----------------------------------------------------------------------------
\* Each element of a set has one place in the sequence made of it.
LEMMA SetToSeqIsInjective ==
    ASSUME NEW S \in SUBSET Conditions
    PROVE  SetToSeq(S) \in Seq(S) /\ IsInjective(SetToSeq(S))
<1>1. IsFiniteSet(S)
  BY ConditionsAssumption, FS_Subset
<1>2. Cardinality(S) \in Nat /\ ExistsBijection(1..Cardinality(S), S)
  BY <1>1, FS_CardinalityType
<1>3. \E f \in [1..Cardinality(S) -> S] : IsInjective(f)
  BY <1>2 DEF ExistsBijection, Bijection, Injection
<1>4. SetToSeq(S) \in [1..Cardinality(S) -> S] /\ IsInjective(SetToSeq(S))
  BY <1>3 DEF SetToSeq
<1> QED
  BY <1>2, <1>4

LEMMA DivisionInBounds ==
    ASSUME NEW a \in Nat, NEW n \in Nat, NEW i \in 1..(a * n)
    PROVE  /\ ((i - 1) % n) + 1 \in 1..n
           /\ ((i - 1) \div n) + 1 \in 1..a
<1>1. n > 0 /\ a > 0
  <2>1. CASE n = 0
    BY <2>1
  <2>2. CASE a = 0
    BY <2>2
  <2> QED
    BY <2>1, <2>2
<1> DEFINE q == (i - 1) \div n
           r == (i - 1) % n
<1>2. q \in Int /\ r \in 0..(n - 1) /\ i - 1 = n * q + r
  BY <1>1
<1>3. q >= 0
  BY <1>1, <1>2
<1>4. q < a
  <2>1. SUFFICES ASSUME q >= a PROVE FALSE
    BY <1>2
  <2>2. n * q >= n * a
    BY <1>1, <1>2, <2>1
  <2>3. n * a = a * n
    OBVIOUS
  <2> QED
    BY <1>2, <2>2, <2>3
<1> QED
  BY <1>2, <1>3, <1>4

\* A plan is a sequence of experiments of its sweep.
LEMMA PlannedType ==
    ASSUME NEW s \in Sweeps, NEW seeds \in Seq(Seeds), NEW filter \in SUBSET Conditions
    PROVE  /\ Planned(s, seeds, filter) \in Seq(Experiment)
           /\ \A i \in DOMAIN Planned(s, seeds, filter) : Planned(s, seeds, filter)[i].sweep = s
<1> DEFINE inOrder == SetToSeq(filter)
           n == Len(inOrder)
           a == Len(seeds)
<1>1. inOrder \in Seq(Conditions) /\ n \in Nat /\ a \in Nat
  BY SetToSeqIsInjective
<1>2. \A i \in 1..(a * n) : /\ inOrder[((i - 1) % n) + 1] \in Conditions
                            /\ seeds[((i - 1) \div n) + 1] \in Seeds
  BY <1>1, DivisionInBounds
<1>3. a * n \in Nat
  BY <1>1
<1> QED
  BY <1>2, <1>3 DEF Planned, Experiment

LEMMA CompoundsPlanOnce ==
    ASSUME NEW filter \in SUBSET Conditions
    PROVE  \A i, j \in DOMAIN Planned("compounds", <<CompoundSeed>>, filter) :
              Planned("compounds", <<CompoundSeed>>, filter)[i]
                = Planned("compounds", <<CompoundSeed>>, filter)[j] => i = j
<1> DEFINE inOrder == SetToSeq(filter)
           n == Len(inOrder)
           p == Planned("compounds", <<CompoundSeed>>, filter)
<1>1. inOrder \in Seq(Conditions) /\ IsInjective(inOrder) /\ n \in Nat
  BY SetToSeqIsInjective
<1>2. Len(<<CompoundSeed>>) * n = n
  BY <1>1
<1>3. DOMAIN p = 1..n /\ \A i \in 1..n : p[i].condition = inOrder[((i - 1) % n) + 1]
  BY <1>2 DEF Planned
<1>4. \A i \in 1..n : ((i - 1) % n) + 1 = i
  BY <1>1
<1>5. \A i, j \in 1..n : inOrder[i] = inOrder[j] => i = j
  BY <1>1 DEF IsInjective
<1> SUFFICES ASSUME NEW i \in DOMAIN p, NEW j \in DOMAIN p, p[i] = p[j]
             PROVE  i = j
  OBVIOUS
<1>6. i \in 1..n /\ j \in 1..n /\ p[i].condition = p[j].condition
  BY <1>3
<1>7. inOrder[i] = inOrder[j]
  BY <1>3, <1>4, <1>6
<1> QED
  BY <1>5, <1>6, <1>7

-----------------------------------------------------------------------------
LEMMA InitHolds == Init => IInv
<1> SUFFICES ASSUME Init PROVE IInv
  OBVIOUS
<1>1. \A e \in Experiment : Finished(e) = {}
  BY DEF Init, Finished
<1>2. Typed
  BY DEF Init, Typed, Sweeps, Run
<1> QED
  BY <1>1, <1>2 DEF Init, IInv, AtWork, DatabaseIsClean, RunsAreSeparate, RowsAreRuns,
     RowsAreInOrder, TablesAreCurrent, CompoundsRunOnce, LastsExist, AuditIsCurrent, Sweeps

\* Which runs are finished depends on the directories alone.
LEMMA FinishedFrame ==
    ASSUME UNCHANGED directories
    PROVE  /\ \A e : Finished(e)' = Finished(e)
           /\ LatestRunDirs' = LatestRunDirs
  BY DEF Finished, LatestRunDirs, Latest

LEMMA EnterKeeps ==
    ASSUME IInv, NEW s \in Sweeps, NEW p \in Seq(Experiment), Enter(s, p),
           \A i \in DOMAIN p : p[i].sweep = s,
           s = "compounds" => \A i, j \in DOMAIN p : p[i] = p[j] => i = j
    PROVE  IInv'
<1> USE DEF Enter, files
<1>1. Typed'
  BY DEF IInv, Typed, Next1
<1>2. AtWork'
  BY DEF AtWork, Next1, Sweeps
<1>3. DatabaseIsClean'
  BY DEF DatabaseIsClean, Next1
<1>4. RunsAreSeparate'
  BY FinishedFrame DEF IInv, RunsAreSeparate
<1>5. RowsAreRuns'
  BY DEF RowsAreRuns, Next1
<1>6. RowsAreInOrder'
  BY DEF RowsAreInOrder
<1>7. TablesAreCurrent'
  <2>1. Ended = {} /\ Ended' = {}
    BY DEF IInv, AtWork, Ended, ToSet, Next1
  <2> QED
    BY <2>1, FinishedFrame DEF IInv, TablesAreCurrent
<1>8. CompoundsRunOnce'
  BY DEF CompoundsRunOnce
<1>9. LastsExist'
  BY FinishedFrame DEF IInv, LastsExist
<1>10. AuditIsCurrent'
  BY DEF AuditIsCurrent
<1> QED
  BY <1>1, <1>2, <1>3, <1>4, <1>5, <1>6, <1>7, <1>8, <1>9, <1>10 DEF IInv

LEMMA StressKeeps ==
    ASSUME IInv, NEW seeds \in SeedLists, NEW filter \in SUBSET Conditions, Stress(seeds, filter)
    PROVE  IInv'
  BY EnterKeeps, PlannedType, SeedListsAssumption DEF Stress, Sweeps

LEMMA CompoundsKeep ==
    ASSUME IInv, NEW filter \in SUBSET Conditions, Compounds(filter)
    PROVE  IInv'
<1>1. <<CompoundSeed>> \in Seq(Seeds)
  BY DEF Seeds
<1> DEFINE p == Planned("compounds", <<CompoundSeed>>, filter)
<1>2. p \in Seq(Experiment) /\ \A i \in DOMAIN p : p[i].sweep = "compounds"
  BY <1>1, PlannedType DEF Sweeps
<1>3. \A i, j \in DOMAIN p : p[i] = p[j] => i = j
  BY CompoundsPlanOnce
<1>4. Enter("compounds", p)
  BY DEF Compounds
<1> HIDE DEF p
<1> QED
  BY <1>2, <1>3, <1>4, EnterKeeps DEF Sweeps

LEMMA ResetDbKeeps ==
    ASSUME IInv, ResetDb
    PROVE  IInv'
<1> USE DEF ResetDb, files, counters
<1>1. Typed' /\ AtWork' /\ DatabaseIsClean'
  BY DEF IInv, Typed, AtWork, DatabaseIsClean
<1>2. RunsAreSeparate' /\ LastsExist' /\ AuditIsCurrent'
  BY FinishedFrame DEF IInv, RunsAreSeparate, LastsExist, AuditIsCurrent
<1>3. RowsAreRuns' /\ RowsAreInOrder'
  BY FinishedFrame DEF IInv, RowsAreRuns, RowsAreInOrder
<1>4. Ended' = Ended
  BY DEF Ended
<1>5. TablesAreCurrent' /\ CompoundsRunOnce'
  BY <1>4, FinishedFrame DEF IInv, TablesAreCurrent, CompoundsRunOnce
<1> QED
  BY <1>1, <1>2, <1>3, <1>5 DEF IInv

LEMMA LateWriteKeeps ==
    ASSUME IInv, LateWrite
    PROVE  IInv'
<1> USE DEF LateWrite, files, counters
<1>1. Typed' /\ AtWork'
  BY DEF IInv, Typed, AtWork, Running
<1>2. DatabaseIsClean'
  BY DEF IInv, DatabaseIsClean, Running
<1>3. RunsAreSeparate' /\ LastsExist' /\ AuditIsCurrent'
  BY FinishedFrame DEF IInv, RunsAreSeparate, LastsExist, AuditIsCurrent
<1>4. RowsAreRuns' /\ RowsAreInOrder'
  BY FinishedFrame DEF IInv, RowsAreRuns, RowsAreInOrder, Running
<1>5. Ended' = Ended
  BY DEF Ended, Running
<1>6. TablesAreCurrent' /\ CompoundsRunOnce'
  BY <1>5, FinishedFrame DEF IInv, TablesAreCurrent, CompoundsRunOnce
<1> QED
  BY <1>1, <1>2, <1>3, <1>4, <1>6 DEF IInv

LEMMA AuditStateKeeps ==
    ASSUME IInv, AuditState
    PROVE  IInv'
<1> USE DEF AuditState, files
<1>1. Typed' /\ AtWork' /\ DatabaseIsClean'
  BY DEF IInv, Typed, AtWork, DatabaseIsClean, Running
<1>2. RunsAreSeparate' /\ LastsExist' /\ AuditIsCurrent'
  BY FinishedFrame DEF IInv, RunsAreSeparate, LastsExist, AuditIsCurrent
<1>3. RowsAreRuns' /\ RowsAreInOrder'
  BY FinishedFrame DEF IInv, RowsAreRuns, RowsAreInOrder, Running
<1>4. Ended' = Ended
  BY DEF Ended, Running
<1>5. TablesAreCurrent' /\ CompoundsRunOnce'
  BY <1>4, FinishedFrame DEF IInv, TablesAreCurrent, CompoundsRunOnce
<1> QED
  BY <1>1, <1>2, <1>3, <1>5 DEF IInv

\* A new directory is not finished.
LEMMA MakeRunDirFinishes ==
    ASSUME IInv, MakeRunDir
    PROVE  /\ Head(plan) \in Experiment
           /\ directories' \in [Experiment -> Seq(Directory)]
           /\ Len(directories[Head(plan)]) \in Nat
           /\ Len(directories'[Head(plan)]) = Len(directories[Head(plan)]) + 1
           /\ \A e \in Experiment : Finished(e)' = Finished(e)
           /\ \A e \in Experiment : \A n \in Finished(e) : directories'[e][n] = directories[e][n]
<1> DEFINE e == Head(plan)
           d == [finished |-> FALSE, log |-> {}]
<1>1. e \in Experiment /\ directories \in [Experiment -> Seq(Directory)]
  BY DEF MakeRunDir, IInv, Typed, AtWork
<1>2. d \in Directory
  BY DEF Directory
<1>3. directories' = [directories EXCEPT ![e] = Append(directories[e], d)]
  BY DEF MakeRunDir
<1>4. directories[e] \in Seq(Directory) /\ Append(directories[e], d) \in Seq(Directory)
  BY <1>1, <1>2
<1>5. directories'[e] = Append(directories[e], d)
  BY <1>1, <1>3
<1>6. Finished(e)' = Finished(e)
  <2>1. e' = e
    BY DEF MakeRunDir
  <2>2. DOMAIN directories'[e] = DOMAIN directories[e] \cup {Len(directories[e]) + 1}
    BY <1>4, <1>5
  <2>3. ~ directories'[e][Len(directories[e]) + 1].finished
    BY <1>4, <1>5
  <2>4. \A n \in DOMAIN directories[e] : directories'[e][n] = directories[e][n]
    BY <1>4, <1>5
  <2> QED
    BY <2>1, <2>2, <2>3, <2>4 DEF Finished
<1>7. \A n \in Finished(e) : directories'[e][n] = directories[e][n]
  BY <1>4, <1>5 DEF Finished
<1>8. \A x \in Experiment : x # e => directories'[x] = directories[x]
  BY <1>1, <1>3
<1>9. \A x \in Experiment : Finished(x)' = Finished(x)
  <2>1. \A x \in Experiment : x # e => Finished(x)' = Finished(x)
    BY <1>8 DEF Finished
  <2>2. e' = e
    BY DEF MakeRunDir
  <2>3. \A x : x = e => Finished(x)' = Finished(x)
    BY <1>6, <2>2 DEF Finished
  <2> QED
    BY <2>1, <2>3
<1>10. \A x \in Experiment : \A n \in Finished(x) : directories'[x][n] = directories[x][n]
  BY <1>7, <1>8
<1>11. directories' \in [Experiment -> Seq(Directory)]
  BY <1>1, <1>3, <1>4
<1>12. Len(directories[e]) \in Nat /\ Len(directories'[e]) = Len(directories[e]) + 1
  BY <1>4, <1>5
<1> QED
  BY <1>1, <1>9, <1>10, <1>11, <1>12

LEMMA MakeRunDirKeeps ==
    ASSUME IInv, MakeRunDir
    PROVE  IInv'
<1> USE DEF MakeRunDir, counters
<1> DEFINE e == Head(plan)
           k == Len(directories[e])
<1>1. e \in Experiment /\ k \in Nat /\ Running = <<e, k>> /\ Running' = <<e, k + 1>>
  BY MakeRunDirFinishes DEF Running
<1>2. database' = database \cup {<<e, k + 1>>}
  OBVIOUS
<1>3. Typed'
  BY <1>1, <1>2, MakeRunDirFinishes DEF IInv, Typed, Run
<1>4. AtWork'
  BY <1>1 DEF IInv, AtWork
<1>5. DatabaseIsClean'
  BY <1>1, <1>2 DEF IInv, DatabaseIsClean
<1>6. RunsAreSeparate'
  BY MakeRunDirFinishes DEF IInv, RunsAreSeparate
<1>7. \A i \in DOMAIN rows : rows[i] \in Run /\ rows[i][1] \in Experiment
  BY DEF IInv, Typed, Run
<1>8. RowsAreRuns' /\ RowsAreInOrder'
  BY <1>7, MakeRunDirFinishes DEF IInv, RowsAreRuns, RowsAreInOrder
<1>9. TablesAreCurrent'
  <2>1. Ended' = Ended
    BY DEF Ended
  <2>2. \A s \in Sweeps : \A r \in tables[s] : r[1] \in Experiment
    BY DEF IInv, Typed, Run
  <2> QED
    BY <2>1, <2>2, MakeRunDirFinishes DEF IInv, TablesAreCurrent
<1>10. CompoundsRunOnce' /\ AuditIsCurrent'
  BY DEF IInv, CompoundsRunOnce, AuditIsCurrent, AtWork
<1>11. LastsExist'
  BY <1>7, MakeRunDirFinishes DEF IInv, LastsExist, Condition
<1> QED
  BY <1>3, <1>4, <1>5, <1>6, <1>8, <1>9, <1>10, <1>11 DEF IInv

\* What FinishRun writes.
LEMMA FinishRunFinishes ==
    ASSUME IInv, FinishRun
    PROVE  /\ Running \in Run /\ Running' = Running
           /\ directories' \in [Experiment -> Seq(Directory)]
           /\ Finished(Running[1])' = Finished(Running[1]) \cup {Running[2]}
           /\ \A e \in Experiment : e # Running[1] => Finished(e)' = Finished(e)
           /\ \A e \in Experiment : \A n \in Finished(e) :
                 <<e, n>> # Running => directories'[e][n] = directories[e][n]
           /\ directories'[Running[1]][Running[2]].log = { r \in database : r[1] = Running[1] }
           /\ \A n \in Finished(Running[1])' : n <= Running[2]
<1> DEFINE e == Head(plan)
           k == Len(directories[e])
           d == [finished |-> TRUE, log |-> { r \in database : r[1] = e }]
<1>1. e \in Experiment /\ directories \in [Experiment -> Seq(Directory)]
  BY DEF FinishRun, IInv, Typed, AtWork
<1>2. d \in Directory
  BY DEF Directory, IInv, Typed, Run
<1>3. Running = <<e, k>> /\ k \in Nat /\ k > 0
  BY <1>1 DEF Running, IInv, AtWork, FinishRun
<1>4. directories' = [directories EXCEPT ![e] = [directories[e] EXCEPT ![k] = d]]
  BY <1>3 DEF FinishRun
<1>5. directories[e] \in Seq(Directory) /\ k \in DOMAIN directories[e]
  BY <1>1, <1>3
<1>6. directories'[e] = [directories[e] EXCEPT ![k] = d]
  BY <1>1, <1>4
<1>7. directories'[e] \in Seq(Directory) /\ Len(directories'[e]) = k
  BY <1>2, <1>5, <1>6
<1>15. plan' = plan /\ e' = e
  BY DEF FinishRun
<1>8. Finished(e)' = Finished(e) \cup {k}
  <2>1. DOMAIN directories'[e] = DOMAIN directories[e]
    BY <1>5, <1>6
  <2>2. directories'[e][k].finished
    BY <1>5, <1>6
  <2>3. \A n \in DOMAIN directories[e] : n # k => directories'[e][n] = directories[e][n]
    BY <1>5, <1>6
  <2> QED
    BY <1>5, <1>15, <2>1, <2>2, <2>3 DEF Finished
<1>9. \A n \in Finished(e) : n # k => directories'[e][n] = directories[e][n]
  BY <1>5, <1>6 DEF Finished
<1>10. \A x \in Experiment : x # e => directories'[x] = directories[x]
  BY <1>1, <1>4
<1>11. directories'[e][k].log = { r \in database : r[1] = e }
  BY <1>5, <1>6
<1>12. \A n \in Finished(e)' : n <= k
  BY <1>5, <1>8 DEF Finished
<1>13. \A x \in Experiment : x # e => Finished(x)' = Finished(x)
  BY <1>10 DEF Finished
<1>14. directories' \in [Experiment -> Seq(Directory)]
  BY <1>1, <1>4, <1>6, <1>7
<1>16. Running' = Running
  BY <1>3, <1>7, <1>15 DEF Running
<1>17. Running \in Run /\ Running[1] = e /\ Running[2] = k
  BY <1>1, <1>3 DEF Run
<1>18. \A x \in Experiment : \A n \in Finished(x) :
          <<x, n>> # Running => directories'[x][n] = directories[x][n]
  BY <1>3, <1>9, <1>10
<1>19. /\ Finished(Running[1])' = Finished(Running[1]) \cup {Running[2]}
       /\ \A n \in Finished(Running[1])' : n <= Running[2]
  BY <1>8, <1>12, <1>15, <1>16, <1>17
<1> QED
  BY <1>11, <1>13, <1>14, <1>16, <1>17, <1>18, <1>19

LEMMA FinishRunKeeps ==
    ASSUME IInv, FinishRun
    PROVE  IInv'
<1> USE DEF FinishRun, counters
<1> DEFINE e == Running[1]
           k == Running[2]
<1>1. e \in Experiment /\ k \in Nat /\ Running = <<e, k>>
  BY FinishRunFinishes DEF Run
<1>2. \A x \in Experiment : \A n \in Finished(x)' : n \in Finished(x) \/ <<x, n>> = Running
  BY <1>1, FinishRunFinishes
<1>3. \A x \in Experiment : \A n \in Finished(x) : n \in Finished(x)'
  BY <1>1, FinishRunFinishes
<1>4. Typed'
  BY FinishRunFinishes DEF IInv, Typed
<1>5. AtWork' /\ DatabaseIsClean'
  BY FinishRunFinishes DEF IInv, AtWork, DatabaseIsClean
<1>6. RunsAreSeparate'
  <2> SUFFICES ASSUME NEW x \in Experiment, NEW n \in Finished(x)'
               PROVE  /\ <<x, n>> \in directories'[x][n].log
                      /\ directories'[x][n].log \ {<<x, n>>} \subseteq trailing
    BY DEF RunsAreSeparate
  <2>1. CASE <<x, n>> = Running
    BY <2>1, <1>1, FinishRunFinishes DEF IInv, DatabaseIsClean
  <2>2. CASE <<x, n>> # Running
    BY <2>2, <1>2, FinishRunFinishes DEF IInv, RunsAreSeparate
  <2> QED
    BY <2>1, <2>2
<1>7. \A i \in DOMAIN rows : rows[i] \in Run /\ rows[i][1] \in Experiment
  BY DEF IInv, Typed, Run
<1>8. RowsAreRuns'
  BY <1>1, <1>3, <1>7, FinishRunFinishes DEF IInv, RowsAreRuns
<1>9. RowsAreInOrder'
  BY <1>2, <1>7, FinishRunFinishes DEF IInv, RowsAreInOrder
<1>10. TablesAreCurrent'
  <2>1. Ended = ToSet(rows) /\ Ended' = ToSet(rows) \cup {Running}
    BY FinishRunFinishes DEF Ended
  <2>2. \A s \in Sweeps : \A r \in tables[s] : r[1] \in Experiment
    BY DEF IInv, Typed, Run
  <2> QED
    BY <1>2, <1>3, <2>1, <2>2 DEF IInv, TablesAreCurrent
<1>11. CompoundsRunOnce' /\ AuditIsCurrent'
  BY DEF IInv, CompoundsRunOnce, AuditIsCurrent, AtWork
<1>12. LastsExist'
  <2>1. \A x \in Experiment : x # e => Finished(x)' = Finished(x)
    BY FinishRunFinishes
  <2>2. k \in Finished(e)' /\ \A n \in Finished(e)' : n <= k
    BY FinishRunFinishes
  <2>3. Running' = Running
    BY FinishRunFinishes
  <2>4. \A x \in Experiment : Finished(x)' # {} =>
           \E n \in Finished(x)' : \A j \in Finished(x)' : j <= n
    <3>1. \A x : x = e => k \in Finished(x)' /\ \A n \in Finished(x)' : n <= k
      BY <2>2, <2>3
    <3> QED
      BY <2>1, <3>1 DEF IInv, LastsExist
  <2> QED
    BY <2>4 DEF IInv, LastsExist, Condition
<1> QED
  BY <1>4, <1>5, <1>6, <1>8, <1>9, <1>10, <1>11, <1>12 DEF IInv

LEMMA AddRowKeeps ==
    ASSUME IInv, AddRow
    PROVE  IInv'
<1> USE DEF AddRow, files, counters
<1> DEFINE e == Running[1]
           k == Running[2]
           last == Len(rows) + 1
<1>1. /\ plan # <<>> /\ plan \in Seq(Experiment) /\ rows \in Seq(Run)
      /\ Running \in Run /\ Running = <<e, k>> /\ e = Head(plan)
  BY DEF IInv, Typed, AtWork, Running, Run
<1>2. /\ Tail(plan) \in Seq(Experiment)
      /\ \A i \in DOMAIN Tail(plan) : i + 1 \in DOMAIN plan /\ Tail(plan)[i] = plan[i + 1]
  BY <1>1
<1>3. /\ rows' \in Seq(Run) /\ DOMAIN rows' = DOMAIN rows \cup {last}
      /\ last \in Nat /\ \A i \in DOMAIN rows : i < last /\ rows'[i] = rows[i]
      /\ rows'[last] = Running
  BY <1>1
<1>4. at' \in {"write", "reset"} /\ (at' = "write" <=> Tail(plan) = <<>>)
  BY DEF Next1
<1>5. Typed'
  BY <1>2, <1>3, <1>4 DEF IInv, Typed
<1>6. AtWork' /\ DatabaseIsClean'
  BY <1>4 DEF IInv, AtWork, DatabaseIsClean
<1>7. RunsAreSeparate'
  BY FinishedFrame DEF IInv, RunsAreSeparate
<1>8. e.sweep = sweep /\ k \in Finished(e) /\ \A n \in Finished(e) : n <= k
  <2>1. 1 \in DOMAIN plan /\ e = plan[1]
    BY <1>1
  <2>2. e \in Experiment /\ k = Len(directories[e]) /\ directories[e] \in Seq(Directory)
    BY <1>1 DEF Running, IInv, Typed, Run
  <2> QED
    BY <2>1, <2>2 DEF IInv, RowsAreRuns, Finished
<1>9. RowsAreRuns'
  <2>1. \A i \in DOMAIN plan' : plan'[i].sweep = sweep
    BY <1>2 DEF IInv, RowsAreRuns
  <2>2. \A i \in DOMAIN rows' : rows'[i][1].sweep = sweep /\ rows'[i][2] \in Finished(rows'[i][1])
    BY <1>3, <1>8 DEF IInv, RowsAreRuns
  <2> QED
    BY <2>1, <2>2, <1>4, FinishedFrame DEF RowsAreRuns
<1>10. RowsAreInOrder'
  <2> SUFFICES ASSUME NEW i \in DOMAIN rows', NEW n \in Finished(rows'[i][1]), n > rows'[i][2]
               PROVE  \E j \in DOMAIN rows' : j > i /\ rows'[j] = <<rows'[i][1], n>>
    BY DEF RowsAreInOrder, Finished
  <2>1. CASE i = last
    <3>1. n <= k /\ rows'[i][2] = k
      BY <2>1, <1>3, <1>8
    <3>2. n \in Nat /\ k \in Nat
      BY <1>1, <2>1, <1>3 DEF IInv, Typed, Finished, Run
    <3> QED
      BY <3>1, <3>2
  <2>2. CASE i # last
    <3>1. i \in DOMAIN rows /\ rows'[i] = rows[i]
      BY <2>2, <1>3
    <3>2. CASE \E j \in DOMAIN rows : j > i /\ rows[j] = <<rows[i][1], n>>
      BY <3>1, <3>2, <1>3
    <3>3. CASE Running = <<rows[i][1], n>>
      BY <3>1, <3>3, <1>3
    <3> QED
      BY <3>1, <3>2, <3>3 DEF IInv, RowsAreInOrder
  <2> QED
    BY <2>1, <2>2
<1>11. Ended' = Ended
  BY <1>3, <1>4 DEF Ended, ToSet
<1>12. TablesAreCurrent'
  BY <1>11, FinishedFrame DEF IInv, TablesAreCurrent
<1>13. CompoundsRunOnce'
  <2> SUFFICES ASSUME sweep = "compounds" PROVE CompoundsRunOnce'
    BY DEF CompoundsRunOnce
  <2>1. \A i, j \in DOMAIN plan' : plan'[i] = plan'[j] => i = j
    BY <1>2 DEF IInv, CompoundsRunOnce
  <2>2. 1 \in DOMAIN plan /\ e = plan[1]
    BY <1>1
  <2>3. \A i \in DOMAIN rows : rows[i][1] # e
    BY <2>2 DEF IInv, CompoundsRunOnce
  <2>4. \A i, j \in DOMAIN rows' : rows'[i][1] = rows'[j][1] => i = j
    BY <2>3, <1>3 DEF IInv, CompoundsRunOnce
  <2>5. \A j \in DOMAIN plan' : plan'[j] # e
    BY <2>2, <1>2 DEF IInv, CompoundsRunOnce
  <2>6. \A i \in DOMAIN rows', j \in DOMAIN plan' : rows'[i][1] # plan'[j]
    BY <2>5, <1>2, <1>3 DEF IInv, CompoundsRunOnce
  <2> QED
    BY <2>1, <2>4, <2>6 DEF CompoundsRunOnce
<1>14. LastsExist'
  <2>1. \A i \in DOMAIN rows' : \E j \in DOMAIN rows' :
           /\ Condition(rows'[j]) = Condition(rows'[i])
           /\ \A m \in DOMAIN rows' : m > j => Condition(rows'[m]) # Condition(rows'[j])
    <3> SUFFICES ASSUME NEW i \in DOMAIN rows'
                 PROVE  \E j \in DOMAIN rows' :
                           /\ Condition(rows'[j]) = Condition(rows'[i])
                           /\ \A m \in DOMAIN rows' :
                                 m > j => Condition(rows'[m]) # Condition(rows'[j])
      OBVIOUS
    <3>1. CASE Condition(rows'[i]) = Condition(Running)
      BY <3>1, <1>3
    <3>2. CASE Condition(rows'[i]) # Condition(Running)
      <4>1. i \in DOMAIN rows /\ rows'[i] = rows[i]
        BY <3>2, <1>3
      <4>2. PICK j \in DOMAIN rows :
               /\ Condition(rows[j]) = Condition(rows[i])
               /\ \A m \in DOMAIN rows : m > j => Condition(rows[m]) # Condition(rows[j])
        BY <4>1 DEF IInv, LastsExist
      <4> WITNESS j \in DOMAIN rows'
      <4> QED
        BY <4>1, <4>2, <3>2, <1>3
    <3> QED
      BY <3>1, <3>2
  <2>2. \A x \in Experiment : Finished(x)' # {} =>
           \E n \in Finished(x)' : \A m \in Finished(x)' : m <= n
    BY FinishedFrame DEF IInv, LastsExist
  <2> QED
    BY <2>1, <2>2 DEF LastsExist, Condition
<1>15. AuditIsCurrent'
  BY DEF IInv, AuditIsCurrent, AtWork
<1> QED
  BY <1>5, <1>6, <1>7, <1>9, <1>10, <1>12, <1>13, <1>14, <1>15 DEF IInv

\* The new table has, of each experiment of a row, the latest run.
LEMMA WrittenIsCurrent ==
    ASSUME IInv, at = "write", NEW r \in Written
    PROVE  /\ r \in Run /\ r[1].sweep = sweep
           /\ r[2] \in Finished(r[1])
           /\ \A n \in Finished(r[1]) : n > r[2] => <<r[1], n>> \in abandoned
<1>1. sweep \in Sweeps /\ Ended = ToSet(rows)
  BY DEF IInv, Typed, AtWork, Ended
<1>2. \A i \in DOMAIN rows : rows[i] \in Run
  BY DEF IInv, Typed
<1>3. \A i \in DOMAIN rows : \A n \in Finished(rows[i][1]) : n > rows[i][2] =>
         \E j \in DOMAIN rows : j > i /\ rows[j] = <<rows[i][1], n>>
  BY DEF IInv, RowsAreInOrder
<1>4. CASE sweep = "stress"
  <2>1. CASE r \in LastOfEach(rows)
    <3>1. PICK i \in DOMAIN rows : /\ r = rows[i]
                                   /\ \A m \in DOMAIN rows : m > i => Condition(rows[m]) # Condition(rows[i])
      BY <2>1 DEF LastOfEach
    <3>2. \A n : \A j \in DOMAIN rows : rows[j] = <<r[1], n>> => ~(j > i)
      BY <3>1 DEF Condition
    <3> QED
      BY <1>2, <1>3, <3>1, <3>2 DEF IInv, RowsAreRuns
  <2>2. CASE r \in tables[sweep] /\ \A i \in DOMAIN rows : Condition(rows[i]) # Condition(r)
    <3>1. r \in Run /\ r[1].sweep = sweep /\ r[2] \in Finished(r[1])
      BY <1>1, <2>2 DEF IInv, Typed, TablesAreCurrent
    <3>2. \A n \in Finished(r[1]) : n > r[2] => <<r[1], n>> \in abandoned \cup ToSet(rows)
      BY <1>1, <2>2 DEF IInv, TablesAreCurrent
    <3>3. \A n : <<r[1], n>> \notin ToSet(rows)
      BY <2>2 DEF ToSet, Condition
    <3> QED
      BY <3>1, <3>2, <3>3
  <2> QED
    BY <1>4, <2>1, <2>2 DEF Written, Merged
<1>5. CASE sweep # "stress"
  <2>1. sweep = "compounds"
    BY <1>1, <1>5 DEF Sweeps
  <2>2. PICK i \in DOMAIN rows : r = rows[i]
    BY <1>5 DEF Written, ToSet
  <2>3. \A n : \A j \in DOMAIN rows : rows[j] = <<r[1], n>> => j = i
    BY <2>1, <2>2 DEF IInv, CompoundsRunOnce
  <2>4. \A j \in DOMAIN rows : j \in Nat
    BY DEF IInv, Typed
  <2> QED
    BY <1>2, <1>3, <2>2, <2>3, <2>4 DEF IInv, RowsAreRuns
<1> QED
  BY <1>4, <1>5

\* A step that ends the invocation keeps the invariant: the runs that count are in
\* the tables, or counted as abandoned.
LEMMA LeaveKeeps ==
    ASSUME IInv, Leave, UNCHANGED <<database, directories>>,
           torn' \in Nat, abandoned \subseteq abandoned', abandoned' \subseteq Run,
           trailing \subseteq trailing', trailing' \subseteq Run, audited' = audited, audited = {},
           tables' \in [Sweeps -> SUBSET Run],
           \A s \in Sweeps : \A r \in tables'[s] :
              /\ r[1].sweep = s
              /\ r[2] \in Finished(r[1])
              /\ \A n \in Finished(r[1]) : n > r[2] => <<r[1], n>> \in abandoned'
    PROVE  IInv'
<1> USE DEF Leave
<1>1. Typed'
  <2>1. plan' \in Seq(Experiment) /\ rows' \in Seq(Run)
    OBVIOUS
  <2> QED
    BY <2>1 DEF IInv, Typed
<1>2. AtWork' /\ DatabaseIsClean'
  BY DEF AtWork, DatabaseIsClean
<1>3. RunsAreSeparate'
  <2>1. \A e \in Experiment : \A n \in Finished(e) :
           /\ <<e, n>> \in directories[e][n].log
           /\ directories[e][n].log \ {<<e, n>>} \subseteq trailing'
    BY DEF IInv, RunsAreSeparate
  <2>2. directories' = directories /\ \A e : Finished(e)' = Finished(e)
    BY FinishedFrame
  <2> QED
    BY <2>1, <2>2 DEF RunsAreSeparate
<1>4. RowsAreRuns' /\ RowsAreInOrder' /\ CompoundsRunOnce' /\ AuditIsCurrent'
  BY DEF RowsAreRuns, RowsAreInOrder, CompoundsRunOnce, AuditIsCurrent
<1>5. TablesAreCurrent'
  BY FinishedFrame DEF TablesAreCurrent
<1>6. LastsExist'
  BY FinishedFrame DEF IInv, LastsExist
<1> QED
  BY <1>1, <1>2, <1>3, <1>4, <1>5, <1>6 DEF IInv

\* Of the tables of other sweeps nothing has been run.
LEMMA OtherTables ==
    ASSUME IInv, NEW s \in Sweeps, s # sweep, NEW r \in tables[s]
    PROVE  /\ r[1].sweep = s
           /\ r[2] \in Finished(r[1])
           /\ \A n \in Finished(r[1]) : n > r[2] => <<r[1], n>> \in abandoned
<1>1. \A n : <<r[1], n>> \notin ToSet(rows)
  BY DEF IInv, RowsAreRuns, TablesAreCurrent, ToSet
<1>2. at = "row" => Running[1].sweep = sweep
  <2> SUFFICES ASSUME at = "row" PROVE Running[1].sweep = sweep
    OBVIOUS
  <2>1. plan # <<>> /\ plan \in Seq(Experiment)
    BY DEF IInv, AtWork, Typed
  <2>2. 1 \in DOMAIN plan /\ Running[1] = plan[1]
    BY <2>1 DEF Running
  <2> QED
    BY <2>2 DEF IInv, RowsAreRuns
<1>3. \A n : <<r[1], n>> \notin Ended
  BY <1>1, <1>2 DEF Ended, IInv, TablesAreCurrent
<1> QED
  BY <1>3 DEF IInv, TablesAreCurrent

LEMMA WrittenIsRuns ==
    ASSUME IInv, at = "write"
    PROVE  Written \subseteq Run
  BY WrittenIsCurrent

LEMMA WriteTableKeeps ==
    ASSUME IInv, WriteTable
    PROVE  IInv'
<1> USE DEF WriteTable, counters
<1>1. sweep \in Sweeps /\ audited = {}
  BY DEF IInv, Typed, AtWork, AuditIsCurrent
<1>2. tables' \in [Sweeps -> SUBSET Run]
  BY <1>1, WrittenIsRuns DEF IInv, Typed
<1>3. \A s \in Sweeps : tables'[s] = IF s = sweep THEN Written ELSE tables[s]
  BY <1>1 DEF IInv, Typed
<1>4. \A s \in Sweeps : \A r \in tables'[s] :
         /\ r[1].sweep = s
         /\ r[2] \in Finished(r[1])
         /\ \A n \in Finished(r[1]) : n > r[2] => <<r[1], n>> \in abandoned
  BY <1>3, WrittenIsCurrent, OtherTables
<1> QED
  BY <1>1, <1>2, <1>4, LeaveKeeps DEF IInv, Typed

LEMMA StopCounts ==
    ASSUME IInv, Stop
    PROVE  /\ audited = {} /\ Leave
           /\ abandoned' = abandoned \cup Ended /\ abandoned' \subseteq Run
           /\ trailing \subseteq trailing' /\ trailing' \subseteq Run
<1>1. at \in {"run", "row"} => Running \in Run
  <2> SUFFICES ASSUME at \in {"run", "row"} PROVE Running \in Run
    OBVIOUS
  <2>1. plan # <<>> /\ plan \in Seq(Experiment)
    BY DEF IInv, AtWork, Typed
  <2>2. Head(plan) \in Experiment
    BY <2>1
  <2> QED
    BY <2>2 DEF Running, Run, IInv, Typed
<1>2. ToSet(rows) \subseteq Run
  BY DEF IInv, Typed, ToSet
<1> QED
  BY <1>1, <1>2 DEF Stop, Ended, IInv, Typed, AuditIsCurrent

LEMMA StopBeforeWriteKeeps ==
    ASSUME IInv, StopBeforeWrite
    PROVE  IInv'
<1> USE DEF StopBeforeWrite
<1>1. UNCHANGED <<database, directories, audited>>
  BY DEF Stop
<1>2. \A s \in Sweeps : \A r \in tables'[s] :
         /\ r[1].sweep = s
         /\ r[2] \in Finished(r[1])
         /\ \A n \in Finished(r[1]) : n > r[2] => <<r[1], n>> \in abandoned'
  BY StopCounts DEF IInv, TablesAreCurrent
<1> QED
  BY <1>1, <1>2, StopCounts, LeaveKeeps DEF IInv, Typed

LEMMA StopInWriteKeeps ==
    ASSUME IInv, StopInWrite
    PROVE  IInv'
<1> USE DEF StopInWrite
<1>1. UNCHANGED <<database, directories, audited>> /\ sweep \in Sweeps
  BY DEF Stop, IInv, Typed, AtWork
<1>2. PICK kept \in SUBSET Written : tables' = [tables EXCEPT ![sweep] = kept]
  OBVIOUS
<1>3. tables' \in [Sweeps -> SUBSET Run]
  BY <1>1, <1>2, WrittenIsRuns DEF IInv, Typed
<1>4. \A s \in Sweeps : tables'[s] = IF s = sweep THEN kept ELSE tables[s]
  BY <1>1, <1>2 DEF IInv, Typed
<1>5. \A s \in Sweeps : \A r \in tables'[s] :
         /\ r[1].sweep = s
         /\ r[2] \in Finished(r[1])
         /\ \A n \in Finished(r[1]) : n > r[2] => <<r[1], n>> \in abandoned
  BY <1>4, WrittenIsCurrent, OtherTables
<1>6. torn' \in Nat
  BY DEF IInv, Typed
<1> QED
  BY <1>1, <1>3, <1>5, <1>6, StopCounts, LeaveKeeps

-----------------------------------------------------------------------------
LEMMA StutterKeeps ==
    ASSUME IInv, UNCHANGED vars
    PROVE  IInv'
<1> USE DEF vars, files, counters
<1>1. Typed' /\ AtWork' /\ DatabaseIsClean'
  BY DEF IInv, Typed, AtWork, DatabaseIsClean, Running
<1>2. RunsAreSeparate' /\ LastsExist' /\ AuditIsCurrent'
  BY FinishedFrame DEF IInv, RunsAreSeparate, LastsExist, AuditIsCurrent
<1>3. RowsAreRuns' /\ RowsAreInOrder'
  BY FinishedFrame DEF IInv, RowsAreRuns, RowsAreInOrder, Running
<1>4. Ended' = Ended
  BY DEF Ended, Running
<1>5. TablesAreCurrent' /\ CompoundsRunOnce'
  BY <1>4, FinishedFrame DEF IInv, TablesAreCurrent, CompoundsRunOnce
<1> QED
  BY <1>1, <1>2, <1>3, <1>5 DEF IInv

\* Every step of the harness, and of what it has left running, keeps the invariant.
LEMMA NextKeeps == IInv /\ [Next]_vars => IInv'
<1> SUFFICES ASSUME IInv, [Next]_vars PROVE IInv'
  OBVIOUS
<1>1. ASSUME NEW filter \in SUBSET Conditions, NEW seeds \in SeedLists, Stress(seeds, filter)
      PROVE  IInv'
  BY <1>1, StressKeeps
<1>2. ASSUME NEW filter \in SUBSET Conditions, Compounds(filter)
      PROVE  IInv'
  BY <1>2, CompoundsKeep
<1> QED
  BY <1>1, <1>2, ResetDbKeeps, MakeRunDirKeeps, FinishRunKeeps, AddRowKeeps, WriteTableKeeps,
     StopBeforeWriteKeeps, StopInWriteKeeps, LateWriteKeeps, AuditStateKeeps, StutterKeeps
     DEF Next

LEMMA InvariantHolds == Spec => []IInv
  BY InitHolds, NextKeeps, PTL DEF Spec

\* Reruns share operation ids: a finished run has logged its own transitions and,
\* beside them, those of runs that left requests on their way (RunsAreSeparate).
THEOREM RunsAreKeptApart == Spec => []RunsAreSeparate
<1>1. IInv => RunsAreSeparate
  BY DEF IInv
<1> QED
  BY <1>1, InvariantHolds, PTL

\* The audit of states and ownership sees the runs that the tables report, unless a
\* later one is of a sweep that was stopped (AuditSeesTheTables).
THEOREM TablesAreAudited == Spec => []AuditSeesTheTables
<1>1. ASSUME IInv PROVE AuditSeesTheTables
  <2> SUFFICES ASSUME NEW seen \in audited, NEW s \in Sweeps, NEW r \in tables[s]
               PROVE  \E n \in Finished(r[1]) :
                         /\ <<r[1], n>> \in seen
                         /\ n = r[2] \/ (n > r[2] /\ <<r[1], n>> \in abandoned)
    BY DEF AuditSeesTheTables
  <2>1. seen = LatestRunDirs /\ rows = <<>> /\ at = "off"
    BY <1>1 DEF IInv, AuditIsCurrent, AtWork
  <2>2. r \in Run /\ r[1] \in Experiment /\ r[2] \in Finished(r[1])
    BY <1>1 DEF IInv, Typed, TablesAreCurrent, Run
  <2>3. Latest(r[1]) \in Finished(r[1]) /\ \A k \in Finished(r[1]) : k <= Latest(r[1])
    BY <1>1, <2>2 DEF IInv, LastsExist, Latest
  <2>4. <<r[1], Latest(r[1])>> \in seen
    BY <2>1, <2>2 DEF LatestRunDirs
  <2>5. \A n \in Finished(r[1]) : n \in Nat
    BY <1>1, <2>2 DEF IInv, Typed, Finished
  <2>6. Latest(r[1]) = r[2] \/ Latest(r[1]) > r[2]
    BY <2>2, <2>3, <2>5
  <2>7. Ended = {}
    BY <2>1 DEF Ended, ToSet
  <2> QED
    BY <1>1, <2>3, <2>4, <2>6, <2>7 DEF IInv, TablesAreCurrent
<1> QED
  BY <1>1, InvariantHolds, PTL

\* No sweep takes the last row of a condition out of the stress table, whatever it
\* is cut down to, unless it is killed within the write (StressKeepsItsRows).
THEOREM StressRowsStay == Spec => StressKeepsItsRows
<1>1. ASSUME IInv, [Next]_vars, torn' = torn, NEW r \in tables["stress"]
      PROVE  \E q \in tables'["stress"] : Condition(q) = Condition(r)
  <2>1. CASE WriteTable /\ sweep = "stress"
    <3>1. tables'["stress"] = Merged(tables["stress"], rows)
      BY <1>1, <2>1 DEF WriteTable, Written, IInv, Typed, Sweeps
    <3>2. CASE \A i \in DOMAIN rows : Condition(rows[i]) # Condition(r)
      BY <3>1, <3>2 DEF Merged
    <3>3. CASE \E i \in DOMAIN rows : Condition(rows[i]) = Condition(r)
      <4>1. PICK j \in DOMAIN rows :
               /\ Condition(rows[j]) = Condition(r)
               /\ \A k \in DOMAIN rows : k > j => Condition(rows[k]) # Condition(rows[j])
        BY <1>1, <3>3 DEF IInv, LastsExist
      <4>2. rows[j] \in LastOfEach(rows)
        BY <4>1 DEF LastOfEach
      <4> QED
        BY <3>1, <4>1, <4>2 DEF Merged
    <3> QED
      BY <3>2, <3>3
  <2>2. CASE WriteTable /\ sweep # "stress"
    BY <2>2, <1>1 DEF WriteTable, IInv, Typed
  <2>3. CASE StopInWrite
    BY <2>3, <1>1 DEF StopInWrite, IInv, Typed
  <2>4. CASE UNCHANGED tables
    BY <2>4
  <2>5. WriteTable \/ StopInWrite \/ UNCHANGED tables
    BY <1>1 DEF Next, Stress, Compounds, Enter, ResetDb, MakeRunDir, FinishRun, AddRow,
       StopBeforeWrite, LateWrite, AuditState, vars, files
  <2> QED
    BY <2>1, <2>2, <2>3, <2>4, <2>5
<1>2. IInv /\ [Next]_vars =>
         [torn' = torn =>
            \A r \in tables["stress"] : \E q \in tables'["stress"] : Condition(q) = Condition(r)]_vars
  BY <1>1
<1> QED
  BY <1>2, InvariantHolds, PTL DEF Spec, StressKeepsItsRows

=============================================================================
