---------------------------- MODULE Phase5Harness ----------------------------
(***************************************************************************)
(* The sweeps of the phase 5 harness (analysis/phase5_harness.py): one     *)
(* invocation at a time, under its lock, runs the experiments of a sweep   *)
(* one after the other, keeps a row of each in memory and writes them to   *)
(* the table of the sweep at the end; audits look at the directories that  *)
(* runs have left.                                                         *)
(*                                                                         *)
(* Two sweeps stand for all of them, being the two that a filter can cut   *)
(* down: "stress" merges its rows into its table (append_rows),            *)
(* "compounds" replaces its table (write_rows), as every other sweep does. *)
(* A run is a pair of an experiment and its place among the runs of it.    *)
(***************************************************************************)
EXTENDS Integers, Sequences, FiniteSets, SequencesExt

CONSTANTS
    Conditions,      \* the conditions of a sweep: scenario, variant, concurrency
    SeedLists,       \* what --seeds may say
    CompoundSeed,    \* the one seed of the compounds
    MaxInvocations,  \* bound on invocations
    MaxStops,        \* bound on those that are stopped
    MaxTrailing      \* bound on the runs that end with attempts given up

Seeds == {CompoundSeed} \cup UNION { ToSet(seeds) : seeds \in SeedLists }

ASSUME SeedListsAssumption == SeedLists \subseteq Seq(Seeds)
ASSUME ConditionsAssumption == IsFiniteSet(Conditions)

Sweeps == { "stress", "compounds" }

Experiment == [ sweep : Sweeps, condition : Conditions, seed : Seeds ]

VARIABLES
    sweep,        \* the mode of the invocation that holds the lock, or "none"
    at,           \* how far run_one is
    plan,         \* the experiments it has still to run
    rows,         \* the runs it has rows of, in memory
    database,     \* the runs that have left rows in the runtime schema
    directories,  \* of each experiment, the runs it has a directory of
    tables,       \* the runs in the table of each sweep
    audited,      \* the runs the audit took, if nothing happened since
    invocations, stops, torn,
    abandoned,    \* history: finished runs of sweeps that were stopped
    trailing      \* history: runs that have left requests on their way

files == <<directories, tables>>
counters == <<invocations, stops, torn, abandoned, trailing>>
vars == <<sweep, at, plan, rows, database, files, audited, counters>>

Init ==
    /\ sweep = "none" /\ at = "off" /\ plan = <<>> /\ rows = <<>>
    /\ database = {}
    /\ directories = [ e \in Experiment |-> <<>> ]
    /\ tables = [ s \in Sweeps |-> {} ]
    /\ audited = {}
    /\ invocations = 0 /\ stops = 0 /\ torn = 0 /\ abandoned = {} /\ trailing = {}

-----------------------------------------------------------------------------
\* A directory is finished when it has a summary.json, which is written last.  log
\* is what its ledger_transitions.csv has transitions of.
Directory == [ finished : BOOLEAN, log : SUBSET (Experiment \X Nat) ]

Finished(e) == { n \in DOMAIN directories[e] : directories[e][n].finished }

\* Mutant: the first directory of a group.
Latest_First(e) == CHOOSE n \in Finished(e) : \A k \in Finished(e) : n <= k

\* The directory of a group that latest_run_dirs takes: the names end in the time.
Latest(e) == CHOOSE n \in Finished(e) : \A k \in Finished(e) : k <= n

LatestRunDirs == { <<e, Latest(e)>> : e \in { x \in Experiment : Finished(x) # {} } }

Condition(run) == run[1].condition

\* Of the rows of one condition the last; the key has no seed.
LastOfEach(s) ==
    { s[i] : i \in { j \in DOMAIN s : \A k \in DOMAIN s : k > j => Condition(s[k]) # Condition(s[j]) } }

\* What append_rows makes of a table.
Merged(table, s) ==
    { r \in table : \A i \in DOMAIN s : Condition(s[i]) # Condition(r) } \cup LastOfEach(s)

\* Mutant: stress replaces its table like the other sweeps.
Written_Replaced == ToSet(rows)

\* The new contents of the table.
Written == IF sweep = "stress" THEN Merged(tables[sweep], rows) ELSE ToSet(rows)

-----------------------------------------------------------------------------
\* The loops over seeds and conditions, with those that --scenario, --variant and
\* --concurrency leave; a filter may leave none.
Planned(s, seeds, filter) ==
    LET inOrder == SetToSeq(filter)
        n == Len(inOrder)
    IN  [ i \in 1..(Len(seeds) * n) |->
            [ sweep |-> s, condition |-> inOrder[((i - 1) % n) + 1], seed |-> seeds[((i - 1) \div n) + 1] ] ]

Next1(p) == IF p = <<>> THEN "write" ELSE "reset"

Enter(s, p) ==
    /\ sweep = "none"
    /\ invocations < MaxInvocations /\ invocations' = invocations + 1
    /\ sweep' = s /\ plan' = p /\ at' = Next1(p) /\ rows' = <<>>
    /\ audited' = {}
    /\ UNCHANGED <<database, files, stops, torn, abandoned, trailing>>

Stress(seeds, filter) == Enter("stress", Planned("stress", seeds, filter))
Compounds(filter) == Enter("compounds", Planned("compounds", <<CompoundSeed>>, filter))

\* Mutant: a run starts on what the one before it left.
ResetDb_Left ==
    /\ at = "reset" /\ at' = "make"
    /\ UNCHANGED <<sweep, plan, rows, database, files, audited, counters>>

\* run_one: reset_db.
ResetDb ==
    /\ at = "reset" /\ at' = "make"
    /\ database' = {}
    /\ UNCHANGED <<sweep, plan, rows, files, audited, counters>>

Running == <<Head(plan), Len(directories[Head(plan)])>>

\* The configuration is written, run_config makes a directory, and the services
\* begin to write under the experiment's id.
MakeRunDir ==
    /\ at = "make" /\ at' = "run"
    /\ LET e == Head(plan)
       IN  /\ directories' = [directories EXCEPT ![e] = Append(@, [finished |-> FALSE, log |-> {}])]
           /\ database' = database \cup {<<e, Len(directories[e]) + 1>>}
    /\ UNCHANGED <<sweep, plan, rows, tables, audited, counters>>

\* The tables are read for the experiment, whichever run wrote them, and the files
\* are written.  Attempts that were given up may still be handled.
FinishRun ==
    /\ at = "run" /\ at' = "row"
    /\ directories' = [directories EXCEPT ![Running[1]][Running[2]] =
                          [finished |-> TRUE, log |-> { r \in database : r[1] = Running[1] }]]
    /\ \/ UNCHANGED trailing
       \/ Cardinality(trailing) < MaxTrailing /\ trailing' = trailing \cup {Running}
    /\ UNCHANGED <<sweep, plan, rows, database, tables, audited, invocations, stops, torn, abandoned>>

\* load_run reads the files back, and the row is kept in memory.
AddRow ==
    /\ at = "row"
    /\ rows' = Append(rows, Running)
    /\ plan' = Tail(plan) /\ at' = Next1(Tail(plan))
    /\ UNCHANGED <<sweep, database, files, audited, counters>>

\* The process ends and its lock is free.
Leave == sweep' = "none" /\ at' = "off" /\ plan' = <<>> /\ rows' = <<>>

\* append_rows or write_rows, and the end of the invocation.
WriteTable ==
    /\ at = "write"
    /\ tables' = [tables EXCEPT ![sweep] = Written]
    /\ Leave
    /\ UNCHANGED <<database, directories, audited, counters>>

\* The process is killed, or an exception of run_config leaves main: the rows in
\* memory are lost, the directories stay.
Stop ==
    /\ sweep # "none"
    /\ stops < MaxStops /\ stops' = stops + 1
    /\ abandoned' = abandoned \cup ToSet(rows) \cup (IF at = "row" THEN {Running} ELSE {})
    /\ trailing' = trailing \cup (IF at = "run" THEN {Running} ELSE {})
    /\ Leave
    /\ UNCHANGED <<database, directories, audited, invocations>>

StopBeforeWrite == Stop /\ UNCHANGED <<tables, torn>>

\* It is killed while it writes, after the file was truncated.
StopInWrite ==
    /\ at = "write"
    /\ Stop
    /\ torn' = torn + 1
    /\ \E kept \in SUBSET Written : tables' = [tables EXCEPT ![sweep] = kept]

\* What a run was killed or gave up waiting for is still worked on, and may write after
\* the next reset.
LateWrite ==
    /\ \E r \in trailing : r \notin database /\ database' = database \cup {r}
    /\ UNCHANGED <<sweep, at, plan, rows, files, audited, counters>>

\* aggregate_state_and_ownership_audit.
AuditState ==
    /\ sweep = "none"
    /\ invocations < MaxInvocations /\ invocations' = invocations + 1
    /\ audited' = {LatestRunDirs}
    /\ UNCHANGED <<sweep, at, plan, rows, database, files, stops, torn, abandoned, trailing>>

Next ==
    \/ \E filter \in SUBSET Conditions :
          \/ \E seeds \in SeedLists : Stress(seeds, filter)
          \/ Compounds(filter)
    \/ ResetDb
    \/ MakeRunDir
    \/ FinishRun
    \/ AddRow
    \/ WriteTable
    \/ StopBeforeWrite
    \/ StopInWrite
    \/ LateWrite
    \/ AuditState

Spec == Init /\ [][Next]_vars

-----------------------------------------------------------------------------
\* All runs of an experiment use the same operation ids, and their transitions are
\* read back by the id of the experiment: a finished run has logged its own, and
\* of the runs before it only those that left requests on their way, wherever the
\* others ended.
RunsAreSeparate ==
    \A e \in Experiment : \A n \in Finished(e) :
        /\ <<e, n>> \in directories[e][n].log
        /\ directories[e][n].log \ {<<e, n>>} \subseteq trailing

\* The runs that the audit of states and ownership looks at are those the tables
\* report: a row is of the latest finished run of its experiment, or the later
\* one is of a sweep that was stopped before it wrote its table.
AuditSeesTheTables ==
    \A seen \in audited, s \in Sweeps : \A r \in tables[s] :
        \E n \in Finished(r[1]) :
            /\ <<r[1], n>> \in seen
            /\ n = r[2] \/ (n > r[2] /\ <<r[1], n>> \in abandoned)

\* A condition that has a row in the stress table keeps one, whatever a later sweep
\* is cut down to and wherever it is stopped, unless within the write itself.
StressKeepsItsRows ==
    [][torn' = torn =>
          \A r \in tables["stress"] : \E q \in tables'["stress"] : Condition(q) = Condition(r)]_vars

=============================================================================
