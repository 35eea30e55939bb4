---------------------------- MODULE Publication ----------------------------
(***************************************************************************)
(* Phase 7 (analysis/phase7_analysis.py) beside the runner of phase 6: it  *)
(* reads the status file and the run directories without taking the        *)
(* runner's lock, so that the runner may be at any step when it does, and  *)
(* turns them into the published dataset, its audits, the tables and a     *)
(* bundle of all of these.                                                 *)
(*                                                                         *)
(* What is abstracted is the content of a run: a dataset is the set of the *)
(* experiments it has a row of.                                            *)
(***************************************************************************)
EXTENDS Phase6Runner

CONSTANT Modes    \* values of --mode the operator may use

ASSUME ModesAssumption == Modes \subseteq { "all", "extract", "analyze", "export" }

VARIABLES
    reader,      \* where the phase 7 process is
    mode,        \* its --mode
    table,       \* its copy of the status table
    rows,        \* the rows it extracted
    published,   \* phase6_run_level.csv: none, or the last one
    audited,     \* its own copies of the audits
    tables,      \* the dataset the tables were computed from, if any
    bundle       \* the bundles exported: none, or the last one

vars7 == <<reader, mode, table, rows, published, audited, tables, bundle>>
allVars == <<vars, vars7>>

ReaderPhase == { "off", "extract", "audits", "analyze", "export" }

Init7 ==
    /\ Init
    /\ reader = "off" /\ mode = "all" /\ table = Empty /\ rows = {}
    /\ published = {} /\ audited = NoAudits
    /\ tables = {} /\ bundle = {}

-----------------------------------------------------------------------------
\* What there is to read in the status file: while the runner rewrites it, any
\* beginning of what it writes.
Readable == IF pc = "writing" THEN Torn(status) \cup {Empty} ELSE {file}

\* Mutant: rows are counted, and not what they say.
PassesAudit_CountsRows(t) == \A e \in Experiments : t.rows[e] # "ABSENT"

\* audit_phase6_completion.
PassesAudit(t) ==
    /\ ~t.extra
    /\ \A e \in Experiments : t.rows[e] \in ReadsComplete

\* The process ends: as it should, by an exception, or killed.
Stop7 == reader' = "off" /\ mode' = "all" /\ table' = Empty /\ rows' = {}

\* It goes on to phase p.
GoOn7(p) == reader' = p /\ UNCHANGED <<mode, table, rows>>

Start7(p, m) == reader = "off" /\ m \in Modes /\ reader' = p /\ mode' = m /\ UNCHANGED rows

\* load_phase6_inputs and audit_phase6_completion, which raises when it fails.
Load(m) ==
    /\ m \in {"all", "extract"}
    /\ Start7("extract", m)
    /\ \E t \in Readable : PassesAudit(t) /\ table' = t
    /\ UNCHANGED <<published, audited, tables, bundle>>

\* --mode analyze and --mode export begin further down.
Resume(m) ==
    /\ m \in {"analyze", "export"}
    /\ Start7(m, m)
    /\ UNCHANGED <<table, published, audited, tables, bundle>>

\* The rows extract_run_level keeps.  A final_run_dir that is cut off names no
\* run: the experiment is left out, and nothing else happens.
Usable == { e \in Experiments : table.rows[e] = "COMPLETE" /\ FindValidRun(e) }

\* extract_run_level, and the dataset it returns is written.
Extract ==
    /\ reader = "extract"
    /\ published' = {Usable}
    /\ reader' = "audits" /\ rows' = Usable /\ UNCHANGED <<mode, table>>
    /\ UNCHANGED <<audited, tables, bundle>>

\* Mutant: one of the three files stands for all of them.
Phase6Audited_OneFile == audits.transitions # {}

\* The three audits of phase 6 exist.
Phase6Audited == audits.transitions # {} /\ audits.ownership # {} /\ audits.observer

AfterAudits == IF mode = "all" THEN GoOn7("analyze") ELSE Stop7

\* write_semantic_audits copies what phase 6 has written.
CopyAudits ==
    /\ reader = "audits"
    /\ Phase6Audited
    /\ audited' = audits
    /\ AfterAudits
    /\ UNCHANGED <<published, tables, bundle>>

\* Otherwise it repeats them on its own rows; the one of the observer it cannot
\* repeat, and without it raises.
RecomputeAudits ==
    /\ reader = "audits"
    /\ ~Phase6Audited
    /\ audited' = [transitions |-> {rows}, ownership |-> {rows}, observer |-> audits.observer]
    /\ IF audits.observer THEN AfterAudits ELSE Stop7
    /\ UNCHANGED <<published, tables, bundle>>

\* Mutant: the tables are made from the rows phase 6 has.
Analyze_Phase6Rows ==
    /\ reader = "analyze"
    /\ published # {}
    /\ tables' = dataset
    /\ IF mode = "all" THEN GoOn7("export") ELSE Stop7
    /\ UNCHANGED <<published, audited, bundle>>

\* analyze reads the published dataset again and writes every table from it.
Analyze ==
    /\ reader = "analyze"
    /\ published # {}
    /\ tables' = published
    /\ IF mode = "all" THEN GoOn7("export") ELSE Stop7
    /\ UNCHANGED <<published, audited, bundle>>

\* export_bundle copies what there is; what there is not it skips.
Export ==
    /\ reader = "export"
    /\ bundle' = { [mode |-> mode, dataset |-> published, audits |-> audited, tables |-> tables] }
    /\ Stop7
    /\ UNCHANGED <<published, audited, tables>>

\* The process is killed, or an exception leaves main.
Crash7 ==
    /\ reader # "off"
    /\ Stop7
    /\ UNCHANGED <<published, audited, tables, bundle>>

Step7 ==
    \/ \E m \in Modes : Load(m) \/ Resume(m)
    \/ Extract
    \/ CopyAudits
    \/ RecomputeAudits
    \/ Analyze
    \/ Export
    \/ Crash7

Next7 ==
    \/ Next /\ UNCHANGED vars7
    \/ Step7 /\ UNCHANGED vars

Spec7 == Init7 /\ [][Next7]_allVars

-----------------------------------------------------------------------------
\* What is published has a valid run for every row, and leaves out one
\* experiment at most, the last of the status file: a file that is being
\* rewritten, or was torn, passes for complete only in its last row.
PublishedIsWholeButTheLast ==
    \A d \in published :
        /\ \A e \in d : FindValidRun(e)
        /\ Experiments \ d \subseteq {N}

\* A bundle that one run of all of phase 7 exports is of one piece, whichever
\* runs before it were cut short: its tables are those of its dataset, it has the
\* observer's audit, and, when the operator of phase 6 names no stage, both other
\* audits cover all of the dataset, also when phase 6 was stopped between writing
\* its dataset and its audits, or is at it again.
BundleIsOfOnePiece ==
    \A b \in bundle : b.mode = "all" =>
        /\ b.dataset # {} /\ b.tables = b.dataset
        /\ b.audits.observer
        /\ (\A options \in Options : options.stages = Stages) =>
              \A d \in b.dataset :
                 /\ \E a \in b.audits.transitions : d \subseteq a
                 /\ \E a \in b.audits.ownership : d \subseteq a

=============================================================================
