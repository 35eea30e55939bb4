------------------------------- MODULE Metrics -------------------------------
(***************************************************************************)
(* The rates of one run, in the four places that compute them: the runner  *)
(* itself (summarize_run), phase 6 before it accepts a run                 *)
(* (recompute_metrics), phase 7 before it publishes it (recompute_run) and *)
(* phase 5 when it audits the metrics (metrics_audit).  They share no code *)
(* and no definition here: the runner computes from the rows it has in     *)
(* memory, the others from what they read of its CSV files.                *)
(*                                                                         *)
(* A run is [measured, events, effects]: the measured operations, the      *)
(* events in their order, and how many effects the observer holds of each  *)
(* operation, warm-up included.  A rate is kept as the pair it divides, a  *)
(* count as a rate over 1.  Percentiles are left out: one function, copied *)
(* four times.                                                             *)
(***************************************************************************)
EXTENDS Integers, Sequences, FiniteSets

AtLeast(n, least) == IF n < least THEN least ELSE n

\* The sum of a count over the rows of operations, which is the number of things
\* counted.
Total(ops, field) == Cardinality(UNION { {o} \X (1..ops[o][field]) : o \in DOMAIN ops })

-----------------------------------------------------------------------------
(* The runner.                                                             *)

\* events_by_op, by type: the places of the rows.
RowsOf(run, o, type) == { k \in DOMAIN run.events : run.events[k].op = o /\ run.events[k].type = type }

\* summarize_operations: one row per measured operation.
OperationRow(run, o) ==
    LET attempts == RowsOf(run, o, "agent_attempt")
        last == CHOOSE k \in attempts : \A j \in attempts : j <= k
    IN  [ attempt_count |-> Cardinality(attempts),
          downstream_call_count |-> Cardinality(RowsOf(run, o, "downstream_execute")),
          effect_count |-> run.effects[o],
          final_state |-> IF attempts = {} THEN "NO_ATTEMPT" ELSE run.events[last].final,
          replayed |-> \E k \in attempts : run.events[k].replayed,
          reconciled |-> \E k \in attempts : run.events[k].reconciled ]

SummarizeOperations(run) == [ o \in run.measured |-> OperationRow(run, o) ]

SummarizeRun(run) ==
    LET ops == SummarizeOperations(run)
        total == AtLeast(Cardinality(DOMAIN ops), 1)
        measured_events == { k \in DOMAIN run.events :
            run.events[k].op \in run.measured /\ run.events[k].type = "agent_attempt" }
        replayed == { k \in measured_events : run.events[k].replayed }
        retry_requests == AtLeast(Cardinality(measured_events) - total, 0)
        settled == { o \in DOMAIN ops : ops[o].final_state \in {"UNKNOWN", "COMPLETED"} }
    IN  [ logical_operations |-> <<total, 1>>,
          DER |-> <<Cardinality({ o \in DOMAIN ops : ops[o].effect_count > 1 }), total>>,
          EOER |-> <<Cardinality({ o \in DOMAIN ops : ops[o].effect_count = 1 }), total>>,
          LER |-> <<Cardinality({ o \in DOMAIN ops : ops[o].effect_count = 0 }), total>>,
          RSR |-> <<Cardinality({ o \in DOMAIN ops : ops[o].reconciled }), AtLeast(Cardinality(settled), 1)>>,
          RAF |-> <<Cardinality(measured_events), total>>,
          DAF |-> <<Total(ops, "downstream_call_count"), total>>,
          RRR |-> <<Cardinality(replayed), AtLeast(retry_requests, 1)>>,
          UAR |-> <<Cardinality({ o \in DOMAIN ops : ops[o].final_state = "UNKNOWN" }), total>> ]

-----------------------------------------------------------------------------
(* The files.  csv.DictWriter writes a bool as Python prints it, and the   *)
(* readers get text; numbers come back from int() as they were.            *)

Text(b) == IF b THEN "True" ELSE "False"

\* str.lower of such a text.
Lower == [ True |-> "true", False |-> "false" ]

\* operations.csv.
OperationsCsv(run) ==
    [ o \in run.measured |->
        [ SummarizeOperations(run)[o] EXCEPT !.replayed = Text(@), !.reconciled = Text(@) ] ]

\* events.csv, with the columns that are read again.
EventsCsv(run) ==
    [ k \in DOMAIN run.events |->
        [ event_type |-> run.events[k].type,
          measured |-> Text(run.events[k].op \in run.measured),
          replayed |-> Text(run.events[k].replayed) ] ]

-----------------------------------------------------------------------------
(* Phase 6: validate_run_artifacts and recompute_metrics.                  *)

\* measured_events, which validate_run_artifacts hands on.
MeasuredEvents6(events) ==
    { k \in DOMAIN events :
        events[k].event_type = "agent_attempt" /\ Lower[events[k].measured] \in {"true", "1"} }

\* Mutant: the replays are the operations marked as replayed.
ReplayCount6_ByOperation(ops, events) == Cardinality({ o \in DOMAIN ops : Lower[ops[o].replayed] = "true" })

ReplayCount6(ops, events) ==
    Cardinality({ k \in MeasuredEvents6(events) : Lower[events[k].replayed] \in {"true", "1"} })

RecomputeMetrics(ops, events) ==
    LET total == AtLeast(Cardinality(DOMAIN ops), 1)
        reconciled == { o \in DOMAIN ops : Lower[ops[o].reconciled] = "true" }
        settled == { o \in DOMAIN ops : ops[o].final_state \in {"UNKNOWN", "COMPLETED"} }
        attempts == Cardinality(MeasuredEvents6(events))
        retry_requests == AtLeast(attempts - total, 0)
    IN  [ logical_operations |-> <<Cardinality(DOMAIN ops), 1>>,
          DER |-> <<Cardinality({ o \in DOMAIN ops : ops[o].effect_count > 1 }), total>>,
          EOER |-> <<Cardinality({ o \in DOMAIN ops : ops[o].effect_count = 1 }), total>>,
          LER |-> <<Cardinality({ o \in DOMAIN ops : ops[o].effect_count = 0 }), total>>,
          RSR |-> <<Cardinality(reconciled), AtLeast(Cardinality(settled), 1)>>,
          RAF |-> <<attempts, total>>,
          DAF |-> <<Total(ops, "downstream_call_count"), total>>,
          RRR |-> <<ReplayCount6(ops, events), AtLeast(retry_requests, 1)>>,
          UAR |-> <<Cardinality({ o \in DOMAIN ops : ops[o].final_state = "UNKNOWN" }), total>> ]

-----------------------------------------------------------------------------
(* Phase 7: recompute_run, which reads the files itself.                   *)

Truthy(text) == Lower[text] \in {"true", "1", "yes"}

RecomputeRun(ops, events) ==
    LET total == AtLeast(Cardinality(DOMAIN ops), 1)
        duplicates == { o \in DOMAIN ops : ops[o].effect_count > 1 }
        exact == { o \in DOMAIN ops : ops[o].effect_count = 1 }
        lost == { o \in DOMAIN ops : ops[o].effect_count = 0 }
        unknown == { o \in DOMAIN ops : ops[o].final_state = "UNKNOWN" }
        reconciled == { o \in DOMAIN ops : Truthy(ops[o].reconciled) }
        settled == { o \in DOMAIN ops : ops[o].final_state \in {"UNKNOWN", "COMPLETED"} }
        measured_agent_attempts == { k \in DOMAIN events :
            Truthy(events[k].measured) /\ events[k].event_type = "agent_attempt" }
        replayed_attempts == { k \in measured_agent_attempts : Truthy(events[k].replayed) }
        retry_requests == AtLeast(Cardinality(measured_agent_attempts) - total, 0)
    IN  [ logical_operations |-> <<Cardinality(DOMAIN ops), 1>>,
          DER |-> <<Cardinality(duplicates), total>>,
          EOER |-> <<Cardinality(exact), total>>,
          LER |-> <<Cardinality(lost), total>>,
          RSR |-> <<Cardinality(reconciled), AtLeast(Cardinality(settled), 1)>>,
          RAF |-> <<Cardinality(measured_agent_attempts), total>>,
          DAF |-> <<Total(ops, "downstream_call_count"), total>>,
          RRR |-> <<Cardinality(replayed_attempts), AtLeast(retry_requests, 1)>>,
          UAR |-> <<Cardinality(unknown), total>> ]

-----------------------------------------------------------------------------
(* Phase 5: metrics_audit, which takes attempts and replays from the rows  *)
(* of the operations.                                                      *)

MetricsAudit(ops) ==
    LET total == AtLeast(Cardinality(DOMAIN ops), 1)
        attempts == Total(ops, "attempt_count")
        settled == { o \in DOMAIN ops : ops[o].final_state \in {"UNKNOWN", "COMPLETED"} }
        replay_count == Cardinality({ o \in DOMAIN ops : ops[o].replayed = "True" })
        retry_requests == AtLeast(attempts - total, 0)
    IN  [ logical_operations |-> <<total, 1>>,
          DER |-> <<Cardinality({ o \in DOMAIN ops : ops[o].effect_count > 1 }), total>>,
          EOER |-> <<Cardinality({ o \in DOMAIN ops : ops[o].effect_count = 1 }), total>>,
          LER |-> <<Cardinality({ o \in DOMAIN ops : ops[o].effect_count = 0 }), total>>,
          RSR |-> <<Cardinality({ o \in DOMAIN ops : ops[o].reconciled = "True" }), AtLeast(Cardinality(settled), 1)>>,
          RAF |-> <<attempts, total>>,
          DAF |-> <<Total(ops, "downstream_call_count"), total>>,
          RRR |-> <<replay_count, AtLeast(retry_requests, 1)>>,
          UAR |-> <<Cardinality({ o \in DOMAIN ops : ops[o].final_state = "UNKNOWN" }), total>> ]

-----------------------------------------------------------------------------
\* The two rates are one number.  The code tolerates 1e-9, which no two rates of
\* a run differ by that are not equal.
SameRate(a, b) == a[1] * b[2] = b[1] * a[2]

\* metrics_consistency_row and its like: what a reader finds fault with.
Deviations(summary, recomputed) ==
    { metric \in DOMAIN recomputed : ~SameRate(recomputed[metric], summary[metric]) }

Replays(run, o) == { k \in RowsOf(run, o, "agent_attempt") : run.events[k].replayed }

\* Phase 6 and phase 7 find the summary of every run as the runner wrote it.  The
\* audit of phase 5 finds fault with RRR only, and does so exactly if an operation
\* was answered by a replay more than once.
RecomputationsAgree(run) ==
    LET ops == OperationsCsv(run)
        events == EventsCsv(run)
        summary == SummarizeRun(run)
        replayedTwice == \E o \in run.measured : Cardinality(Replays(run, o)) > 1
    IN  /\ Deviations(summary, RecomputeMetrics(ops, events)) = {}
        /\ Deviations(summary, RecomputeRun(ops, events)) = {}
        /\ Deviations(summary, MetricsAudit(ops)) = IF replayedTwice THEN {"RRR"} ELSE {}

\* RRR is at most 1 where every operation has an attempt that is no replay, as one
\* has that F1 did not lose: replays are counted over all operations, and so are
\* the retries they are divided by.
ReplayRateIsBounded(run) ==
    (\A o \in run.measured : Replays(run, o) # RowsOf(run, o, "agent_attempt"))
        => SummarizeRun(run).RRR[1] <= SummarizeRun(run).RRR[2]

=============================================================================
