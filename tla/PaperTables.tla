---------------------------- MODULE PaperTables ----------------------------
(***************************************************************************)
(* The tables, figures and comparisons phase 7 makes of the run-level      *)
(* dataset (analyze in analysis/phase7_analysis.py): which runs end up in  *)
(* one cell, and which are compared with which.  data is the dataset, a    *)
(* set of rows of the phase 6 matrix.                                      *)
(***************************************************************************)
EXTENDS Phase6Matrix

\* The columns by which descriptive and groupby_rows group.
Key(r, keys) == [k \in keys |-> r[k]]

InGroup(data, group) == { r \in data : r.group = group }

\* A table is written from a selection of the dataset, one cell for every
\* combination of the values of its keys.
Grouped(rows, keys) == [rows |-> rows, keys |-> keys]

Cell(table, r) == { q \in table.rows : Key(q, table.keys) = Key(r, table.keys) }

\* Mutant: the concurrency is no key of the first research question's table.
Rq1Ambiguous_AnyConcurrency(data) ==
    Grouped(InGroup(data, "group_b_ambiguous"),
            {"failure_scenario", "variant", "failure_probability"})

\* rq1_ambiguous_failures, also figure 1 and paper table 3.
Rq1Ambiguous(data) ==
    Grouped(InGroup(data, "group_b_ambiguous"),
            {"failure_scenario", "variant", "failure_probability", "concurrency"})

\* ambiguity_recovery and failure_rate_response.
AmbiguityRecovery(data) ==
    Grouped({ r \in InGroup(data, "group_b_ambiguous") : r.failure_scenario \in {"F3", "F4", "F8", "F9"} },
            {"failure_scenario", "failure_probability", "concurrency", "variant"})

MasterSummary(data) ==
    Grouped(data, { "group", "workload", "failure_scenario", "variant", "downstream_capability",
                    "failure_probability", "concurrency", "fanout" })

DuplicatePressure(data) ==
    Grouped(InGroup(data, "group_c_duplicates"), {"failure_scenario", "variant", "fanout"})

\* retry_amplification and figure 3.
RetryAmplification(data) ==
    Grouped({ r \in data : r.failure_scenario \in {"F5", "F6", "F11"} },
            {"failure_scenario", "variant", "fanout"})

\* rq2_capability_placement and figure 5.
CapabilityPlacement(data) ==
    Grouped(InGroup(data, "group_d_capability"),
            {"failure_scenario", "variant", "downstream_capability"})

SafeControlTable(data) ==
    Grouped(InGroup(data, "group_e_safe_controls"), {"failure_scenario", "variant"})

\* c0_limitation.
C0Limitation(data) ==
    Grouped({ r \in data : /\ r.downstream_capability = "C0"
                           /\ r.failure_scenario \in {"F3", "F8", "F9"}
                           /\ r.variant \in {"V2", "V4", "V5"} },
            {"failure_scenario", "variant", "downstream_capability"})

\* baseline_overhead, also figure 4: the means of a variant at a concurrency.
BaselineMeans(data) == Grouped(InGroup(data, "group_a_baseline"), {"variant", "concurrency"})

\* exactly_once_effect_audit: PROTECTED variants under a failure.
EffectAudit(data) ==
    Grouped({ r \in data : r.variant \in {"V2", "V3", "V4", "V5"} /\ r.failure_scenario # "F0" },
            { "group", "workload", "failure_scenario", "variant", "downstream_capability",
              "failure_probability", "concurrency", "fanout" })

\* reliability_cost_tradeoff, from which practical_magnitudes is computed.
CostTradeoff(data) ==
    Grouped({ r \in data :
                \/ /\ r.group = "group_b_ambiguous" /\ r.failure_scenario \in {"F3", "F8"}
                   /\ r.failure_probability = 10 /\ r.concurrency = 50
                \/ r.group = "group_a_baseline" /\ r.concurrency = 50 },
            {"group", "failure_scenario", "variant"})

\* The tables that report a mean, or a count, of one condition in each cell.
\* v4_v5_deep_comparison, rq_generalization and figure 2 are not among them: they
\* select by failure and variant only and pool rows of several groups.
ConditionTables(data) ==
    { Rq1Ambiguous(data), AmbiguityRecovery(data), MasterSummary(data), DuplicatePressure(data),
      RetryAmplification(data), CapabilityPlacement(data), SafeControlTable(data),
      C0Limitation(data), BaselineMeans(data), EffectAudit(data), CostTradeoff(data) }

-----------------------------------------------------------------------------
\* comparison_registry.  fixed holds the columns a comparison gives a value; an
\* empty capability is one it does not give.
Comparison(a, b, fixed) ==
    [ variant_a |-> a, variant_b |-> b, capability_a |-> "", capability_b |-> "", fixed |-> fixed ]

AmbiguousCell(f) ==
    [ group |-> "group_b_ambiguous", failure_scenario |-> f, concurrency |-> 50,
      failure_probability |-> 10 ]

\* Mutant: the comparisons of the first question are not held to a concurrency.
Rq1Comparisons_AnyConcurrency ==
    { Comparison(ab[1], ab[2], [ group |-> "group_b_ambiguous", failure_scenario |-> f,
                                 failure_probability |-> 10 ]) :
        ab \in { <<"V0", "V2">>, <<"V0", "V4">>, <<"V0", "V5">>,
                 <<"V2", "V4">>, <<"V2", "V5">>, <<"V4", "V5">> },
        f \in {"F3", "F8"} }

Rq1Comparisons ==
    { Comparison(ab[1], ab[2], AmbiguousCell(f)) :
        ab \in { <<"V0", "V2">>, <<"V0", "V4">>, <<"V0", "V5">>,
                 <<"V2", "V4">>, <<"V2", "V5">>, <<"V4", "V5">> },
        f \in {"F3", "F8"} }

Rq2Comparisons ==
    { [ Comparison(vab[1], vab[1], [group |-> "group_d_capability", failure_scenario |-> "F8"])
          EXCEPT !.capability_a = vab[2], !.capability_b = vab[3] ] :
        vab \in { <<"V2", "C0", "C1">>, <<"V2", "C1", "C2">>, <<"V4", "C0", "C1">>,
                  <<"V4", "C1", "C2">>, <<"V5", "C1", "C2">> } }

Rq3Comparisons ==
    { Comparison("V4", "V5", AmbiguousCell(f)) : f \in {"F8", "F9"} }
      \cup { Comparison("V0", "V5", [ group |-> "group_c_duplicates", failure_scenario |-> f,
                                      fanout |-> 10 ]) : f \in {"F6", "F11"} }

Rq4Comparisons ==
    { Comparison("V0", v, [ group |-> "group_a_baseline", failure_scenario |-> "F0",
                            concurrency |-> c ]) :
        v \in {"V2", "V3", "V4", "V5"}, c \in {50, 100} }

ComparisonRegistry ==
    Rq1Comparisons \cup Rq2Comparisons \cup Rq3Comparisons \cup Rq4Comparisons

\* comparison_rows: common, and the variant and capability of a side.
Common(r, comp) == \A k \in DOMAIN comp.fixed : r[k] = comp.fixed[k]

Side(data, comp, variant, capability) ==
    { r \in data : /\ Common(r, comp)
                   /\ r.variant = variant
                   /\ capability \in {"", r.downstream_capability} }

RowsA(data, comp) == Side(data, comp, comp.variant_a, comp.capability_a)
RowsB(data, comp) == Side(data, comp, comp.variant_b, comp.capability_b)

-----------------------------------------------------------------------------
\* What distinguishes the conditions of two experiments, apart from the seed.
Condition(r) == [k \in DOMAIN r \ {"seed"} |-> r[k]]

\* What a comparison holds fixed: everything but the variant and the capability.
Setting(r) == [k \in DOMAIN r \ {"seed", "variant", "downstream_capability"} |-> r[k]]

Lost(data) == Matrix \ data

\* The cell of a row in a table of conditions is what the reader takes it for:
\* the runs of the row's condition, one for each seed that is not lost, and
\* nothing of another condition, although no table is keyed by all columns.
CellIsOneCondition(data, r) ==
    \A table \in ConditionTables(data) :
        r \in table.rows =>
            /\ \A q \in Cell(table, r) : Condition(q) = Condition(r)
            /\ { q.seed : q \in Cell(table, r) }
                 = Seeds \ { q.seed : q \in { l \in Lost(data) : Condition(l) = Condition(r) } }

\* A comparison compares like with like: the two sides differ in nothing but the
\* variant and its capability, and hold one run for each seed, so that a lost
\* run leaves them unequal by that run alone.
ComparesLikeWithLike(data, comp) ==
    LET a == RowsA(data, comp)
        b == RowsB(data, comp)
    IN  /\ Cardinality({ Setting(r) : r \in a \cup b }) = 1
        /\ \A side \in {a, b} : Cardinality(side) = Cardinality({ r.seed : r \in side })
        /\ Cardinality(a) + Cardinality(b)
             = 2 * Cardinality(Seeds)
                 - Cardinality(RowsA(Lost(data), comp) \cup RowsB(Lost(data), comp))

=============================================================================
