---------------------------- MODULE Phase6Matrix ----------------------------
(***************************************************************************)
(* The experiments of phase 6: what generate_phase6_matrix of the phase 5  *)
(* harness plans, the checks its readers make of the manifest, and the     *)
(* stages the phase 6 runner works through it by.                          *)
(*                                                                         *)
(* A row is a record with the columns of manifest.csv the analysis reads;  *)
(* probabilities are per cent, 0 stands for an empty fanout column, suffix *)
(* is what add appends to the id.  Every row has the same operations,      *)
(* warm-up and timeouts: they are left out.                                *)
(***************************************************************************)
EXTENDS Naturals, Sequences, FiniteSets

CONSTANT Seeds

ASSUME SeedsAssumption == Seeds # {} /\ IsFiniteSet(Seeds)

-----------------------------------------------------------------------------
Variants == {"V0", "V1", "V2", "V3", "V4", "V5"}

CapFor(variant) ==
    CASE variant = "V0" -> "C0"
      [] variant = "V5" -> "C2"
      [] OTHER -> "C1"

Planned(group, workload, variant, cap, failure, prob, conc, fanout, suffix, seed) ==
    [ group |-> group, workload |-> workload, variant |-> variant,
      downstream_capability |-> cap, failure_scenario |-> failure,
      failure_probability |-> prob, concurrency |-> conc, fanout |-> fanout,
      suffix |-> suffix, seed |-> seed ]

Baseline(seed) ==
    { Planned("group_a_baseline", "create_order", v, CapFor(v), "F0", 0, c, 0, "", seed) :
        v \in Variants, c \in {1, 10, 50, 100} }

Ambiguous(seed) ==
    { Planned("group_b_ambiguous", "create_order", v, CapFor(v), f, p, c, 0, "", seed) :
        f \in {"F3", "F4", "F8", "F9"}, v \in Variants, p \in {1, 5, 10, 20}, c \in {10, 50} }

Duplicates(seed) ==
    { Planned("group_c_duplicates", "create_order", v, CapFor(v), f, 0, 50, n, "", seed) :
        f \in {"F5", "F6", "F11"}, v \in Variants, n \in {2, 5, 10} }

\* Mutant: the rows of the capability group get no suffix.
CapabilityRows_NoSuffix(seed) ==
    { Planned("group_d_capability", "create_order", vc[1], vc[2], f, 10, 50, 0, "", seed) :
        vc \in ({"V2", "V3", "V4", "V5"} \X {"C0", "C1", "C2"}) \ {<<"V3", "C0">>},
        f \in {"F3", "F8"} }

CapabilityRows(seed) ==
    { Planned("group_d_capability", "create_order", vc[1], vc[2], f, 10, 50, 0, "_CAP", seed) :
        vc \in ({"V2", "V3", "V4", "V5"} \X {"C0", "C1", "C2"}) \ {<<"V3", "C0">>},
        f \in {"F3", "F8"} }

SafeControls(seed) ==
    { Planned("group_e_safe_controls", "create_order", v, CapFor(v), f, 10, 50, 0, "", seed) :
        f \in {"F1", "F2", "F7"}, v \in Variants }

Generalization(seed) ==
    { Planned("group_f_generalization", w, v, CapFor(v), f, 10, 50, 0, "", seed) :
        w \in {"charge_payment", "reserve_inventory", "send_notification"},
        v \in {"V0", "V2", "V4", "V5"}, f \in {"F3", "F8"} }

\* generate_phase6_matrix.
Matrix ==
    UNION { Baseline(s) \cup Ambiguous(s) \cup Duplicates(s) \cup CapabilityRows(s)
              \cup SafeControls(s) \cup Generalization(s) : s \in Seeds }

\* The id add makes of a row.  It names the file of the configuration, the run
\* directories, the status row and, as a prefix, every operation of the run.
\* The group is not in it.
ExperimentId(r) ==
    << r.workload, r.variant, r.downstream_capability, r.failure_scenario,
       r.failure_probability, r.concurrency, r.fanout, r.suffix, r.seed >>

-----------------------------------------------------------------------------
\* STAGE_DEFINITIONS: a stage is a group, or the rows of it with one failure
\* or one workload; "" where the definition does not say.
StageDef(group, failure, workload) ==
    [group |-> group, failure |-> failure, workload |-> workload]

StageDefinitions ==
    << StageDef("group_a_baseline", "", ""),
       StageDef("group_b_ambiguous", "F3", ""),
       StageDef("group_b_ambiguous", "F4", ""),
       StageDef("group_b_ambiguous", "F8", ""),
       StageDef("group_b_ambiguous", "F9", ""),
       StageDef("group_c_duplicates", "F5", ""),
       StageDef("group_c_duplicates", "F6", ""),
       StageDef("group_c_duplicates", "F11", ""),
       StageDef("group_d_capability", "", ""),
       StageDef("group_e_safe_controls", "", ""),
       StageDef("group_f_generalization", "", "charge_payment"),
       StageDef("group_f_generalization", "", "reserve_inventory"),
       StageDef("group_f_generalization", "", "send_notification") >>

\* Mutant: the failure of the definition is not looked at.
RowMatchesStage_AnyFailure(r, def) ==
    r.group = def.group /\ def.workload \in {"", r.workload}

\* row_matches_stage.
RowMatchesStage(r, def) ==
    /\ r.group = def.group
    /\ def.failure \in {"", r.failure_scenario}
    /\ def.workload \in {"", r.workload}

StagesOf(r) == { i \in DOMAIN StageDefinitions : RowMatchesStage(r, StageDefinitions[i]) }

-----------------------------------------------------------------------------
\* What load_manifest refuses a manifest for: rows that share an id.
SharesItsId(r) == \E q \in Matrix : q # r /\ ExperimentId(q) = ExperimentId(r)

\* What validate_phase6_manifest looks for, in a row and in their number, which
\* has to be 3340 for ten seeds.
RowIsValid(r) ==
    /\ Cardinality(Matrix) = 334 * Cardinality(Seeds)
    /\ ~SharesItsId(r)
    /\ r.variant = "V3" => r.downstream_capability # "C0"
    /\ r.group = "group_c_duplicates" => r.fanout > 0
    /\ r.group = "group_d_capability" => r.suffix = "_CAP"

\* Each planned experiment can be told from every other by its id alone, passes
\* the harness's own checks, and is worked on in exactly one stage: the stages
\* leave nothing out and no limit of one stage holds for rows of another.
PlannedOnce(r) == RowIsValid(r) /\ Cardinality(StagesOf(r)) = 1

=============================================================================
