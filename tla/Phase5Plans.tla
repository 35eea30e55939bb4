----------------------------- MODULE Phase5Plans -----------------------------
(***************************************************************************)
(* What the sweeps of the phase 5 harness (analysis/phase5_harness.py)     *)
(* run: one experiment for each pass through their loops, and the id that  *)
(* names its directory; and the inventory, which counts directories by the *)
(* beginnings of their names.                                              *)
(*                                                                         *)
(* An id is a tuple of the parts its format string puts in; the first is   *)
(* the word after PH5_.  Parts that are the same in every id of a sweep    *)
(* are left out.                                                           *)
(***************************************************************************)
EXTENDS Integers, Sequences, FiniteSets

\* The variants most sweeps compare, with the capability of each.
Compared == { <<"V0", "C0">>, <<"V2", "C0">>, <<"V4", "C1">>, <<"V5", "C2">> }

Scenarios == { "F0", "F1", "F2", "F3", "F4", "F5", "F6", "F7", "F8", "F9", "F10", "F11", "F12" }

Ids(word, conditions) == { <<word>> \o c : c \in conditions }

\* Percent of the operations that draw a fault, int(prob*100).
StressRate(scenario) == IF scenario \in {"F0", "F5", "F6", "F11"} THEN 0 ELSE 10

BaselineQualification(seeds) == Ids("BASELINE", Compared \X {10, 50, 100} \X seeds)

Stress(seeds) ==
    Ids("STRESS", { <<v, s, StressRate(s), conc, seed>> :
                       v \in Compared, s \in Scenarios, conc \in {50, 100}, seed \in seeds })

\* The scenario is the word, and there is one seed.
Compounds == UNION { Ids(scenario, { <<v>> : v \in Compared }) : scenario \in {"CF1", "CF2", "CF3", "CF4"} }

\* Mutant: V3 is run also where the service keeps no mapping.
Capabilities_V3OverC0(seeds) ==
    Ids("CAP", {"V2", "V3", "V4", "V5"} \X {"C0", "C1", "C2"} \X {"F3", "F8", "F12"} \X seeds)

\* V3 over C0 has a row in the table and no run.
Capabilities(seeds) ==
    Ids("CAP", { c \in {"V2", "V3", "V4", "V5"} \X {"C0", "C1", "C2"} \X {"F3", "F8", "F12"} \X seeds :
                   ~(c[1] = "V3" /\ c[2] = "C0") })

FairnessAudit(seeds) == Ids("FAIR", Compared \X seeds)

\* The i-th of 50 mixed experiments takes variant and scenario by turns.
Turn(cycle, i) == cycle[(i % Len(cycle)) + 1]

Isolation ==
    Ids("ISOLATION", { <<Turn(<<"V0", "V2", "V4", "V5">>, i),
                         Turn(<<"F0", "F3", "F4", "F6", "F8", "F11">>, i), i>> : i \in 0..49 })

Restart == Ids("RESTART", {"BEFORE", "AFTER"} \X {"tool-gateway", "orchestrator", "order-service"})

Resources == Ids("RESOURCE", { <<i>> : i \in 0..19 })

LedgerGrowth == Ids("LEDGER", { <<v>> : v \in {"V2", "V4", "V5"} })

Lease == Ids("LEASE", { <<s>> : s \in {"F0", "F2", "F8", "F6"} })

Warmup == { <<"WARMUP">> }

Prestudy(seeds) ==
    Ids("PRE", { <<v, s, IF s \in {"F0", "F6"} THEN 0 ELSE 10, conc, seed>> :
                    v \in Compared, s \in {"F0", "F3", "F8", "F6"}, conc \in {10, 50}, seed \in seeds })

Probability(seeds) == Ids("PROB", {1, 5, 10, 20} \X seeds)

Workloads == { "create_order", "charge_payment", "reserve_inventory", "send_notification" }

GeneralizationAudit == Ids("GEN", Workloads \X (Compared \ {<<"V2", "C0">>}) \X {"F3", "F8"})

LedgerOutage ==
    Ids("F10", (Compared \ {<<"V0", "C0">>}) \X {"read", "write"}
                 \X {"shorter_than_retry_interval", "approximately_one_retry_interval",
                     "longer_than_one_retry_interval"})

RetryStorm == Ids("F11", Compared \X {5, 10} \X {50, 100})

\* The experiments of every sweep with its default seeds.
DefaultPlan ==
    UNION { BaselineQualification({5001, 5002, 5003}), Stress({5101}), Compounds,
            Capabilities({5101, 5102, 5103}), FairnessAudit(5201..5205), Isolation, Restart,
            Resources, LedgerGrowth, Lease, Warmup, Prestudy(5301..5305),
            Probability({5401, 5402, 5403}), GeneralizationAudit, LedgerOutage, RetryStorm }

-----------------------------------------------------------------------------
(* write_phase5_inventory. *)

\* The word a name of each family goes on with after PH5_.
Families ==
    [ baseline_runs |-> {"BASELINE"}, stress_runs |-> {"STRESS"},
      compound_runs |-> {"CF1", "CF2", "CF3", "CF4"}, capability_runs |-> {"CAP"},
      isolation_runs |-> {"ISOLATION"}, restart_runs |-> {"RESTART"},
      resource_runs |-> {"RESOURCE"}, lease_runs |-> {"LEASE"},
      prestudy_runs |-> {"PRE"}, generalization_runs |-> {"GEN"} ]

Required ==
    [ baseline_runs |-> 36, stress_runs |-> 104, compound_runs |-> 16, capability_runs |-> 99,
      isolation_runs |-> 50, restart_runs |-> 6, resource_runs |-> 20, lease_runs |-> 4,
      prestudy_runs |-> 160, generalization_runs |-> 24 ]

\* Which families have as many directories as they should have; a directory
\* counts however far its runs have come.
CompleteFamilies(directories) ==
    { f \in DOMAIN Required : Cardinality({ id \in directories : id[1] \in Families[f] }) >= Required[f] }

\* With the default seeds the sweeps make exactly the directories the inventory
\* asks for: it says COMPLETE of a family when they are all there, and
\* INCOMPLETE as soon as one of them is missing, which takes ids that tell all
\* runs of a sweep apart.
InventoryTellsWhatIsMissing(missing) ==
    CompleteFamilies(DefaultPlan \ missing)
      = { f \in DOMAIN Required : \A id \in missing : id[1] \notin Families[f] }

=============================================================================
