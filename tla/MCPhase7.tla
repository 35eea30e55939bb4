------------------------------ MODULE MCPhase7 ------------------------------
(***************************************************************************)
(* Phase 7.  The process: three experiments in two stages, and phase 7 run *)
(* at any time.  What it computes, which is pure: one question instead of  *)
(* a process, over every small input: a run of the matrix, with or without *)
(* its result; a comparison, with or without one of the runs of its group; *)
(* two samples; the p-values of a family; a run's rates; the inventory.    *)
(***************************************************************************)
EXTENDS Publication, PaperTables, Statistics, Metrics, Phase5Plans

CONSTANTS Values,      \* measured values
          MaxSample,   \* length of a sample
          One,         \* the parts p-values are counted in
          Family,      \* rows of a family of comparisons
          Operations,  \* operations of a run
          MaxEvents    \* rows of its events.csv

ASSUME QuestionsAssumption ==
    /\ Values \subseteq Int /\ MaxSample \in Nat
    /\ One \in Nat
    /\ Family \subseteq Int /\ IsFiniteSet(Family)
    /\ IsFiniteSet(Operations) /\ MaxEvents \in Nat

VARIABLE question

ThreeRows == <<2, 1, 3>>
TwoStages == <<1, 1, 2>>

CommandLine(stages, auditOnly) ==
    [stages |-> stages, maxExperiments |-> N, maxBatches |-> N, auditOnly |-> auditOnly]

\* An audit, or all that is left to do.
AuditOrAll == { CommandLine(Stages, TRUE), CommandLine(Stages, FALSE) }

EveryMode == {"all", "extract", "analyze", "export"}

-----------------------------------------------------------------------------
Samples == UNION { [1..n -> Values] : n \in 1..MaxSample }

AskRun(r, lost) == question' = [kind |-> "run", row |-> r, data |-> Matrix \ lost]

SameCondition(r) == { q \in Matrix \ {r} : Condition(q) = Condition(r) }

AskComparison(comp, lost) ==
    question' = [kind |-> "comparison", comp |-> comp, data |-> Matrix \ lost]

AskSamples(a, b) == question' = [kind |-> "samples", a |-> a, b |-> b]

AskFamily(p) == question' = [kind |-> "family", p |-> p]

\* What an attempt may come back with, what the services log, and the request F1
\* loses before it is an attempt.
Event(type, final, replayed, reconciled) ==
    [ op : Operations, type : {type}, final : {final}, replayed : {replayed}, reconciled : {reconciled} ]

Events ==
    Event("agent_attempt", "COMPLETED", FALSE, FALSE) \cup Event("agent_attempt", "COMPLETED", TRUE, FALSE)
    \cup Event("agent_attempt", "COMPLETED", FALSE, TRUE) \cup Event("agent_attempt", "UNKNOWN", FALSE, FALSE)
    \cup Event("agent_attempt", "", FALSE, FALSE) \cup Event("agent_request_lost", "NO_LEDGER", FALSE, FALSE)
    \cup Event("downstream_execute", "", FALSE, FALSE)

AskInventory(missing) == question' = [kind |-> "inventory", missing |-> missing]

AskRates(run) == question' = [kind |-> "rates", run |-> run]

Ask ==
    \/ \E r \in Matrix : \E lost \in {{}} \cup { {q} : q \in SameCondition(r) } : AskRun(r, lost)
    \/ \E comp \in ComparisonRegistry : \E lost \in {{}} \cup { {r} : r \in InGroup(Matrix, comp.fixed.group) } :
          AskComparison(comp, lost)
    \/ \E a, b \in Samples : AskSamples(a, b)
    \/ \E tested \in SUBSET Family : \E p \in [tested -> 0..One] : AskFamily(p)
    \/ \E missing \in {{}} \cup { {id} : id \in DefaultPlan } : AskInventory(missing)
    \/ \E measured \in (SUBSET Operations) \ {{}}, n \in 0..MaxEvents :
          \E events \in [1..n -> Events], effects \in [Operations -> 0..2] :
             AskRates([measured |-> measured, events |-> events, effects |-> effects])

\* The process, or a question; no question is asked of a process that has begun.
Processes == question.kind = "none" /\ Next7 /\ UNCHANGED question

Questions ==
    /\ question.kind = "none" /\ Init7
    /\ Ask
    /\ UNCHANGED allVars

Answered == question.kind # "none" /\ UNCHANGED <<allVars, question>>

Phase7Init == Init7 /\ question = [kind |-> "none"]
Phase7Next == Processes \/ Questions \/ Answered
Phase7Spec == Phase7Init /\ [][Phase7Next]_<<allVars, question>>

-----------------------------------------------------------------------------
\* Every planned experiment has an id of its own, passes the harness's checks of
\* the manifest (validate_phase6_manifest, load_manifest) and belongs to exactly
\* one stage of the runner.
EveryRunIsPlannedOnce == question.kind = "run" => PlannedOnce(question.row)

\* The cell a run is counted in holds the runs of its condition and no others, in
\* every table that reports one condition per cell, also when a run is lost.
CellsAreConditions == question.kind = "run" => CellIsOneCondition(question.data, question.row)

\* The registered comparisons of effect_sizes compare like with like.
ComparisonsAreBalanced ==
    question.kind = "comparison" => ComparesLikeWithLike(question.data, question.comp)

\* What the comparisons report means what it says: mann_whitney_p sees in two
\* samples the evidence cliffs_delta sees, ties included, and the values of
\* holm_adjust reject at any level what Holm's step-down procedure rejects,
\* whatever the order of the rows and with rows that were not testable.
TestsAreSound ==
    /\ question.kind = "samples" => TestAndEffectAgree(question.a, question.b)
    /\ question.kind = "family" => AdjustedRejectsLikeStepDown(question.p, One)

\* Every recomputation of a run's rates gives what its summary says, so that a run
\* is not thrown away, or published differently, by a slip of the bookkeeping; the
\* one exception, RRR in metrics_audit, is told apart.  And RRR is a share of the
\* retries, unless an operation has no attempt but replays.
RatesAgree ==
    question.kind = "rates" =>
        RecomputationsAgree(question.run) /\ ReplayRateIsBounded(question.run)

\* The inventory of phase 5 says COMPLETE when all runs of the sweeps are there, and
\* of no family that lacks one.
InventoryMatchesPlans == question.kind = "inventory" => InventoryTellsWhatIsMissing(question.missing)

=============================================================================
