--------------------------- MODULE MCPhase6Runner ---------------------------
(***************************************************************************)
(* Campaigns in two stages, with a manifest that is not in the order of ids *)
(***************************************************************************)
EXTENDS Phase6Runner

ThreeRows == <<2, 1, 3>>
TwoStages == <<1, 1, 2>>
FourRows == <<2, 1, 4, 3>>
LongStage == <<1, 1, 2, 1>>

CommandLine(stages, experiments, batches, auditOnly) ==
    [stages |-> stages, maxExperiments |-> experiments, maxBatches |-> batches,
     auditOnly |-> auditOnly]

\* An audit, the first stage alone, a limit of experiments, the largest being none, and
\* one of batches, which leaves the first two rows of a stage.
AnyLimits ==
    { CommandLine(Stages, N, N, TRUE), CommandLine(Stages, N, 1, FALSE) } \cup
    { CommandLine({1}, N, N, FALSE) } \cup
    { CommandLine(Stages, m, N, FALSE) : m \in 1..N }

\* No argument at all.
Plain == { CommandLine(Stages, N, N, FALSE) }

=============================================================================
