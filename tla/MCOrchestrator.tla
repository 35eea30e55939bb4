--------------------------- MODULE MCOrchestrator ---------------------------
(***************************************************************************)
(* Instances of the orchestrator for TLC: the attempts are model values    *)
(* that belong to the operations in turn or to one operation, and carry    *)
(* one payload or, for those in OtherPayload, a second one.                *)
(***************************************************************************)
EXTENDS OrchestratorProperties, TLC

CONSTANTS
    OtherPayload    \* the attempts whose arguments, hence hash, differ

\* All attempts belong to one operation.
OneOp == [r \in Requests |-> CHOOSE o \in Ops : TRUE]

Payload == [r \in Requests |-> IF r \in OtherPayload THEN "h2" ELSE "h1"]

\* Attempts of one operation and payload are interchangeable.
Symmetry == Permutations(Requests \ OtherPayload)

With(v, capabilities) == [variant : {v}, capability : capabilities]

\* The ledger-backed variants.  V2 passes no capability on and V4 looks nothing
\* up, so that C1 and C2 for V2 and C2 for V4 would add no behaviour.
LedgerConfigurations ==
    With("V2", {"C0"}) \cup With("V4", {"C0", "C1"}) \cup With("V5", Capability)

\* V0, V1 and V3 keep no ledger; for them nothing but the service matters.
OtherConfigurations == [variant : {"V0", "V1", "V3"}, capability : Capability]

AllConfigurations == LedgerConfigurations \cup OtherConfigurations

\* Without a ledger a scenario either loses the response, as F3 does, or acts like
\* F0: these two stand for all.
SmallInit == Init /\ (LedgerBacked \/ \A r \in Requests : scenario[r] \in {"F0", "F3"})

SmallSpec == SmallInit /\ [][Next]_vars

V4C1 == With("V4", {"C1"})

=============================================================================
