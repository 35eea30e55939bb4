------------------------- MODULE MCExperimentRunner -------------------------
(***************************************************************************)
(* Instances of a run for TLC.                                             *)
(***************************************************************************)
EXTENDS ExperimentRunner

Attempts == Ops \X (1..Highest)
Operation == [r \in Requests |-> r[1]]
SamePayload == [r \in Requests |-> "h"]

\* A configuration for each way an effect is protected.
Protections ==
    { [variant |-> "V3", capability |-> "C1"], [variant |-> "V4", capability |-> "C0"],
      [variant |-> "V5", capability |-> "C2"] }

=============================================================================
