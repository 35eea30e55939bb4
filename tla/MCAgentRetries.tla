--------------------------- MODULE MCAgentRetries ---------------------------
(***************************************************************************)
(* Instances of the retrying agent for TLC: the slots serve one operation  *)
(* with one payload.                                                       *)
(***************************************************************************)
EXTENDS AgentRetries

OneOp == [r \in Requests |-> CHOOSE o \in Ops : TRUE]

LedgerConfigurations == [variant : {"V2", "V4", "V5"}, capability : Capability]
V5C2 == {[variant |-> "V5", capability |-> "C2"]}

OnePayload == [r \in Requests |-> "h1"]

=============================================================================
