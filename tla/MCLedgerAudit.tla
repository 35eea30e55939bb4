---------------------------- MODULE MCLedgerAudit ----------------------------
(***************************************************************************)
(* Instances of the audited orchestrator for TLC.                          *)
(***************************************************************************)
EXTENDS LedgerAudit, TLC

OneOp == [r \in Requests |-> CHOOSE o \in Ops : TRUE]
SamePayload == [r \in Requests |-> "h"]
Symmetry == Permutations(Requests)

V4C0 == { [variant |-> "V4", capability |-> "C0"] }
V5C2 == { [variant |-> "V5", capability |-> "C2"] }

\* A ledger that keeps an ambiguity and one that resolves it.
Ledgers == V4C0 \cup V5C2

=============================================================================
