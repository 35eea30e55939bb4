------------------------------ MODULE MCRerun ------------------------------
(* Two requests of either run, for one operation. *)
EXTENDS Rerun, TLC

OneOp == [r \in Requests |-> CHOOSE o \in Ops : TRUE]
SamePayload == [r \in Requests |-> "h"]

With(v, capabilities) == [variant : {v}, capability : capabilities]

\* A ledger alone, a ledger and a mapping, a reconciliation, and a mapping alone.
Protections ==
    With("V4", {"C0", "C1"}) \cup With("V5", {"C2"}) \cup With("V3", {"C1"})

Symmetry == Permutations(Second) \cup Permutations(Requests \ Second)

=============================================================================
