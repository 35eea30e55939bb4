---------------------------- MODULE LedgerStates ----------------------------
(***************************************************************************)
(* The states of runtime.execution_ledger and the transitions the database *)
(* function runtime.is_legal_ledger_transition admits                      *)
(* (src/database/migrations/V1__initial_schema.sql).                       *)
(***************************************************************************)

\* The enum runtime.ledger_state.
LedgerState ==
    { "RECEIVED", "CLAIMED", "EXECUTING", "UNKNOWN", "RECONCILING",
      "EFFECT_CONFIRMED", "COMPLETED", "RETRYABLE_FAILURE", "FAILED_FINAL" }

\* An operation that has no row: the NULL state_before of its first transition.
Absent == "ABSENT"

\* The pairs is_legal_ledger_transition lists one by one.
ListedTransitions ==
    { <<"RECEIVED", "CLAIMED">>,
      <<"CLAIMED", "EXECUTING">>,
      <<"EXECUTING", "EFFECT_CONFIRMED">>,
      <<"EXECUTING", "RETRYABLE_FAILURE">>,
      <<"EXECUTING", "UNKNOWN">>,
      <<"UNKNOWN", "RECONCILING">>,
      <<"RECONCILING", "EFFECT_CONFIRMED">>,
      <<"RECONCILING", "RETRYABLE_FAILURE">>,
      <<"RECONCILING", "UNKNOWN">>,
      <<"EFFECT_CONFIRMED", "COMPLETED">>,
      <<"RETRYABLE_FAILURE", "CLAIMED">> }

IsLegal(before, after) ==
    \/ before = Absent
    \/ after = "FAILED_FINAL"
    \/ <<before, after>> \in ListedTransitions
    \/ before = after

=============================================================================
