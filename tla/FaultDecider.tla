---------------------------- MODULE FaultDecider ----------------------------
(***************************************************************************)
(* The orchestrator's FaultDecider: which of its five hooks a request's    *)
(* failure scenario fires.  A decision is drawn once per seed, operation,  *)
(* scenario and hook from a digest, so it is the same on every attempt     *)
(* with that scenario; a request whose draw says no behaves exactly as one *)
(* with scenario F0 and is modelled as such.                               *)
(***************************************************************************)

Hook == { "LEDGER_READ", "LEDGER_WRITE", "BEFORE_DOWNSTREAM_DISPATCH",
          "BEFORE_EFFECT_CONFIRMATION_PERSIST", "BEFORE_FINAL_RESULT_PERSIST",
          "AFTER_DOWNSTREAM_RESPONSE" }

\* The scenarios the runner sends to the orchestrator.  F10 carries its
\* ledgerFailureMode, "read" when the request has none.
Scenario == { "F0", "F1", "F2", "F3", "F4", "F5", "F6", "F7", "F8", "F9",
              "F10read", "F10write", "F11", "F12" }

\* scenarioHook, with the filter of the F10 modes that inject applies first.
ScenarioHook(scenario, hook) ==
    \/ scenario \in {"F1", "F2", "F7"} /\ hook = "BEFORE_DOWNSTREAM_DISPATCH"
    \/ scenario \in {"F3", "F8", "F12"} /\ hook = "BEFORE_EFFECT_CONFIRMATION_PERSIST"
    \/ scenario = "F4" /\ hook = "AFTER_DOWNSTREAM_RESPONSE"
    \/ scenario = "F9" /\ hook = "BEFORE_FINAL_RESULT_PERSIST"
    \/ scenario = "F10read" /\ hook = "LEDGER_READ"
    \/ scenario = "F10write" /\ hook = "LEDGER_WRITE"

=============================================================================
