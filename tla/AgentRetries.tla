---------------------------- MODULE AgentRetries ----------------------------
(***************************************************************************)
(* The orchestrator under an agent that does not give up: run.py's retry   *)
(* loops send another attempt for an operation until one is answered OK or *)
(* FAILED_FINAL, the later ones, as in the compound and staged loops,      *)
(* under scenario F0.                                                      *)
(*                                                                         *)
(* Requests are slots: an attempt that ended without an OK and left no     *)
(* effect behind makes room for the next one, so that an unbounded number  *)
(* of attempts needs a bounded number of names.                            *)
(***************************************************************************)
EXTENDS OrchestratorProperties

\* The attempt in slot r is over and nothing of it is left anywhere: no OK, no
\* effect, no call under way.
Over(r) ==
    /\ pc[r] \in {"done", "lost"}
    /\ reply[r].status \notin {"OK", "FAILED_FINAL"}
    /\ r \notin effects
    /\ call[r].phase \notin {"received", "creating"}

\* The agent's next attempt, with a new attempt_id, takes the slot.
Retry(r) ==
    /\ Over(r)
    /\ pc' = [pc EXCEPT ![r] = "idle"]
    /\ reply' = [reply EXCEPT ![r] = NoReply]
    /\ scenario' = [scenario EXCEPT ![r] = "F0"]
    /\ call' = [call EXCEPT ![r].phase = "none", ![r].cap = "C0",
                            ![r].effect = NoEffect, ![r].replayed = FALSE]
    /\ UNCHANGED <<config, ledger, crashes, idempotency, effects>>

RetryNext == Next \/ \E r \in Requests : Retry(r)

\* Threads run, leases expire, services finish their calls and the agent keeps
\* retrying.  A lookup, and an execution up to its commit, may fail any number
\* of times but not forever.
Fairness ==
    /\ \A r \in Requests :
          /\ WF_vars(PrepareLedger(r))
          /\ WF_vars(Execute(r))
          /\ WF_vars(Reconcile(r))
          /\ WF_vars(Serve(r))
          /\ WF_vars(Retry(r))
          /\ SF_vars(Lookup(r))
          /\ SF_vars(Serve(r) /\ BeginCreate(r))
          /\ SF_vars(Serve(r) /\ CommitEffect(r))
    /\ \A o \in Ops : WF_vars(LeaseExpires(o))

RetrySpec == Init /\ [][RetryNext]_vars /\ Fairness

-----------------------------------------------------------------------------
\* Whatever faults the first attempts meet, an operation the agent keeps
\* retrying is settled in the end.  V5 over C2 completes it (architecture.md:
\* "explicit UNKNOWN -> RECONCILING recovery"); the other ledgers recover no
\* ambiguity, but do not hang either: it ends COMPLETED or is reported UNKNOWN,
\* never IN_PROGRESS for good, also after a restart in the middle of its
\* execution.  The one exception is a restart in the middle of a reconciliation.
EventuallySettled ==
    \A o \in Ops :
        <>[](\/ ~LedgerBacked
             \/ ledger[o].state = "COMPLETED"
             \/ ledger[o].state = "UNKNOWN" /\ ~MayRedispatch
             \/ ledger[o].state = "RECONCILING" /\ crashes > 0)

\* A reconciliation that has started is resolved (architecture.md: "V5 may
\* resolve RECONCILING to EFFECT_CONFIRMED or RETRYABLE_FAILURE").
ReconciliationEnds ==
    \A o \in Ops :
        ledger[o].state = "RECONCILING" ~> ledger[o].state # "RECONCILING"

=============================================================================
