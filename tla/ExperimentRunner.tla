-------------------------- MODULE ExperimentRunner --------------------------
(***************************************************************************)
(* One run of the experiment runner (run.py), composed with the            *)
(* orchestrator and the services it measures: the attempts it sends for    *)
(* each operation, one at a time or fanned out, the client timeout that    *)
(* gives up on an attempt the orchestrator still works on, and the         *)
(* reading of the observer's effects when all attempts are over for the    *)
(* runner.                                                                 *)
(*                                                                         *)
(* A request is a pair of an operation and the number of its attempt, as   *)
(* in attempt_id.  Back-off and the sleep after IN_PROGRESS only delay     *)
(* what a step may do at any later time, and have no state.                *)
(***************************************************************************)
EXTENDS OrchestratorProperties, Sequences, FiniteSets

CONSTANTS
    Failures,        \* the failure.scenario a configuration may name
    Partial,         \* those with a failure.probability below 1
    MaxAttempts,     \* retry.max_attempts
    Fanout,          \* failure.duplicate_fanout and retry_fanout
    OutageAttempts   \* failure.outage_attempts

Failure == Scenario \cup {"CF1", "CF2", "CF3", "CF4"}

\* The largest number an attempt can have.
Highest == IF MaxAttempts < Fanout THEN Fanout + 1 ELSE MaxAttempts + 1

ASSUME RunnerAssumption ==
    /\ Failures \subseteq Failure
    /\ MaxAttempts \in Nat \ {0}
    /\ Fanout \in Nat \ {0}
    /\ OutageAttempts \in Nat
    /\ Requests = Ops \X (1..Highest)
    /\ OpOf = [r \in Requests |-> r[1]]

VARIABLES
    failure,    \* failure.scenario of the configuration, with F10's mode
    step,       \* how far execute_operation is: the batch it has sent last
    result,     \* result_status of an attempt, NONE before it has one
    rows,       \* the attempts of an operation as events lists them
    tablesRead, \* how many of the tables in ReadOrder have been read
    observed,   \* the effects read_effects returned
    executed    \* the attempts read_service_events returned an execution of

measures == <<tablesRead, observed, executed>>
runnerVars == <<failure, step, result, rows, measures>>
runVars == <<vars, runnerVars>>

-----------------------------------------------------------------------------
(* execute_operation: which attempts are sent together, and with which     *)
(* scenario.                                                               *)

\* The scenario that CF1, CF2 and CF3 give their first attempt.
FirstScenario == [CF1 |-> "F3", CF2 |-> "F3", CF3 |-> "F8"]

\* scenario_override, or the scenario of the configuration.  The outage of F10
\* is staged when outage_attempts is positive; CF4 has F10's default mode.
ScenarioOf(f, n) ==
    IF f \in DOMAIN FirstScenario THEN IF n = 1 THEN FirstScenario[f] ELSE "F0"
    ELSE IF f = "CF4" THEN IF n <= Fanout THEN "F10read" ELSE "F0"
    ELSE IF f \in {"F10read", "F10write"} /\ OutageAttempts > 0 /\ n > OutageAttempts
    THEN "F0"
    ELSE f

\* Strategies that send one attempt after another until one is answered.
Loops == failure \notin {"F6", "F11", "CF2", "CF4"}

\* The numbers of the attempts sent together, in order.
Batches ==
    CASE failure = "F6"             -> << 1..Fanout >>
      [] failure \in {"F11", "CF2"} -> << {1}, 2..(Fanout + 1) >>
      [] failure = "CF4"            -> << 1..Fanout, {Fanout + 1} >>
      [] failure = "F5"             -> [n \in 1..(MaxAttempts + 1) |-> {n}]
      [] OTHER                      -> [n \in 1..MaxAttempts |-> {n}]

\* The attempts of o that were sent last.
Batch(o) ==
    IF step[o] \in DOMAIN Batches THEN { <<o, n>> : n \in Batches[step[o]] } ELSE {}

Sent(r) == result[r] # "NONE" \/ r \in Batch(r[1])

OperationOver(o) == step[o] = Len(Batches) + 1

\* Mutant: as_completed hands on the first attempt that is over.
BatchOver_First(o) == Batch(o) # {} => \E r \in Batch(o) : result[r] # "NONE"

\* Every attempt of the batch is over for the runner.
BatchOver(o) == \A r \in Batch(o) : result[r] # "NONE"

\* Mutant: the loop also breaks on an effect that is confirmed.
LoopBreaks_OnConfirmed(o) ==
    /\ Loops
    /\ step[o] \in 1..MaxAttempts
    /\ failure \in {"CF1", "CF3"} => step[o] > 1
    /\ result[<<o, step[o]>>] \in {"OK", "FAILED_FINAL", "EFFECT_CONFIRMED"}

\* The retry loop breaks.  CF1 and CF3 send their first attempt before the loop
\* and do not look at its result; F5's last attempt comes after it.
LoopBreaks(o) ==
    /\ Loops
    /\ step[o] \in 1..MaxAttempts
    /\ failure \in {"CF1", "CF3"} => step[o] > 1
    /\ result[<<o, step[o]>>] \in {"OK", "FAILED_FINAL"}

\* Mutant: the calls are read first.
ReadOrder_EventsFirst == <<"events", "effects">>

\* The tables read once all futures are done, in transactions of their own.
ReadOrder == <<"effects", "events">>

\* Both are read, and the summary is computed from them.
reported == tablesRead = 2

RunTypeOK ==
    /\ TypeOK
    /\ failure \in Failures
    /\ step \in [Ops -> 0..(Highest + 1)]
    /\ result \in [Requests -> Status \cup {"CLIENT_TIMEOUT", "HTTP_ERROR"}]
    /\ rows \in [Ops -> Seq(Requests)]
    /\ tablesRead \in 0..2
    /\ observed \subseteq Requests
    /\ executed \subseteq Requests

\* The draws of a scenario are the same for all attempts of an operation; a
\* draw that says no leaves F0.
Drawn(o, selected) ==
    /\ ~selected => failure \in Partial
    /\ \A r \in RequestsOf(o) :
          scenario[r] = IF selected THEN ScenarioOf(failure, r[2]) ELSE "F0"

RunInit ==
    /\ Init
    /\ failure \in Failures
    /\ \A o \in Ops : \E selected \in BOOLEAN : Drawn(o, selected)
    /\ step = [o \in Ops |-> 0]
    /\ result = [r \in Requests |-> "NONE"]
    /\ rows = [o \in Ops |-> <<>>]
    /\ tablesRead = 0
    /\ observed = {}
    /\ executed = {}

-----------------------------------------------------------------------------
\* execute_operation goes on: to the next batch or to its end.
Proceed(o) ==
    /\ ~OperationOver(o)
    /\ BatchOver(o)
    /\ failure = "F1" /\ step[o] = 0 => failure \in Partial
    /\ step' = [step EXCEPT ![o] =
                   IF ~LoopBreaks(o) THEN step[o] + 1
                   ELSE IF failure = "F5" THEN MaxAttempts + 1
                   ELSE Len(Batches) + 1]
    /\ UNCHANGED <<failure, result, rows, measures, vars>>

\* F1 is drawn, by the runner, at BEFORE_GATEWAY_RECEIVE: nothing is sent, and the one event
\* there is, agent_request_lost, is no attempt.  F1's draw in the orchestrator is
\* for another hook.
LoseBeforeGateway(o) ==
    /\ failure = "F1"
    /\ step[o] = 0
    /\ step' = [step EXCEPT ![o] = Len(Batches) + 1]
    /\ UNCHANGED <<failure, result, rows, measures, vars>>

\* The attempt is over for the runner with result s.
Record(r, s) ==
    /\ Sent(r)
    /\ result[r] = "NONE"
    /\ result' = [result EXCEPT ![r] = s]
    /\ rows' = [rows EXCEPT ![r[1]] = Append(@, r)]
    /\ UNCHANGED <<failure, step, measures, vars>>

\* The replies that are answered 200; the others are exceptions, which the
\* gateway forwards as an error body whose "status" is the code.
Answered == { "OK", "IN_PROGRESS", "RETRYABLE_FAILURE", "UNKNOWN",
              "EFFECT_CONFIRMED", "CRASH_SIMULATED", "FAILED_FINAL" }

\* invoke gets the reply.
ReceiveReply(r) ==
    /\ pc[r] = "done"
    /\ Record(r, IF reply[r].status \in Answered THEN reply[r].status ELSE "HTTP_ERROR")

\* The orchestrator died with the request: the gateway answers 500.
ReceiveGatewayError(r) ==
    /\ pc[r] = "lost"
    /\ Record(r, "HTTP_ERROR")

\* Mutant: the post has no timeout, only a dead connection ends it.
ClientTimeout_None(r) ==
    /\ pc[r] = "lost"
    /\ Record(r, "CLIENT_TIMEOUT")

\* timeouts.client_ms passes: the runner gives up on an attempt that goes on.
ClientTimeout(r) == Record(r, "CLIENT_TIMEOUT")

\* Mutant: the effects are read while operations are still being executed.
ReadEffects_Early ==
    /\ tablesRead < 2
    /\ ReadOrder[tablesRead + 1] = "effects"
    /\ \A o \in Ops : step[o] > 0
    /\ tablesRead' = tablesRead + 1
    /\ observed' = effects
    /\ UNCHANGED <<failure, step, result, rows, executed, vars>>

\* All futures are done: read_effects.
ReadEffects ==
    /\ tablesRead < 2
    /\ ReadOrder[tablesRead + 1] = "effects"
    /\ \A o \in Ops : OperationOver(o)
    /\ tablesRead' = tablesRead + 1
    /\ observed' = effects
    /\ UNCHANGED <<failure, step, result, rows, executed, vars>>

\* Mutant: a call is logged when its answer has arrived.
LoggedCalls_OnAnswer == { r \in Requests : call[r].phase = "answered" }

\* What execute has logged: logCall writes in the transaction that creates an
\* effect or finds it, and only a call whose transaction is through has one.
LoggedCalls == { r \in Requests : call[r].effect # NoEffect }

\* read_service_events, some time later.
ReadServiceEvents ==
    /\ tablesRead < 2
    /\ ReadOrder[tablesRead + 1] = "events"
    /\ \A o \in Ops : OperationOver(o)
    /\ tablesRead' = tablesRead + 1
    /\ executed' = LoggedCalls
    /\ UNCHANGED <<failure, step, result, rows, observed, vars>>

\* An attempt that was sent is handled, whether or not the runner still waits.
Handled(r) ==
    /\ Sent(r)
    /\ PrepareLedger(r) \/ Execute(r) \/ Reconcile(r) \/ Serve(r) \/ AnswerLost(r)
    /\ UNCHANGED runnerVars

Environment ==
    /\ Crash \/ \E o \in Ops : LeaseExpires(o)
    /\ UNCHANGED runnerVars

\* The summary is written and no attempt is under way any more.
RunFinished ==
    /\ reported
    /\ \A r \in Requests : Sent(r) => pc[r] \in {"done", "lost"}
    /\ UNCHANGED runVars

RunnerStep ==
    \/ \E o \in Ops : Proceed(o) \/ LoseBeforeGateway(o)
    \/ \E r \in Requests : ReceiveReply(r) \/ ReceiveGatewayError(r) \/ ClientTimeout(r)
    \/ ReadEffects
    \/ ReadServiceEvents

RunNext ==
    \/ RunnerStep
    \/ \E r \in Requests : Handled(r)
    \/ Environment
    \/ RunFinished

RunSpec == RunInit /\ [][RunNext]_runVars

\* Only the runner itself is assumed to run, its timer included; orchestrator
\* and services may stop working at any point.
RunFairSpec == RunSpec /\ WF_runVars(RunnerStep)

-----------------------------------------------------------------------------
(* summarize_operations.                                                   *)

\* final_state of a reply; errors and timeouts have none.
FinalStateOf(r) ==
    CASE result[r] = "OK" /\ LedgerBacked              -> "COMPLETED"
      [] result[r] = "OK" /\ Variant = "V3"            -> "SERVICE_DEDUPED"
      [] result[r] = "OK" /\ Variant \in {"V0", "V1"}  -> "NO_LEDGER"
      [] result[r] \in {"IN_PROGRESS", "CRASH_SIMULATED"} -> "EXECUTING"
      [] result[r] \in {"CLIENT_TIMEOUT", "HTTP_ERROR"}   -> ""
      [] OTHER                                         -> result[r]

\* Mutant: the first attempt's state instead of the last one's.
FinalState_First(o) == IF rows[o] = <<>> THEN "NO_ATTEMPT" ELSE FinalStateOf(Head(rows[o]))

FinalState(o) ==
    IF rows[o] = <<>> THEN "NO_ATTEMPT" ELSE FinalStateOf(rows[o][Len(rows[o])])

\* valid_final_state, which phase 6 asks of every operation of a run: FINAL_STATES,
\* or no state after an error or a timeout.
ValidFinalState(o) ==
    FinalState(o) \in { "COMPLETED", "UNKNOWN", "FAILED_FINAL", "EXECUTING", "",
                       "RETRYABLE_FAILURE", "NO_LEDGER", "NO_ATTEMPT", "SERVICE_DEDUPED" }

EffectCount(o) == Cardinality({ e \in observed : OpOf[e] = o })

\* The attempts of o that came back saying replayed.
Replayed(o) == { r \in RequestsOf(o) : result[r] \in Answered /\ reply[r].replayed }

(* fault_reachability_summary, operation by operation.                     *)

ResultStatus(o) == IF rows[o] = <<>> THEN "NO_ATTEMPT" ELSE result[rows[o][Len(rows[o])]]

\* Scenarios whose hook is behind the call of the service.
AfterCall == {"F3", "F8", "F12", "CF1", "CF2", "CF3"}

\* reached_fault_hook counts o.
Reached(o) ==
    \/ /\ failure \in AfterCall \cup {"F4", "F9"}
       /\ \E r \in executed : OpOf[r] = o
    \/ failure \in {"F2", "F7", "F10read", "F10write", "CF4"} /\ rows[o] # <<>>
    \/ failure \in {"F1", "F6", "F11"}

\* fault_injected counts o.  F10's would begin with HTTP_503, and no result does.
Injected(o) ==
    \/ /\ failure \in AfterCall
       /\ FinalState(o) \in {"UNKNOWN", "EXECUTING", "COMPLETED", "NO_LEDGER"}
    \/ failure \in {"F2", "F7"} /\ ResultStatus(o) = "RETRYABLE_FAILURE"
    \/ failure \in {"F6", "F11", "CF4"}

-----------------------------------------------------------------------------
\* No attempt was given up by the runner, none was lost in a restart.
Undisturbed ==
    /\ crashes = 0
    /\ \A r \in Requests : result[r] # "CLIENT_TIMEOUT"

\* An effect the agent was told of is in the measurement: whatever attempts
\* were abandoned on the way, an operation with an OK is never counted as lost
\* (LER).
OkIsCounted ==
    reported => \A r \in Requests :
        result[r] = "OK" => EffectCount(OpOf[r]) > 0 /\ reply[r].effect \in observed

\* Ground truth is read after the run (experiment-design.md: "Analysis reads
\* observer rows only after a run to compute effect_count"): no effect of the
\* run appears after read_effects.
MeasurementIsFinal == reported => observed = effects

\* It holds of a run in which nothing timed out and nothing restarted: no
\* handler answers before the service is through with its call.
MeasurementIsFinalIfUndisturbed == Undisturbed => MeasurementIsFinal

\* Effects and service events are read one after the other while abandoned
\* attempts may still commit, yet the two tables fit together.  What is counted as
\* an effect has its call counted too, so DAF is never below the effects per
\* operation; and a call whose attempt got an answer is counted with the effect it
\* created or found, so the calls without an effect are those of attempts the
\* runner gave up on or was sent an error for.
TablesAgree ==
    reported =>
        /\ observed \subseteq executed
        /\ \A r \in executed : result[r] \in Answered => call[r].effect \in observed

\* No call of a service failed before its transaction was through.
NoCallFailed == \A r \in Requests : call[r].phase = "failed" => call[r].effect # NoEffect

\* fault_injected infers a fault from how an operation ended, reached_fault_hook
\* from the calls the services have logged.  Where nothing fails but what the
\* scenario injects the two agree: no fault is counted as injected at a hook that
\* was not reached, although the final state of an operation may be told by
\* another attempt than the one that called.  A service that fails is counted as
\* an injected fault.
InjectedWasReached ==
    reported /\ Undisturbed /\ NoCallFailed => \A o \in Ops : Injected(o) => Reached(o)

\* final_state in operations.csv, from which UAR counts the operations that are
\* UNKNOWN, is that of the last row appended, in a fan-out that of the last attempt
\* to complete, while the others and those given up may still write the ledger.
\* Even so no operation is reported COMPLETED that is not, nor, where nothing is
\* looked up, one UNKNOWN that was resolved; with a lookup another attempt may
\* resolve it after the one whose row is last.  Where attempts follow one another
\* and none was given up, final_state is the state of the ledger throughout.
FinalStateIsLedgerState ==
    reported /\ LedgerBacked =>
        \A o \in Ops :
            /\ FinalState(o) = "COMPLETED" => ledger[o].state = "COMPLETED"
            /\ FinalState(o) = "UNKNOWN" /\ ~MayRedispatch => ledger[o].state = "UNKNOWN"
            /\ \/ ~Loops
               \/ FinalState(o) \in {"NO_ATTEMPT", "", ledger[o].state}
               \/ \E r \in RequestsOf(o) : result[r] = "CLIENT_TIMEOUT"

\* A run that ends is one phase 6 takes as valid, instead of setting it aside
\* and running it again until it does: every operation ends in a state its
\* validation knows.  EFFECT_CONFIRMED is not among them, so an F9 operation has
\* to be recovered by a later attempt; it is left over only when none is left.
RunValidates ==
    reported => \A o \in Ops :
        \/ ValidFinalState(o)
        \/ failure = "F9" /\ result[<<o, MaxAttempts>>] = "EFFECT_CONFIRMED"

\* RRR relates replays to retries: an operation has more attempts than replayed
\* ones, since the one that had the effect created does not say "replayed",
\* not even when its reply comes late or by way of a reconciliation.
ReplaysAreRetries ==
    reported => \A o \in Ops :
        rows[o] # <<>> => Cardinality(Replayed(o)) < Len(rows[o])

\* A run ends, also when orchestrator and services hang for ever.
RunEnds == <>reported

=============================================================================
