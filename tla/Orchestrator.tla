---------------------------- MODULE Orchestrator ----------------------------
(***************************************************************************)
(* The orchestrator (OrchestratorApplication.java) composed with the       *)
(* downstream service it dispatches to: the handling of POST /invoke by    *)
(* concurrent requests over the execution ledger, for the six variants.    *)
(*                                                                         *)
(* Each ledger transaction is one step: findLedger locks the row FOR       *)
(* UPDATE and an exception rolls everything back.  The one place where a   *)
(* transaction's decision is taken before it holds a lock, a find that     *)
(* returns no row followed by INSERT ... ON CONFLICT DO NOTHING, is two    *)
(* steps.  Calls to the service are outside every transaction.             *)
(***************************************************************************)
EXTENDS Naturals, LedgerStates, FaultDecider, DownstreamService

CONSTANTS
    Configurations,   \* the variant and capability an experiment may have
    HashOf,           \* the request_hash of an attempt
    Scenarios,        \* the failure scenarios the attempts may carry
    MaxCrashes        \* bound on restarts of the orchestrator process

\* variant and downstreamCapability of a request.
Configuration == [ variant    : {"V0", "V1", "V2", "V3", "V4", "V5"},
                   capability : Capability ]

ASSUME ConfigAssumption ==
    /\ Configurations \subseteq Configuration
    /\ Scenarios \subseteq Scenario
    /\ MaxCrashes \in Nat

VARIABLES
    config,     \* the configuration, which all requests of an experiment carry
    scenario,   \* the failure scenario of a request
    pc,         \* where the handler of a request is
    ledger,     \* runtime.execution_ledger: the row of an operation
    reply,      \* what /invoke answers to a request
    crashes     \* restarts so far

orchVars == <<config, scenario, pc, ledger, reply, crashes>>
vars == <<config, scenario, pc, ledger, reply, crashes, call, idempotency, effects>>

-----------------------------------------------------------------------------
Variant == config.variant
DownstreamCapability == config.capability

LedgerBacked == Variant \in {"V2", "V4", "V5"}
AllowReconcile == Variant = "V5"
PropagateIdentity == Variant \in {"V4", "V5"}

\* The capability invoke passes to dispatch.
DispatchCapability ==
    IF Variant \in {"V1", "V3"} \/ PropagateIdentity
    THEN DownstreamCapability
    ELSE "C0"

Phase == { "idle",          \* not yet handled
           "inserting",     \* prepareLedger found no row, is about to insert it
           "proceed",       \* the claim is committed: PROCEED
           "waiting",       \* execute has been called
           "delayed",       \* the reply is ready but sleeps (F4)
           "reconcile",     \* RECONCILE, before start-reconciliation
           "lookup",        \* RECONCILING is committed, lookup not yet called
           "found", "absent", "inconclusive",    \* what the lookup returned
           "done",          \* the reply has left
           "lost" }         \* the process died with the request in it

\* Phases in which the orchestrator holds the request.
InFlight == Phase \ {"idle", "done", "lost"}

Status == { "NONE", "OK", "IN_PROGRESS", "RETRYABLE_FAILURE", "UNKNOWN",
            "EFFECT_CONFIRMED", "CRASH_SIMULATED", "FAILED_FINAL",
            "OPERATION_ID_CONFLICT", "ILLEGAL_OR_STALE_LEDGER_TRANSITION",
            "LEDGER_READ_UNAVAILABLE", "LEDGER_WRITE_UNAVAILABLE",
            "DISPATCH_ERROR", "RESPONSE_LOST_AFTER_EFFECT",
            "V3_REQUIRES_C1_OR_C2" }

RequestHash == { HashOf[r] : r \in Requests }
NoHash == "NO_HASH"

\* A row.  owner is owner_token, named by the request whose claim wrote it;
\* expired says whether lease_expiry is in the past.
Row == [ state   : LedgerState \cup {Absent},
         hash    : RequestHash \cup {NoHash},
         effect  : EffectRef,
         owner   : EffectRef,
         expired : BOOLEAN ]

NoRow == [ state |-> Absent, hash |-> NoHash, effect |-> NoEffect,
           owner |-> NoEffect, expired |-> FALSE ]

Reply(status, effect, replayed) ==
    [status |-> status, effect |-> effect, replayed |-> replayed]

NoReply == Reply("NONE", NoEffect, FALSE)

TypeOK ==
    /\ ServiceTypeOK
    /\ config \in Configurations
    /\ scenario \in [Requests -> Scenarios]
    /\ pc \in [Requests -> Phase]
    /\ ledger \in [Ops -> Row]
    /\ reply \in [Requests -> [status : Status, effect : EffectRef, replayed : BOOLEAN]]
    /\ crashes \in 0..MaxCrashes

Init ==
    /\ ServiceInit
    /\ config \in Configurations
    /\ scenario \in [Requests -> Scenarios]
    /\ pc = [r \in Requests |-> "idle"]
    /\ ledger = [o \in Ops |-> NoRow]
    /\ reply = [r \in Requests |-> NoReply]
    /\ crashes = 0

-----------------------------------------------------------------------------
(* Helpers: inject, the guarded update of transition, and how a handler    *)
(* ends or goes on.                                                        *)

Inject(r, hook) == ScenarioHook(scenario[r], hook)

RowOf(r) == ledger[OpOf[r]]

\* transition's UPDATE matches the row: it is in the expected state and the
\* database function admits the move.
Allowed(row, before, after) == row.state = before /\ IsLegal(before, after)

SetRow(r, row) == ledger' = [ledger EXCEPT ![OpOf[r]] = row]

Answer(r, status, effect, replayed) ==
    /\ pc' = [pc EXCEPT ![r] = "done"]
    /\ reply' = [reply EXCEPT ![r] = Reply(status, effect, replayed)]
    /\ UNCHANGED <<config, scenario, crashes>>

GoTo(r, phase) ==
    /\ pc' = [pc EXCEPT ![r] = phase]
    /\ UNCHANGED <<config, scenario, reply, crashes>>

\* A transaction that throws: nothing is written, the exception is the reply.
Fail(r, status) ==
    /\ Answer(r, status, NoEffect, FALSE)
    /\ UNCHANGED ledger

\* A transaction that is one transition and the reply that follows it, or the
\* 409 of a transition whose UPDATE matches no row.
TransitionAndAnswer(r, before, after, status, effect) ==
    \/ /\ Allowed(RowOf(r), before, after)
       /\ SetRow(r, [RowOf(r) EXCEPT !.state = after])
       /\ Answer(r, status, effect, FALSE)
    \/ /\ ~Allowed(RowOf(r), before, after)
       /\ Fail(r, "ILLEGAL_OR_STALE_LEDGER_TRANSITION")

-----------------------------------------------------------------------------
(* prepareLedger.                                                          *)

\* A request that has just arrived, and whose find of the row succeeds.
Arrived(r) == LedgerBacked /\ pc[r] = "idle" /\ ~Inject(r, "LEDGER_READ")
Exists(r) == RowOf(r).state # Absent

LedgerReadUnavailable(r) ==
    /\ LedgerBacked
    /\ pc[r] = "idle"
    /\ Inject(r, "LEDGER_READ")
    /\ Fail(r, "LEDGER_READ_UNAVAILABLE")
    /\ UNCHANGED serviceVars

\* findLedger returns null and the insert comes next.
FindNoRow(r) ==
    /\ Arrived(r)
    /\ ~Exists(r)
    /\ ~Inject(r, "LEDGER_WRITE")
    /\ GoTo(r, "inserting")
    /\ UNCHANGED <<ledger, serviceVars>>

\* The insert, or the claim of a row that may be claimed, fails.
LedgerWriteUnavailable(r) ==
    /\ Arrived(r)
    /\ RowOf(r).state \in {Absent, "RECEIVED", "RETRYABLE_FAILURE", "RECONCILING"}
    /\ Exists(r) => RowOf(r).hash = HashOf[r]
    /\ Inject(r, "LEDGER_WRITE")
    /\ Fail(r, "LEDGER_WRITE_UNAVAILABLE")
    /\ UNCHANGED serviceVars

OperationIdConflict(r) ==
    /\ Arrived(r)
    /\ Exists(r)
    /\ RowOf(r).hash # HashOf[r]
    /\ Fail(r, "OPERATION_ID_CONFLICT")
    /\ UNCHANGED serviceVars

\* markExpiredExecutingUnknown.
MarkExpired(row) ==
    IF row.state = "EXECUTING" /\ row.expired
    THEN [row EXCEPT !.state = "UNKNOWN"] ELSE row

\* A request decides on a row it found with its own hash, or on the row it
\* finds again after another request's insert won: in that case the hash is
\* not compared and the lease not checked.
Decides(r) ==
    /\ Exists(r)
    /\ \/ Arrived(r) /\ RowOf(r).hash = HashOf[r]
       \/ pc[r] = "inserting"

\* The row as the deciding transaction sees and, if it commits, leaves it.
SeenRow(r) ==
    IF pc[r] = "inserting" THEN RowOf(r) ELSE MarkExpired(RowOf(r))

\* COMPLETED: the stored result is replayed.
ReplayResult(r) ==
    /\ Decides(r)
    /\ SeenRow(r).state = "COMPLETED"
    /\ Answer(r, "OK", SeenRow(r).effect, TRUE)
    /\ UNCHANGED <<ledger, serviceVars>>

\* EFFECT_CONFIRMED: the final state is recovered and the result replayed.
RecoverFinalResult(r) ==
    /\ Decides(r)
    /\ Allowed(SeenRow(r), "EFFECT_CONFIRMED", "COMPLETED")
    /\ SetRow(r, [SeenRow(r) EXCEPT !.state = "COMPLETED"])
    /\ Answer(r, "OK", SeenRow(r).effect, TRUE)
    /\ UNCHANGED serviceVars

\* EXECUTING under a lease that runs, or FAILED_FINAL: the state is reported.
\* No code writes FAILED_FINAL and no transaction commits CLAIMED.
ReportState(r) ==
    /\ Decides(r)
    /\ SeenRow(r).state \in {"EXECUTING", "CLAIMED", "FAILED_FINAL"}
    /\ Answer(r, IF SeenRow(r).state = "FAILED_FINAL" THEN "FAILED_FINAL" ELSE "IN_PROGRESS",
              SeenRow(r).effect, SeenRow(r).state = "FAILED_FINAL")
    /\ UNCHANGED <<ledger, serviceVars>>

\* UNKNOWN, just marked or found: V5 goes on to reconcile, V2 and V4 answer.
EnterUnknown(r) ==
    /\ Decides(r)
    /\ SeenRow(r).state = "UNKNOWN"
    /\ SetRow(r, SeenRow(r))
    /\ IF AllowReconcile THEN GoTo(r, "reconcile")
                         ELSE Answer(r, "UNKNOWN", SeenRow(r).effect, FALSE)
    /\ UNCHANGED serviceVars

\* What is left in the row when claim and begin-execution commit.
Claimed(r, row) ==
    [row EXCEPT !.state = "EXECUTING", !.owner = r, !.expired = FALSE]

\* Mutant: ON CONFLICT DO UPDATE, the later insert takes the row over.
InsertAndClaim_Upsert(r) ==
    /\ pc[r] = "inserting"
    /\ SetRow(r, Claimed(r, [NoRow EXCEPT !.hash = HashOf[r]]))
    /\ GoTo(r, "proceed")
    /\ UNCHANGED serviceVars

\* insertLedger inserts the row, and the same transaction claims it.
InsertAndClaim(r) ==
    /\ pc[r] = "inserting"
    /\ ~Exists(r)
    /\ SetRow(r, Claimed(r, [NoRow EXCEPT !.hash = HashOf[r]]))
    /\ GoTo(r, "proceed")
    /\ UNCHANGED serviceVars

\* Every other state: the row is claimed, if the database admits the move.
MayClaim(row) == row.state \in {"RECEIVED", "RETRYABLE_FAILURE", "RECONCILING"}

Claim(r) ==
    /\ Decides(r)
    /\ ~Inject(r, "LEDGER_WRITE")
    /\ MayClaim(SeenRow(r))
    /\ IsLegal(SeenRow(r).state, "CLAIMED")
    /\ SetRow(r, Claimed(r, SeenRow(r)))
    /\ GoTo(r, "proceed")
    /\ UNCHANGED serviceVars

\* A row in RECONCILING: the claim is illegal and the request gets a 409.
RejectClaim(r) ==
    /\ Decides(r)
    /\ ~Inject(r, "LEDGER_WRITE")
    /\ MayClaim(SeenRow(r))
    /\ ~IsLegal(SeenRow(r).state, "CLAIMED")
    /\ Fail(r, "ILLEGAL_OR_STALE_LEDGER_TRANSITION")
    /\ UNCHANGED serviceVars

PrepareLedger(r) ==
    \/ LedgerReadUnavailable(r)
    \/ FindNoRow(r)
    \/ LedgerWriteUnavailable(r)
    \/ OperationIdConflict(r)
    \/ ReplayResult(r)
    \/ RecoverFinalResult(r)
    \/ ReportState(r)
    \/ EnterUnknown(r)
    \/ InsertAndClaim(r)
    \/ Claim(r)
    \/ RejectClaim(r)

-----------------------------------------------------------------------------
(* ledgerBacked after PROCEED, and the variants without a ledger.          *)

\* F1, F2 and F7 fire before the dispatch: nothing was sent.
FailBeforeDispatch(r) ==
    /\ pc[r] = "proceed"
    /\ Inject(r, "BEFORE_DOWNSTREAM_DISPATCH")
    /\ TransitionAndAnswer(r, "EXECUTING", "RETRYABLE_FAILURE", "RETRYABLE_FAILURE", NoEffect)
    /\ UNCHANGED serviceVars

\* V3 refuses a service that keeps no mapping.
RefuseCapability(r) ==
    /\ Variant = "V3"
    /\ DownstreamCapability = "C0"
    /\ pc[r] = "idle"
    /\ Fail(r, "V3_REQUIRES_C1_OR_C2")
    /\ UNCHANGED serviceVars

\* Mutant: V3 is not refused over a service that keeps no mapping.
Unprotected_AnyCapability(r) ==
    /\ ~LedgerBacked
    /\ pc[r] = "idle"

\* The request goes straight to dispatch in V0, V1 and V3.
Unprotected(r) ==
    /\ ~LedgerBacked
    /\ pc[r] = "idle"
    /\ ~(Variant = "V3" /\ DownstreamCapability = "C0")

\* dispatch posts /execute to the service.
Dispatch(r) ==
    /\ \/ pc[r] = "proceed" /\ ~Inject(r, "BEFORE_DOWNSTREAM_DISPATCH")
       \/ Unprotected(r)
    /\ Submit(r, DispatchCapability)
    /\ GoTo(r, "waiting")
    /\ UNCHANGED ledger

\* Mutant: the call has a timeout, timeouts.downstream_ms, and is given up.
DispatchError_Timeout(r) ==
    /\ pc[r] = "waiting"
    /\ call[r].phase \in {"received", "creating", "failed"}
    /\ Fail(r, "DISPATCH_ERROR")
    /\ UNCHANGED serviceVars

\* The call fails: no handler catches it, and the ledger stays as it is.
DispatchError(r) ==
    /\ pc[r] = "waiting"
    /\ call[r].phase = "failed"
    /\ Fail(r, "DISPATCH_ERROR")
    /\ UNCHANGED serviceVars

\* The answer of the service is at hand.
Returned(r) == pc[r] = "waiting" /\ call[r].phase = "answered"

\* V0, V1 and V3 answer what the service answered, V0 always as not replayed.
AnswerUnledgered(r) ==
    /\ ~LedgerBacked
    /\ Returned(r)
    /\ ~Inject(r, "BEFORE_EFFECT_CONFIRMATION_PERSIST")
    /\ Answer(r, "OK", call[r].effect, Variant # "V0" /\ call[r].replayed)
    /\ UNCHANGED <<ledger, serviceVars>>

\* maybeLoseResponseAfterEffect.
LoseResponseAfterEffect(r) ==
    /\ ~LedgerBacked
    /\ Returned(r)
    /\ Inject(r, "BEFORE_EFFECT_CONFIRMATION_PERSIST")
    /\ Fail(r, "RESPONSE_LOST_AFTER_EFFECT")
    /\ UNCHANGED serviceVars

\* F8: the handler stops as a crashed one would, the row stays EXECUTING.
SimulateCrash(r) ==
    /\ LedgerBacked
    /\ Returned(r)
    /\ scenario[r] = "F8"
    /\ Answer(r, "CRASH_SIMULATED", call[r].effect, FALSE)
    /\ UNCHANGED <<ledger, serviceVars>>

\* Mutant: the ambiguous outcome is recorded as a failure that may be retried.
LoseConfirmation_Retryable(r) ==
    /\ LedgerBacked
    /\ Returned(r)
    /\ Inject(r, "BEFORE_EFFECT_CONFIRMATION_PERSIST")
    /\ scenario[r] # "F8"
    /\ TransitionAndAnswer(r, "EXECUTING", "RETRYABLE_FAILURE", "UNKNOWN", call[r].effect)
    /\ UNCHANGED serviceVars

\* F3 and F12: the confirmation is lost and the outcome marked UNKNOWN.
LoseConfirmation(r) ==
    /\ LedgerBacked
    /\ Returned(r)
    /\ Inject(r, "BEFORE_EFFECT_CONFIRMATION_PERSIST")
    /\ scenario[r] # "F8"
    /\ TransitionAndAnswer(r, "EXECUTING", "UNKNOWN", "UNKNOWN", call[r].effect)
    /\ UNCHANGED serviceVars

\* finalizeLedger throws: its transition is stale, the whole transaction with
\* the effect reference it wrote first is rolled back.
FinalizeStale(r) ==
    /\ LedgerBacked
    /\ Returned(r)
    /\ ~Inject(r, "BEFORE_EFFECT_CONFIRMATION_PERSIST")
    /\ ~Allowed(RowOf(r), "EXECUTING", "EFFECT_CONFIRMED")
    /\ Fail(r, "ILLEGAL_OR_STALE_LEDGER_TRANSITION")
    /\ UNCHANGED serviceVars

\* Mutant: the update does not ask for the state EXECUTING.
FinalizeLedger_AnyState(r) ==
    /\ LedgerBacked
    /\ Returned(r)
    /\ ~Inject(r, "BEFORE_EFFECT_CONFIRMATION_PERSIST")
    /\ SetRow(r, [RowOf(r) EXCEPT !.state = "COMPLETED", !.effect = call[r].effect])
    /\ Answer(r, "OK", call[r].effect, FALSE)
    /\ UNCHANGED serviceVars

\* finalizeLedger: the effect is persisted and, unless F9 stops it there, the
\* row COMPLETED in the same transaction.  F4 then delays the reply.
FinalizeLedger(r) ==
    /\ LedgerBacked
    /\ Returned(r)
    /\ ~Inject(r, "BEFORE_EFFECT_CONFIRMATION_PERSIST")
    /\ Allowed(RowOf(r), "EXECUTING", "EFFECT_CONFIRMED")
    /\ LET partial == Inject(r, "BEFORE_FINAL_RESULT_PERSIST")
       IN  /\ SetRow(r, [RowOf(r) EXCEPT
                           !.state = IF partial THEN "EFFECT_CONFIRMED" ELSE "COMPLETED",
                           !.effect = call[r].effect])
           /\ reply' = [reply EXCEPT ![r] =
                           Reply(IF partial THEN "EFFECT_CONFIRMED" ELSE "OK",
                                 call[r].effect, FALSE)]
    /\ pc' = [pc EXCEPT ![r] =
                 IF Inject(r, "AFTER_DOWNSTREAM_RESPONSE") THEN "delayed" ELSE "done"]
    /\ UNCHANGED <<config, scenario, crashes, serviceVars>>

\* sleepForDelayedResponse ends.
DelayedReply(r) ==
    /\ pc[r] = "delayed"
    /\ GoTo(r, "done")
    /\ UNCHANGED <<ledger, serviceVars>>

Execute(r) ==
    \/ FailBeforeDispatch(r)
    \/ RefuseCapability(r)
    \/ Dispatch(r)
    \/ DispatchError(r)
    \/ AnswerUnledgered(r)
    \/ LoseResponseAfterEffect(r)
    \/ SimulateCrash(r)
    \/ LoseConfirmation(r)
    \/ FinalizeStale(r)
    \/ FinalizeLedger(r)
    \/ DelayedReply(r)

-----------------------------------------------------------------------------
(* reconcile.                                                              *)

\* Mutant: an ambiguity that cannot be resolved is handed back for a retry.
CannotReconcile_Retry(r) ==
    /\ pc[r] = "reconcile"
    /\ DownstreamCapability # "C2"
    /\ SetRow(r, [RowOf(r) EXCEPT !.state = "RETRYABLE_FAILURE"])
    /\ Answer(r, "RETRYABLE_FAILURE", NoEffect, FALSE)
    /\ UNCHANGED serviceVars

\* Without C2 there is no lookup: the ambiguity stays.
CannotReconcile(r) ==
    /\ pc[r] = "reconcile"
    /\ DownstreamCapability # "C2"
    /\ Answer(r, "UNKNOWN", NoEffect, FALSE)
    /\ UNCHANGED <<ledger, serviceVars>>

\* Mutant: the update does not ask for the state UNKNOWN.
StartReconciliation_AnyState(r) ==
    /\ pc[r] = "reconcile"
    /\ DownstreamCapability = "C2"
    /\ SetRow(r, [RowOf(r) EXCEPT !.state = "RECONCILING"])
    /\ GoTo(r, "lookup")
    /\ UNCHANGED serviceVars

\* start-reconciliation, outside the try: a stale one is the reply.
StartReconciliation(r) ==
    /\ pc[r] = "reconcile"
    /\ DownstreamCapability = "C2"
    /\ \/ /\ Allowed(RowOf(r), "UNKNOWN", "RECONCILING")
          /\ SetRow(r, [RowOf(r) EXCEPT !.state = "RECONCILING"])
          /\ GoTo(r, "lookup")
       \/ /\ ~Allowed(RowOf(r), "UNKNOWN", "RECONCILING")
          /\ Fail(r, "ILLEGAL_OR_STALE_LEDGER_TRANSITION")
    /\ UNCHANGED serviceVars

\* Mutant: a 404 is not told apart from an answer.
Lookup_NotFoundIgnored(r) ==
    /\ pc[r] = "lookup"
    /\ GoTo(r, "found")
    /\ UNCHANGED <<ledger, serviceVars>>

\* GET /lookup: the service answers from its mapping, 404 where it has none.
Lookup(r) ==
    /\ pc[r] = "lookup"
    /\ GoTo(r, IF Registered(OpOf[r]) = NoEffect THEN "absent" ELSE "found")
    /\ UNCHANGED <<ledger, serviceVars>>

\* Mutant: only the 404 of the lookup is caught.
LookupError_Uncaught(r) ==
    /\ pc[r] = "lookup"
    /\ Fail(r, "DISPATCH_ERROR")
    /\ UNCHANGED serviceVars

\* Any other error of the lookup is caught as inconclusive.
LookupError(r) ==
    /\ pc[r] = "lookup"
    /\ GoTo(r, "inconclusive")
    /\ UNCHANGED <<ledger, serviceVars>>

\* Mutant: the reply is built from the row as it was before the update.
ConfirmReconciled_StaleReply(r) ==
    /\ pc[r] = "found"
    /\ Allowed(RowOf(r), "RECONCILING", "EFFECT_CONFIRMED")
    /\ SetRow(r, [RowOf(r) EXCEPT !.state = "COMPLETED",
                                  !.effect = Registered(OpOf[r])])
    /\ Answer(r, "OK", RowOf(r).effect, TRUE)
    /\ UNCHANGED serviceVars

\* persistEffectFromReconciling and reconciled-effect, one transaction; what
\* it throws is caught as inconclusive.
ConfirmReconciled(r) ==
    /\ pc[r] = "found"
    /\ \/ /\ Allowed(RowOf(r), "RECONCILING", "EFFECT_CONFIRMED")
          /\ SetRow(r, [RowOf(r) EXCEPT !.state = "COMPLETED",
                                        !.effect = Registered(OpOf[r])])
          /\ Answer(r, "OK", Registered(OpOf[r]), TRUE)
       \/ /\ ~Allowed(RowOf(r), "RECONCILING", "EFFECT_CONFIRMED")
          /\ GoTo(r, "inconclusive")
          /\ UNCHANGED ledger
    /\ UNCHANGED serviceVars

\* reconciled-no-effect.
ReconciledNoEffect(r) ==
    /\ pc[r] = "absent"
    /\ TransitionAndAnswer(r, "RECONCILING", "RETRYABLE_FAILURE", "RETRYABLE_FAILURE", NoEffect)
    /\ UNCHANGED serviceVars

\* reconciliation-inconclusive.
ReconciliationInconclusive(r) ==
    /\ pc[r] = "inconclusive"
    /\ TransitionAndAnswer(r, "RECONCILING", "UNKNOWN", "UNKNOWN", NoEffect)
    /\ UNCHANGED serviceVars

Reconcile(r) ==
    \/ CannotReconcile(r)
    \/ StartReconciliation(r)
    \/ Lookup(r)
    \/ LookupError(r)
    \/ ConfirmReconciled(r)
    \/ ReconciledNoEffect(r)
    \/ ReconciliationInconclusive(r)

-----------------------------------------------------------------------------
(* The environment: leases run out, services work, processes stop.         *)

\* lease_expiry passes; only an EXECUTING row's lease is ever read.
LeaseExpires(o) ==
    /\ ledger[o].state = "EXECUTING"
    /\ ~ledger[o].expired
    /\ ledger' = [ledger EXCEPT ![o].expired = TRUE]
    /\ UNCHANGED <<config, scenario, pc, reply, crashes, serviceVars>>

\* The service works on a call whether or not its caller still waits.
Serve(r) == ServiceStep(r) /\ UNCHANGED orchVars

\* The answer to a waiting caller is lost on its way.
AnswerLost(r) ==
    /\ pc[r] = "waiting"
    /\ LoseAnswer(r)
    /\ UNCHANGED orchVars

\* The orchestrator process stops and restarts: the requests in it are gone,
\* the ledger and the calls already sent are not.
Crash ==
    /\ crashes < MaxCrashes
    /\ \E r \in Requests : pc[r] \in InFlight
    /\ crashes' = crashes + 1
    /\ pc' = [r \in Requests |-> IF pc[r] \in InFlight THEN "lost" ELSE pc[r]]
    /\ UNCHANGED <<config, scenario, ledger, reply, serviceVars>>

\* All attempts are answered or lost: nothing has to happen any more.
Finished ==
    /\ \A r \in Requests : pc[r] \in {"done", "lost"}
    /\ UNCHANGED vars

Next ==
    \/ \E r \in Requests :
          PrepareLedger(r) \/ Execute(r) \/ Reconcile(r) \/ Serve(r) \/ AnswerLost(r)
    \/ \E o \in Ops : LeaseExpires(o)
    \/ Crash
    \/ Finished

Spec == Init /\ [][Next]_vars

=============================================================================
