------------------------- MODULE OrchestratorProofs -------------------------
(***************************************************************************)
(* Proofs, for every set of requests and operations, every assignment of   *)
(* operations, hashes and scenarios to requests and every number of        *)
(* restarts, of what MCOrchestrator's runs check on small instances.       *)
(***************************************************************************)
EXTENDS OrchestratorProperties, TLAPS

-----------------------------------------------------------------------------
(* Types.                                                                  *)

\* The row a request decides on is a row.
LEMMA SeenRowType ==
    ASSUME TypeOK, NEW r \in Requests
    PROVE  SeenRow(r) \in Row /\ RowOf(r) \in Row /\ OpOf[r] \in Ops
  BY RequestAssumption
  DEF TypeOK, SeenRow, MarkExpired, RowOf, Row, LedgerState, Absent

\* Writing a row for a request's operation leaves a ledger.
LEMMA SetRowType ==
    ASSUME TypeOK, NEW r \in Requests, NEW row \in Row, SetRow(r, row)
    PROVE  ledger' \in [Ops -> Row]
  BY RequestAssumption DEF TypeOK, SetRow

\* Answering and moving on leave the orchestrator's other variables typed.
LEMMA AnswerType ==
    ASSUME TypeOK, NEW r \in Requests, NEW status \in Status,
           NEW e \in EffectRef, NEW b \in BOOLEAN, Answer(r, status, e, b)
    PROVE  /\ config' \in Configurations
           /\ scenario' \in [Requests -> Scenarios]
           /\ pc' \in [Requests -> Phase]
           /\ reply' \in [Requests -> [status : Status, effect : EffectRef, replayed : BOOLEAN]]
           /\ crashes' \in 0..MaxCrashes
  BY DEF TypeOK, Answer, Reply, Phase

LEMMA GoToType ==
    ASSUME TypeOK, NEW r \in Requests, NEW phase \in Phase, GoTo(r, phase)
    PROVE  /\ config' \in Configurations
           /\ scenario' \in [Requests -> Scenarios]
           /\ pc' \in [Requests -> Phase]
           /\ reply' \in [Requests -> [status : Status, effect : EffectRef, replayed : BOOLEAN]]
           /\ crashes' \in 0..MaxCrashes
  BY DEF TypeOK, GoTo

LEMMA FailType ==
    ASSUME TypeOK, NEW r \in Requests, NEW status \in Status,
           Fail(r, status), UNCHANGED serviceVars
    PROVE  TypeOK'
  <1>1. NoEffect \in EffectRef /\ FALSE \in BOOLEAN
    BY DEF EffectRef
  <1>2. UNCHANGED ledger /\ Answer(r, status, NoEffect, FALSE)
    BY DEF Fail
  <1> QED
    BY <1>1, <1>2, AnswerType DEF TypeOK, ServiceTypeOK, serviceVars

LEMMA TransitionAndAnswerType ==
    ASSUME TypeOK, NEW r \in Requests, NEW status \in Status, NEW e \in EffectRef,
           NEW before, NEW after \in LedgerState,
           TransitionAndAnswer(r, before, after, status, e), UNCHANGED serviceVars
    PROVE  TypeOK'
  <1>1. CASE /\ SetRow(r, [RowOf(r) EXCEPT !.state = after])
             /\ Answer(r, status, e, FALSE)
    <2>1. [RowOf(r) EXCEPT !.state = after] \in Row
      BY SeenRowType DEF Row
    <2>2. ledger' \in [Ops -> Row]
      BY <1>1, <2>1, SetRowType
    <2> QED
      BY <1>1, <2>2, AnswerType DEF TypeOK, ServiceTypeOK, serviceVars
  <1>2. CASE Fail(r, "ILLEGAL_OR_STALE_LEDGER_TRANSITION")
    BY <1>2, FailType DEF Status
  <1> QED
    BY <1>1, <1>2 DEF TransitionAndAnswer

\* The transactions of prepareLedger keep the types.
LEMMA PrepareType ==
    ASSUME TypeOK, NEW r \in Requests, PrepareLedger(r)
    PROVE  TypeOK'
  <1> USE DEF Status, Phase
  <1>0. /\ UNCHANGED serviceVars
        /\ SeenRow(r) \in Row /\ RowOf(r) \in Row
        /\ SeenRow(r).effect \in EffectRef
    BY SeenRowType DEF PrepareLedger, LedgerReadUnavailable, FindNoRow,
       LedgerWriteUnavailable, OperationIdConflict, ReplayResult, RecoverFinalResult,
       ReportState, EnterUnknown, InsertAndClaim, Claim, RejectClaim, serviceVars, Row
  <1>1. CASE LedgerReadUnavailable(r)
    BY <1>0, <1>1, FailType DEF LedgerReadUnavailable
  <1>2. CASE FindNoRow(r)
    BY <1>0, <1>2, GoToType DEF FindNoRow, TypeOK, ServiceTypeOK, serviceVars
  <1>3. CASE LedgerWriteUnavailable(r)
    BY <1>0, <1>3, FailType DEF LedgerWriteUnavailable
  <1>4. CASE OperationIdConflict(r)
    BY <1>0, <1>4, FailType DEF OperationIdConflict
  <1>5. CASE ReplayResult(r)
    BY <1>0, <1>5, AnswerType DEF ReplayResult, TypeOK, ServiceTypeOK, serviceVars
  <1>6. CASE RecoverFinalResult(r)
    <2>1. [SeenRow(r) EXCEPT !.state = "COMPLETED"] \in Row
      BY <1>0 DEF Row, LedgerState
    <2>2. ledger' \in [Ops -> Row]
      BY <1>6, <2>1, SetRowType DEF RecoverFinalResult
    <2> QED
      BY <1>0, <1>6, <2>2, AnswerType DEF RecoverFinalResult, TypeOK, ServiceTypeOK, serviceVars
  <1>7. CASE ReportState(r)
    <2> DEFINE status == IF SeenRow(r).state = "FAILED_FINAL" THEN "FAILED_FINAL" ELSE "IN_PROGRESS"
    <2>1. status \in Status /\ (SeenRow(r).state = "FAILED_FINAL") \in BOOLEAN
      OBVIOUS
    <2>2. Answer(r, status, SeenRow(r).effect, SeenRow(r).state = "FAILED_FINAL") /\ UNCHANGED ledger
      BY <1>7 DEF ReportState, serviceVars
    <2> HIDE DEF status
    <2> QED
      BY <1>0, <2>1, <2>2, AnswerType DEF TypeOK, ServiceTypeOK, serviceVars
  <1>8. CASE EnterUnknown(r)
    <2>1. ledger' \in [Ops -> Row]
      BY <1>0, <1>8, SetRowType DEF EnterUnknown
    <2>2. CASE AllowReconcile
      BY <1>0, <1>8, <2>1, <2>2, GoToType DEF EnterUnknown, TypeOK, ServiceTypeOK, serviceVars
    <2>3. CASE ~AllowReconcile
      BY <1>0, <1>8, <2>1, <2>3, AnswerType DEF EnterUnknown, TypeOK, ServiceTypeOK, serviceVars
    <2> QED
      BY <2>2, <2>3
  <1>9. CASE InsertAndClaim(r)
    <2>1. Claimed(r, [NoRow EXCEPT !.hash = HashOf[r]]) \in Row
      BY DEF Claimed, NoRow, Row, LedgerState, RequestHash, EffectRef, Absent
    <2>2. ledger' \in [Ops -> Row]
      BY <1>9, <2>1, SetRowType DEF InsertAndClaim
    <2> QED
      BY <1>0, <1>9, <2>2, GoToType DEF InsertAndClaim, TypeOK, ServiceTypeOK, serviceVars
  <1>10. CASE Claim(r)
    <2>1. Claimed(r, SeenRow(r)) \in Row
      BY <1>0 DEF Claimed, Row, LedgerState, EffectRef
    <2>2. ledger' \in [Ops -> Row]
      BY <1>10, <2>1, SetRowType DEF Claim
    <2> QED
      BY <1>0, <1>10, <2>2, GoToType DEF Claim, TypeOK, ServiceTypeOK, serviceVars
  <1>11. CASE RejectClaim(r)
    BY <1>0, <1>11, FailType DEF RejectClaim
  <1> QED
    BY <1>1, <1>2, <1>3, <1>4, <1>5, <1>6, <1>7, <1>8, <1>9, <1>10, <1>11 DEF PrepareLedger

\* The service's own steps keep the types of its tables.
LEMMA ServiceType ==
    ASSUME ServiceTypeOK, NEW r \in Requests,
           \/ \E c \in Capability : Submit(r, c)
           \/ ServiceStep(r)
           \/ LoseAnswer(r)
    PROVE  ServiceTypeOK'
  <1> USE RequestAssumption DEF ServiceTypeOK, EffectRef, CallPhase, Registered
  <1>1. CASE \E c \in Capability : Submit(r, c)
    <2>1. PICK c \in Capability : Submit(r, c)
      BY <1>1
    <2>2. call' = [call EXCEPT ![r] = [call[r] EXCEPT !.phase = "received", !.cap = c]]
      BY <2>1 DEF Submit
    <2>3. [call[r] EXCEPT !.phase = "received", !.cap = c] \in
             [phase : CallPhase, cap : Capability, effect : EffectRef, replayed : BOOLEAN]
      OBVIOUS
    <2>4. UNCHANGED <<idempotency, effects>>
      BY <2>1 DEF Submit
    <2> QED
      BY <2>2, <2>3, <2>4
  <1>2. CASE ReplayExisting(r)
    <2>1. call' = [call EXCEPT ![r] = [call[r] EXCEPT
             !.phase = "answered", !.replayed = TRUE, !.effect = Registered(OpOf[r])]]
      BY <1>2 DEF ReplayExisting
    <2>2. [call[r] EXCEPT !.phase = "answered", !.replayed = TRUE,
                          !.effect = Registered(OpOf[r])] \in
             [phase : CallPhase, cap : Capability, effect : EffectRef, replayed : BOOLEAN]
      OBVIOUS
    <2> QED
      BY <1>2, <2>1, <2>2 DEF ReplayExisting
  <1>3. CASE BeginCreate(r)
    BY <1>3 DEF BeginCreate
  <1>4. CASE CommitEffect(r)
    BY <1>4 DEF CommitEffect
  <1>5. CASE RejectDuplicateKey(r)
    BY <1>5 DEF RejectDuplicateKey
  <1>6. CASE AbortCall(r)
    BY <1>6 DEF AbortCall
  <1>7. CASE LoseAnswer(r)
    BY <1>7 DEF LoseAnswer
  <1> QED
    BY <1>1, <1>2, <1>3, <1>4, <1>5, <1>6, <1>7 DEF ServiceStep

\* ledgerBacked after PROCEED and the variants without a ledger.
LEMMA ExecuteType ==
    ASSUME TypeOK, NEW r \in Requests, Execute(r)
    PROVE  TypeOK'
  <1> USE DEF Status, Phase
  <1>0. /\ RowOf(r) \in Row
        /\ call[r].effect \in EffectRef /\ call[r].replayed \in BOOLEAN
        /\ NoEffect \in EffectRef
        /\ {"RETRYABLE_FAILURE", "UNKNOWN", "EFFECT_CONFIRMED", "COMPLETED"} \subseteq LedgerState
    BY SeenRowType DEF TypeOK, ServiceTypeOK, EffectRef, LedgerState
  <1>1. CASE FailBeforeDispatch(r)
    BY <1>0, <1>1, TransitionAndAnswerType DEF FailBeforeDispatch
  <1>2. CASE RefuseCapability(r)
    BY <1>2, FailType DEF RefuseCapability
  <1>3. CASE Dispatch(r)
    <2>1. DispatchCapability \in Capability
      BY ConfigAssumption
      DEF TypeOK, DispatchCapability, DownstreamCapability, Configuration, Capability
    <2>2. ServiceTypeOK'
      BY <1>3, <2>1, ServiceType DEF Dispatch, TypeOK
    <2> QED
      BY <1>3, <2>2, GoToType DEF Dispatch, TypeOK
  <1>4. CASE DispatchError(r)
    BY <1>4, FailType DEF DispatchError
  <1>5. CASE AnswerUnledgered(r)
    <2>1. (Variant # "V0" /\ call[r].replayed) \in BOOLEAN
      OBVIOUS
    <2> QED
      BY <1>0, <1>5, <2>1, AnswerType
      DEF AnswerUnledgered, TypeOK, ServiceTypeOK, serviceVars
  <1>6. CASE LoseResponseAfterEffect(r)
    BY <1>6, FailType DEF LoseResponseAfterEffect
  <1>7. CASE SimulateCrash(r)
    BY <1>0, <1>7, AnswerType DEF SimulateCrash, TypeOK, ServiceTypeOK, serviceVars
  <1>8. CASE LoseConfirmation(r)
    BY <1>0, <1>8, TransitionAndAnswerType DEF LoseConfirmation
  <1>9. CASE FinalizeStale(r)
    BY <1>9, FailType DEF FinalizeStale
  <1>10. CASE FinalizeLedger(r)
    <2>1. PICK s \in {"EFFECT_CONFIRMED", "COMPLETED"}, m \in {"EFFECT_CONFIRMED", "OK"},
               p \in {"delayed", "done"} :
            /\ SetRow(r, [RowOf(r) EXCEPT !.state = s, !.effect = call[r].effect])
            /\ reply' = [reply EXCEPT ![r] = Reply(m, call[r].effect, FALSE)]
            /\ pc' = [pc EXCEPT ![r] = p]
      BY <1>10 DEF FinalizeLedger
    <2>2. [RowOf(r) EXCEPT !.state = s, !.effect = call[r].effect] \in Row
      BY <1>0 DEF Row
    <2>3. ledger' \in [Ops -> Row]
      BY <2>1, <2>2, SetRowType
    <2>4. Reply(m, call[r].effect, FALSE) \in
             [status : Status, effect : EffectRef, replayed : BOOLEAN]
      BY <1>0 DEF Reply
    <2>5. UNCHANGED <<config, scenario, crashes, call, idempotency, effects>>
      BY <1>10 DEF FinalizeLedger, serviceVars
    <2>6. pc' \in [Requests -> Phase]
      BY <2>1 DEF TypeOK
    <2>7. reply' \in [Requests -> [status : Status, effect : EffectRef, replayed : BOOLEAN]]
      BY <2>1, <2>4 DEF TypeOK
    <2> QED
      BY <2>3, <2>5, <2>6, <2>7 DEF TypeOK, ServiceTypeOK
  <1>11. CASE DelayedReply(r)
    BY <1>11, GoToType DEF DelayedReply, TypeOK, ServiceTypeOK, serviceVars
  <1> QED
    BY <1>1, <1>2, <1>3, <1>4, <1>5, <1>6, <1>7, <1>8, <1>9, <1>10, <1>11 DEF Execute

\* reconcile.
LEMMA ReconcileType ==
    ASSUME TypeOK, NEW r \in Requests, Reconcile(r)
    PROVE  TypeOK'
  <1> USE DEF Status, Phase
  <1>0. /\ RowOf(r) \in Row
        /\ Registered(OpOf[r]) \in EffectRef
        /\ NoEffect \in EffectRef
        /\ {"RECONCILING", "RETRYABLE_FAILURE", "UNKNOWN", "COMPLETED"} \subseteq LedgerState
    BY SeenRowType DEF TypeOK, ServiceTypeOK, EffectRef, LedgerState, Registered
  <1>1. CASE CannotReconcile(r)
    BY <1>0, <1>1, AnswerType DEF CannotReconcile, TypeOK, ServiceTypeOK, serviceVars
  <1>2. CASE StartReconciliation(r)
    <2>1. CASE SetRow(r, [RowOf(r) EXCEPT !.state = "RECONCILING"]) /\ GoTo(r, "lookup")
      <3>1. [RowOf(r) EXCEPT !.state = "RECONCILING"] \in Row
        BY <1>0 DEF Row
      <3> QED
        BY <1>2, <2>1, <3>1, SetRowType, GoToType
        DEF StartReconciliation, TypeOK, ServiceTypeOK, serviceVars
    <2>2. CASE Fail(r, "ILLEGAL_OR_STALE_LEDGER_TRANSITION")
      BY <1>2, <2>2, FailType DEF StartReconciliation
    <2> QED
      BY <1>2, <2>1, <2>2 DEF StartReconciliation
  <1>3. CASE Lookup(r)
    BY <1>3, GoToType DEF Lookup, TypeOK, ServiceTypeOK, serviceVars
  <1>4. CASE LookupError(r)
    BY <1>4, GoToType DEF LookupError, TypeOK, ServiceTypeOK, serviceVars
  <1>5. CASE ConfirmReconciled(r)
    <2>1. CASE /\ SetRow(r, [RowOf(r) EXCEPT !.state = "COMPLETED",
                                             !.effect = Registered(OpOf[r])])
               /\ Answer(r, "OK", Registered(OpOf[r]), TRUE)
      <3>1. [RowOf(r) EXCEPT !.state = "COMPLETED", !.effect = Registered(OpOf[r])] \in Row
        BY <1>0 DEF Row
      <3> QED
        BY <1>0, <1>5, <2>1, <3>1, SetRowType, AnswerType
        DEF ConfirmReconciled, TypeOK, ServiceTypeOK, serviceVars
    <2>2. CASE GoTo(r, "inconclusive") /\ UNCHANGED ledger
      BY <1>5, <2>2, GoToType DEF ConfirmReconciled, TypeOK, ServiceTypeOK, serviceVars
    <2> QED
      BY <1>5, <2>1, <2>2 DEF ConfirmReconciled
  <1>6. CASE ReconciledNoEffect(r)
    BY <1>0, <1>6, TransitionAndAnswerType DEF ReconciledNoEffect
  <1>7. CASE ReconciliationInconclusive(r)
    BY <1>0, <1>7, TransitionAndAnswerType DEF ReconciliationInconclusive
  <1> QED
    BY <1>1, <1>2, <1>3, <1>4, <1>5, <1>6, <1>7 DEF Reconcile

\* Every step of the system keeps the types.
LEMMA StepType ==
    ASSUME TypeOK, [Next]_vars
    PROVE  TypeOK'
  <1>1. ASSUME NEW r \in Requests,
               PrepareLedger(r) \/ Execute(r) \/ Reconcile(r)
        PROVE  TypeOK'
    BY <1>1, PrepareType, ExecuteType, ReconcileType
  <1>2. ASSUME NEW r \in Requests, Serve(r) \/ AnswerLost(r)
        PROVE  TypeOK'
    BY <1>2, ServiceType DEF Serve, AnswerLost, TypeOK, orchVars
  <1>3. ASSUME NEW o \in Ops, LeaseExpires(o)
        PROVE  TypeOK'
    <2>1. [ledger[o] EXCEPT !.expired = TRUE] \in Row
      BY DEF TypeOK, Row
    <2>2. ledger' = [ledger EXCEPT ![o] = [ledger[o] EXCEPT !.expired = TRUE]]
      BY <1>3 DEF LeaseExpires
    <2> QED
      BY <1>3, <2>1, <2>2 DEF LeaseExpires, TypeOK, ServiceTypeOK, serviceVars
  <1>4. CASE Crash
    <2>1. crashes' \in 0..MaxCrashes
      BY <1>4, ConfigAssumption DEF Crash, TypeOK
    <2>2. pc' \in [Requests -> Phase]
      BY <1>4 DEF Crash, TypeOK, Phase
    <2> QED
      BY <1>4, <2>1, <2>2 DEF Crash, TypeOK, ServiceTypeOK, serviceVars
  <1>5. CASE UNCHANGED vars
    BY <1>5 DEF vars, TypeOK, ServiceTypeOK
  <1> QED
    BY <1>1, <1>2, <1>3, <1>4, <1>5 DEF Next, Finished

\* Type correctness: every variable keeps the type its table or its handler
\* gives it.
THEOREM TypeCorrect == Spec => []TypeOK
  <1>1. Init => TypeOK
    BY ConfigAssumption, RequestAssumption
    DEF Init, ServiceInit, TypeOK, ServiceTypeOK, EffectRef, CallPhase, Capability,
        Phase, NoRow, Row, NoReply, Reply, Status, Absent
  <1>2. TypeOK /\ [Next]_vars => TypeOK'
    BY StepType
  <1> QED
    BY <1>1, <1>2, PTL DEF Spec

-----------------------------------------------------------------------------
(* The configuration never changes, nor what is read off it.               *)

LEMMA SameConfiguration ==
    ASSUME UNCHANGED config
    PROVE  /\ Variant' = Variant
           /\ DownstreamCapability' = DownstreamCapability
           /\ LedgerBacked' = LedgerBacked
           /\ AllowReconcile' = AllowReconcile
           /\ DispatchCapability' = DispatchCapability
           /\ MayRedispatch' = MayRedispatch
  BY DEF Variant, DownstreamCapability, LedgerBacked, AllowReconcile, PropagateIdentity,
     DispatchCapability, MayRedispatch

LEMMA ConfigurationKept ==
    ASSUME [Next]_vars
    PROVE  UNCHANGED config
  <1> USE DEF Answer, Fail, GoTo, TransitionAndAnswer
  <1>1. ASSUME NEW r \in Requests, PrepareLedger(r)
        PROVE  UNCHANGED config
    BY <1>1 DEF PrepareLedger, LedgerReadUnavailable, FindNoRow,
       LedgerWriteUnavailable, OperationIdConflict, ReplayResult, RecoverFinalResult,
       ReportState, EnterUnknown, InsertAndClaim, Claim, RejectClaim
  <1>2. ASSUME NEW r \in Requests, Execute(r)
        PROVE  UNCHANGED config
    BY <1>2 DEF Execute, FailBeforeDispatch, RefuseCapability, Dispatch, DispatchError,
       AnswerUnledgered, LoseResponseAfterEffect, SimulateCrash, LoseConfirmation,
       FinalizeStale, FinalizeLedger, DelayedReply
  <1>3. ASSUME NEW r \in Requests, Reconcile(r)
        PROVE  UNCHANGED config
    BY <1>3 DEF Reconcile, CannotReconcile, StartReconciliation, Lookup,
       LookupError, ConfirmReconciled, ReconciledNoEffect, ReconciliationInconclusive
  <1> QED
    BY <1>1, <1>2, <1>3 DEF Next, Serve, AnswerLost, LeaseExpires, Crash, Finished,
       orchVars, vars

-----------------------------------------------------------------------------
(* Calls: one per request, keyed effects unique.                           *)

\* A step of a handler that calls nobody keeps CallInv if the request does
\* not go back to a phase before its call.
LEMMA CallInvKept ==
    ASSUME CallInv, UNCHANGED <<config, serviceVars>>,
           \A q \in Requests :
              \/ pc'[q] = pc[q]
              \/ pc'[q] = "inserting" /\ pc[q] = "idle" /\ LedgerBacked
              \/ pc'[q] = "proceed" /\ pc[q] \in {"idle", "inserting"} /\ (pc[q] = "idle" => LedgerBacked)
              \/ pc'[q] \notin {"idle", "inserting", "proceed", "waiting"}
    PROVE  CallInv'
  BY SameConfiguration DEF CallInv, serviceVars, Keyed, Registered

\* prepareLedger and reconcile call no execute, nor does Execute but in
\* Dispatch, and none of them takes a request back.
LEMMA HandlerPhases ==
    ASSUME TypeOK, NEW r \in Requests,
           PrepareLedger(r) \/ (Execute(r) /\ ~Dispatch(r)) \/ Reconcile(r)
    PROVE  /\ UNCHANGED <<config, serviceVars>>
           /\ \A q \in Requests :
                 \/ pc'[q] = pc[q]
                 \/ pc'[q] = "inserting" /\ pc[q] = "idle" /\ LedgerBacked
                 \/ pc'[q] = "proceed" /\ pc[q] \in {"idle", "inserting"} /\ (pc[q] = "idle" => LedgerBacked)
                 \/ pc'[q] \notin {"idle", "inserting", "proceed", "waiting"}
  <1> USE DEF Answer, Fail, GoTo, TransitionAndAnswer
  <1>0. pc \in [Requests -> Phase]
    BY DEF TypeOK
  <1>1. CASE PrepareLedger(r)
    BY <1>0, <1>1 DEF PrepareLedger, LedgerReadUnavailable, FindNoRow,
       LedgerWriteUnavailable, OperationIdConflict, ReplayResult, RecoverFinalResult,
       ReportState, EnterUnknown, InsertAndClaim, Claim, RejectClaim, Decides, Arrived
  <1>2. CASE Execute(r) /\ ~Dispatch(r)
    BY <1>0, <1>2 DEF Execute, FailBeforeDispatch, RefuseCapability, DispatchError,
       AnswerUnledgered, LoseResponseAfterEffect, SimulateCrash, LoseConfirmation,
       FinalizeStale, FinalizeLedger, DelayedReply, serviceVars
  <1>3. CASE Reconcile(r)
    BY <1>0, <1>3 DEF Reconcile, CannotReconcile, StartReconciliation, Lookup,
       LookupError, ConfirmReconciled, ReconciledNoEffect, ReconciliationInconclusive,
       serviceVars
  <1> QED
    BY <1>1, <1>2, <1>3

\* The dispatch makes the one call of its request.
LEMMA DispatchCall ==
    ASSUME TypeOK, CallInv, NEW r \in Requests, Dispatch(r)
    PROVE  CallInv'
  <1>1. /\ call[r].phase = "none"
        /\ call' = [call EXCEPT ![r] = [call[r] EXCEPT !.phase = "received",
                                                       !.cap = DispatchCapability]]
        /\ UNCHANGED <<config, idempotency, effects>>
        /\ pc' = [pc EXCEPT ![r] = "waiting"]
    BY DEF Dispatch, Submit, GoTo
  <1>2. ~(Variant = "V3" /\ DownstreamCapability = "C0")
    BY DEF Dispatch, Unprotected, CallInv, TypeOK, LedgerBacked
  <1>3. r \notin effects
    BY <1>1 DEF CallInv
  <1>4. /\ call'[r].phase = "received" /\ call'[r].cap = DispatchCapability
        /\ \A q \in Requests \ {r} : call'[q] = call[q]
    BY <1>1 DEF TypeOK, ServiceTypeOK
  <1> QED
    BY <1>1, <1>2, <1>3, <1>4, SameConfiguration
    DEF CallInv, Keyed, Registered, TypeOK, ServiceTypeOK

\* A step of the service changes only the call it works on, never whether the
\* call was made, and adds at most an effect that no keyed effect precedes.
LEMMA ServiceCall ==
    ASSUME TypeOK, CallInv, NEW r \in Requests, Serve(r) \/ AnswerLost(r)
    PROVE  CallInv'
  <1>1. /\ UNCHANGED <<config, pc>>
        /\ call[r].phase # "none" /\ call'[r].phase # "none"
        /\ call'[r].cap = call[r].cap
        /\ \A q \in Requests \ {r} : call'[q] = call[q]
    BY DEF Serve, AnswerLost, ServiceStep, ReplayExisting, BeginCreate, CommitEffect,
       RejectDuplicateKey, AbortCall, LoseAnswer, orchVars, TypeOK, ServiceTypeOK
  <1>2. CASE Serve(r) /\ CommitEffect(r)
    <2>1. /\ effects' = effects \cup {r}
          /\ call'[r].phase = "answered"
          /\ Keyed(r) => /\ Registered(OpOf[r]) = NoEffect
                         /\ idempotency' = [idempotency EXCEPT ![OpOf[r]] = r]
          /\ ~Keyed(r) => idempotency' = idempotency
      BY <1>2 DEF CommitEffect, TypeOK, ServiceTypeOK
    <2>2. ASSUME NEW e \in effects, Keyed(e), e # r
          PROVE  idempotency'[OpOf[e]] = e
      <3>1. idempotency[OpOf[e]] = e /\ e # NoEffect /\ e \in Requests
        BY <2>2, RequestAssumption DEF CallInv, Registered, TypeOK, ServiceTypeOK
      <3>2. Keyed(r) => OpOf[r] # OpOf[e]
        BY <2>1, <3>1 DEF Registered
      <3> QED
        BY <2>1, <3>1, <3>2, RequestAssumption DEF TypeOK, ServiceTypeOK
    <2>3. Keyed(r) => idempotency'[OpOf[r]] = r
      BY <2>1, RequestAssumption DEF TypeOK, ServiceTypeOK
    <2> QED
      BY <1>1, <2>1, <2>2, <2>3, SameConfiguration
      DEF CallInv, Keyed, Registered, TypeOK, ServiceTypeOK
  <1>3. CASE ~CommitEffect(r)
    <2>1. /\ UNCHANGED <<idempotency, effects>>
          /\ r \in effects => call'[r].phase = "failed"
      BY <1>3 DEF Serve, AnswerLost, ServiceStep, ReplayExisting, BeginCreate,
         RejectDuplicateKey, AbortCall, LoseAnswer, CallInv, TypeOK, ServiceTypeOK
    <2>2. /\ Variant' = Variant /\ DownstreamCapability' = DownstreamCapability
          /\ LedgerBacked' = LedgerBacked /\ DispatchCapability' = DispatchCapability
      BY <1>1, SameConfiguration
    <2> QED
      BY <1>1, <2>1, <2>2 DEF CallInv, Keyed, Registered, TypeOK, ServiceTypeOK
  <1> QED
    BY <1>2, <1>3 DEF AnswerLost, LoseAnswer, CommitEffect

LEMMA StepCallInv ==
    ASSUME TypeOK, CallInv, [Next]_vars
    PROVE  CallInv'
  <1>1. ASSUME NEW r \in Requests, PrepareLedger(r) \/ Execute(r) \/ Reconcile(r)
        PROVE  CallInv'
    BY <1>1, HandlerPhases, CallInvKept, DispatchCall
  <1>2. ASSUME NEW r \in Requests, Serve(r) \/ AnswerLost(r)
        PROVE  CallInv'
    BY <1>2, ServiceCall
  <1>3. ASSUME NEW o \in Ops, LeaseExpires(o)
        PROVE  CallInv'
    BY <1>3, CallInvKept DEF LeaseExpires
  <1>4. CASE Crash
    BY <1>4, CallInvKept DEF Crash, TypeOK
  <1>5. CASE UNCHANGED vars
    BY <1>5, CallInvKept DEF vars, serviceVars
  <1> QED
    BY <1>1, <1>2, <1>3, <1>4, <1>5 DEF Next, Finished

\* The invariant of the calls, for every variant and capability.
THEOREM CallsInvariant == Spec => [](TypeOK /\ CallInv)
  <1>1. Init => CallInv
    BY DEF Init, ServiceInit, CallInv, Keyed, Registered
  <1>2. TypeOK /\ CallInv /\ [Next]_vars => CallInv'
    BY StepCallInv
  <1> QED
    BY <1>1, <1>2, TypeCorrect, PTL DEF Spec

-----------------------------------------------------------------------------
(* The claim: exclusive where nothing reconciles through a lookup.         *)

\* A step that touches neither ledger nor calls, and lets no request proceed
\* or reconcile.
LEMMA ClaimKept ==
    ASSUME ExclusiveClaim, UNCHANGED <<config, ledger>>,
           \A q \in Requests : call'[q].phase # "none" => call[q].phase # "none",
           \A q \in Requests :
              pc'[q] = pc[q]
              \/ /\ pc'[q] \notin {"proceed", "lookup", "found", "absent", "inconclusive"}
                 /\ pc'[q] = "reconcile" => AllowReconcile
    PROVE  ExclusiveClaim'
  BY SameConfiguration DEF ExclusiveClaim, RowOf, Reconciling

\* A step that moves a row but leaves it with its owner: it must leave it in a
\* state that suits those who may still dispatch and those who have.
LEMMA ClaimMoved ==
    ASSUME TypeOK, ExclusiveClaim, NEW r \in Requests, NEW row \in Row,
           SetRow(r, row), UNCHANGED <<config, serviceVars>>,
           row.owner = RowOf(r).owner,
           row.state \notin {"RECEIVED", "CLAIMED", "RECONCILING", "FAILED_FINAL"},
           \A q \in Requests : OpOf[q] = OpOf[r] /\ pc'[q] = "proceed" =>
              row.state \in {"EXECUTING", "UNKNOWN"},
           \A q \in Requests : OpOf[q] = OpOf[r] /\ call[q].phase # "none" =>
              row.state \in {"EXECUTING", "UNKNOWN", "EFFECT_CONFIRMED", "COMPLETED"},
           \A q \in Requests :
              pc'[q] = pc[q]
              \/ /\ pc'[q] \notin {"proceed", "lookup", "found", "absent", "inconclusive"}
                 /\ pc'[q] = "reconcile" => AllowReconcile
    PROVE  ExclusiveClaim'
  <1>1. /\ ledger'[OpOf[r]] = row
        /\ \A o \in Ops : o # OpOf[r] => ledger'[o] = ledger[o]
    BY SeenRowType DEF SetRow, TypeOK
  <1>2. \A q \in Requests : OpOf[q] \in Ops
    BY RequestAssumption
  <1> QED
    BY <1>1, <1>2, SameConfiguration DEF ExclusiveClaim, RowOf, Reconciling, serviceVars

\* A row is claimed only when nobody holds it.
LEMMA ClaimTaken ==
    ASSUME TypeOK, CallInv, ExclusiveClaim, NEW r \in Requests, NEW row \in Row,
           SetRow(r, Claimed(r, row)), UNCHANGED serviceVars, GoTo(r, "proceed"),
           pc[r] \in {"idle", "inserting"},
           RowOf(r).state \in {Absent, "RETRYABLE_FAILURE"}
    PROVE  ExclusiveClaim'
  <1>1. /\ Claimed(r, row).owner = r
        /\ Claimed(r, row).state = "EXECUTING"
    BY DEF Claimed, Row
  <1>2. /\ ledger'[OpOf[r]] = Claimed(r, row)
        /\ \A o \in Ops : o # OpOf[r] => ledger'[o] = ledger[o]
    BY SeenRowType DEF SetRow, TypeOK
  <1>3. \A q \in Requests : OpOf[q] \in Ops
    BY RequestAssumption
  <1>4. \A q \in Requests : OpOf[q] = OpOf[r] =>
           pc[q] # "proceed" /\ call[q].phase = "none"
    BY DEF ExclusiveClaim, RowOf, Absent
  <1>5. /\ pc'[r] = "proceed"
        /\ \A q \in Requests \ {r} : pc'[q] = pc[q]
        /\ UNCHANGED config
    BY DEF GoTo, TypeOK
  <1> QED
    BY <1>1, <1>2, <1>3, <1>4, <1>5, SameConfiguration
    DEF ExclusiveClaim, RowOf, Reconciling, serviceVars

\* The row a request decides on differs from the stored one in its state only,
\* and there only by the mark of an expired lease.
LEMMA SeenRowFields ==
    ASSUME TypeOK, NEW r \in Requests
    PROVE  /\ SeenRow(r) \in Row
           /\ SeenRow(r).owner = RowOf(r).owner
           /\ SeenRow(r).effect = RowOf(r).effect
           /\ \/ SeenRow(r).state = RowOf(r).state
              \/ RowOf(r).state = "EXECUTING" /\ SeenRow(r).state = "UNKNOWN"
  <1>1. RowOf(r) \in Row /\ SeenRow(r) \in Row
    BY SeenRowType
  <1> QED
    BY <1>1 DEF SeenRow, MarkExpired, Row

LEMMA PrepareClaim ==
    ASSUME TypeOK, CallInv, ExclusiveClaim, NEW r \in Requests, PrepareLedger(r)
    PROVE  ExclusiveClaim'
  <1>0. /\ UNCHANGED <<config, serviceVars>>
        /\ pc \in [Requests -> Phase]
    BY HandlerPhases DEF TypeOK
  <1>1. ASSUME NEW status, NEW e, NEW b, Answer(r, status, e, b), UNCHANGED ledger
        PROVE  ExclusiveClaim'
    BY <1>0, <1>1, ClaimKept DEF Answer, serviceVars
  <1>2. CASE LedgerReadUnavailable(r)
    BY <1>1, <1>2 DEF LedgerReadUnavailable, Fail
  <1>3. CASE FindNoRow(r)
    BY <1>0, <1>3, ClaimKept DEF FindNoRow, GoTo, serviceVars
  <1>4. CASE LedgerWriteUnavailable(r)
    BY <1>1, <1>4 DEF LedgerWriteUnavailable, Fail
  <1>5. CASE OperationIdConflict(r)
    BY <1>1, <1>5 DEF OperationIdConflict, Fail
  <1>6. CASE ReplayResult(r)
    BY <1>1, <1>6 DEF ReplayResult, serviceVars
  <1>7. CASE RecoverFinalResult(r)
    <2> DEFINE row == [SeenRow(r) EXCEPT !.state = "COMPLETED"]
    <2>1. /\ row \in Row /\ row.state = "COMPLETED" /\ row.owner = RowOf(r).owner
          /\ RowOf(r).state = "EFFECT_CONFIRMED"
      BY <1>7, SeenRowFields DEF RecoverFinalResult, Allowed, Row, LedgerState
    <2>2. /\ SetRow(r, row)
          /\ pc' = [pc EXCEPT ![r] = "done"]
      BY <1>7 DEF RecoverFinalResult, Answer
    <2>3. \A q \in Requests : OpOf[q] = OpOf[r] => pc[q] # "proceed"
      BY <2>1 DEF ExclusiveClaim, RowOf
    <2> HIDE DEF row
    <2> QED
      BY <1>0, <2>1, <2>2, <2>3, ClaimMoved
  <1>8. CASE ReportState(r)
    BY <1>1, <1>8 DEF ReportState, serviceVars
  <1>9. CASE EnterUnknown(r)
    <2>1. /\ SeenRow(r) \in Row /\ SeenRow(r).owner = RowOf(r).owner
          /\ SeenRow(r).state = "UNKNOWN"
          /\ SetRow(r, SeenRow(r))
      BY <1>9, SeenRowFields DEF EnterUnknown
    <2>2. \/ AllowReconcile /\ pc' = [pc EXCEPT ![r] = "reconcile"]
          \/ pc' = [pc EXCEPT ![r] = "done"]
      BY <1>9 DEF EnterUnknown, GoTo, Answer
    <2> QED
      BY <1>0, <2>1, <2>2, ClaimMoved
  <1>10. CASE InsertAndClaim(r)
    <2>1. [NoRow EXCEPT !.hash = HashOf[r]] \in Row
      BY DEF NoRow, Row, RequestHash, EffectRef, Absent
    <2> QED
      BY <1>0, <1>10, <2>1, ClaimTaken DEF InsertAndClaim, Exists
  <1>11. CASE Claim(r)
    <2>1. pc[r] \in {"idle", "inserting"}
      BY <1>11 DEF Claim, Decides, Arrived
    <2>2. SeenRow(r) \in Row /\ RowOf(r).state \in {Absent, "RETRYABLE_FAILURE"}
      BY <1>11, SeenRowFields, RequestAssumption
      DEF Claim, MayClaim, ExclusiveClaim, RowOf
    <2> QED
      BY <1>0, <1>11, <2>1, <2>2, ClaimTaken DEF Claim
  <1>12. CASE RejectClaim(r)
    BY <1>1, <1>12 DEF RejectClaim, Fail
  <1> QED
    BY <1>2, <1>3, <1>4, <1>5, <1>6, <1>7, <1>8, <1>9, <1>10, <1>11, <1>12 DEF PrepareLedger

LEMMA ExecuteClaim ==
    ASSUME TypeOK, CallInv, ExclusiveClaim, LedgerBacked,
           NEW r \in Requests, Execute(r)
    PROVE  ExclusiveClaim'
  <1>0. pc \in [Requests -> Phase] /\ RowOf(r) \in Row
    BY SeenRowType DEF TypeOK
  <1>1. ASSUME NEW status, NEW e, NEW b, Answer(r, status, e, b),
               UNCHANGED <<ledger, serviceVars>>
        PROVE  ExclusiveClaim'
    BY <1>0, <1>1, ClaimKept DEF Answer, serviceVars
  <1>2. CASE FailBeforeDispatch(r)
    <2>1. CASE /\ SetRow(r, [RowOf(r) EXCEPT !.state = "RETRYABLE_FAILURE"])
               /\ Answer(r, "RETRYABLE_FAILURE", NoEffect, FALSE)
      <3> DEFINE row == [RowOf(r) EXCEPT !.state = "RETRYABLE_FAILURE"]
      <3>1. /\ row \in Row /\ row.state = "RETRYABLE_FAILURE"
            /\ row.owner = RowOf(r).owner
        BY <1>0 DEF Row, LedgerState
      <3>2. pc[r] = "proceed" /\ call[r].phase = "none" /\ RowOf(r).owner = r
        BY <1>2 DEF FailBeforeDispatch, ExclusiveClaim, CallInv
      <3>3. \A q \in Requests : OpOf[q] = OpOf[r] =>
               /\ call[q].phase = "none"
               /\ pc[q] = "proceed" => q = r
        BY <3>2 DEF ExclusiveClaim, RowOf
      <3>4. /\ SetRow(r, row) /\ pc' = [pc EXCEPT ![r] = "done"]
            /\ UNCHANGED <<config, serviceVars>>
        BY <1>2, <2>1 DEF FailBeforeDispatch, Answer
      <3> HIDE DEF row
      <3> QED
        BY <1>0, <3>1, <3>3, <3>4, ClaimMoved
    <2>2. CASE Fail(r, "ILLEGAL_OR_STALE_LEDGER_TRANSITION")
      BY <1>1, <1>2, <2>2 DEF FailBeforeDispatch, Fail, serviceVars
    <2> QED
      BY <1>2, <2>1, <2>2 DEF FailBeforeDispatch, TransitionAndAnswer
  <1>3. CASE RefuseCapability(r)
    BY <1>3 DEF RefuseCapability, LedgerBacked
  <1>4. CASE Dispatch(r)
    <2>1. /\ pc[r] = "proceed"
          /\ pc' = [pc EXCEPT ![r] = "waiting"]
          /\ \A q \in Requests \ {r} : call'[q] = call[q]
          /\ UNCHANGED <<config, ledger>>
      BY <1>4 DEF Dispatch, Unprotected, GoTo, Submit, TypeOK, ServiceTypeOK
    <2> QED
      BY <1>0, <2>1, SameConfiguration DEF ExclusiveClaim, RowOf, Reconciling
  <1>5. CASE DispatchError(r)
    BY <1>1, <1>5 DEF DispatchError, Fail, serviceVars
  <1>6. CASE AnswerUnledgered(r)
    BY <1>6 DEF AnswerUnledgered
  <1>7. CASE LoseResponseAfterEffect(r)
    BY <1>7 DEF LoseResponseAfterEffect
  <1>8. CASE SimulateCrash(r)
    BY <1>1, <1>8 DEF SimulateCrash
  <1>9. CASE LoseConfirmation(r)
    <2>1. CASE /\ SetRow(r, [RowOf(r) EXCEPT !.state = "UNKNOWN"])
               /\ Answer(r, "UNKNOWN", call[r].effect, FALSE)
      <3> DEFINE row == [RowOf(r) EXCEPT !.state = "UNKNOWN"]
      <3>1. row \in Row /\ row.state = "UNKNOWN" /\ row.owner = RowOf(r).owner
        BY <1>0 DEF Row, LedgerState
      <3>2. /\ SetRow(r, row) /\ pc' = [pc EXCEPT ![r] = "done"]
            /\ UNCHANGED <<config, serviceVars>>
        BY <1>9, <2>1 DEF LoseConfirmation, Answer
      <3> HIDE DEF row
      <3> QED
        BY <1>0, <3>1, <3>2, ClaimMoved
    <2>2. CASE Fail(r, "ILLEGAL_OR_STALE_LEDGER_TRANSITION")
      BY <1>1, <1>9, <2>2 DEF LoseConfirmation, Fail, serviceVars
    <2> QED
      BY <1>9, <2>1, <2>2 DEF LoseConfirmation, TransitionAndAnswer
  <1>10. CASE FinalizeStale(r)
    BY <1>1, <1>10 DEF FinalizeStale, Fail, serviceVars
  <1>11. CASE FinalizeLedger(r)
    <2>1. PICK s \in {"EFFECT_CONFIRMED", "COMPLETED"}, p \in {"delayed", "done"} :
            /\ SetRow(r, [RowOf(r) EXCEPT !.state = s, !.effect = call[r].effect])
            /\ pc' = [pc EXCEPT ![r] = p]
      BY <1>11 DEF FinalizeLedger
    <2> DEFINE row == [RowOf(r) EXCEPT !.state = s, !.effect = call[r].effect]
    <2>2. row \in Row /\ row.state = s /\ row.owner = RowOf(r).owner
      BY <1>0 DEF Row, LedgerState, TypeOK, ServiceTypeOK
    <2>3. pc[r] = "waiting" /\ RowOf(r).owner = r
      BY <1>11 DEF FinalizeLedger, Returned, ExclusiveClaim
    <2>4. \A q \in Requests : OpOf[q] = OpOf[r] => pc[q] # "proceed"
      BY <2>3 DEF ExclusiveClaim, RowOf
    <2>5. SetRow(r, row) /\ UNCHANGED <<config, serviceVars>>
      BY <1>11, <2>1 DEF FinalizeLedger
    <2> HIDE DEF row
    <2> QED
      BY <1>0, <2>1, <2>2, <2>4, <2>5, ClaimMoved
  <1>12. CASE DelayedReply(r)
    BY <1>0, <1>12, ClaimKept DEF DelayedReply, GoTo, serviceVars
  <1> QED
    BY <1>2, <1>3, <1>4, <1>5, <1>6, <1>7, <1>8, <1>9, <1>10, <1>11, <1>12 DEF Execute

\* Without a lookup, reconcile only ever answers UNKNOWN.
LEMMA ReconcileClaim ==
    ASSUME TypeOK, ExclusiveClaim, ~MayRedispatch, NEW r \in Requests, Reconcile(r)
    PROVE  ExclusiveClaim'
  <1>1. /\ pc[r] \notin {"lookup", "found", "absent", "inconclusive"}
        /\ pc[r] = "reconcile" => DownstreamCapability # "C2"
    BY DEF ExclusiveClaim, Reconciling, MayRedispatch
  <1>2. CannotReconcile(r)
    BY <1>1 DEF Reconcile, StartReconciliation, Lookup, LookupError,
       ConfirmReconciled, ReconciledNoEffect, ReconciliationInconclusive
  <1> QED
    BY <1>2, ClaimKept DEF CannotReconcile, Answer, serviceVars, TypeOK

\* The service never makes a call of its own.
LEMMA ServiceClaim ==
    ASSUME TypeOK, ExclusiveClaim, NEW r \in Requests, Serve(r) \/ AnswerLost(r)
    PROVE  ExclusiveClaim'
  <1>1. /\ UNCHANGED <<config, pc, ledger>>
        /\ \A q \in Requests : call'[q].phase # "none" => call[q].phase # "none"
    BY DEF Serve, AnswerLost, ServiceStep, ReplayExisting, BeginCreate, CommitEffect,
       RejectDuplicateKey, AbortCall, LoseAnswer, orchVars, TypeOK, ServiceTypeOK
  <1> QED
    BY <1>1, ClaimKept

LEMMA StepExclusiveClaim ==
    ASSUME LedgerBacked, ~MayRedispatch, TypeOK, CallInv, ExclusiveClaim, [Next]_vars
    PROVE  ExclusiveClaim'
  <1>1. ASSUME NEW r \in Requests, PrepareLedger(r) \/ Execute(r) \/ Reconcile(r)
        PROVE  ExclusiveClaim'
    BY <1>1, PrepareClaim, ExecuteClaim, ReconcileClaim
  <1>2. ASSUME NEW r \in Requests, Serve(r) \/ AnswerLost(r)
        PROVE  ExclusiveClaim'
    BY <1>2, ServiceClaim
  <1>3. ASSUME NEW o \in Ops, LeaseExpires(o)
        PROVE  ExclusiveClaim'
    <2>1. /\ \A p \in Ops : /\ ledger'[p].owner = ledger[p].owner
                            /\ ledger'[p].state = ledger[p].state
          /\ UNCHANGED <<config, pc, call>>
      BY <1>3 DEF LeaseExpires, TypeOK, Row, serviceVars
    <2>2. \A q \in Requests : OpOf[q] \in Ops
      BY RequestAssumption
    <2> QED
      BY <2>1, <2>2, SameConfiguration DEF ExclusiveClaim, RowOf, Reconciling
  <1>4. CASE Crash
    BY <1>4, ClaimKept DEF Crash, TypeOK, serviceVars
  <1>5. CASE UNCHANGED vars
    BY <1>5, ClaimKept DEF vars
  <1> QED
    BY <1>1, <1>2, <1>3, <1>4, <1>5 DEF Next, Finished

\* The invariant of the claims.
THEOREM ClaimsInvariant == Spec => []ExclusiveClaimIfLedgered
  <1>1. Init => ExclusiveClaimIfLedgered
    BY RequestAssumption
    DEF Init, ServiceInit, ExclusiveClaimIfLedgered, ExclusiveClaim, Reconciling, NoRow,
        RowOf, Absent
  <1>2. TypeOK /\ CallInv /\ ExclusiveClaimIfLedgered /\ [Next]_vars
           => ExclusiveClaimIfLedgered'
    BY StepExclusiveClaim, ConfigurationKept, SameConfiguration
    DEF ExclusiveClaimIfLedgered
  <1> QED
    BY <1>1, <1>2, CallsInvariant, PTL DEF Spec

-----------------------------------------------------------------------------
(* What follows.                                                           *)

\* An operation has at most one effect, in every configuration that promises
\* it: by the registered effect where calls are keyed, by the owner of the row
\* where they are not.
THEOREM EffectsUnique == Spec => []AtMostOneEffect
  <1>1. TypeOK /\ CallInv /\ ExclusiveClaimIfLedgered => AtMostOneEffect
    <2> SUFFICES ASSUME TypeOK, CallInv, ExclusiveClaimIfLedgered,
                        Protected, NEW e1 \in effects, NEW e2 \in effects, OpOf[e1] = OpOf[e2]
                 PROVE  e1 = e2
      BY DEF AtMostOneEffect
    <2>1. /\ e1 \in Requests /\ e2 \in Requests
          /\ call[e1].phase # "none" /\ call[e2].phase # "none"
      BY DEF TypeOK, ServiceTypeOK, CallInv
    <2>2. CASE DispatchCapability # "C0"
      BY <2>1, <2>2 DEF CallInv, Keyed
    <2>3. CASE DispatchCapability = "C0" /\ LedgerBacked
      <3>1. ~MayRedispatch
        BY <2>3 DEF MayRedispatch, DispatchCapability, PropagateIdentity, AllowReconcile
      <3> QED
        BY <2>1, <2>3, <3>1 DEF ExclusiveClaimIfLedgered, ExclusiveClaim, RowOf
    <2>4. CASE DispatchCapability = "C0" /\ Variant = "V3"
      BY <2>1, <2>4 DEF CallInv, DispatchCapability
    <2> QED
      BY <2>2, <2>3, <2>4 DEF Protected
  <1> QED
    BY <1>1, CallsInvariant, ClaimsInvariant, PTL

\* Where nothing reconciles through a lookup, an operation that may be claimed
\* is one nobody has dispatched.
THEOREM RetriesAreBlameless == Spec => []NoBlindRetry
  <1>1. ExclusiveClaimIfLedgered => NoBlindRetry
    BY DEF ExclusiveClaimIfLedgered, ExclusiveClaim, NoBlindRetry, RequestsOf, RowOf, Absent
  <1> QED
    BY <1>1, ClaimsInvariant, PTL

\* Where nothing reconciles through a lookup, one request at a time executes.
THEOREM ExecutionIsExclusive == Spec => []OneExecutor
  <1>1. CallInv /\ ExclusiveClaimIfLedgered => OneExecutor
    BY DEF CallInv, ExclusiveClaimIfLedgered, ExclusiveClaim, OneExecutor,
       ExclusiveOwnership, Executing, RowOf
  <1> QED
    BY <1>1, CallsInvariant, ClaimsInvariant, PTL

=============================================================================
