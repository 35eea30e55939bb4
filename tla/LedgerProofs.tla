---------------------------- MODULE LedgerProofs ----------------------------
(***************************************************************************)
(* Proofs about what rows and replies say: every effect they name is real, *)
(* and rows move only where architecture.md lets them.                     *)
(***************************************************************************)
EXTENDS OrchestratorProofs

-----------------------------------------------------------------------------
(* Truth: whatever names an effect names one that exists.                  *)

\* Without a step of the service, rows, replies and lookups are all there is to
\* look at.
LEMMA TruthKept ==
    ASSUME TruthInv, UNCHANGED serviceVars,
           \A o \in Ops : ledger'[o].state \in {"EFFECT_CONFIRMED", "COMPLETED"} =>
              ledger'[o].effect \in EffectsOf(o),
           \A q \in Requests : reply'[q].status = "OK" => reply'[q].effect \in EffectsOf(OpOf[q]),
           \A q \in Requests : pc'[q] = "found" => Registered(OpOf[q]) # NoEffect
    PROVE  TruthInv'
  BY DEF TruthInv, ConfirmedMeansEffect, AnswersAreTrue, EffectsOf, Registered, serviceVars

\* A transaction that writes row and then answers.
LEMMA TruthOfAnswer ==
    ASSUME TypeOK, TruthInv, UNCHANGED serviceVars, NEW r \in Requests,
           NEW status, NEW e, NEW b, Answer(r, status, e, b),
           status = "OK" => e \in EffectsOf(OpOf[r]),
           \/ UNCHANGED ledger
           \/ \E row \in Row : /\ SetRow(r, row)
                               /\ row.state \in {"EFFECT_CONFIRMED", "COMPLETED"} =>
                                     row.effect \in EffectsOf(OpOf[r])
    PROVE  TruthInv'
  <1>1. \A o \in Ops : ledger'[o].state \in {"EFFECT_CONFIRMED", "COMPLETED"} =>
           ledger'[o].effect \in EffectsOf(o)
    BY DEF TruthInv, ConfirmedMeansEffect, SetRow, TypeOK
  <1>2. \A q \in Requests : reply'[q].status = "OK" => reply'[q].effect \in EffectsOf(OpOf[q])
    BY DEF TruthInv, AnswersAreTrue, Answer, Reply, TypeOK
  <1>3. \A q \in Requests : pc'[q] = "found" => Registered(OpOf[q]) # NoEffect
    BY DEF TruthInv, Answer, TypeOK
  <1> QED
    BY <1>1, <1>2, <1>3, TruthKept

\* A transaction that writes row, confirming nothing, after which the handler
\* goes on.
LEMMA TruthOfGoTo ==
    ASSUME TypeOK, TruthInv, UNCHANGED serviceVars, NEW r \in Requests,
           NEW phase, GoTo(r, phase),
           phase = "found" => Registered(OpOf[r]) # NoEffect,
           \/ UNCHANGED ledger
           \/ \E row \in Row : /\ SetRow(r, row)
                               /\ row.state \notin {"EFFECT_CONFIRMED", "COMPLETED"}
    PROVE  TruthInv'
  <1>1. \A o \in Ops : ledger'[o].state \in {"EFFECT_CONFIRMED", "COMPLETED"} =>
           ledger'[o].effect \in EffectsOf(o)
    BY DEF TruthInv, ConfirmedMeansEffect, SetRow, TypeOK
  <1>2. \A q \in Requests : reply'[q].status = "OK" => reply'[q].effect \in EffectsOf(OpOf[q])
    BY DEF TruthInv, AnswersAreTrue, GoTo
  <1>3. \A q \in Requests : pc'[q] = "found" => Registered(OpOf[q]) # NoEffect
    BY DEF TruthInv, GoTo, TypeOK
  <1> QED
    BY <1>1, <1>2, <1>3, TruthKept

\* A transition that confirms nothing keeps what is said true.
LEMMA TruthOfTransition ==
    ASSUME TypeOK, TruthInv, UNCHANGED serviceVars, NEW r \in Requests,
           NEW before, NEW after \in LedgerState \ {"EFFECT_CONFIRMED", "COMPLETED"},
           NEW status, NEW e, status # "OK",
           TransitionAndAnswer(r, before, after, status, e)
    PROVE  TruthInv'
  <1>1. CASE /\ SetRow(r, [RowOf(r) EXCEPT !.state = after])
             /\ Answer(r, status, e, FALSE)
    <2>1. /\ [RowOf(r) EXCEPT !.state = after] \in Row
          /\ [RowOf(r) EXCEPT !.state = after].state = after
      BY SeenRowType DEF Row
    <2> QED
      BY <1>1, <2>1, TruthOfAnswer
  <1>2. CASE Fail(r, "ILLEGAL_OR_STALE_LEDGER_TRANSITION")
    BY <1>2, TruthOfAnswer DEF Fail
  <1> QED
    BY <1>1, <1>2 DEF TransitionAndAnswer

\* The row a request decides on is confirmed only if the stored one is.
LEMMA SeenRowTruth ==
    ASSUME TypeOK, TruthInv, NEW r \in Requests,
           SeenRow(r).state \in {"EFFECT_CONFIRMED", "COMPLETED"}
    PROVE  SeenRow(r).effect \in EffectsOf(OpOf[r])
  <1>1. RowOf(r).state \in {"EFFECT_CONFIRMED", "COMPLETED"} /\ OpOf[r] \in Ops
    BY SeenRowFields, SeenRowType
  <1> QED
    BY <1>1, SeenRowFields DEF TruthInv, ConfirmedMeansEffect, RowOf

\* Whatever prepareLedger replays or reports is true.
LEMMA PrepareTruth ==
    ASSUME TypeOK, TruthInv, NEW r \in Requests, PrepareLedger(r)
    PROVE  TruthInv'
  <1>0. UNCHANGED serviceVars
    BY HandlerPhases
  <1>1. ASSUME NEW status, status # "OK", Fail(r, status)
        PROVE  TruthInv'
    BY <1>0, <1>1, TruthOfAnswer DEF Fail
  <1>2. CASE FindNoRow(r)
    BY <1>0, <1>2, TruthOfGoTo DEF FindNoRow
  <1>3. CASE ReplayResult(r)
    BY <1>0, <1>3, SeenRowTruth, TruthOfAnswer DEF ReplayResult
  <1>4. CASE RecoverFinalResult(r)
    <2> DEFINE row == [SeenRow(r) EXCEPT !.state = "COMPLETED"]
    <2>1. row \in Row /\ row.effect = SeenRow(r).effect
      BY SeenRowType DEF Row, LedgerState
    <2>2. SeenRow(r).effect \in EffectsOf(OpOf[r])
      BY <1>4, SeenRowTruth DEF RecoverFinalResult, Allowed
    <2>3. SetRow(r, row) /\ Answer(r, "OK", SeenRow(r).effect, TRUE)
      BY <1>4 DEF RecoverFinalResult
    <2> HIDE DEF row
    <2> QED
      BY <1>0, <2>1, <2>2, <2>3, TruthOfAnswer
  <1>5. CASE ReportState(r)
    <2> DEFINE status == IF SeenRow(r).state = "FAILED_FINAL" THEN "FAILED_FINAL" ELSE "IN_PROGRESS"
    <2>1. /\ Answer(r, status, SeenRow(r).effect, SeenRow(r).state = "FAILED_FINAL")
          /\ UNCHANGED ledger /\ status # "OK"
      BY <1>5 DEF ReportState
    <2> HIDE DEF status
    <2> QED
      BY <1>0, <2>1, TruthOfAnswer
  <1>6. CASE EnterUnknown(r)
    <2>1. /\ SeenRow(r) \in Row /\ SeenRow(r).state = "UNKNOWN" /\ SetRow(r, SeenRow(r))
      BY <1>6, SeenRowType DEF EnterUnknown
    <2>2. CASE GoTo(r, "reconcile")
      BY <1>0, <2>1, <2>2, TruthOfGoTo
    <2>3. CASE Answer(r, "UNKNOWN", SeenRow(r).effect, FALSE)
      BY <1>0, <2>1, <2>3, TruthOfAnswer
    <2> QED
      BY <1>6, <2>2, <2>3 DEF EnterUnknown
  <1>7. ASSUME NEW row \in Row, SetRow(r, Claimed(r, row)), GoTo(r, "proceed")
        PROVE  TruthInv'
    <2>1. Claimed(r, row) \in Row /\ Claimed(r, row).state = "EXECUTING"
      BY DEF Claimed, Row, LedgerState, EffectRef
    <2> QED
      BY <1>0, <1>7, <2>1, TruthOfGoTo
  <1>8. CASE InsertAndClaim(r)
    <2>1. [NoRow EXCEPT !.hash = HashOf[r]] \in Row
      BY DEF NoRow, Row, RequestHash, EffectRef, Absent
    <2> QED
      BY <1>7, <1>8, <2>1 DEF InsertAndClaim
  <1>9. CASE Claim(r)
    BY <1>7, <1>9, SeenRowType DEF Claim
  <1> QED
    BY <1>1, <1>2, <1>3, <1>4, <1>5, <1>6, <1>8, <1>9
    DEF PrepareLedger, LedgerReadUnavailable, LedgerWriteUnavailable, OperationIdConflict,
        RejectClaim

\* What execute persists and answers is what the service answered.
LEMMA ExecuteTruth ==
    ASSUME TypeOK, TruthInv, NEW r \in Requests, Execute(r)
    PROVE  TruthInv'
  <1>0. Returned(r) => call[r].effect \in EffectsOf(OpOf[r])
    BY DEF TruthInv, Returned
  <1>1. ASSUME NEW status, status # "OK", Fail(r, status), UNCHANGED serviceVars
        PROVE  TruthInv'
    BY <1>1, TruthOfAnswer DEF Fail
  <1>2. CASE FailBeforeDispatch(r)
    BY <1>2, TruthOfTransition DEF FailBeforeDispatch, LedgerState
  <1>3. CASE Dispatch(r)
    <2>1. /\ \A q \in Requests : call'[q].phase = "answered" => call'[q] = call[q]
          /\ \A q \in Requests : pc'[q] = "found" => pc[q] = "found"
          /\ UNCHANGED <<ledger, reply, idempotency, effects>>
      BY <1>3 DEF Dispatch, Submit, GoTo, TypeOK, ServiceTypeOK
    <2> QED
      BY <2>1 DEF TruthInv, ConfirmedMeansEffect, AnswersAreTrue, EffectsOf, Registered
  <1>4. CASE AnswerUnledgered(r)
    BY <1>0, <1>4, TruthOfAnswer DEF AnswerUnledgered
  <1>5. CASE SimulateCrash(r)
    BY <1>5, TruthOfAnswer DEF SimulateCrash
  <1>6. CASE LoseConfirmation(r)
    BY <1>6, TruthOfTransition DEF LoseConfirmation, LedgerState
  <1>7. CASE FinalizeLedger(r)
    <2>1. PICK s \in {"EFFECT_CONFIRMED", "COMPLETED"}, m \in {"EFFECT_CONFIRMED", "OK"},
               p \in {"delayed", "done"} :
            /\ SetRow(r, [RowOf(r) EXCEPT !.state = s, !.effect = call[r].effect])
            /\ reply' = [reply EXCEPT ![r] = Reply(m, call[r].effect, FALSE)]
            /\ pc' = [pc EXCEPT ![r] = p]
      BY <1>7 DEF FinalizeLedger
    <2>2. call[r].effect \in EffectsOf(OpOf[r]) /\ UNCHANGED serviceVars
      BY <1>0, <1>7 DEF FinalizeLedger
    <2>3. \A o \in Ops : ledger'[o].state \in {"EFFECT_CONFIRMED", "COMPLETED"} =>
             ledger'[o].effect \in EffectsOf(o)
      BY <2>1, <2>2, SeenRowType
      DEF TruthInv, ConfirmedMeansEffect, SetRow, RowOf, Row, TypeOK
    <2>4. \A q \in Requests : reply'[q].status = "OK" => reply'[q].effect \in EffectsOf(OpOf[q])
      BY <2>1, <2>2 DEF TruthInv, AnswersAreTrue, Reply, TypeOK
    <2>5. \A q \in Requests : pc'[q] = "found" => Registered(OpOf[q]) # NoEffect
      BY <2>1 DEF TruthInv, TypeOK
    <2> QED
      BY <2>2, <2>3, <2>4, <2>5, TruthKept
  <1>8. CASE DelayedReply(r)
    BY <1>8, TruthOfGoTo DEF DelayedReply
  <1> QED
    BY <1>1, <1>2, <1>3, <1>4, <1>5, <1>6, <1>7, <1>8
    DEF Execute, RefuseCapability, DispatchError, LoseResponseAfterEffect, FinalizeStale

\* What a reconciliation confirms is what the lookup found registered.
LEMMA ReconcileTruth ==
    ASSUME TypeOK, TruthInv, NEW r \in Requests, Reconcile(r)
    PROVE  TruthInv'
  <1>0. UNCHANGED serviceVars /\ OpOf[r] \in Ops
    BY HandlerPhases, RequestAssumption
  <1>1. CASE CannotReconcile(r)
    BY <1>0, <1>1, TruthOfAnswer DEF CannotReconcile
  <1>2. CASE StartReconciliation(r)
    <2>1. /\ [RowOf(r) EXCEPT !.state = "RECONCILING"] \in Row
          /\ [RowOf(r) EXCEPT !.state = "RECONCILING"].state = "RECONCILING"
      BY SeenRowType DEF Row, LedgerState
    <2>2. CASE SetRow(r, [RowOf(r) EXCEPT !.state = "RECONCILING"]) /\ GoTo(r, "lookup")
      BY <1>0, <2>1, <2>2, TruthOfGoTo
    <2>3. CASE Fail(r, "ILLEGAL_OR_STALE_LEDGER_TRANSITION")
      BY <1>0, <2>3, TruthOfAnswer DEF Fail
    <2> QED
      BY <1>2, <2>2, <2>3 DEF StartReconciliation
  <1>3. CASE Lookup(r)
    BY <1>0, <1>3, TruthOfGoTo DEF Lookup
  <1>4. CASE LookupError(r)
    BY <1>0, <1>4, TruthOfGoTo DEF LookupError
  <1>5. CASE ConfirmReconciled(r)
    <2>1. CASE /\ SetRow(r, [RowOf(r) EXCEPT !.state = "COMPLETED",
                                             !.effect = Registered(OpOf[r])])
               /\ Answer(r, "OK", Registered(OpOf[r]), TRUE)
      <3> DEFINE row == [RowOf(r) EXCEPT !.state = "COMPLETED", !.effect = Registered(OpOf[r])]
      <3>1. Registered(OpOf[r]) \in EffectsOf(OpOf[r])
        BY <1>0, <1>5 DEF ConfirmReconciled, TruthInv
      <3>2. row \in Row /\ row.effect = Registered(OpOf[r])
        BY <1>0, SeenRowType DEF Row, LedgerState, Registered, TypeOK, ServiceTypeOK
      <3>3. SetRow(r, row)
        BY <2>1
      <3> HIDE DEF row
      <3> QED
        BY <1>0, <2>1, <3>1, <3>2, <3>3, TruthOfAnswer
    <2>2. CASE GoTo(r, "inconclusive") /\ UNCHANGED ledger
      BY <1>0, <2>2, TruthOfGoTo
    <2> QED
      BY <1>5, <2>1, <2>2 DEF ConfirmReconciled
  <1>6. CASE ReconciledNoEffect(r)
    BY <1>0, <1>6, TruthOfTransition DEF ReconciledNoEffect, LedgerState
  <1>7. CASE ReconciliationInconclusive(r)
    BY <1>0, <1>7, TruthOfTransition DEF ReconciliationInconclusive, LedgerState
  <1> QED
    BY <1>1, <1>2, <1>3, <1>4, <1>5, <1>6, <1>7 DEF Reconcile

\* The service answers with the effect it registered or just created, and
\* never removes an effect or a mapping.
LEMMA ServiceTruth ==
    ASSUME TypeOK, TruthInv, NEW r \in Requests, Serve(r) \/ AnswerLost(r)
    PROVE  TruthInv'
  <1>1. UNCHANGED <<pc, ledger, reply>> /\ OpOf[r] \in Ops /\ r # NoEffect
    BY RequestAssumption DEF Serve, AnswerLost, orchVars
  <1>2. effects \subseteq effects'
    BY DEF Serve, AnswerLost, ServiceStep, ReplayExisting, BeginCreate, CommitEffect,
       RejectDuplicateKey, AbortCall, LoseAnswer
  <1>3. \A o \in Ops : EffectsOf(o) \subseteq EffectsOf(o)'
    BY <1>2 DEF EffectsOf
  <1>4. \A o \in Ops : /\ Registered(o) # NoEffect => Registered(o)' = Registered(o)
                       /\ Registered(o)' # NoEffect => Registered(o)' \in EffectsOf(o)'
    <2>1. CASE Serve(r) /\ CommitEffect(r)
      BY <1>1, <1>3, <2>1
      DEF CommitEffect, Registered, EffectsOf, TruthInv, TypeOK, ServiceTypeOK
    <2>2. CASE UNCHANGED idempotency
      BY <1>3, <2>2 DEF TruthInv, Registered
    <2> QED
      BY <2>1, <2>2 DEF Serve, AnswerLost, ServiceStep, ReplayExisting, BeginCreate,
         RejectDuplicateKey, AbortCall, LoseAnswer
  <1>5. \A q \in Requests : call'[q].phase = "answered" => call'[q].effect \in EffectsOf(OpOf[q])'
    <2>1. CASE Serve(r) /\ CommitEffect(r)
      BY <1>3, <2>1, RequestAssumption DEF CommitEffect, EffectsOf, TruthInv, TypeOK, ServiceTypeOK
    <2>2. CASE Serve(r) /\ ReplayExisting(r)
      <3>1. /\ call'[r].effect = Registered(OpOf[r]) /\ Registered(OpOf[r]) # NoEffect
            /\ \A q \in Requests \ {r} : call'[q] = call[q]
        BY <2>2 DEF ReplayExisting, TypeOK, ServiceTypeOK
      <3>2. Registered(OpOf[r]) \in EffectsOf(OpOf[r])'
        BY <1>1, <1>3, <3>1 DEF TruthInv
      <3>3. \A q \in Requests \ {r} : call'[q].phase = "answered" =>
               call'[q].effect \in EffectsOf(OpOf[q])'
        BY <1>3, <3>1, RequestAssumption DEF TruthInv
      <3> QED
        BY <3>1, <3>2, <3>3
    <2>3. CASE \A q \in Requests : call'[q].phase = "answered" => call'[q] = call[q]
      BY <1>3, <2>3, RequestAssumption DEF TruthInv
    <2> QED
      BY <2>1, <2>2, <2>3 DEF Serve, AnswerLost, ServiceStep, BeginCreate,
         RejectDuplicateKey, AbortCall, LoseAnswer, TypeOK, ServiceTypeOK
  <1> QED
    BY <1>1, <1>3, <1>4, <1>5, RequestAssumption
    DEF TruthInv, ConfirmedMeansEffect, AnswersAreTrue

\* Every step keeps the truth.
LEMMA StepTruth ==
    ASSUME TypeOK, TruthInv, [Next]_vars
    PROVE  TruthInv'
  <1>1. ASSUME NEW r \in Requests, PrepareLedger(r) \/ Execute(r) \/ Reconcile(r)
        PROVE  TruthInv'
    BY <1>1, PrepareTruth, ExecuteTruth, ReconcileTruth
  <1>2. ASSUME NEW r \in Requests, Serve(r) \/ AnswerLost(r)
        PROVE  TruthInv'
    BY <1>2, ServiceTruth
  <1>3. ASSUME NEW o \in Ops, LeaseExpires(o)
        PROVE  TruthInv'
    <2>1. /\ \A p \in Ops : /\ ledger'[p].effect = ledger[p].effect
                            /\ ledger'[p].state = ledger[p].state
          /\ UNCHANGED <<pc, reply, serviceVars>>
      BY <1>3 DEF LeaseExpires, TypeOK, Row
    <2> QED
      BY <2>1, TruthKept DEF TruthInv, ConfirmedMeansEffect, AnswersAreTrue
  <1>4. CASE Crash
    <2>1. \A q \in Requests : pc'[q] = "found" => pc[q] = "found"
      BY <1>4 DEF Crash
    <2> QED
      BY <1>4, <2>1, TruthKept DEF Crash, TruthInv, ConfirmedMeansEffect, AnswersAreTrue
  <1>5. CASE UNCHANGED vars
    BY <1>5, TruthKept DEF vars, serviceVars, TruthInv, ConfirmedMeansEffect, AnswersAreTrue
  <1> QED
    BY <1>1, <1>2, <1>3, <1>4, <1>5 DEF Next, Finished

\* Whatever names an effect names a real one, always.
THEOREM TruthInvariant == Spec => []TruthInv
  <1>1. Init => TruthInv
    BY RequestAssumption
    DEF Init, ServiceInit, TruthInv, ConfirmedMeansEffect, AnswersAreTrue, Registered, NoRow,
        NoReply, Reply, Absent
  <1>2. TypeOK /\ TruthInv /\ [Next]_vars => TruthInv'
    BY StepTruth
  <1> QED
    BY <1>1, <1>2, TypeCorrect, PTL DEF Spec

\* Every OK names an effect of the operation asked for.
THEOREM AnswersTrue == Spec => []AnswersAreTrue
  <1>1. TruthInv => AnswersAreTrue
    BY DEF TruthInv
  <1> QED
    BY <1>1, TruthInvariant, PTL

\* A row confirms only an effect that exists.
THEOREM ConfirmationsTrue == Spec => []ConfirmedMeansEffect
  <1>1. TruthInv => ConfirmedMeansEffect
    BY DEF TruthInv
  <1> QED
    BY <1>1, TruthInvariant, PTL

-----------------------------------------------------------------------------
(* Rows: the moves a transaction can commit.                               *)

\* What may become of the row of operation o.
RowStep(o) ==
    \/ ledger'[o] = ledger[o]
    \/ /\ LedgerBacked
       /\ ledger[o].state \in {Absent, "RECEIVED", "RETRYABLE_FAILURE"}
       /\ ledger'[o].state = "EXECUTING"
    \/ /\ <<ledger[o].state, ledger'[o].state>> \in RowMoves
       /\ ledger'[o].owner = ledger[o].owner
    \/ /\ ledger[o].state = "EXECUTING" /\ ledger'[o].state = "EXECUTING"
       /\ ledger'[o].owner = ledger[o].owner

\* A write to the row of r's operation is a step of every row if it is one of
\* that row.
LEMMA RowWritten ==
    ASSUME TypeOK, NEW r \in Requests, NEW row \in Row, SetRow(r, row),
           \/ row = RowOf(r)
           \/ /\ LedgerBacked
              /\ RowOf(r).state \in {Absent, "RECEIVED", "RETRYABLE_FAILURE"}
              /\ row.state = "EXECUTING"
           \/ /\ <<RowOf(r).state, row.state>> \in RowMoves
              /\ row.owner = RowOf(r).owner
    PROVE  \A o \in Ops : RowStep(o)
  <1>1. /\ ledger'[OpOf[r]] = row
        /\ \A o \in Ops : o # OpOf[r] => ledger'[o] = ledger[o]
    BY SeenRowType DEF SetRow, TypeOK
  <1> QED
    BY <1>1 DEF RowStep, RowOf

\* A step that writes no row moves none.
LEMMA RowUnwritten ==
    ASSUME UNCHANGED ledger
    PROVE  \A o \in Ops : RowStep(o)
  BY DEF RowStep

\* transition moves its row the way it was asked to, or not at all.
LEMMA RowTransition ==
    ASSUME TypeOK, NEW r \in Requests, NEW before, NEW after \in LedgerState,
           <<before, after>> \in RowMoves,
           NEW status, NEW e, TransitionAndAnswer(r, before, after, status, e)
    PROVE  \A o \in Ops : RowStep(o)
  <1>1. CASE Allowed(RowOf(r), before, after) /\ SetRow(r, [RowOf(r) EXCEPT !.state = after])
    <2>1. /\ [RowOf(r) EXCEPT !.state = after] \in Row
          /\ [RowOf(r) EXCEPT !.state = after].state = after
          /\ [RowOf(r) EXCEPT !.state = after].owner = RowOf(r).owner
          /\ RowOf(r).state = before
      BY <1>1, SeenRowType DEF Row, Allowed
    <2> QED
      BY <1>1, <2>1, RowWritten
  <1>2. CASE UNCHANGED ledger
    BY <1>2, RowUnwritten
  <1> QED
    BY <1>1, <1>2 DEF TransitionAndAnswer, Fail

\* prepareLedger claims, marks or completes a row, and does nothing else to it.
LEMMA PrepareRow ==
    ASSUME TypeOK, CallInv, NEW r \in Requests, PrepareLedger(r)
    PROVE  \A o \in Ops : RowStep(o)
  <1>0. /\ RowOf(r) \in Row /\ SeenRow(r) \in Row
        /\ \/ SeenRow(r).state = RowOf(r).state /\ SeenRow(r) = RowOf(r)
           \/ RowOf(r).state = "EXECUTING" /\ SeenRow(r).state = "UNKNOWN"
        /\ SeenRow(r).owner = RowOf(r).owner
    BY SeenRowType DEF SeenRow, MarkExpired, Row
  <1>1. CASE RecoverFinalResult(r)
    <2> DEFINE row == [SeenRow(r) EXCEPT !.state = "COMPLETED"]
    <2>1. row \in Row /\ row.state = "COMPLETED" /\ row.owner = RowOf(r).owner
      BY <1>0 DEF Row, LedgerState
    <2>2. RowOf(r).state = "EFFECT_CONFIRMED" /\ SetRow(r, row)
      BY <1>0, <1>1 DEF RecoverFinalResult, Allowed
    <2>3. <<"EFFECT_CONFIRMED", "COMPLETED">> \in RowMoves
      BY DEF RowMoves
    <2> HIDE DEF row
    <2> QED
      BY <2>1, <2>2, <2>3, RowWritten
  <1>2. CASE EnterUnknown(r)
    <2>1. SetRow(r, SeenRow(r)) /\ SeenRow(r).state = "UNKNOWN"
      BY <1>2 DEF EnterUnknown
    <2>2. <<"EXECUTING", "UNKNOWN">> \in RowMoves
      BY DEF RowMoves
    <2> QED
      BY <1>0, <2>1, <2>2, RowWritten
  <1>3. CASE InsertAndClaim(r)
    <2> DEFINE row == Claimed(r, [NoRow EXCEPT !.hash = HashOf[r]])
    <2>1. row \in Row /\ row.state = "EXECUTING"
      BY DEF Claimed, NoRow, Row, RequestHash, EffectRef, Absent, LedgerState
    <2>2. LedgerBacked /\ RowOf(r).state = Absent /\ SetRow(r, row)
      BY <1>3 DEF InsertAndClaim, CallInv, Exists
    <2> HIDE DEF row
    <2> QED
      BY <2>1, <2>2, RowWritten
  <1>4. CASE Claim(r)
    <2> DEFINE row == Claimed(r, SeenRow(r))
    <2>1. row \in Row /\ row.state = "EXECUTING"
      BY <1>0 DEF Claimed, Row, EffectRef, LedgerState
    <2>2. /\ LedgerBacked /\ SetRow(r, row)
          /\ RowOf(r).state \in {"RECEIVED", "RETRYABLE_FAILURE"}
      BY <1>0, <1>4 DEF Claim, MayClaim, IsLegal, ListedTransitions, Decides, Arrived, CallInv, Absent
    <2> HIDE DEF row
    <2> QED
      BY <2>1, <2>2, RowWritten
  <1>5. CASE UNCHANGED ledger
    BY <1>5, RowUnwritten
  <1> QED
    BY <1>1, <1>2, <1>3, <1>4, <1>5
    DEF PrepareLedger, LedgerReadUnavailable, FindNoRow, LedgerWriteUnavailable,
        OperationIdConflict, ReplayResult, ReportState, RejectClaim, Fail

\* execute moves a row out of EXECUTING only.
LEMMA ExecuteRow ==
    ASSUME TypeOK, NEW r \in Requests, Execute(r)
    PROVE  \A o \in Ops : RowStep(o)
  <1>1. CASE FailBeforeDispatch(r)
    BY <1>1, RowTransition DEF FailBeforeDispatch, RowMoves, LedgerState
  <1>2. CASE LoseConfirmation(r)
    BY <1>2, RowTransition DEF LoseConfirmation, RowMoves, LedgerState
  <1>3. CASE FinalizeLedger(r)
    <2>1. PICK s \in {"EFFECT_CONFIRMED", "COMPLETED"} :
             SetRow(r, [RowOf(r) EXCEPT !.state = s, !.effect = call[r].effect])
      BY <1>3 DEF FinalizeLedger
    <2> DEFINE row == [RowOf(r) EXCEPT !.state = s, !.effect = call[r].effect]
    <2>2. row \in Row /\ row.state = s /\ row.owner = RowOf(r).owner
      BY SeenRowType DEF Row, LedgerState, TypeOK, ServiceTypeOK
    <2>3. RowOf(r).state = "EXECUTING" /\ SetRow(r, row)
      BY <1>3, <2>1 DEF FinalizeLedger, Allowed
    <2>4. <<"EXECUTING", s>> \in RowMoves
      BY DEF RowMoves
    <2> HIDE DEF row
    <2> QED
      BY <2>2, <2>3, <2>4, RowWritten
  <1>4. CASE UNCHANGED ledger
    BY <1>4, RowUnwritten
  <1> QED
    BY <1>1, <1>2, <1>3, <1>4
    DEF Execute, RefuseCapability, Dispatch, DispatchError, AnswerUnledgered,
        LoseResponseAfterEffect, SimulateCrash, FinalizeStale, DelayedReply, Fail

\* A reconciliation moves a row out of UNKNOWN or RECONCILING only.
LEMMA ReconcileRow ==
    ASSUME TypeOK, NEW r \in Requests, Reconcile(r)
    PROVE  \A o \in Ops : RowStep(o)
  <1>1. CASE /\ StartReconciliation(r)
             /\ Allowed(RowOf(r), "UNKNOWN", "RECONCILING")
             /\ SetRow(r, [RowOf(r) EXCEPT !.state = "RECONCILING"])
    <2> DEFINE row == [RowOf(r) EXCEPT !.state = "RECONCILING"]
    <2>1. row \in Row /\ row.state = "RECONCILING" /\ row.owner = RowOf(r).owner
      BY SeenRowType DEF Row, LedgerState
    <2>2. RowOf(r).state = "UNKNOWN" /\ SetRow(r, row)
      BY <1>1 DEF Allowed
    <2>3. <<"UNKNOWN", "RECONCILING">> \in RowMoves
      BY DEF RowMoves
    <2> HIDE DEF row
    <2> QED
      BY <2>1, <2>2, <2>3, RowWritten
  <1>2. CASE /\ ConfirmReconciled(r)
             /\ Allowed(RowOf(r), "RECONCILING", "EFFECT_CONFIRMED")
             /\ SetRow(r, [RowOf(r) EXCEPT !.state = "COMPLETED",
                                           !.effect = Registered(OpOf[r])])
    <2> DEFINE row == [RowOf(r) EXCEPT !.state = "COMPLETED", !.effect = Registered(OpOf[r])]
    <2>1. row \in Row /\ row.state = "COMPLETED" /\ row.owner = RowOf(r).owner
      BY SeenRowType DEF Row, LedgerState, Registered, TypeOK, ServiceTypeOK
    <2>2. RowOf(r).state = "RECONCILING" /\ SetRow(r, row)
      BY <1>2 DEF Allowed
    <2>3. <<"RECONCILING", "COMPLETED">> \in RowMoves
      BY DEF RowMoves
    <2> HIDE DEF row
    <2> QED
      BY <2>1, <2>2, <2>3, RowWritten
  <1>3. CASE ReconciledNoEffect(r)
    BY <1>3, RowTransition DEF ReconciledNoEffect, RowMoves, LedgerState
  <1>4. CASE ReconciliationInconclusive(r)
    BY <1>4, RowTransition DEF ReconciliationInconclusive, RowMoves, LedgerState
  <1>5. CASE UNCHANGED ledger
    BY <1>5, RowUnwritten
  <1> QED
    BY <1>1, <1>2, <1>3, <1>4, <1>5
    DEF Reconcile, CannotReconcile, StartReconciliation, Lookup, LookupError,
        ConfirmReconciled, Fail

\* Every step is a step of every row.
LEMMA EveryRowStep ==
    ASSUME TypeOK, CallInv, [Next]_vars
    PROVE  \A o \in Ops : RowStep(o)
  <1>1. ASSUME NEW r \in Requests, PrepareLedger(r) \/ Execute(r) \/ Reconcile(r)
        PROVE  \A o \in Ops : RowStep(o)
    BY <1>1, PrepareRow, ExecuteRow, ReconcileRow
  <1>2. ASSUME NEW p \in Ops, LeaseExpires(p)
        PROVE  \A o \in Ops : RowStep(o)
    <2>1. /\ ledger'[p] = [ledger[p] EXCEPT !.expired = TRUE]
          /\ ledger[p].state = "EXECUTING" /\ ledger[p] \in Row
          /\ \A o \in Ops : o # p => ledger'[o] = ledger[o]
      BY <1>2 DEF LeaseExpires, TypeOK
    <2>2. ledger'[p].state = "EXECUTING" /\ ledger'[p].owner = ledger[p].owner
      BY <2>1 DEF Row
    <2> QED
      BY <2>1, <2>2 DEF RowStep
  <1>3. CASE UNCHANGED ledger
    BY <1>3, RowUnwritten
  <1> QED
    BY <1>1, <1>2, <1>3 DEF Next, Serve, AnswerLost, orchVars, Crash, Finished, vars

\* Rows rest where RestInv says, in every variant.
THEOREM RowsRest == Spec => []RestInv
  <1>1. Init => RestInv
    BY DEF Init, RestInv, NoRow, Absent
  <1>2. TypeOK /\ CallInv /\ RestInv /\ [Next]_vars => RestInv'
    <2> SUFFICES ASSUME TypeOK, CallInv, RestInv, [Next]_vars, NEW o \in Ops
                 PROVE  /\ ledger'[o].state \notin {"RECEIVED", "CLAIMED", "FAILED_FINAL"}
                        /\ ~LedgerBacked => ledger'[o].state = Absent
      BY ConfigurationKept, SameConfiguration DEF RestInv
    <2>1. RowStep(o)
      BY EveryRowStep
    <2> QED
      BY <2>1 DEF RestInv, RowStep, RowMoves, Absent
  <1> QED
    BY <1>1, <1>2, CallsInvariant, PTL DEF Spec

\* No restart finds a row where nothing would move it on.
THEOREM NothingRestsUnclaimed == Spec => []NeverRestsUnclaimed
  <1>1. RestInv => NeverRestsUnclaimed
    BY DEF RestInv, NeverRestsUnclaimed
  <1> QED
    BY <1>1, RowsRest, PTL

\* A claim changes hands only from no row or from RETRYABLE_FAILURE.
THEOREM ClaimsAreLegal == Spec => ClaimsFromRetryableOnly
  <1>1. TypeOK /\ CallInv /\ RestInv /\ [Next]_vars =>
           [\A o \in Ops : ledger[o].owner' # ledger[o].owner =>
               ledger[o].state \in {Absent, "RETRYABLE_FAILURE"}]_vars
    BY EveryRowStep DEF RowStep, RestInv
  <1> QED
    BY <1>1, CallsInvariant, RowsRest, PTL DEF Spec, ClaimsFromRetryableOnly

\* The row of a completed operation never changes again.
THEOREM CompletionIsFinal == Spec => CompletedIsFinal
  <1>1. TypeOK /\ CallInv /\ [Next]_vars =>
           [\A o \in Ops : ledger[o].state = "COMPLETED" => ledger[o]' = ledger[o]]_vars
    BY EveryRowStep DEF RowStep, RowMoves, Absent
  <1> QED
    BY <1>1, CallsInvariant, PTL DEF Spec, CompletedIsFinal

\* Without a lookup no step moves a row out of UNKNOWN.
LEMMA AmbiguityStep ==
    ASSUME TypeOK, CallInv, RestInv, ExclusiveClaimIfLedgered', [Next]_vars,
           ~MayRedispatch, NEW o \in Ops, ledger[o].state = "UNKNOWN"
    PROVE  ledger'[o].state = "UNKNOWN"
  <1>1. LedgerBacked
    BY DEF RestInv, Absent
  <1>2. ledger'[o].state # "RECONCILING"
    BY <1>1, ConfigurationKept, SameConfiguration DEF ExclusiveClaimIfLedgered, ExclusiveClaim
  <1>3. RowStep(o)
    BY EveryRowStep
  <1> QED
    BY <1>2, <1>3 DEF RowStep, RowMoves, Absent

\* Where nothing reconciles through a lookup, UNKNOWN stays UNKNOWN.
THEOREM AmbiguityIsKept == Spec => AmbiguityStays
  <1>1. TypeOK /\ CallInv /\ RestInv /\ ExclusiveClaimIfLedgered' /\ [Next]_vars =>
           [~MayRedispatch =>
               \A o \in Ops : ledger[o].state = "UNKNOWN" => ledger[o].state' = "UNKNOWN"]_vars
    BY AmbiguityStep
  <1> QED
    BY <1>1, CallsInvariant, RowsRest, ClaimsInvariant, PTL DEF Spec, AmbiguityStays

-----------------------------------------------------------------------------
(* Reconciliation: one at a time, and nobody else moves its row.           *)

\* Nobody begins to reconcile and no row leaves RECONCILING.
LEMMA ReconcilerKept ==
    ASSUME OneReconciler,
           \A o \in Ops : ledger[o].state = "RECONCILING" => ledger'[o].state = "RECONCILING",
           \A q \in Requests : Reconciling(q)' => Reconciling(q)
    PROVE  OneReconciler'
  BY RequestAssumption DEF OneReconciler, RequestsOf, RowOf

\* prepareLedger and ledgerBacked only write rows that are in another state.
LEMMA OthersKeepReconciling ==
    ASSUME TypeOK, NEW r \in Requests, PrepareLedger(r) \/ Execute(r)
    PROVE  /\ \A o \in Ops : ledger[o].state = "RECONCILING" => ledger'[o].state = "RECONCILING"
           /\ \A q \in Requests : Reconciling(q)' => Reconciling(q)
  <1>1. \/ UNCHANGED ledger
        \/ RowOf(r).state # "RECONCILING" /\ \E row : SetRow(r, row)
        \/ SetRow(r, RowOf(r))
    <2>1. RowOf(r).state = "RECONCILING" => SeenRow(r) = RowOf(r)
      BY DEF SeenRow, MarkExpired
    <2>2. CASE PrepareLedger(r)
      BY <2>1, <2>2 DEF PrepareLedger, LedgerReadUnavailable, FindNoRow, LedgerWriteUnavailable,
         OperationIdConflict, ReplayResult, RecoverFinalResult, ReportState, EnterUnknown,
         InsertAndClaim, Claim, RejectClaim, Fail, Exists, MayClaim, IsLegal, ListedTransitions,
         Allowed, Absent
    <2>3. CASE Execute(r)
      BY <2>3 DEF Execute, FailBeforeDispatch, RefuseCapability, Dispatch, DispatchError,
         AnswerUnledgered, LoseResponseAfterEffect, SimulateCrash, LoseConfirmation,
         FinalizeStale, FinalizeLedger, DelayedReply, TransitionAndAnswer, Allowed, Fail
    <2> QED
      BY <2>2, <2>3
  <1>2. \A o \in Ops : ledger[o].state = "RECONCILING" => ledger'[o].state = "RECONCILING"
    BY <1>1 DEF SetRow, RowOf, TypeOK
  <1>3. \A q \in Requests : pc'[q] = pc[q] \/ ~Reconciling(q)'
    <2>1. pc \in [Requests -> Phase]
      BY DEF TypeOK
    <2>2. CASE PrepareLedger(r)
      BY <2>1, <2>2 DEF PrepareLedger, LedgerReadUnavailable, FindNoRow, LedgerWriteUnavailable,
         OperationIdConflict, ReplayResult, RecoverFinalResult, ReportState, EnterUnknown,
         InsertAndClaim, Claim, RejectClaim, Fail, Answer, GoTo, Reconciling
    <2>3. CASE Execute(r)
      BY <2>1, <2>3 DEF Execute, FailBeforeDispatch, RefuseCapability, Dispatch, DispatchError,
         AnswerUnledgered, LoseResponseAfterEffect, SimulateCrash, LoseConfirmation,
         FinalizeStale, FinalizeLedger, DelayedReply, TransitionAndAnswer, Fail, Answer, GoTo,
         Reconciling
    <2> QED
      BY <2>2, <2>3
  <1> QED
    BY <1>2, <1>3 DEF Reconciling

\* A reconciliation enters from UNKNOWN, so no other one is under way.
LEMMA ReconcileAlone ==
    ASSUME TypeOK, OneReconciler, NEW r \in Requests, Reconcile(r)
    PROVE  OneReconciler'
  <1>0. pc \in [Requests -> Phase] /\ OpOf \in [Requests -> Ops] /\ ledger \in [Ops -> Row]
    BY RequestAssumption DEF TypeOK
  <1>1. CASE \/ CannotReconcile(r) \/ Lookup(r) \/ LookupError(r)
    BY <1>0, <1>1, ReconcilerKept
    DEF CannotReconcile, Lookup, LookupError, GoTo, Answer, Reconciling
  <1>2. CASE StartReconciliation(r)
    <2>1. CASE /\ Allowed(RowOf(r), "UNKNOWN", "RECONCILING")
               /\ SetRow(r, [RowOf(r) EXCEPT !.state = "RECONCILING"])
               /\ GoTo(r, "lookup")
      <3>1. \A q \in RequestsOf(OpOf[r]) : ~Reconciling(q)
        BY <2>1 DEF Allowed, OneReconciler, RequestsOf, RowOf
      <3>2. /\ ledger'[OpOf[r]].state = "RECONCILING"
            /\ \A o \in Ops : o # OpOf[r] => ledger'[o] = ledger[o]
        BY <1>0, <2>1 DEF SetRow, RowOf, Row
      <3>3. \A q \in Requests : q # r => pc'[q] = pc[q]
        BY <1>0, <2>1 DEF GoTo
      <3> QED
        BY <1>0, <3>1, <3>2, <3>3 DEF OneReconciler, Reconciling, RequestsOf, RowOf
    <2>2. CASE Fail(r, "ILLEGAL_OR_STALE_LEDGER_TRANSITION")
      BY <1>0, <2>2, ReconcilerKept DEF Fail, Answer, Reconciling
    <2> QED
      BY <1>2, <2>1, <2>2 DEF StartReconciliation
  <1>3. CASE ConfirmReconciled(r) \/ ReconciledNoEffect(r) \/ ReconciliationInconclusive(r)
    <2>1. Reconciling(r) /\ RowOf(r).state = "RECONCILING"
      BY <1>3 DEF ConfirmReconciled, ReconciledNoEffect, ReconciliationInconclusive,
         OneReconciler, Reconciling
    <2>2. /\ pc' = [pc EXCEPT ![r] = "done"]
          /\ \E row : SetRow(r, row)
      BY <1>3, <2>1 DEF ConfirmReconciled, ReconciledNoEffect, ReconciliationInconclusive,
         TransitionAndAnswer, Allowed, Answer, IsLegal, ListedTransitions
    <2>3. \A q \in RequestsOf(OpOf[r]) : q # r => ~Reconciling(q)
      BY <2>1 DEF OneReconciler
    <2>4. \A o \in Ops : o # OpOf[r] => ledger'[o] = ledger[o]
      BY <1>0, <2>2 DEF SetRow
    <2> QED
      BY <1>0, <2>2, <2>3, <2>4 DEF OneReconciler, Reconciling, RequestsOf, RowOf
  <1> QED
    BY <1>1, <1>2, <1>3 DEF Reconcile

\* A reconciliation is exclusive, and its row stays where it is until it ends.
THEOREM ReconcilerIsAlone == Spec => []OneReconciler
  <1>1. Init => OneReconciler
    BY DEF Init, OneReconciler, Reconciling
  <1>2. TypeOK /\ OneReconciler /\ [Next]_vars => OneReconciler'
    <2> SUFFICES ASSUME TypeOK, OneReconciler, [Next]_vars
                 PROVE  OneReconciler'
      OBVIOUS
    <2>1. ASSUME NEW r \in Requests, PrepareLedger(r) \/ Execute(r)
          PROVE  OneReconciler'
      BY <2>1, OthersKeepReconciling, ReconcilerKept
    <2>2. ASSUME NEW r \in Requests, Reconcile(r)
          PROVE  OneReconciler'
      BY <2>2, ReconcileAlone
    <2>3. ASSUME NEW o \in Ops, LeaseExpires(o)
          PROVE  OneReconciler'
      <3>1. \A p \in Ops : ledger'[p].state = ledger[p].state
        BY <2>3 DEF LeaseExpires, TypeOK, Row
      <3> QED
        BY <2>3, <3>1, ReconcilerKept DEF LeaseExpires, Reconciling
    <2>4. CASE UNCHANGED ledger /\ \A q \in Requests : Reconciling(q)' => Reconciling(q)
      BY <2>4, ReconcilerKept
    <2> QED
      BY <2>1, <2>2, <2>3, <2>4
      DEF Next, Serve, AnswerLost, orchVars, Crash, Finished, vars, Reconciling
  <1> QED
    BY <1>1, <1>2, TypeCorrect, PTL DEF Spec

-----------------------------------------------------------------------------
(* What a step of a handler cannot touch.                                  *)

\* A handler that takes a step has not answered yet; the step neither creates
\* an effect nor answers for another request.
LEMMA HandlerLocal ==
    ASSUME TypeOK, NEW r \in Requests, PrepareLedger(r) \/ Execute(r) \/ Reconcile(r)
    PROVE  /\ UNCHANGED <<idempotency, effects>>
           /\ pc[r] # "done"
           /\ \A q \in Requests \ {r} : pc'[q] = pc[q] /\ reply'[q] = reply[q]
  <1>0. /\ pc \in [Requests -> Phase]
        /\ reply \in [Requests -> [status : Status, effect : EffectRef, replayed : BOOLEAN]]
    BY DEF TypeOK
  <1>1. UNCHANGED <<idempotency, effects>>
    BY HandlerPhases DEF Dispatch, Submit, serviceVars
  <1> USE DEF Answer, Fail, GoTo, TransitionAndAnswer
  <1>2. CASE PrepareLedger(r)
    BY <1>0, <1>1, <1>2 DEF PrepareLedger, LedgerReadUnavailable, FindNoRow,
       LedgerWriteUnavailable, OperationIdConflict, ReplayResult, RecoverFinalResult,
       ReportState, EnterUnknown, InsertAndClaim, Claim, RejectClaim, Decides, Arrived
  <1>3. CASE Execute(r)
    BY <1>0, <1>1, <1>3 DEF Execute, FailBeforeDispatch, RefuseCapability, Dispatch,
       Unprotected, DispatchError, AnswerUnledgered, LoseResponseAfterEffect, SimulateCrash,
       LoseConfirmation, FinalizeStale, FinalizeLedger, DelayedReply, Returned
  <1>4. CASE Reconcile(r)
    BY <1>0, <1>1, <1>4 DEF Reconcile, CannotReconcile, StartReconciliation, Lookup,
       LookupError, ConfirmReconciled, ReconciledNoEffect, ReconciliationInconclusive
  <1> QED
    BY <1>2, <1>3, <1>4

\* A handler writes no row but that of its operation.
LEMMA OtherRowsStay ==
    ASSUME TypeOK, NEW r \in Requests, PrepareLedger(r) \/ Execute(r) \/ Reconcile(r),
           NEW o \in Ops, o # OpOf[r]
    PROVE  ledger'[o] = ledger[o]
  <1>0. DOMAIN ledger = Ops
    BY DEF TypeOK
  <1> USE DEF SetRow, Fail, TransitionAndAnswer
  <1>1. CASE PrepareLedger(r)
    BY <1>0, <1>1 DEF PrepareLedger, LedgerReadUnavailable, FindNoRow,
       LedgerWriteUnavailable, OperationIdConflict, ReplayResult, RecoverFinalResult,
       ReportState, EnterUnknown, InsertAndClaim, Claim, RejectClaim
  <1>2. CASE Execute(r)
    BY <1>0, <1>2 DEF Execute, FailBeforeDispatch, RefuseCapability, Dispatch,
       DispatchError, AnswerUnledgered, LoseResponseAfterEffect, SimulateCrash,
       LoseConfirmation, FinalizeStale, FinalizeLedger, DelayedReply
  <1>3. CASE Reconcile(r)
    BY <1>0, <1>3 DEF Reconcile, CannotReconcile, StartReconciliation, Lookup,
       LookupError, ConfirmReconciled, ReconciledNoEffect, ReconciliationInconclusive
  <1> QED
    BY <1>1, <1>2, <1>3

\* A step of the service answers nobody, and creates at most the effect of the
\* call it works on, which did not exist.
LEMMA ServiceLocal ==
    ASSUME TypeOK, CallInv, NEW r \in Requests, Serve(r) \/ AnswerLost(r)
    PROVE  /\ UNCHANGED <<config, pc, ledger, reply>>
           /\ \/ UNCHANGED <<idempotency, effects>>
              \/ /\ effects' = effects \cup {r} /\ r \notin effects
                 /\ idempotency' = IF DispatchCapability # "C0"
                                   THEN [idempotency EXCEPT ![OpOf[r]] = r] ELSE idempotency
  <1>1. CASE Serve(r) /\ CommitEffect(r)
    BY <1>1 DEF Serve, orchVars, CommitEffect, CallInv, Keyed
  <1>2. CASE UNCHANGED <<orchVars, idempotency, effects>>
    BY <1>2 DEF orchVars
  <1> QED
    BY <1>1, <1>2 DEF Serve, AnswerLost, ServiceStep, ReplayExisting, BeginCreate,
       RejectDuplicateKey, AbortCall, LoseAnswer, orchVars

\* All other steps.
LEMMA EnvironmentLocal ==
    ASSUME TypeOK, \/ \E o \in Ops : LeaseExpires(o)
                   \/ Crash \/ Finished \/ UNCHANGED vars
    PROVE  /\ UNCHANGED <<config, reply, idempotency, effects>>
           /\ \A q \in Requests : (pc'[q] = "done") <=> (pc[q] = "done")
  BY DEF LeaseExpires, Crash, Finished, vars, serviceVars, InFlight, TypeOK

\* No step draws again.
LEMMA ScenarioKept ==
    ASSUME [Next]_vars
    PROVE  UNCHANGED scenario
  <1> USE DEF Answer, Fail, GoTo, TransitionAndAnswer
  <1>1. ASSUME NEW r \in Requests, PrepareLedger(r)
        PROVE  UNCHANGED scenario
    BY <1>1 DEF PrepareLedger, LedgerReadUnavailable, FindNoRow,
       LedgerWriteUnavailable, OperationIdConflict, ReplayResult, RecoverFinalResult,
       ReportState, EnterUnknown, InsertAndClaim, Claim, RejectClaim
  <1>2. ASSUME NEW r \in Requests, Execute(r)
        PROVE  UNCHANGED scenario
    BY <1>2 DEF Execute, FailBeforeDispatch, RefuseCapability, Dispatch, DispatchError,
       AnswerUnledgered, LoseResponseAfterEffect, SimulateCrash, LoseConfirmation,
       FinalizeStale, FinalizeLedger, DelayedReply
  <1>3. ASSUME NEW r \in Requests, Reconcile(r)
        PROVE  UNCHANGED scenario
    BY <1>3 DEF Reconcile, CannotReconcile, StartReconciliation, Lookup,
       LookupError, ConfirmReconciled, ReconciledNoEffect, ReconciliationInconclusive
  <1> QED
    BY <1>1, <1>2, <1>3 DEF Next, Serve, AnswerLost, LeaseExpires, Crash, Finished,
       orchVars, vars

\* A step of one request leaves the others where they are.
LEMMA OthersStay ==
    ASSUME TypeOK, NEW r \in Requests, NEW q \in Requests \ {r},
           \/ PrepareLedger(r) \/ Execute(r) \/ Reconcile(r)
           \/ Serve(r) \/ AnswerLost(r)
    PROVE  pc'[q] = pc[q] /\ call'[q].phase = call[q].phase
  <1>1. CASE Serve(r) \/ AnswerLost(r)
    BY <1>1 DEF Serve, AnswerLost, ServiceStep, ReplayExisting, BeginCreate, CommitEffect,
       RejectDuplicateKey, AbortCall, LoseAnswer, orchVars, TypeOK, ServiceTypeOK
  <1>2. CASE Dispatch(r)
    BY <1>2 DEF Dispatch, Submit, GoTo, TypeOK, ServiceTypeOK
  <1>3. CASE PrepareLedger(r) \/ (Execute(r) /\ ~Dispatch(r)) \/ Reconcile(r)
    BY <1>3, HandlerLocal, HandlerPhases DEF serviceVars
  <1> QED
    BY <1>1, <1>2, <1>3

\* A call answered as not replayed created the effect it is answered with.
OwnInv ==
    \A r \in Requests :
        /\ call[r].phase \in {"none", "received", "creating"} => ~call[r].replayed
        /\ call[r].phase = "answered" /\ ~call[r].replayed => call[r].effect = r

\* Every step keeps this: a call is replayed or creates, and says which.
LEMMA OwnStep ==
    ASSUME TypeOK, OwnInv, [Next]_vars
    PROVE  OwnInv'
  <1>0. call \in [Requests -> [phase : CallPhase, cap : Capability,
                               effect : EffectRef, replayed : BOOLEAN]]
    BY DEF TypeOK, ServiceTypeOK
  <1>1. CASE UNCHANGED call
    BY <1>1 DEF OwnInv
  <1>2. ASSUME NEW r \in Requests, Dispatch(r)
        PROVE  OwnInv'
    BY <1>0, <1>2 DEF Dispatch, Submit, OwnInv
  <1>3. ASSUME NEW r \in Requests, Serve(r) \/ AnswerLost(r)
        PROVE  OwnInv'
    BY <1>0, <1>3 DEF Serve, AnswerLost, ServiceStep, ReplayExisting, BeginCreate,
       CommitEffect, RejectDuplicateKey, AbortCall, LoseAnswer, OwnInv
  <1>4. ASSUME NEW r \in Requests, PrepareLedger(r) \/ (Execute(r) /\ ~Dispatch(r)) \/ Reconcile(r)
        PROVE  UNCHANGED call
    BY <1>4, HandlerPhases DEF serviceVars
  <1> QED
    BY <1>1, <1>2, <1>3, <1>4 DEF Next, LeaseExpires, Crash, Finished, vars, serviceVars

\* A call answered as not replayed created the effect it is answered with.
THEOREM OwnInvariant == Spec => []OwnInv
  <1>1. Init => OwnInv
    BY DEF Init, ServiceInit, OwnInv
  <1>2. TypeOK /\ OwnInv /\ [Next]_vars => OwnInv'
    BY OwnStep
  <1> QED
    BY <1>1, <1>2, TypeCorrect, PTL DEF Spec

-----------------------------------------------------------------------------
(* The course of a handler.                                                *)

\* A handler waits as long as its call is under way, unless the process has
\* died with it, and has no reply before the one it ends with.
HandlerInv ==
    \A r \in Requests :
        /\ call[r].phase \in {"received", "creating"} => pc[r] \in {"waiting", "lost"}
        /\ call[r].phase # "none" => pc[r] \in {"waiting", "delayed", "done", "lost"}
        /\ pc[r] = "lost" => crashes > 0
        /\ \/ pc[r] \notin {"delayed", "done", "lost"}
           \/ call[r].phase \in {"received", "creating"}
           => reply[r] = NoReply

\* The phases a step of a handler leads from and to.
Course(r) ==
    /\ UNCHANGED crashes
    /\ pc'[r] \in {"delayed", "done"} \/ reply'[r] = reply[r]
    /\ \/ Dispatch(r) /\ pc'[r] = "waiting"
       \/ UNCHANGED call /\ pc[r] = "waiting" /\ call[r].phase \in {"answered", "failed"}
                         /\ pc'[r] \in {"delayed", "done"}
       \/ UNCHANGED call /\ pc[r] = "delayed" /\ pc'[r] = "done" /\ reply'[r] = reply[r]
       \/ UNCHANGED call /\ pc[r] \notin {"waiting", "delayed", "done", "lost"}
                         /\ pc'[r] \in Phase \ {"idle", "waiting", "delayed", "lost"}

\* Every step of a handler is one of its course.
LEMMA HandlerCourse ==
    ASSUME TypeOK, NEW r \in Requests, PrepareLedger(r) \/ Execute(r) \/ Reconcile(r)
    PROVE  Course(r)
  <1>0. /\ pc \in [Requests -> Phase]
        /\ reply \in [Requests -> [status : Status, effect : EffectRef, replayed : BOOLEAN]]
    BY DEF TypeOK
  <1> USE DEF Answer, Fail, GoTo, TransitionAndAnswer, Phase
  <1>1. CASE PrepareLedger(r)
    <2>1. UNCHANGED call
      BY <1>1, HandlerPhases DEF serviceVars
    <2> QED
      BY <1>0, <1>1, <2>1 DEF PrepareLedger, LedgerReadUnavailable, FindNoRow,
         LedgerWriteUnavailable, OperationIdConflict, ReplayResult, RecoverFinalResult,
         ReportState, EnterUnknown, InsertAndClaim, Claim, RejectClaim, Decides, Arrived, Course
  <1>2. CASE Dispatch(r)
    BY <1>0, <1>2 DEF Dispatch, Course
  <1>3. CASE Execute(r) /\ ~Dispatch(r)
    <2>1. UNCHANGED call
      BY <1>3, HandlerPhases DEF serviceVars
    <2> QED
      BY <1>0, <1>3, <2>1 DEF Execute, FailBeforeDispatch, RefuseCapability,
         DispatchError, AnswerUnledgered, LoseResponseAfterEffect, SimulateCrash,
         LoseConfirmation, FinalizeStale, FinalizeLedger, DelayedReply, Returned, Course
  <1>4. CASE Reconcile(r)
    <2>1. UNCHANGED call
      BY <1>4, HandlerPhases DEF serviceVars
    <2> QED
      BY <1>0, <1>4, <2>1 DEF Reconcile, CannotReconcile, StartReconciliation, Lookup,
         LookupError, ConfirmReconciled, ReconciledNoEffect, ReconciliationInconclusive, Course
  <1> QED
    BY <1>1, <1>2, <1>3, <1>4

\* A step of the service takes the one call it works on from phase to phase, and
\* none from none.
LEMMA ServiceCourse ==
    ASSUME TypeOK, NEW r \in Requests, Serve(r) \/ AnswerLost(r)
    PROVE  /\ UNCHANGED <<pc, reply, crashes, ledger, scenario>>
           /\ \A q \in Requests \ {r} : call'[q] = call[q]
           /\ call[r].phase # "none" /\ call'[r].phase # "none"
           /\ call'[r].phase \in {"received", "creating"} => call[r].phase \in {"received", "creating"}
           /\ call[r].phase \in {"received", "creating"} \/ (call[r].phase = "answered" /\ pc[r] = "waiting")
  BY DEF Serve, AnswerLost, ServiceStep, ReplayExisting, BeginCreate, CommitEffect,
     RejectDuplicateKey, AbortCall, LoseAnswer, orchVars, TypeOK, ServiceTypeOK

\* Every step keeps handlers waiting for their calls.
LEMMA HandlerInvStep ==
    ASSUME TypeOK, CallInv, HandlerInv, [Next]_vars
    PROVE  HandlerInv'
  <1>0. /\ pc \in [Requests -> Phase] /\ crashes \in Nat
        /\ call \in [Requests -> [phase : CallPhase, cap : Capability,
                                  effect : EffectRef, replayed : BOOLEAN]]
    BY ConfigAssumption DEF TypeOK, ServiceTypeOK
  <1>1. ASSUME NEW r \in Requests, PrepareLedger(r) \/ Execute(r) \/ Reconcile(r)
        PROVE  HandlerInv'
    <2>1. /\ Course(r)
          /\ \A q \in Requests \ {r} : pc'[q] = pc[q] /\ reply'[q] = reply[q]
          /\ \A q \in Requests \ {r} : call'[q].phase = call[q].phase
      BY <1>1, HandlerCourse, HandlerLocal, OthersStay
    <2>2. call[r].phase # "none" => pc[r] \in {"waiting", "delayed", "done", "lost"}
      BY DEF HandlerInv
    <2>3. CASE Dispatch(r) /\ pc'[r] = "waiting"
      <3>1. reply[r] = NoReply
        BY <2>3 DEF HandlerInv, Dispatch, Unprotected
      <3> QED
        BY <2>1, <2>3, <3>1 DEF HandlerInv, Course
    <2>4. CASE UNCHANGED call
      BY <1>0, <2>1, <2>2, <2>4 DEF HandlerInv, Course, Phase, Dispatch, Submit
    <2> QED
      BY <2>1, <2>3, <2>4 DEF Course
  <1>2. ASSUME NEW r \in Requests, Serve(r) \/ AnswerLost(r)
        PROVE  HandlerInv'
    BY <1>2, ServiceCourse DEF HandlerInv
  <1>3. CASE Crash
    <2>1. crashes' > 0 /\ UNCHANGED <<call, reply>>
      BY <1>0, <1>3 DEF Crash, serviceVars
    <2>2. \A q \in Requests : pc'[q] = pc[q] \/ (pc'[q] = "lost" /\ pc[q] \in InFlight)
      BY <1>0, <1>3 DEF Crash
    <2> QED
      BY <2>1, <2>2 DEF HandlerInv
  <1>4. CASE UNCHANGED <<pc, reply, crashes, call>>
    BY <1>4 DEF HandlerInv
  <1> QED
    BY <1>1, <1>2, <1>3, <1>4 DEF Next, LeaseExpires, Finished, serviceVars, vars

\* No handler ends before the service is through with its call, but by a
\* restart.
THEOREM HandlersWait == Spec => []HandlerInv
  <1>1. Init => HandlerInv
    BY DEF Init, ServiceInit, HandlerInv
  <1>2. TypeOK /\ CallInv /\ HandlerInv /\ [Next]_vars => HandlerInv'
    BY HandlerInvStep
  <1> QED
    BY <1>1, <1>2, CallsInvariant, PTL DEF Spec

-----------------------------------------------------------------------------
(* Replays.                                                                *)

\* Only an OK says that it is replayed, and the request whose call created the
\* effect is never told so.
ReplayInv ==
    /\ \A r \in Requests : reply[r].replayed => reply[r].status = "OK"
    /\ \A e \in effects : ~call[e].replayed /\ ~reply[e].replayed

\* A handler says "replayed" of what it found in the ledger or by a lookup, or,
\* without a ledger, passes on what the service said.
LEMMA ReplayedFrom ==
    ASSUME TypeOK, RestInv, NEW r \in Requests, PrepareLedger(r) \/ Execute(r) \/ Reconcile(r),
           reply'[r].replayed
    PROVE  \/ reply'[r] = reply[r]
           \/ reply'[r].status = "OK" /\ (call[r].replayed \/ pc[r] \notin {"waiting", "delayed"})
  <1>0. /\ pc \in [Requests -> Phase]
        /\ reply \in [Requests -> [status : Status, effect : EffectRef, replayed : BOOLEAN]]
    BY DEF TypeOK
  <1> USE DEF Answer, Fail, GoTo, TransitionAndAnswer, Reply
  <1>1. CASE PrepareLedger(r)
    <2>1. SeenRow(r).state # "FAILED_FINAL"
      BY SeenRowFields, RequestAssumption DEF RestInv, RowOf
    <2>2. pc[r] \in {"idle", "inserting"}
      BY <1>1 DEF PrepareLedger, LedgerReadUnavailable, FindNoRow, LedgerWriteUnavailable,
         OperationIdConflict, ReplayResult, RecoverFinalResult, ReportState, EnterUnknown,
         InsertAndClaim, Claim, RejectClaim, Decides, Arrived
    <2>3. CASE ReportState(r)
      <3>1. reply' = [reply EXCEPT ![r] = Reply("IN_PROGRESS", SeenRow(r).effect, FALSE)]
        BY <2>1, <2>3, Zenon DEF ReportState
      <3> QED
        BY <1>0, <3>1
    <2> QED
      BY <1>0, <1>1, <2>2, <2>3 DEF PrepareLedger, LedgerReadUnavailable, FindNoRow,
         LedgerWriteUnavailable, OperationIdConflict, ReplayResult, RecoverFinalResult,
         EnterUnknown, InsertAndClaim, Claim, RejectClaim
  <1>2. CASE AnswerUnledgered(r)
    <2>1. PICK b \in BOOLEAN : /\ b = (Variant # "V0" /\ call[r].replayed)
                              /\ reply' = [reply EXCEPT ![r] = Reply("OK", call[r].effect, b)]
      BY <1>2, Zenon DEF AnswerUnledgered
    <2>2. reply'[r].status = "OK" /\ reply'[r].replayed = b
      BY <1>0, <2>1
    <2>3. call[r].replayed
      BY <2>1, <2>2, Zenon
    <2> QED
      BY <2>2, <2>3
  <1>3. CASE Execute(r) /\ ~AnswerUnledgered(r)
    BY <1>0, <1>3 DEF Execute, FailBeforeDispatch, RefuseCapability, Dispatch,
       DispatchError, LoseResponseAfterEffect, SimulateCrash,
       LoseConfirmation, FinalizeStale, FinalizeLedger, DelayedReply
  <1>4. CASE Reconcile(r)
    BY <1>0, <1>4 DEF Reconcile, CannotReconcile, StartReconciliation, Lookup,
       LookupError, ConfirmReconciled, ReconciledNoEffect, ReconciliationInconclusive
  <1> QED
    BY <1>1, <1>2, <1>3, <1>4

\* Every step keeps "replayed" away from what was created.
LEMMA ReplayStep ==
    ASSUME TypeOK, CallInv, OwnInv, HandlerInv, RestInv, ReplayInv, [Next]_vars
    PROVE  ReplayInv'
  <1>0. /\ reply \in [Requests -> [status : Status, effect : EffectRef, replayed : BOOLEAN]]
        /\ call \in [Requests -> [phase : CallPhase, cap : Capability,
                                  effect : EffectRef, replayed : BOOLEAN]]
        /\ effects \subseteq Requests
    BY DEF TypeOK, ServiceTypeOK
  <1>1. ASSUME NEW r \in Requests, PrepareLedger(r) \/ Execute(r) \/ Reconcile(r)
        PROVE  ReplayInv'
    <2>1. /\ UNCHANGED effects
          /\ \A q \in Requests \ {r} : reply'[q] = reply[q]
      BY <1>1, HandlerLocal
    <2>2. \A q \in Requests : call'[q].replayed = call[q].replayed
      <3>1. UNCHANGED call \/ Submit(r, DispatchCapability)
        BY <1>1, HandlerCourse DEF Course, Dispatch
      <3> QED
        BY <1>0, <3>1 DEF Submit
    <2>3. reply'[r].replayed => reply'[r].status = "OK"
      BY <1>1, ReplayedFrom DEF ReplayInv
    <2>4. ASSUME r \in effects
          PROVE  ~reply'[r].replayed
      <3>1. call[r].phase # "none" /\ ~call[r].replayed /\ ~reply[r].replayed
        BY <2>4 DEF CallInv, ReplayInv
      <3>2. pc[r] \in {"waiting", "delayed"}
        BY <1>1, <3>1, HandlerCourse DEF HandlerInv, Course, Dispatch, Submit
      <3> QED
        BY <1>1, <3>1, <3>2, ReplayedFrom
    <2> QED
      BY <1>0, <2>1, <2>2, <2>3, <2>4 DEF ReplayInv
  <1>2. ASSUME NEW r \in Requests, Serve(r) \/ AnswerLost(r)
        PROVE  ReplayInv'
    <2>1. UNCHANGED reply /\ \A q \in Requests \ {r} : call'[q] = call[q]
      BY <1>2, ServiceCourse
    <2>2. CASE UNCHANGED effects
      <3>1. r \in effects => call'[r].replayed = call[r].replayed
        BY <1>0, <1>2 DEF Serve, AnswerLost, ServiceStep, ReplayExisting, BeginCreate,
           CommitEffect, RejectDuplicateKey, AbortCall, LoseAnswer, CallInv
      <3> QED
        BY <1>0, <2>1, <2>2, <3>1 DEF ReplayInv
    <2>3. CASE CommitEffect(r)
      <3>1. ~call'[r].replayed /\ effects' = effects \cup {r}
        BY <1>0, <2>3 DEF CommitEffect, OwnInv
      <3>2. reply[r] = NoReply
        BY <2>3 DEF CommitEffect, HandlerInv
      <3> QED
        BY <1>0, <2>1, <3>1, <3>2 DEF ReplayInv, NoReply, Reply
    <2> QED
      BY <1>2, <2>2, <2>3 DEF Serve, AnswerLost, ServiceStep, ReplayExisting, BeginCreate,
         RejectDuplicateKey, AbortCall, LoseAnswer
  <1>3. CASE UNCHANGED <<reply, call, effects>>
    BY <1>3 DEF ReplayInv
  <1> QED
    BY <1>1, <1>2, <1>3 DEF Next, LeaseExpires, Crash, Finished, serviceVars, vars

\* Only an OK says "replayed", and never that of the request whose call created
\* the effect, in every variant and however late its reply is formed.
THEOREM ReplaysAreOthers == Spec => []ReplayInv
  <1>1. Init => ReplayInv
    BY DEF Init, ServiceInit, ReplayInv, NoReply, Reply
  <1>2. TypeOK /\ CallInv /\ OwnInv /\ HandlerInv /\ RestInv /\ ReplayInv /\ [Next]_vars
           => ReplayInv'
    BY ReplayStep
  <1> QED
    BY <1>1, <1>2, CallsInvariant, OwnInvariant, HandlersWait, RowsRest, PTL DEF Spec

-----------------------------------------------------------------------------
(* Rows and their owners.                                                  *)

\* A handler that has come this far, or has this to say, has seen the row.
Begun(r) ==
    \/ pc[r] \in {"proceed", "delayed", "reconcile", "lookup", "found", "absent", "inconclusive"}
    \/ pc[r] = "waiting" /\ LedgerBacked
    \/ reply[r].status \in {"IN_PROGRESS", "RETRYABLE_FAILURE", "UNKNOWN",
                            "EFFECT_CONFIRMED", "CRASH_SIMULATED"}

BegunInv == \A r \in Requests : Begun(r) => RowOf(r).state # Absent

\* A row that a claim is not about keeps its owner, and exists if it did.
LEMMA OwnersKept ==
    ASSUME TypeOK, CallInv, RestInv, NEW r \in Requests,
           PrepareLedger(r) \/ Execute(r) \/ Reconcile(r), NEW o \in Ops
    PROVE  \/ /\ OpOf[r] = o
              /\ ledger'[o].owner = r /\ ledger'[o].state = "EXECUTING" /\ pc'[r] = "proceed"
           \/ /\ ledger'[o].owner = ledger[o].owner
              /\ (ledger'[o].state = Absent) = (ledger[o].state = Absent)
  <1>0. /\ pc \in [Requests -> Phase] /\ ledger \in [Ops -> Row]
        /\ SeenRow(r) \in Row /\ RowOf(r) \in Row /\ OpOf[r] \in Ops
    BY SeenRowType DEF TypeOK
  <1>1. ASSUME NEW row \in Row, SetRow(r, Claimed(r, row)), GoTo(r, "proceed")
        PROVE  \/ /\ OpOf[r] = o
                  /\ ledger'[o].owner = r /\ ledger'[o].state = "EXECUTING" /\ pc'[r] = "proceed"
               \/ ledger'[o] = ledger[o]
    <2>1. Claimed(r, row).owner = r /\ Claimed(r, row).state = "EXECUTING"
      BY DEF Claimed, Row
    <2> QED
      BY <1>0, <1>1, <2>1 DEF SetRow, GoTo
  <1>2. CASE InsertAndClaim(r)
    <2>1. [NoRow EXCEPT !.hash = HashOf[r]] \in Row
      BY DEF NoRow, Row, RequestHash, EffectRef, Absent
    <2> QED
      BY <1>1, <1>2, <2>1 DEF InsertAndClaim
  <1>3. CASE Claim(r)
    BY <1>0, <1>1, <1>3 DEF Claim
  <1>4. CASE ~InsertAndClaim(r) /\ ~Claim(r)
    <2>1. [Next]_vars
      BY DEF Next
    <2>2. RowStep(o)
      BY <2>1, EveryRowStep
    <2>3. CASE UNCHANGED ledger
      BY <2>3
    <2>4. ASSUME NEW row, SetRow(r, row), row.owner = RowOf(r).owner,
                 row.state # Absent, RowOf(r).state # Absent
          PROVE  /\ ledger'[o].owner = ledger[o].owner
                 /\ (ledger'[o].state = Absent) = (ledger[o].state = Absent)
      BY <1>0, <2>4 DEF SetRow, RowOf
    <2>5. CASE PrepareLedger(r)
      <3>1. CASE RecoverFinalResult(r)
        <4>1. [SeenRow(r) EXCEPT !.state = "COMPLETED"].owner = RowOf(r).owner
              /\ [SeenRow(r) EXCEPT !.state = "COMPLETED"].state = "COMPLETED"
          BY <1>0, SeenRowFields DEF Row
        <4> QED
          BY <2>4, <3>1, <4>1 DEF RecoverFinalResult, Decides, Exists, Absent
      <3>2. CASE EnterUnknown(r)
        BY <2>4, <3>2, SeenRowFields DEF EnterUnknown, Decides, Exists, Absent
      <3> QED
        BY <1>4, <2>3, <2>5, <3>1, <3>2 DEF PrepareLedger, LedgerReadUnavailable, FindNoRow,
           LedgerWriteUnavailable, OperationIdConflict, ReplayResult, ReportState, RejectClaim, Fail
    <2>6. ASSUME NEW before \in LedgerState, NEW after \in LedgerState, NEW status, NEW e,
                 TransitionAndAnswer(r, before, after, status, e)
          PROVE  /\ ledger'[o].owner = ledger[o].owner
                 /\ (ledger'[o].state = Absent) = (ledger[o].state = Absent)
      <3>1. CASE Allowed(RowOf(r), before, after) /\ SetRow(r, [RowOf(r) EXCEPT !.state = after])
        <4>1. /\ [RowOf(r) EXCEPT !.state = after].owner = RowOf(r).owner
              /\ [RowOf(r) EXCEPT !.state = after].state = after
              /\ after # Absent /\ RowOf(r).state # Absent
          BY <1>0, <3>1 DEF Row, Allowed, LedgerState, Absent
        <4> QED
          BY <2>4, <3>1, <4>1
      <3> QED
        BY <2>3, <2>6, <3>1 DEF TransitionAndAnswer, Fail
    <2>7. CASE Execute(r)
      <3>1. CASE FinalizeLedger(r)
        <4>1. PICK s \in {"EFFECT_CONFIRMED", "COMPLETED"} :
                 SetRow(r, [RowOf(r) EXCEPT !.state = s, !.effect = call[r].effect])
          BY <3>1 DEF FinalizeLedger
        <4>2. /\ [RowOf(r) EXCEPT !.state = s, !.effect = call[r].effect].owner = RowOf(r).owner
              /\ [RowOf(r) EXCEPT !.state = s, !.effect = call[r].effect].state = s
              /\ s # Absent /\ RowOf(r).state # Absent
          BY <1>0, <3>1 DEF Row, FinalizeLedger, Allowed, Absent
        <4> QED
          BY <2>4, <4>1, <4>2
      <3>2. CASE FailBeforeDispatch(r)
        BY <2>6, <3>2 DEF FailBeforeDispatch, LedgerState
      <3>3. CASE LoseConfirmation(r)
        BY <2>6, <3>3 DEF LoseConfirmation, LedgerState
      <3> QED
        BY <2>3, <2>7, <3>1, <3>2, <3>3
        DEF Execute, RefuseCapability, Dispatch, DispatchError, AnswerUnledgered,
            LoseResponseAfterEffect, SimulateCrash, FinalizeStale, DelayedReply, Fail
    <2>8. CASE Reconcile(r)
      <3>1. CASE /\ StartReconciliation(r)
                 /\ Allowed(RowOf(r), "UNKNOWN", "RECONCILING")
                 /\ SetRow(r, [RowOf(r) EXCEPT !.state = "RECONCILING"])
        <4>1. /\ [RowOf(r) EXCEPT !.state = "RECONCILING"].owner = RowOf(r).owner
              /\ [RowOf(r) EXCEPT !.state = "RECONCILING"].state = "RECONCILING"
              /\ RowOf(r).state # Absent
          BY <1>0, <3>1 DEF Row, Allowed, Absent
        <4> QED
          BY <2>4, <3>1, <4>1 DEF Absent
      <3>2. CASE /\ ConfirmReconciled(r)
                 /\ Allowed(RowOf(r), "RECONCILING", "EFFECT_CONFIRMED")
                 /\ SetRow(r, [RowOf(r) EXCEPT !.state = "COMPLETED",
                                               !.effect = Registered(OpOf[r])])
        <4> DEFINE row == [RowOf(r) EXCEPT !.state = "COMPLETED", !.effect = Registered(OpOf[r])]
        <4>1. row.owner = RowOf(r).owner /\ row.state = "COMPLETED" /\ RowOf(r).state # Absent
          BY <1>0, <3>2 DEF Row, Allowed, Absent
        <4> HIDE DEF row
        <4>2. SetRow(r, row)
          BY <3>2 DEF row
        <4> QED
          BY <2>4, <4>1, <4>2 DEF Absent
      <3>3. CASE ReconciledNoEffect(r)
        BY <2>6, <3>3 DEF ReconciledNoEffect, LedgerState
      <3>4. CASE ReconciliationInconclusive(r)
        BY <2>6, <3>4 DEF ReconciliationInconclusive, LedgerState
      <3> QED
        BY <2>3, <2>8, <3>1, <3>2, <3>3, <3>4
        DEF Reconcile, CannotReconcile, StartReconciliation, Lookup, LookupError,
            ConfirmReconciled, Fail
    <2> QED
      BY <2>5, <2>7, <2>8
  <1> QED
    BY <1>2, <1>3, <1>4

\* A handler begins with a row that it found or has just written.
LEMMA BeginsWithRow ==
    ASSUME TypeOK, CallInv, NEW r \in Requests, PrepareLedger(r) \/ Execute(r) \/ Reconcile(r),
           UNCHANGED config, Begun(r)', ~Begun(r)
    PROVE  Exists(r) \/ (InsertAndClaim(r) /\ pc'[r] = "proceed")
  <1>0. /\ pc \in [Requests -> Phase]
        /\ reply \in [Requests -> [status : Status, effect : EffectRef, replayed : BOOLEAN]]
        /\ LedgerBacked' = LedgerBacked
    BY SameConfiguration DEF TypeOK
  <1> USE DEF Answer, Fail, GoTo, TransitionAndAnswer, Reply
  <1>1. CASE PrepareLedger(r)
    BY <1>0, <1>1 DEF PrepareLedger, LedgerReadUnavailable, FindNoRow, LedgerWriteUnavailable,
       OperationIdConflict, ReplayResult, RecoverFinalResult, ReportState, EnterUnknown,
       InsertAndClaim, Claim, RejectClaim, Decides, Begun
  <1>2. CASE Execute(r)
    BY <1>0, <1>2 DEF Execute, FailBeforeDispatch, RefuseCapability, Dispatch, Unprotected,
       DispatchError, AnswerUnledgered, LoseResponseAfterEffect, SimulateCrash, Returned,
       LoseConfirmation, FinalizeStale, FinalizeLedger, DelayedReply, Begun
  <1>3. CASE Reconcile(r)
    BY <1>3 DEF Reconcile, CannotReconcile, StartReconciliation, Lookup,
       LookupError, ConfirmReconciled, ReconciledNoEffect, ReconciliationInconclusive, Begun
  <1> QED
    BY <1>1, <1>2, <1>3

\* No row is removed.
LEMMA RowsStay ==
    ASSUME TypeOK, CallInv, [Next]_vars, NEW o \in Ops, ledger[o].state # Absent
    PROVE  ledger'[o].state # Absent
  BY EveryRowStep DEF RowStep, RowMoves, Absent

\* Every step keeps the rows handlers have seen.
LEMMA BegunStep ==
    ASSUME TypeOK, CallInv, RestInv, BegunInv, [Next]_vars
    PROVE  BegunInv'
  <1>0. /\ \A r \in Requests : OpOf[r] \in Ops
        /\ pc \in [Requests -> Phase]
        /\ UNCHANGED config /\ LedgerBacked' = LedgerBacked
    BY RequestAssumption, ConfigurationKept, SameConfiguration DEF TypeOK
  <1>1. \A r \in Requests : RowOf(r).state # Absent => RowOf(r)'.state # Absent
    BY <1>0, RowsStay DEF RowOf
  <1>2. ASSUME NEW r \in Requests, PrepareLedger(r) \/ Execute(r) \/ Reconcile(r)
        PROVE  BegunInv'
    <2>1. \A q \in Requests \ {r} : Begun(q)' => Begun(q)
      BY <1>0, <1>2, HandlerLocal DEF Begun
    <2>2. ASSUME Begun(r)', ~Begun(r)
          PROVE  RowOf(r)'.state # Absent
      <3>1. CASE Exists(r)
        BY <1>1, <3>1 DEF Exists
      <3>2. CASE InsertAndClaim(r) /\ pc'[r] = "proceed"
        <4>1. /\ [NoRow EXCEPT !.hash = HashOf[r]] \in Row
              /\ Claimed(r, [NoRow EXCEPT !.hash = HashOf[r]]).state = "EXECUTING"
          BY DEF NoRow, Row, RequestHash, EffectRef, Absent, Claimed
        <4>2. SetRow(r, Claimed(r, [NoRow EXCEPT !.hash = HashOf[r]]))
          BY <3>2 DEF InsertAndClaim
        <4> QED
          BY <1>0, <4>1, <4>2 DEF SetRow, RowOf, Absent, TypeOK
      <3> QED
        BY <1>0, <1>2, <2>2, <3>1, <3>2, BeginsWithRow
    <2> QED
      BY <1>1, <2>1, <2>2 DEF BegunInv
  <1>3. ASSUME \A r \in Requests : Begun(r)' => Begun(r)
        PROVE  BegunInv'
    BY <1>1, <1>3 DEF BegunInv
  <1>4. CASE UNCHANGED <<pc, reply>>
    BY <1>0, <1>3, <1>4 DEF Begun
  <1>5. CASE Crash
    BY <1>0, <1>3, <1>5 DEF Crash, Begun
  <1> QED
    BY <1>2, <1>4, <1>5 DEF Next, Serve, AnswerLost, LeaseExpires, Finished, orchVars, vars

\* What a handler says of the ledger it says of a row there is.
THEOREM HandlersHaveSeenRows == Spec => []BegunInv
  <1>1. Init => BegunInv
    BY DEF Init, BegunInv, Begun, NoReply, Reply
  <1>2. TypeOK /\ CallInv /\ RestInv /\ BegunInv /\ [Next]_vars => BegunInv'
    BY BegunStep
  <1> QED
    BY <1>1, <1>2, CallsInvariant, RowsRest, PTL DEF Spec

\* The owner of a row is a request of the operation that is about to call, has
\* called, fails before it calls, or was lost in a restart.
Owned(o) ==
    ledger[o].state # Absent =>
        /\ ledger[o].owner \in RequestsOf(o)
        /\ \/ pc[ledger[o].owner] = "proceed"
           \/ call[ledger[o].owner].phase # "none"
           \/ crashes > 0
           \/ Inject(ledger[o].owner, "BEFORE_DOWNSTREAM_DISPATCH")

OwnerInv == \A o \in Ops : Owned(o)

\* Every step keeps the owner of a row one that calls.
LEMMA OwnerStep ==
    ASSUME TypeOK, CallInv, RestInv, OwnerInv, [Next]_vars
    PROVE  OwnerInv'
  <1>0. /\ pc \in [Requests -> Phase] /\ crashes \in Nat
        /\ UNCHANGED scenario
    BY ConfigAssumption, ScenarioKept DEF TypeOK
  <1>1. \A q \in Requests : Inject(q, "BEFORE_DOWNSTREAM_DISPATCH")'
                                = Inject(q, "BEFORE_DOWNSTREAM_DISPATCH")
    BY <1>0 DEF Inject
  <1>2. ASSUME NEW r \in Requests, PrepareLedger(r) \/ Execute(r) \/ Reconcile(r), NEW o \in Ops
        PROVE  Owned(o)'
    <2>1. CASE OpOf[r] = o /\ ledger'[o].owner = r /\ pc'[r] = "proceed"
      BY <2>1 DEF Owned, RequestsOf
    <2>2. CASE /\ ledger'[o].owner = ledger[o].owner
               /\ (ledger'[o].state = Absent) = (ledger[o].state = Absent)
               /\ ledger'[o].state # Absent
      <3> DEFINE q == ledger[o].owner
      <3>1. q \in Requests /\ q \in RequestsOf(o)
        BY <2>2 DEF OwnerInv, Owned, RequestsOf
      <3>2. UNCHANGED crashes
        BY <1>2, HandlerCourse DEF Course
      <3>3. call[q].phase # "none" => call'[q].phase # "none"
        <4>1. UNCHANGED call \/ Submit(r, DispatchCapability)
          BY <1>2, HandlerCourse DEF Course, Dispatch
        <4> QED
          BY <3>1, <4>1 DEF Submit, TypeOK, ServiceTypeOK
      <3>4. pc[q] = "proceed" => \/ pc'[q] = "proceed" \/ call'[q].phase # "none"
                                 \/ Inject(q, "BEFORE_DOWNSTREAM_DISPATCH")
        <4>1. CASE q # r
          BY <1>2, <3>1, <4>1, HandlerLocal
        <4>2. CASE q = r /\ pc[r] = "proceed"
          <5>1. Dispatch(r) \/ FailBeforeDispatch(r)
            BY <1>2, <4>2 DEF PrepareLedger, LedgerReadUnavailable, FindNoRow,
               LedgerWriteUnavailable, OperationIdConflict, ReplayResult, RecoverFinalResult,
               ReportState, EnterUnknown, InsertAndClaim, Claim, RejectClaim, Decides, Arrived,
               Execute, RefuseCapability, DispatchError, AnswerUnledgered, Returned,
               LoseResponseAfterEffect, SimulateCrash, LoseConfirmation, FinalizeStale,
               FinalizeLedger, DelayedReply, Reconcile, CannotReconcile, StartReconciliation,
               Lookup, LookupError, ConfirmReconciled, ReconciledNoEffect,
               ReconciliationInconclusive
          <5> QED
            BY <4>2, <5>1 DEF Dispatch, Submit, FailBeforeDispatch, TypeOK, ServiceTypeOK
        <4> QED
          BY <4>1, <4>2
      <3> HIDE DEF q
      <3>5. \/ pc[q] = "proceed" \/ call[q].phase # "none" \/ crashes > 0
            \/ Inject(q, "BEFORE_DOWNSTREAM_DISPATCH")
        BY <2>2 DEF OwnerInv, Owned, q
      <3>6. ledger'[o].owner = q
        BY <2>2 DEF q
      <3>7. RequestsOf(o)' = RequestsOf(o)
        BY DEF RequestsOf
      <3> QED
        BY <1>1, <3>1, <3>2, <3>3, <3>4, <3>5, <3>6, <3>7 DEF Owned
    <2> QED
      BY <1>2, <2>1, <2>2, OwnersKept DEF Owned
  <1>3. ASSUME /\ \A o \in Ops : /\ ledger'[o].owner = ledger[o].owner
                                 /\ ledger'[o].state = ledger[o].state,
               \A q \in Requests : call[q].phase # "none" => call'[q].phase # "none",
               (\A q \in Requests : pc'[q] = pc[q]) \/ crashes' > 0,
               crashes > 0 => crashes' > 0
        PROVE  OwnerInv'
    <2> SUFFICES ASSUME NEW o \in Ops, ledger'[o].state # Absent
                 PROVE  Owned(o)'
      BY DEF OwnerInv, Owned
    <2>1. ledger[o].owner \in Requests /\ Owned(o)
      BY <1>3 DEF OwnerInv, Owned, RequestsOf
    <2> QED
      BY <1>1, <1>3, <2>1 DEF Owned, RequestsOf
  <1>4. ASSUME NEW r \in Requests, Serve(r) \/ AnswerLost(r)
        PROVE  OwnerInv'
    <2>1. /\ UNCHANGED <<pc, ledger, crashes>>
          /\ \A q \in Requests : call[q].phase # "none" => call'[q].phase # "none"
      BY <1>4, ServiceCourse
    <2> QED
      BY <1>3, <2>1
  <1>5. ASSUME NEW p \in Ops, LeaseExpires(p)
        PROVE  OwnerInv'
    <2>1. /\ UNCHANGED <<pc, call, crashes>>
          /\ \A o \in Ops : /\ ledger'[o].owner = ledger[o].owner
                            /\ ledger'[o].state = ledger[o].state
      BY <1>5 DEF LeaseExpires, serviceVars, TypeOK, Row
    <2> QED
      BY <1>3, <2>1
  <1>6. CASE Crash
    <2>1. UNCHANGED <<ledger, call>> /\ crashes' > 0
      BY <1>0, <1>6 DEF Crash, serviceVars
    <2> QED
      BY <1>3, <2>1
  <1>7. CASE UNCHANGED vars
    BY <1>3, <1>7 DEF vars
  <1> QED
    BY <1>2, <1>4, <1>5, <1>6, <1>7 DEF Next, Finished, OwnerInv

\* The owner of a row has called the service or is about to, unless it was told
\* to fail before or the process restarted.
THEOREM OwnersCall == Spec => []OwnerInv
  <1>1. Init => OwnerInv
    BY DEF Init, OwnerInv, Owned, NoRow
  <1>2. TypeOK /\ CallInv /\ RestInv /\ OwnerInv /\ [Next]_vars => OwnerInv'
    BY OwnerStep
  <1> QED
    BY <1>1, <1>2, CallsInvariant, RowsRest, PTL DEF Spec

-----------------------------------------------------------------------------
(* Replies and rows.                                                       *)

\* What a reply says of the row stays so: COMPLETED after an OK, and UNKNOWN
\* after an UNKNOWN where nothing is looked up.
ReplyHolds(r) ==
    /\ reply[r].status = "OK" => RowOf(r).state = "COMPLETED"
    /\ ~MayRedispatch /\ (reply[r].status = "UNKNOWN" \/ pc[r] = "reconcile") =>
          RowOf(r).state = "UNKNOWN"

HoldsInv == LedgerBacked => \A r \in Requests : ReplyHolds(r)

\* A step that neither answers r nor sends it to reconcile keeps what it was told.
LEMMA ReplyHoldsKept ==
    ASSUME NEW r \in Requests, ReplyHolds(r), UNCHANGED config,
           RowOf(r).state = "COMPLETED" => RowOf(r)'.state = "COMPLETED",
           ~MayRedispatch /\ RowOf(r).state = "UNKNOWN" => RowOf(r)'.state = "UNKNOWN",
           reply'[r] = reply[r] \/ reply'[r].status \notin {"OK", "UNKNOWN"},
           pc'[r] = "reconcile" => pc[r] = "reconcile"
    PROVE  ReplyHolds(r)'
  BY SameConfiguration DEF ReplyHolds

\* A handler answers OK of a row that is COMPLETED when its transaction commits,
\* and UNKNOWN of one that is UNKNOWN.
LEMMA OwnReplyHolds ==
    ASSUME TypeOK, LedgerBacked, NEW r \in Requests, ReplyHolds(r), UNCHANGED config,
           PrepareLedger(r) \/ Execute(r) \/ Reconcile(r),
           RowOf(r).state = "COMPLETED" => RowOf(r)'.state = "COMPLETED",
           ~MayRedispatch /\ RowOf(r).state = "UNKNOWN" => RowOf(r)'.state = "UNKNOWN"
    PROVE  ReplyHolds(r)'
  <1>0. /\ pc \in [Requests -> Phase] /\ ledger \in [Ops -> Row] /\ OpOf[r] \in Ops
        /\ reply \in [Requests -> [status : Status, effect : EffectRef, replayed : BOOLEAN]]
        /\ RowOf(r) \in Row /\ SeenRow(r) \in Row
    BY SeenRowType, RequestAssumption DEF TypeOK
  <1>1. ASSUME NEW status, NEW e, NEW b, Answer(r, status, e, b)
        PROVE  reply'[r].status = status /\ pc'[r] = "done"
    BY <1>0, <1>1 DEF Answer, Reply
  <1>2. ASSUME NEW phase, GoTo(r, phase)
        PROVE  reply'[r] = reply[r] /\ pc'[r] = phase
    BY <1>0, <1>2 DEF GoTo
  <1>3. ASSUME NEW row \in Row, SetRow(r, row)
        PROVE  RowOf(r)' = row
    BY <1>0, <1>3 DEF SetRow, RowOf
  <1>4. ASSUME NEW status, status \notin {"OK", "UNKNOWN"}, NEW e, NEW b, Answer(r, status, e, b)
        PROVE  ReplyHolds(r)'
    BY <1>1, <1>4, ReplyHoldsKept
  <1>5. ASSUME NEW phase, phase # "reconcile", GoTo(r, phase)
        PROVE  ReplyHolds(r)'
    BY <1>2, <1>5, ReplyHoldsKept
  <1>6. ASSUME NEW status, status \notin {"OK", "UNKNOWN"}, Fail(r, status)
        PROVE  ReplyHolds(r)'
    BY <1>4, <1>6 DEF Fail
  <1>7. ASSUME NEW status, NEW e, NEW b, Answer(r, status, e, b), status \in {"OK", "UNKNOWN"},
               status = "OK" => RowOf(r)'.state = "COMPLETED",
               status = "UNKNOWN" /\ ~MayRedispatch => RowOf(r)'.state = "UNKNOWN"
        PROVE  ReplyHolds(r)'
    BY <1>1, <1>7, SameConfiguration DEF ReplyHolds
  <1>8. ASSUME NEW before, NEW after \in LedgerState, NEW status, NEW e,
               TransitionAndAnswer(r, before, after, status, e),
               status # "OK", status = "UNKNOWN" => after = "UNKNOWN"
        PROVE  ReplyHolds(r)'
    <2>1. CASE Fail(r, "ILLEGAL_OR_STALE_LEDGER_TRANSITION")
      BY <1>6, <2>1
    <2>2. CASE SetRow(r, [RowOf(r) EXCEPT !.state = after]) /\ Answer(r, status, e, FALSE)
      <3> DEFINE row == [RowOf(r) EXCEPT !.state = after]
      <3>1. row \in Row /\ row.state = after
        BY <1>0 DEF Row
      <3> HIDE DEF row
      <3>2. RowOf(r)' = row
        BY <1>3, <2>2, <3>1 DEF row
      <3> QED
        BY <1>4, <1>7, <1>8, <2>2, <3>1, <3>2
    <2> QED
      BY <1>8, <2>1, <2>2 DEF TransitionAndAnswer
  <1>9. CASE PrepareLedger(r)
    <2>1. CASE ReplayResult(r)
      <3>1. RowOf(r).state = "COMPLETED"
        BY <2>1, SeenRowFields DEF ReplayResult
      <3> QED
        BY <1>7, <2>1, <3>1 DEF ReplayResult
    <2>2. CASE RecoverFinalResult(r)
      <3> DEFINE row == [SeenRow(r) EXCEPT !.state = "COMPLETED"]
      <3>1. row \in Row /\ row.state = "COMPLETED"
        BY <1>0 DEF Row, LedgerState
      <3> HIDE DEF row
      <3>2. SetRow(r, row) /\ Answer(r, "OK", SeenRow(r).effect, TRUE)
        BY <2>2 DEF RecoverFinalResult, row
      <3> QED
        BY <1>3, <1>7, <3>1, <3>2
    <2>3. CASE ReportState(r)
      <3>1. PICK s \in {"FAILED_FINAL", "IN_PROGRESS"}, b \in BOOLEAN :
               Answer(r, s, SeenRow(r).effect, b)
        <4>1. CASE SeenRow(r).state = "FAILED_FINAL"
          BY <2>3, <4>1 DEF ReportState
        <4>2. CASE SeenRow(r).state # "FAILED_FINAL"
          BY <2>3, <4>2 DEF ReportState
        <4> QED
          BY <4>1, <4>2
      <3> QED
        BY <1>4, <3>1
    <2>4. CASE EnterUnknown(r)
      <3>1. RowOf(r)'.state = "UNKNOWN"
        BY <1>0, <1>3, <2>4 DEF EnterUnknown
      <3>2. CASE GoTo(r, "reconcile")
        <4>1. reply'[r] = reply[r] /\ RowOf(r).state # "COMPLETED"
          BY <1>2, <2>4, <3>2, SeenRowFields DEF EnterUnknown
        <4> QED
          BY <3>1, <4>1 DEF ReplyHolds
      <3>3. CASE Answer(r, "UNKNOWN", SeenRow(r).effect, FALSE)
        BY <1>7, <3>1, <3>3
      <3> QED
        BY <2>4, <3>2, <3>3 DEF EnterUnknown
    <2>5. CASE FindNoRow(r) \/ InsertAndClaim(r) \/ Claim(r)
      BY <1>5, <2>5 DEF FindNoRow, InsertAndClaim, Claim
    <2>6. CASE LedgerReadUnavailable(r) \/ LedgerWriteUnavailable(r) \/ OperationIdConflict(r)
               \/ RejectClaim(r)
      BY <1>6, <2>6
      DEF LedgerReadUnavailable, LedgerWriteUnavailable, OperationIdConflict, RejectClaim
    <2> QED
      BY <1>9, <2>1, <2>2, <2>3, <2>4, <2>5, <2>6 DEF PrepareLedger
  <1>10. CASE Execute(r)
    <2>1. CASE FailBeforeDispatch(r)
      BY <1>8, <2>1 DEF FailBeforeDispatch, LedgerState
    <2>2. CASE LoseConfirmation(r)
      BY <1>8, <2>2 DEF LoseConfirmation, LedgerState
    <2>3. CASE FinalizeLedger(r)
      <3>1. PICK s \in {"EFFECT_CONFIRMED", "COMPLETED"} :
               /\ SetRow(r, [RowOf(r) EXCEPT !.state = s, !.effect = call[r].effect])
               /\ reply' = [reply EXCEPT ![r] =
                      Reply(IF s = "EFFECT_CONFIRMED" THEN "EFFECT_CONFIRMED" ELSE "OK",
                            call[r].effect, FALSE)]
        <4>1. CASE Inject(r, "BEFORE_FINAL_RESULT_PERSIST")
          BY <2>3, <4>1 DEF FinalizeLedger
        <4>2. CASE ~Inject(r, "BEFORE_FINAL_RESULT_PERSIST")
          BY <2>3, <4>2 DEF FinalizeLedger
        <4> QED
          BY <4>1, <4>2
      <3> DEFINE row == [RowOf(r) EXCEPT !.state = s, !.effect = call[r].effect]
      <3>2. row \in Row /\ row.state = s
        BY <1>0 DEF Row, LedgerState, TypeOK, ServiceTypeOK
      <3> HIDE DEF row
      <3>3. RowOf(r)' = row
        BY <1>3, <3>1, <3>2 DEF row
      <3>4. reply'[r].status = IF s = "EFFECT_CONFIRMED" THEN "EFFECT_CONFIRMED" ELSE "OK"
        BY <1>0, <3>1 DEF Reply
      <3>5. pc'[r] # "reconcile"
        BY <1>0, <2>3 DEF FinalizeLedger
      <3> QED
        BY <3>2, <3>3, <3>4, <3>5 DEF ReplyHolds
    <2>4. CASE Dispatch(r) \/ DelayedReply(r)
      BY <1>5, <2>4 DEF Dispatch, DelayedReply
    <2>5. CASE SimulateCrash(r)
      BY <1>4, <2>5 DEF SimulateCrash
    <2>6. CASE RefuseCapability(r) \/ DispatchError(r) \/ LoseResponseAfterEffect(r)
               \/ FinalizeStale(r)
      BY <1>6, <2>6 DEF RefuseCapability, DispatchError, LoseResponseAfterEffect, FinalizeStale
    <2> QED
      BY <1>10, <2>1, <2>2, <2>3, <2>4, <2>5, <2>6 DEF Execute, AnswerUnledgered
  <1>11. CASE Reconcile(r)
    <2>1. CASE CannotReconcile(r)
      BY <1>7, <2>1 DEF CannotReconcile, ReplyHolds
    <2>2. CASE ConfirmReconciled(r)
      <3>1. CASE GoTo(r, "inconclusive")
        BY <1>5, <3>1
      <3>2. CASE /\ SetRow(r, [RowOf(r) EXCEPT !.state = "COMPLETED",
                                               !.effect = Registered(OpOf[r])])
                 /\ Answer(r, "OK", Registered(OpOf[r]), TRUE)
        <4> DEFINE row == [RowOf(r) EXCEPT !.state = "COMPLETED", !.effect = Registered(OpOf[r])]
        <4>1. row \in Row /\ row.state = "COMPLETED"
          BY <1>0 DEF Row, LedgerState, Registered, TypeOK, ServiceTypeOK
        <4> HIDE DEF row
        <4>2. RowOf(r)' = row
          BY <1>3, <3>2, <4>1 DEF row
        <4> QED
          BY <1>7, <3>2, <4>1, <4>2
      <3> QED
        BY <2>2, <3>1, <3>2 DEF ConfirmReconciled
    <2>3. CASE ReconciledNoEffect(r)
      BY <1>8, <2>3 DEF ReconciledNoEffect, LedgerState
    <2>4. CASE ReconciliationInconclusive(r)
      BY <1>8, <2>4 DEF ReconciliationInconclusive, LedgerState
    <2>5. CASE StartReconciliation(r)
      BY <1>5, <1>6, <2>5 DEF StartReconciliation
    <2>6. CASE Lookup(r)
      <3>1. PICK phase \in {"absent", "found"} : GoTo(r, phase)
        BY <2>6 DEF Lookup
      <3> QED
        BY <1>5, <3>1
    <2>7. CASE LookupError(r)
      BY <1>5, <2>7 DEF LookupError
    <2> QED
      BY <1>11, <2>1, <2>2, <2>3, <2>4, <2>5, <2>6, <2>7 DEF Reconcile
  <1> QED
    BY <1>9, <1>10, <1>11

\* Every step keeps rows what replies say of them.
LEMMA ReplyHoldsStep ==
    ASSUME TypeOK, CallInv, RestInv, ExclusiveClaimIfLedgered', HoldsInv, [Next]_vars
    PROVE  HoldsInv'
  <1>0. UNCHANGED config
    BY ConfigurationKept
  <1> SUFFICES ASSUME LedgerBacked, NEW q \in Requests
               PROVE  ReplyHolds(q)'
    BY <1>0, SameConfiguration DEF HoldsInv
  <1>1. ReplyHolds(q) /\ OpOf[q] \in Ops
    BY RequestAssumption DEF HoldsInv
  <1>2. RowOf(q).state = "COMPLETED" => RowOf(q)'.state = "COMPLETED"
    BY <1>1, EveryRowStep DEF RowStep, RowMoves, Absent, RowOf
  <1>3. ~MayRedispatch /\ RowOf(q).state = "UNKNOWN" => RowOf(q)'.state = "UNKNOWN"
    BY <1>1, AmbiguityStep DEF RowOf
  <1>4. ASSUME NEW r \in Requests, PrepareLedger(r) \/ Execute(r) \/ Reconcile(r)
        PROVE  ReplyHolds(q)'
    <2>1. CASE q = r
      BY <1>0, <1>1, <1>2, <1>3, <1>4, <2>1, OwnReplyHolds
    <2>2. CASE q # r
      BY <1>0, <1>1, <1>2, <1>3, <1>4, <2>2, HandlerLocal, ReplyHoldsKept
    <2> QED
      BY <2>1, <2>2
  <1>5. ASSUME NEW r \in Requests, Serve(r) \/ AnswerLost(r)
        PROVE  ReplyHolds(q)'
    BY <1>0, <1>1, <1>2, <1>3, <1>5, ServiceCourse, ReplyHoldsKept
  <1>6. CASE Crash
    <2>1. reply' = reply /\ (pc'[q] = "reconcile" => pc[q] = "reconcile")
      BY <1>6 DEF Crash, InFlight, TypeOK
    <2> QED
      BY <1>0, <1>1, <1>2, <1>3, <2>1, ReplyHoldsKept
  <1>7. CASE UNCHANGED <<pc, reply>>
    BY <1>0, <1>1, <1>2, <1>3, <1>7, ReplyHoldsKept
  <1> QED
    BY <1>4, <1>5, <1>6, <1>7 DEF Next, LeaseExpires, Finished, vars

\* An operation that was answered OK is COMPLETED for good, and one that was
\* answered UNKNOWN stays so where nothing is looked up, whatever other attempts
\* do, however late, and in every variant with a ledger.
THEOREM RepliesTellRows == Spec => []HoldsInv
  <1>1. Init => HoldsInv
    BY DEF Init, HoldsInv, ReplyHolds, NoReply, Reply
  <1>2. /\ TypeOK /\ CallInv /\ RestInv /\ ExclusiveClaimIfLedgered' /\ HoldsInv /\ [Next]_vars
        => HoldsInv'
    BY ReplyHoldsStep
  <1> QED
    BY <1>1, <1>2, CallsInvariant, RowsRest, ClaimsInvariant, PTL DEF Spec

=============================================================================
