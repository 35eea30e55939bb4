--------------------------- MODULE ContractProofs ---------------------------
(***************************************************************************)
(* Proofs about what the service and the orchestrator promise together:    *)
(* the service's mapping names exactly the effects of its keyed calls, one *)
(* request of an operation is told that it was the one, orchestrator and   *)
(* service together implement ExactlyOnce, and a rerun measures no effect  *)
(* twice and is told of none that it neither measures nor inherited.       *)
(***************************************************************************)
EXTENDS LedgerProofs, Rerun

-----------------------------------------------------------------------------
(* The mapping of the service.                                             *)

\* The mapping is only written where calls carry a capability that keeps one.
MappingInv == \A o \in Ops : Registered(o) # NoEffect => DispatchCapability # "C0"

LEMMA MappingStep ==
    ASSUME TypeOK, CallInv, MappingInv, [Next]_vars
    PROVE  MappingInv'
  <1>1. DispatchCapability' = DispatchCapability
    BY ConfigurationKept, SameConfiguration
  <1>2. CASE UNCHANGED idempotency
    BY <1>1, <1>2 DEF MappingInv, Registered
  <1>3. ASSUME NEW r \in Requests, Serve(r) \/ AnswerLost(r)
        PROVE  MappingInv'
    BY <1>1, <1>3, ServiceLocal DEF MappingInv, Registered
  <1> QED
    BY <1>2, <1>3, HandlerLocal, EnvironmentLocal DEF Next

\* The effects of keyed calls are exactly those the mapping names, whichever
\* variant calls, whatever the interleaving.
THEOREM MappingIsExact == Spec => []RegisteredIffCreated
  <1>1. Init => MappingInv
    BY DEF Init, ServiceInit, MappingInv, Registered
  <1>2. TypeOK /\ CallInv /\ MappingInv /\ [Next]_vars => MappingInv'
    BY MappingStep
  <1>3. TypeOK /\ CallInv /\ TruthInv /\ MappingInv => RegisteredIffCreated
    <2> SUFFICES ASSUME TypeOK, CallInv, TruthInv, MappingInv, NEW o \in Ops
                 PROVE  { r \in effects : OpOf[r] = o /\ Keyed(r) } =
                           { r \in Requests : r = Registered(o) }
      BY DEF RegisteredIffCreated
    <2>1. effects \subseteq Requests
      BY DEF TypeOK, ServiceTypeOK
    <2>2. ASSUME NEW e \in effects, OpOf[e] = o, Keyed(e)
          PROVE  e = Registered(o)
      BY <2>2 DEF CallInv
    <2>3. ASSUME NEW r \in Requests, r = Registered(o)
          PROVE  r \in effects /\ OpOf[r] = o /\ Keyed(r)
      <3>1. r # NoEffect
        BY RequestAssumption
      <3>2. r \in effects /\ OpOf[r] = o /\ DispatchCapability # "C0"
        BY <2>3, <3>1 DEF TruthInv, MappingInv, EffectsOf
      <3> QED
        BY <3>2 DEF CallInv, Keyed
    <2> QED
      BY <2>1, <2>2, <2>3
  <1> QED
    BY <1>1, <1>2, <1>3, CallsInvariant, TruthInvariant, PTL DEF Spec

-----------------------------------------------------------------------------
(* One request is told that it was the one.                                *)

Fresh(r) == reply[r].status = "OK" /\ ~reply[r].replayed

\* A fresh answer rests on the ledger where there is one: it completed the row,
\* which nobody completes again.  In V1 and V3 it rests on the service.
FreshInv ==
    \A r \in Requests : Fresh(r) =>
        /\ LedgerBacked => /\ RowOf(r).state = "COMPLETED"
                           /\ \A q \in RequestsOf(OpOf[r]) : Fresh(q) => q = r
        /\ ~LedgerBacked /\ Variant # "V0" => reply[r].effect = r

\* Only the end of a dispatch gives a fresh answer.
LEMMA FreshFrom ==
    ASSUME TypeOK, NEW r \in Requests, PrepareLedger(r) \/ Execute(r) \/ Reconcile(r),
           ~AnswerUnledgered(r), ~FinalizeLedger(r)
    PROVE  \A q \in Requests : Fresh(q)' => reply'[q] = reply[q]
  <1>0. reply \in [Requests -> [status : Status, effect : EffectRef, replayed : BOOLEAN]]
    BY DEF TypeOK
  <1> USE DEF Answer, Fail, GoTo, TransitionAndAnswer, Reply, Fresh
  <1>1. CASE PrepareLedger(r)
    BY <1>0, <1>1 DEF PrepareLedger, LedgerReadUnavailable, FindNoRow,
       LedgerWriteUnavailable, OperationIdConflict, ReplayResult, RecoverFinalResult,
       ReportState, EnterUnknown, InsertAndClaim, Claim, RejectClaim
  <1>2. CASE Execute(r)
    BY <1>0, <1>2 DEF Execute, FailBeforeDispatch, RefuseCapability, Dispatch,
       DispatchError, LoseResponseAfterEffect, SimulateCrash, LoseConfirmation,
       FinalizeStale, DelayedReply
  <1>3. CASE Reconcile(r)
    BY <1>0, <1>3 DEF Reconcile, CannotReconcile, StartReconciliation, Lookup,
       LookupError, ConfirmReconciled, ReconciledNoEffect, ReconciliationInconclusive
  <1> QED
    BY <1>1, <1>2, <1>3

\* Completed rows stay completed, and the configuration stays what it is.
LEMMA FreshKept ==
    ASSUME TypeOK, CallInv, FreshInv, [Next]_vars,
           \A q \in Requests : Fresh(q)' => reply'[q] = reply[q]
    PROVE  FreshInv'
  <1>1. \A o \in Ops : ledger[o].state = "COMPLETED" => ledger'[o] = ledger[o]
    BY EveryRowStep DEF RowStep, RowMoves, Absent
  <1>2. /\ LedgerBacked' = LedgerBacked /\ Variant' = Variant
        /\ \A r \in Requests : OpOf[r] \in Ops
    BY ConfigurationKept, SameConfiguration, RequestAssumption
  <1>3. \A q \in Requests : Fresh(q)' => Fresh(q)
    BY DEF Fresh
  <1> QED
    BY <1>1, <1>2, <1>3 DEF FreshInv, RowOf, RequestsOf

LEMMA FreshStep ==
    ASSUME TypeOK, CallInv, OwnInv, FreshInv, [Next]_vars
    PROVE  FreshInv'
  <1>0. /\ reply \in [Requests -> [status : Status, effect : EffectRef, replayed : BOOLEAN]]
        /\ LedgerBacked' = LedgerBacked /\ Variant' = Variant
    BY ConfigurationKept, SameConfiguration DEF TypeOK
  <1>1. ASSUME NEW r \in Requests, AnswerUnledgered(r)
        PROVE  FreshInv'
    <2>1. /\ reply'[r] = Reply("OK", call[r].effect, Variant # "V0" /\ call[r].replayed)
          /\ \A q \in Requests \ {r} : reply'[q] = reply[q]
          /\ ~LedgerBacked /\ call[r].phase = "answered"
      BY <1>0, <1>1 DEF AnswerUnledgered, Answer, Returned
    <2>2. Fresh(r)' /\ Variant # "V0" => reply'[r].effect = r
      <3>1. /\ reply'[r].replayed = (Variant # "V0" /\ call[r].replayed)
            /\ reply'[r].effect = call[r].effect
        BY <2>1 DEF Reply
      <3>2. Fresh(r)' /\ Variant # "V0" => ~call[r].replayed
        BY <3>1, Zenon DEF Fresh
      <3> QED
        BY <2>1, <3>1, <3>2 DEF OwnInv
    <2> QED
      BY <1>0, <2>1, <2>2 DEF FreshInv, Fresh
  <1>2. ASSUME NEW r \in Requests, FinalizeLedger(r)
        PROVE  FreshInv'
    <2>1. /\ LedgerBacked /\ RowOf(r).state = "EXECUTING" /\ RowOf(r) \in Row
          /\ \A q \in Requests \ {r} : reply'[q] = reply[q]
      BY <1>0, <1>2, SeenRowType DEF FinalizeLedger, Allowed
    <2>2. \A q \in RequestsOf(OpOf[r]) : ~Fresh(q)
      BY <2>1 DEF FreshInv, RequestsOf, RowOf
    <2>3. \A q \in RequestsOf(OpOf[r]) : Fresh(q)' => q = r
      BY <2>1, <2>2 DEF RequestsOf, Fresh
    <2>4. Fresh(r)' => ledger'[OpOf[r]].state = "COMPLETED"
      <3>1. CASE Inject(r, "BEFORE_FINAL_RESULT_PERSIST")
        BY <1>0, <1>2, <3>1 DEF FinalizeLedger, Fresh, Reply
      <3>2. CASE ~Inject(r, "BEFORE_FINAL_RESULT_PERSIST")
        <4>1. SetRow(r, [RowOf(r) EXCEPT !.state = "COMPLETED", !.effect = call[r].effect])
          BY <1>2, <3>2 DEF FinalizeLedger
        <4> QED
          BY <2>1, <4>1, RequestAssumption DEF SetRow, TypeOK, Row
      <3> QED
        BY <3>1, <3>2
    <2>5. \A o \in Ops \ {OpOf[r]} : ledger'[o] = ledger[o]
      BY <1>2 DEF FinalizeLedger, SetRow, TypeOK
    <2>6. ASSUME NEW q \in Requests, Fresh(q)'
          PROVE  /\ RowOf(q)'.state = "COMPLETED"
                 /\ \A p \in RequestsOf(OpOf[q]) : Fresh(p)' => p = q
      <3>1. CASE OpOf[q] = OpOf[r]
        BY <2>3, <2>4, <2>6, <3>1 DEF RequestsOf, RowOf
      <3>2. CASE OpOf[q] # OpOf[r]
        <4>1. Fresh(q) /\ \A p \in RequestsOf(OpOf[q]) : Fresh(p)' => Fresh(p)
          BY <2>1, <2>6, <3>2 DEF Fresh, RequestsOf
        <4>2. RowOf(q)' = RowOf(q)
          BY <2>5, <3>2, RequestAssumption DEF RowOf
        <4> QED
          BY <2>1, <4>1, <4>2 DEF FreshInv
      <3> QED
        BY <3>1, <3>2
    <2> QED
      BY <1>0, <2>1, <2>6 DEF FreshInv, RequestsOf
  <1>3. ASSUME \A q \in Requests : Fresh(q)' => reply'[q] = reply[q]
        PROVE  FreshInv'
    BY <1>3, FreshKept
  <1>4. ASSUME NEW r \in Requests, PrepareLedger(r) \/ Execute(r) \/ Reconcile(r)
        PROVE  FreshInv'
    BY <1>1, <1>2, <1>3, <1>4, FreshFrom
  <1>5. CASE UNCHANGED reply
    BY <1>3, <1>5
  <1> QED
    BY <1>4, <1>5 DEF Next, Serve, AnswerLost, LeaseExpires, Crash, Finished, vars, orchVars

\* Of all requests of an operation at most one is told OK as the one that
\* executed it, in every configuration that promises it.
THEOREM FreshAnswersAreUnique == Spec => []OneFreshAnswer
  <1>1. Init => OwnInv /\ FreshInv
    BY DEF Init, ServiceInit, OwnInv, FreshInv, Fresh, NoReply, Reply
  <1>2. TypeOK /\ CallInv /\ OwnInv /\ FreshInv /\ [Next]_vars => OwnInv' /\ FreshInv'
    BY OwnStep, FreshStep
  <1>3. FreshInv /\ AnswersAreTrue /\ AtMostOneEffect => OneFreshAnswer
    <2> SUFFICES ASSUME FreshInv, AnswersAreTrue, AtMostOneEffect, Protected,
                        NEW r1 \in Requests, NEW r2 \in Requests, OpOf[r1] = OpOf[r2],
                        Fresh(r1), Fresh(r2)
                 PROVE  r1 = r2
      BY DEF OneFreshAnswer, Fresh
    <2>1. CASE LedgerBacked
      BY <2>1 DEF FreshInv, RequestsOf
    <2>2. CASE ~LedgerBacked
      <3>1. Variant # "V0"
        BY <2>2 DEF Protected, DispatchCapability, PropagateIdentity
      <3>2. r1 \in EffectsOf(OpOf[r1]) /\ r2 \in EffectsOf(OpOf[r2])
        BY <2>2, <3>1 DEF FreshInv, AnswersAreTrue, Fresh
      <3> QED
        BY <3>2 DEF AtMostOneEffect, EffectsOf
    <2> QED
      BY <2>1, <2>2
  <1> QED
    BY <1>1, <1>2, <1>3, CallsInvariant, AnswersTrue, EffectsUnique, PTL DEF Spec

-----------------------------------------------------------------------------
(* Orchestrator and service implement ExactlyOnce.                         *)

LEMMA SameProtection ==
    ASSUME UNCHANGED config
    PROVE  Protected' = Protected
  BY SameConfiguration DEF Protected

\* The effect of an operation that has one.
LEMMA TheEffect ==
    ASSUME TypeOK, AtMostOneEffect, Protected, NEW o \in Ops, NEW e \in EffectsOf(o)
    PROVE  effectOf[o] = e
  <1>1. EffectsOf(o) = {e}
    BY DEF AtMostOneEffect, EffectsOf
  <1> QED
    BY <1>1 DEF effectOf

LEMMA ImplementationStarts ==
    ASSUME Init
    PROVE  Abstract!Init
  <1>1. \A o \in Ops : EffectsOf(o) = {}
    BY DEF Init, ServiceInit, EffectsOf
  <1>2. effectOf = [o \in Ops |-> NoEffect]
    BY <1>1 DEF effectOf
  <1>3. answered = [r \in Requests |-> NoEffect]
    BY DEF Init, answered
  <1> QED
    BY <1>2, <1>3 DEF Abstract!Init

\* An operation keeps its effect where none is added to it.
LEMMA SameEffect ==
    ASSUME UNCHANGED config, NEW o \in Ops, EffectsOf(o)' = EffectsOf(o)
    PROVE  effectOf'[o] = effectOf[o]
  <1> DEFINE Of(E) == IF Protected /\ E # {} THEN CHOOSE e \in E : TRUE ELSE NoEffect
  <1>1. effectOf[o] = Of(EffectsOf(o))
    BY DEF effectOf
  <1>2. effectOf'[o] = Of(EffectsOf(o)')
    BY SameProtection DEF effectOf
  <1> HIDE DEF Of
  <1> QED
    BY <1>1, <1>2

\* Where a step creates no effect, no operation's effect changes.
LEMMA SameEffects ==
    ASSUME UNCHANGED <<config, effects>>
    PROVE  effectOf' = effectOf
  <1>1. ASSUME NEW o \in Ops
        PROVE  effectOf'[o] = effectOf[o]
    BY SameEffect DEF EffectsOf
  <1> QED
    BY <1>1 DEF effectOf

\* A handler tells its request the effect of the operation, or nothing.
LEMMA HandlerImplements ==
    ASSUME TypeOK, AtMostOneEffect, TruthInv', NEW r \in Requests, UNCHANGED config,
           PrepareLedger(r) \/ Execute(r) \/ Reconcile(r)
    PROVE  Abstract!Tell(r) \/ UNCHANGED <<effectOf, answered>>
  <1>1. /\ UNCHANGED effects /\ pc[r] # "done"
        /\ \A q \in Requests \ {r} : pc'[q] = pc[q] /\ reply'[q] = reply[q]
    BY HandlerLocal
  <1>2. effectOf' = effectOf
    BY <1>1, SameEffects
  <1>3. answered[r] = NoEffect
    BY <1>1 DEF answered
  <1>4. \A q \in Requests \ {r} : answered'[q] = answered[q]
    BY <1>1, SameProtection DEF answered
  <1>5. CASE Protected /\ pc'[r] = "done" /\ reply'[r].status = "OK"
    <2>1. reply'[r].effect \in EffectsOf(OpOf[r])
      BY <1>1, <1>5 DEF TruthInv, AnswersAreTrue, EffectsOf
    <2>2. reply'[r].effect = effectOf[OpOf[r]] /\ reply'[r].effect # NoEffect
      BY <1>5, <2>1, TheEffect, RequestAssumption DEF EffectsOf, TypeOK, ServiceTypeOK
    <2>3. answered'[r] = effectOf[OpOf[r]]
      BY <1>5, <2>2, SameProtection DEF answered
    <2>4. answered' = [answered EXCEPT ![r] = effectOf[OpOf[r]]]
      BY <1>4, <2>3 DEF answered
    <2> QED
      BY <1>2, <1>3, <2>2, <2>4 DEF Abstract!Tell
  <1>6. CASE ~(Protected /\ pc'[r] = "done" /\ reply'[r].status = "OK")
    <2>1. answered'[r] = NoEffect
      BY <1>6, SameProtection DEF answered
    <2>2. answered' = answered
      BY <1>3, <1>4, <2>1 DEF answered
    <2> QED
      BY <1>2, <2>2
  <1> QED
    BY <1>5, <1>6

\* The service gives an operation its effect, or does nothing that shows.
LEMMA ServiceImplements ==
    ASSUME TypeOK, TypeOK', CallInv, AtMostOneEffect', NEW r \in Requests,
           Serve(r) \/ AnswerLost(r)
    PROVE  Abstract!TakeEffect(r) \/ UNCHANGED <<effectOf, answered>>
  <1>1. UNCHANGED <<config, pc, reply>>
    BY ServiceLocal
  <1>2. answered' = answered
    BY <1>1, SameProtection DEF answered
  <1>3. CASE UNCHANGED effects
    BY <1>1, <1>2, <1>3, SameEffects
  <1>4. CASE ~Protected
    <2>1. effectOf' = effectOf
      BY <1>1, <1>4, SameProtection DEF effectOf
    <2> QED
      BY <1>2, <2>1
  <1>5. CASE Protected /\ effects' = effects \cup {r} /\ r \notin effects
    <2>1. Protected' /\ OpOf[r] \in Ops
      BY <1>1, <1>5, SameProtection, RequestAssumption
    <2>2. \A e \in effects : OpOf[e] # OpOf[r]
      BY <1>5, <2>1 DEF AtMostOneEffect
    <2>3. EffectsOf(OpOf[r]) = {} /\ EffectsOf(OpOf[r])' = {r}
      BY <1>5, <2>2 DEF EffectsOf
    <2>4. \A o \in Ops \ {OpOf[r]} : EffectsOf(o)' = EffectsOf(o)
      BY <1>5 DEF EffectsOf
    <2>5. effectOf[OpOf[r]] = NoEffect
      BY <2>1, <2>3 DEF effectOf
    <2>6. effectOf'[OpOf[r]] = r
      BY <2>1, <2>3 DEF effectOf
    <2>7. \A o \in Ops \ {OpOf[r]} : effectOf'[o] = effectOf[o]
      BY <1>1, <2>4, SameEffect
    <2>8. effectOf' = [effectOf EXCEPT ![OpOf[r]] = r]
      BY <2>6, <2>7 DEF effectOf
    <2> QED
      BY <1>2, <2>5, <2>8 DEF Abstract!TakeEffect
  <1> QED
    BY <1>3, <1>4, <1>5, ServiceLocal

LEMMA StepImplements ==
    ASSUME TypeOK, TypeOK', CallInv, AtMostOneEffect, AtMostOneEffect', TruthInv',
           [Next]_vars
    PROVE  [Abstract!Next]_<<effectOf, answered>>
  <1>1. UNCHANGED config
    BY ConfigurationKept
  <1>2. ASSUME NEW r \in Requests, PrepareLedger(r) \/ Execute(r) \/ Reconcile(r)
        PROVE  [Abstract!Next]_<<effectOf, answered>>
    BY <1>1, <1>2, HandlerImplements DEF Abstract!Next
  <1>3. ASSUME NEW r \in Requests, Serve(r) \/ AnswerLost(r)
        PROVE  [Abstract!Next]_<<effectOf, answered>>
    BY <1>3, ServiceImplements DEF Abstract!Next
  <1>4. CASE (\E o \in Ops : LeaseExpires(o)) \/ Crash \/ Finished \/ UNCHANGED vars
    <2>1. /\ UNCHANGED <<reply, effects>>
          /\ \A q \in Requests : (pc'[q] = "done") <=> (pc[q] = "done")
      BY <1>4, EnvironmentLocal
    <2>2. answered' = answered
      BY <1>1, <2>1, SameProtection DEF answered
    <2> QED
      BY <1>1, <2>1, <2>2, SameEffects
  <1> QED
    BY <1>2, <1>3, <1>4 DEF Next

\* In every protected configuration an operation takes effect at most once,
\* and each answer is, and stays, the operation's effect.
THEOREM ExactlyOnceIsImplemented == Spec => ImplementsExactlyOnce
  <1>1. Init => Abstract!Init
    BY ImplementationStarts
  <1>2. TypeOK /\ TypeOK' /\ CallInv /\ AtMostOneEffect /\ AtMostOneEffect' /\ TruthInv'
           /\ [Next]_vars => [Abstract!Next]_<<effectOf, answered>>
    BY StepImplements
  <1> QED
    BY <1>1, <1>2, CallsInvariant, EffectsUnique, TruthInvariant, PTL
    DEF Spec, ImplementsExactlyOnce, Abstract!Spec

-----------------------------------------------------------------------------
(* A rerun: the second run's operations keep to one effect among those of  *)
(* the first run's requests.                                               *)

\* All attempts of an operation whose draw is no override have the same.
LEMMA DrawnTogether ==
    ASSUME SameDraws, NEW r \in Requests, NEW q \in Requests, OpOf[r] = OpOf[q],
           NeverCalls(q)
    PROVE  NeverCalls(r)
  BY DEF SameDraws, NeverCalls, Inject, ScenarioHook, Overriding

\* A held row is only offered again by a request that never calls, unless a lookup
\* decides.
LEMMA OfferedAgain ==
    ASSUME TypeOK, ~MayRedispatch, NEW r \in Requests,
           PrepareLedger(r) \/ Execute(r) \/ Reconcile(r),
           ~Reconciling(r), pc[r] = "reconcile" => AllowReconcile,
           NEW o \in Ops, ledger[o].state \in Held,
           ledger'[o].state \in {"RETRYABLE_FAILURE", "RECONCILING"}
    PROVE  NeverCalls(r) /\ o = OpOf[r]
  <1>0. RowOf(r) \in Row /\ SeenRow(r) \in Row /\ ledger \in [Ops -> Row]
    BY SeenRowType DEF TypeOK
  <1>1. ledger'[o] # ledger[o]
    BY DEF Held
  <1>2. ASSUME NEW row \in Row, SetRow(r, row),
               row.state \notin {"RETRYABLE_FAILURE", "RECONCILING"}
        PROVE  FALSE
    BY <1>0, <1>1, <1>2 DEF SetRow
  <1>3. CASE PrepareLedger(r)
    <2>1. CASE RecoverFinalResult(r)
      BY <1>0, <1>2, <2>1 DEF RecoverFinalResult, Row, LedgerState
    <2>2. CASE EnterUnknown(r)
      BY <1>0, <1>2, <2>2 DEF EnterUnknown
    <2>3. CASE InsertAndClaim(r)
      <3>1. /\ Claimed(r, [NoRow EXCEPT !.hash = HashOf[r]]) \in Row
            /\ Claimed(r, [NoRow EXCEPT !.hash = HashOf[r]]).state = "EXECUTING"
        BY DEF Claimed, NoRow, Row, RequestHash, EffectRef, Absent, LedgerState
      <3> QED
        BY <1>2, <2>3, <3>1 DEF InsertAndClaim
    <2>4. CASE Claim(r)
      <3>1. /\ Claimed(r, SeenRow(r)) \in Row
            /\ Claimed(r, SeenRow(r)).state = "EXECUTING"
        BY <1>0 DEF Claimed, Row, EffectRef, LedgerState
      <3> QED
        BY <1>2, <2>4, <3>1 DEF Claim
    <2> QED
      BY <1>1, <1>3, <2>1, <2>2, <2>3, <2>4
      DEF PrepareLedger, LedgerReadUnavailable, FindNoRow, LedgerWriteUnavailable,
          OperationIdConflict, ReplayResult, ReportState, RejectClaim, Fail
  <1>4. CASE Execute(r)
    <2>1. CASE FailBeforeDispatch(r)
      BY <1>0, <1>1, <2>1
      DEF FailBeforeDispatch, TransitionAndAnswer, Fail, SetRow, NeverCalls
    <2>2. CASE LoseConfirmation(r)
      <3>1. SetRow(r, [RowOf(r) EXCEPT !.state = "UNKNOWN"])
        BY <1>1, <2>2 DEF LoseConfirmation, TransitionAndAnswer, Fail
      <3>2. /\ [RowOf(r) EXCEPT !.state = "UNKNOWN"] \in Row
            /\ [RowOf(r) EXCEPT !.state = "UNKNOWN"].state = "UNKNOWN"
        BY <1>0 DEF Row, LedgerState
      <3> QED
        BY <1>2, <3>1, <3>2
    <2>3. CASE FinalizeLedger(r)
      <3>1. PICK s \in {"EFFECT_CONFIRMED", "COMPLETED"} :
               SetRow(r, [RowOf(r) EXCEPT !.state = s, !.effect = call[r].effect])
        BY <2>3 DEF FinalizeLedger
      <3>2. /\ [RowOf(r) EXCEPT !.state = s, !.effect = call[r].effect] \in Row
            /\ [RowOf(r) EXCEPT !.state = s, !.effect = call[r].effect].state = s
        BY <1>0 DEF Row, LedgerState, TypeOK, ServiceTypeOK
      <3> QED
        BY <1>2, <3>1, <3>2
    <2> QED
      BY <1>1, <1>4, <2>1, <2>2, <2>3
      DEF Execute, RefuseCapability, Dispatch, DispatchError, AnswerUnledgered,
          LoseResponseAfterEffect, SimulateCrash, FinalizeStale, DelayedReply, Fail
  <1>5. CASE Reconcile(r)
    <2>1. CannotReconcile(r)
      BY <1>5 DEF Reconciling, MayRedispatch, Reconcile, StartReconciliation, Lookup,
         LookupError, ConfirmReconciled, ReconciledNoEffect, ReconciliationInconclusive
    <2> QED
      BY <1>1, <2>1 DEF CannotReconcile
  <1> QED
    BY <1>3, <1>4, <1>5

\* A request that goes on to execute has just claimed the row, and then called.
LEMMA BeginsToExecute ==
    ASSUME TypeOK, LedgerBacked, NEW r \in Requests, NEW q \in Requests,
           PrepareLedger(q) \/ Execute(q) \/ Reconcile(q),
           ~Executes(r), Executes(r)'
    PROVE  /\ q = r /\ RowOf(r)'.owner = r
           /\ RowOf(r)'.state = "EXECUTING"
  <1>0. /\ pc \in [Requests -> Phase]
        /\ UNCHANGED scenario
    <2>1. UNCHANGED scenario
      BY DEF PrepareLedger, LedgerReadUnavailable, FindNoRow, LedgerWriteUnavailable,
         OperationIdConflict, ReplayResult, RecoverFinalResult, ReportState, EnterUnknown,
         InsertAndClaim, Claim, RejectClaim, Execute, FailBeforeDispatch, RefuseCapability,
         Dispatch, DispatchError, AnswerUnledgered, LoseResponseAfterEffect, SimulateCrash,
         LoseConfirmation, FinalizeStale, FinalizeLedger, DelayedReply, Reconcile,
         CannotReconcile, StartReconciliation, Lookup, LookupError, ConfirmReconciled,
         ReconciledNoEffect, ReconciliationInconclusive, Answer, Fail, GoTo,
         TransitionAndAnswer
    <2> QED
      BY <2>1 DEF TypeOK
  <1>1. ~Dispatch(q)
    <2> SUFFICES ASSUME Dispatch(q) PROVE FALSE
      OBVIOUS
    <2>1. /\ pc[q] = "proceed" /\ ~NeverCalls(q)
          /\ pc' = [pc EXCEPT ![q] = "waiting"]
          /\ \A p \in Requests \ {q} : call'[p] = call[p]
      BY DEF Dispatch, Unprotected, NeverCalls, GoTo, Submit, TypeOK, ServiceTypeOK
    <2> QED
      BY <1>0, <2>1 DEF Executes, NeverCalls, Inject
  <1>2. /\ UNCHANGED <<config, serviceVars>>
        /\ pc'[r] = "proceed" /\ pc[r] # "proceed"
    BY <1>0, <1>1, HandlerPhases DEF Executes, NeverCalls, Inject, serviceVars
  <1>3. q = r /\ (InsertAndClaim(r) \/ Claim(r))
    BY <1>0, <1>1, <1>2
    DEF PrepareLedger, LedgerReadUnavailable, FindNoRow, LedgerWriteUnavailable,
        OperationIdConflict, ReplayResult, RecoverFinalResult, ReportState, EnterUnknown,
        InsertAndClaim, Claim, RejectClaim, Execute, FailBeforeDispatch, RefuseCapability,
        DispatchError, AnswerUnledgered, LoseResponseAfterEffect, SimulateCrash,
        LoseConfirmation, FinalizeStale, FinalizeLedger, DelayedReply, Reconcile,
        CannotReconcile, StartReconciliation, Lookup, LookupError, ConfirmReconciled,
        ReconciledNoEffect, ReconciliationInconclusive, Answer, Fail, GoTo,
        TransitionAndAnswer
  <1>4. PICK row \in Row : SetRow(r, Claimed(r, row))
    <2>1. [NoRow EXCEPT !.hash = HashOf[r]] \in Row /\ SeenRow(r) \in Row
      BY SeenRowType DEF NoRow, Row, RequestHash, EffectRef, Absent
    <2> QED
      BY <1>3, <2>1 DEF InsertAndClaim, Claim
  <1>5. Claimed(r, row).owner = r /\ Claimed(r, row).state = "EXECUTING"
    BY DEF Claimed, Row
  <1> QED
    BY <1>3, <1>4, <1>5, SeenRowType DEF SetRow, TypeOK, RowOf

\* The parts of ClaimInRerun that a step of the orchestrator or the services keeps
\* whatever the ledger holds.
LEMMA CallsInRerun ==
    ASSUME TypeOK, CallInv, ClaimInRerun, LedgerBacked, ~MayRedispatch, [Next]_vars
    PROVE  /\ UNCHANGED scenario
           /\ \A r \in Requests :
                 /\ ~Reconciling(r)'
                 /\ pc'[r] = "reconcile" => AllowReconcile
                 /\ NeverCalls(r) => call'[r].phase = "none"
  <1>0. pc \in [Requests -> Phase]
    BY DEF TypeOK
  <1>1. ASSUME NEW q \in Requests, PrepareLedger(q) \/ Execute(q) \/ Reconcile(q)
        PROVE  /\ UNCHANGED scenario
               /\ \A r \in Requests :
                     /\ pc'[r] \notin {"lookup", "found", "absent", "inconclusive"}
                     /\ pc'[r] = "reconcile" => AllowReconcile
                     /\ NeverCalls(r) => call'[r].phase = "none"
    <2> USE DEF Answer, Fail, GoTo, TransitionAndAnswer
    <2>0. \A r \in Requests :
             /\ pc[r] \notin {"lookup", "found", "absent", "inconclusive"}
             /\ pc[r] = "reconcile" => AllowReconcile
             /\ NeverCalls(r) => call[r].phase = "none"
      BY DEF ClaimInRerun, Reconciling
    <2>1. CASE PrepareLedger(q)
      BY <1>0, <2>0, <2>1 DEF PrepareLedger, LedgerReadUnavailable, FindNoRow,
         LedgerWriteUnavailable, OperationIdConflict, ReplayResult, RecoverFinalResult,
         ReportState, EnterUnknown, InsertAndClaim, Claim, RejectClaim, serviceVars
    <2>2. CASE Dispatch(q)
      <3>1. /\ ~NeverCalls(q) /\ UNCHANGED scenario
            /\ pc' = [pc EXCEPT ![q] = "waiting"]
            /\ \A p \in Requests \ {q} : call'[p] = call[p]
        BY <2>2 DEF Dispatch, Unprotected, NeverCalls, Submit, TypeOK, ServiceTypeOK
      <3> QED
        BY <1>0, <2>0, <3>1
    <2>3. CASE Execute(q) /\ ~Dispatch(q)
      BY <1>0, <2>0, <2>3 DEF Execute, FailBeforeDispatch, RefuseCapability, DispatchError,
         AnswerUnledgered, LoseResponseAfterEffect, SimulateCrash, LoseConfirmation,
         FinalizeStale, FinalizeLedger, DelayedReply, serviceVars
    <2>4. CASE Reconcile(q)
      <3>1. CannotReconcile(q)
        BY <2>0, <2>4 DEF MayRedispatch, Reconcile, StartReconciliation, Lookup,
           LookupError, ConfirmReconciled, ReconciledNoEffect, ReconciliationInconclusive
      <3> QED
        BY <1>0, <2>0, <3>1 DEF CannotReconcile, serviceVars
    <2> QED
      BY <1>1, <2>1, <2>2, <2>3, <2>4
  <1>2. ASSUME NEW q \in Requests, Serve(q) \/ AnswerLost(q)
        PROVE  /\ UNCHANGED <<scenario, pc>>
               /\ \A r \in Requests : call[r].phase = "none" => call'[r].phase = "none"
    BY <1>2 DEF Serve, AnswerLost, ServiceStep, ReplayExisting, BeginCreate, CommitEffect,
       RejectDuplicateKey, AbortCall, LoseAnswer, orchVars, TypeOK, ServiceTypeOK
  <1>3. ASSUME (\E o \in Ops : LeaseExpires(o)) \/ Crash \/ Finished \/ UNCHANGED vars
        PROVE  /\ UNCHANGED <<scenario, call>>
               /\ \A r \in Requests : pc'[r] = pc[r] \/ pc'[r] = "lost"
    BY <1>0, <1>3 DEF LeaseExpires, Crash, Finished, vars, serviceVars
  <1> QED
    BY <1>1, <1>2, <1>3 DEF Next, ClaimInRerun, Reconciling, NeverCalls, Inject

LEMMA HeldInRerun ==
    ASSUME TypeOK, CallInv, SameDraws, ClaimInRerun, LedgerBacked, ~MayRedispatch,
           [Next]_vars, NEW r \in Second, Executes(r)'
    PROVE  RowOf(r)'.owner = r /\ RowOf(r)'.state \in Held
  <1>0. /\ r \in Requests /\ OpOf[r] \in Ops
        /\ UNCHANGED scenario
    BY SecondAssumption, RequestAssumption, CallsInRerun
  <1>1. CASE ~Executes(r)
    <2>1. PICK q \in Requests : PrepareLedger(q) \/ Execute(q) \/ Reconcile(q)
      <3>1. ASSUME NEW q \in Requests, Serve(q) \/ AnswerLost(q)
            PROVE  /\ UNCHANGED pc
                   /\ call[r].phase = "none" => call'[r].phase = "none"
        BY <1>0, <3>1 DEF Serve, AnswerLost, ServiceStep, ReplayExisting, BeginCreate,
           CommitEffect, RejectDuplicateKey, AbortCall, LoseAnswer, orchVars, TypeOK,
           ServiceTypeOK
      <3>2. ASSUME (\E o \in Ops : LeaseExpires(o)) \/ Crash \/ Finished \/ UNCHANGED vars
            PROVE  /\ UNCHANGED call
                   /\ pc'[r] = pc[r] \/ pc'[r] = "lost"
        BY <1>0, <3>2 DEF LeaseExpires, Crash, Finished, vars, serviceVars, TypeOK
      <3> QED
        BY <1>0, <1>1, <3>1, <3>2 DEF Next, Executes, NeverCalls, Inject
    <2> QED
      BY <1>0, <1>1, <2>1, BeginsToExecute DEF Held
  <1>2. CASE Executes(r)
    <2>1. RowOf(r).owner = r /\ RowOf(r).state \in Held /\ ~NeverCalls(r)
      BY <1>0, <1>2 DEF ClaimInRerun, Executes
    <2>2. RowOf(r)'.state \notin {"RETRYABLE_FAILURE", "RECONCILING"}
      <3> SUFFICES ASSUME ledger'[OpOf[r]].state \in {"RETRYABLE_FAILURE", "RECONCILING"}
                   PROVE  FALSE
        BY DEF RowOf
      <3>1. ledger[OpOf[r]].state \in Held /\ ledger'[OpOf[r]].state \notin Held
        BY <2>1 DEF RowOf, Held
      <3>2. ASSUME NEW q \in Requests, PrepareLedger(q) \/ Execute(q) \/ Reconcile(q)
            PROVE  FALSE
        <4>1. NeverCalls(q) /\ OpOf[r] = OpOf[q]
          BY <1>0, <3>1, <3>2, OfferedAgain DEF ClaimInRerun
        <4> QED
          BY <1>0, <2>1, <4>1, DrawnTogether
      <3>3. ASSUME NEW o \in Ops, LeaseExpires(o)
            PROVE  ledger'[OpOf[r]].state = ledger[OpOf[r]].state
        BY <1>0, <3>3 DEF LeaseExpires, TypeOK, Row
      <3> QED
        BY <3>1, <3>2, <3>3
        DEF Next, Serve, AnswerLost, Crash, Finished, vars, orchVars
    <2>3. RowStep(OpOf[r])
      BY <1>0, EveryRowStep
    <2> QED
      BY <2>1, <2>2, <2>3 DEF RowStep, RowMoves, RowOf, Held, Absent
  <1> QED
    BY <1>1, <1>2

\* A step of the orchestrator or the services, of whichever run.
LEMMA OrdinaryStep ==
    ASSUME TypeOK, CallInv, RerunInv, [Next]_vars, UNCHANGED rerunVars, SecondIsLater'
    PROVE  TypeOK' /\ CallInv' /\ RerunInv'
  <1>1. TypeOK' /\ CallInv' /\ SameDraws'
    BY StepType, StepCallInv, ScenarioKept DEF RerunInv, SameDraws
  <1>2. ASSUME LedgerBacked, ~MayRedispatch
        PROVE  ClaimInRerun'
    <2>1. SameDraws /\ ClaimInRerun
      BY <1>2 DEF RerunInv, ClaimInRerunIfLedgered
    <2>2. /\ \A r \in Requests : NeverCalls(r)' = NeverCalls(r)
          /\ AllowReconcile' = AllowReconcile
      BY ScenarioKept, ConfigurationKept, SameConfiguration DEF NeverCalls, Inject
    <2>3. \A r \in Requests :
             /\ ~Reconciling(r)'
             /\ pc'[r] = "reconcile" => AllowReconcile
             /\ NeverCalls(r) => call'[r].phase = "none"
      BY <1>2, <2>1, CallsInRerun
    <2>4. \A r \in Second : Executes(r)' => RowOf(r)'.owner = r /\ RowOf(r)'.state \in Held
      BY <1>2, <2>1, HeldInRerun
    <2> QED
      BY <2>2, <2>3, <2>4 DEF ClaimInRerun
  <1>3. ClaimInRerunIfLedgered'
    BY <1>2, ConfigurationKept, SameConfiguration DEF ClaimInRerunIfLedgered
  <1> QED
    BY <1>1, <1>3 DEF RerunInv, rerunVars

LEMMA ResetStep ==
    ASSUME TypeOK, CallInv, RerunInv, ResetDb
    PROVE  TypeOK' /\ CallInv' /\ RerunInv'
  <1>1. /\ UNCHANGED <<config, scenario, pc, reply, crashes, call>>
        /\ effects' = {} /\ restarted' = TRUE /\ late' \subseteq First
        /\ ledger' = [o \in Ops |-> NoRow]
        /\ idempotency' = [o \in Ops |-> NoEffect]
        /\ lookedUp' = [r \in Requests |-> IF pc[r] = "found" THEN Registered(OpOf[r]) ELSE NoEffect]
        /\ \A r \in Second : pc[r] = "idle" /\ call[r].phase = "none"
    BY DEF ResetDb, Unfinished, RerunInv, SecondIsLater
  <1>2. TypeOK'
    <2>1. NoRow \in Row
      BY DEF NoRow, Row, EffectRef, Absent
    <2> QED
      BY <1>1, <2>1 DEF TypeOK, ServiceTypeOK, EffectRef
  <1>3. CallInv'
    BY <1>1, SameConfiguration DEF CallInv
  <1>4. lookedUp' \in [Requests -> EffectRef]
    BY <1>1, RequestAssumption DEF Registered, TypeOK, ServiceTypeOK, EffectRef
  <1>5. ClaimInRerunIfLedgered'
    <2>1. /\ \A r \in Second : ~Executes(r)'
          /\ \A r \in Requests : NeverCalls(r)' = NeverCalls(r)
      BY <1>1 DEF Executes, NeverCalls, Inject
    <2>2. /\ LedgerBacked' = LedgerBacked /\ MayRedispatch' = MayRedispatch
          /\ AllowReconcile' = AllowReconcile
      BY <1>1, SameConfiguration
    <2>3. ASSUME ClaimInRerun
          PROVE  ClaimInRerun'
      BY <1>1, <2>1, <2>2, <2>3 DEF ClaimInRerun, Reconciling
    <2> QED
      BY <2>2, <2>3 DEF RerunInv, ClaimInRerunIfLedgered
  <1> QED
    BY <1>1, <1>2, <1>3, <1>4, <1>5 DEF RerunInv, SameDraws, SecondIsLater

LEMMA OldLookupStep ==
    ASSUME TypeOK, CallInv, RerunInv, NEW r \in Requests, ConfirmOldLookup(r)
    PROVE  TypeOK' /\ CallInv' /\ RerunInv'
  <1>0. /\ pc \in [Requests -> Phase] /\ pc[r] = "found"
        /\ lookedUp[r] \in EffectRef
        /\ UNCHANGED <<serviceVars, rerunVars>>
    BY DEF ConfirmOldLookup, HoldsOldLookup, TypeOK, RerunInv
  <1>1. /\ TypeOK'
        /\ UNCHANGED <<config, scenario>>
        /\ \E p \in {"done", "inconclusive"} : pc' = [pc EXCEPT ![r] = p]
    <2>1. CASE Answer(r, "OK", lookedUp[r], TRUE)
               /\ SetRow(r, [RowOf(r) EXCEPT !.state = "COMPLETED", !.effect = lookedUp[r]])
      <3>1. [RowOf(r) EXCEPT !.state = "COMPLETED", !.effect = lookedUp[r]] \in Row
        BY <1>0, SeenRowType DEF Row, LedgerState
      <3>2. ledger' \in [Ops -> Row]
        BY <2>1, <3>1, SetRowType
      <3>3. /\ reply' \in [Requests -> [status : Status, effect : EffectRef, replayed : BOOLEAN]]
            /\ pc' \in [Requests -> Phase]
        BY <1>0, <2>1 DEF Answer, Reply, Status, Phase, TypeOK
      <3> QED
        BY <1>0, <2>1, <3>2, <3>3 DEF Answer, TypeOK, ServiceTypeOK, serviceVars
    <2>2. CASE GoTo(r, "inconclusive") /\ UNCHANGED ledger
      BY <1>0, <2>2 DEF GoTo, TypeOK, ServiceTypeOK, serviceVars, Phase
    <2> QED
      BY <2>1, <2>2 DEF ConfirmOldLookup
  <1>2. CallInv'
    BY <1>0, <1>1, CallInvKept
  <1>3. SecondIsLater'
    <2>1. \A q \in Second : ~restarted => pc[q] = "idle" /\ call[q].phase = "none"
      BY DEF RerunInv, SecondIsLater
    <2>2. \A q \in Second : ~restarted => q # r /\ q \in Requests
      BY <1>0, <2>1, SecondAssumption
    <2>3. restarted' = restarted /\ call' = call
      BY <1>0 DEF rerunVars, serviceVars
    <2> QED
      BY <1>0, <1>1, <2>1, <2>2, <2>3 DEF SecondIsLater
  <1>4. ~(LedgerBacked /\ ~MayRedispatch)
    BY <1>0 DEF RerunInv, ClaimInRerunIfLedgered, ClaimInRerun, Reconciling
  <1> QED
    BY <1>0, <1>1, <1>2, <1>3, <1>4, SameConfiguration
    DEF RerunInv, SameDraws, ClaimInRerunIfLedgered, rerunVars

LEMMA RerunStep ==
    ASSUME TypeOK, CallInv, RerunInv, [RerunNext]_<<vars, rerunVars>>
    PROVE  TypeOK' /\ CallInv' /\ RerunInv'
  <1>1. ASSUME NEW r \in Requests, Handled(r)
        PROVE  TypeOK' /\ CallInv' /\ RerunInv'
    <2>1. SecondIsLater'
      BY <1>1, OthersStay, SecondAssumption
      DEF Handled, Arrives, RerunInv, SecondIsLater, rerunVars
    <2> QED
      BY <1>1, <2>1, OrdinaryStep DEF Handled, Next
  <1>2. CASE Environment \/ BothFinished \/ UNCHANGED <<vars, rerunVars>>
    <2>1. [Next]_vars /\ UNCHANGED rerunVars
      BY <1>2 DEF Environment, BothFinished, Next
    <2>2. \A r \in Requests :
             /\ pc[r] = "idle" => pc'[r] = "idle"
             /\ call'[r] = call[r]
      BY <1>2 DEF Environment, BothFinished, LeaseExpires, Crash, InFlight, vars,
         serviceVars, TypeOK
    <2> QED
      BY <2>1, <2>2, OrdinaryStep, SecondAssumption DEF RerunInv, SecondIsLater, rerunVars
  <1> QED
    BY <1>1, <1>2, ResetStep, OldLookupStep DEF RerunNext

\* In a rerun the handlers keep to their course, and where nothing reconciles
\* through a lookup what the second run executes it has claimed.
THEOREM RerunInvariant == RerunSpec => [](TypeOK /\ CallInv /\ RerunInv)
  <1>1. RerunInit => TypeOK /\ CallInv /\ RerunInv
    <2>1. Init => TypeOK
      BY ConfigAssumption, RequestAssumption
      DEF Init, ServiceInit, TypeOK, ServiceTypeOK, EffectRef, CallPhase, Capability,
          Phase, NoRow, Row, NoReply, Reply, Status, Absent
    <2>2. Init => CallInv
      BY DEF Init, ServiceInit, CallInv, Keyed, Registered
    <2>3. Init => /\ effects = {}
                  /\ \A r \in Requests : pc[r] = "idle" /\ call[r].phase = "none"
      BY DEF Init, ServiceInit
    <2>4. Init => ClaimInRerunIfLedgered /\ SecondIsLater
      BY <2>3, SecondAssumption
      DEF ClaimInRerunIfLedgered, ClaimInRerun, Reconciling, Executes, SecondIsLater
    <2> QED
      BY <2>1, <2>2, <2>4 DEF RerunInit, RerunInv, EffectRef
  <1>2. TypeOK /\ CallInv /\ RerunInv /\ [RerunNext]_<<vars, rerunVars>>
           => TypeOK' /\ CallInv' /\ RerunInv'
    BY RerunStep
  <1> QED
    BY <1>1, <1>2, PTL DEF RerunSpec

\* A rerun measures no operation twice, in every protected configuration and
\* whatever requests of the first run are still about (NoDuplicateInRerun).
THEOREM RerunsAreNotDuplicated == RerunSpec => []NoDuplicateInRerun
  <1>1. TypeOK /\ CallInv /\ RerunInv => NoDuplicateInRerun
    <2> SUFFICES ASSUME TypeOK, CallInv, RerunInv, Protected, NEW o \in Ops,
                        NEW e1 \in Measured(o), NEW e2 \in Measured(o)
                 PROVE  e1 = e2
      BY DEF NoDuplicateInRerun
    <2>1. /\ e1 \in effects /\ e2 \in effects /\ OpOf[e1] = OpOf[e2]
          /\ e1 \in Second /\ e2 \in Second
          /\ e1 \in Requests /\ e2 \in Requests
          /\ call[e1].phase # "none" /\ call[e2].phase # "none"
      BY DEF Measured, TypeOK, ServiceTypeOK, CallInv
    <2>2. CASE DispatchCapability # "C0"
      BY <2>1, <2>2 DEF CallInv, Keyed
    <2>3. CASE DispatchCapability = "C0" /\ LedgerBacked
      <3>1. ~MayRedispatch
        BY <2>3 DEF MayRedispatch, DispatchCapability, PropagateIdentity, AllowReconcile
      <3> QED
        BY <2>1, <2>3, <3>1
        DEF RerunInv, ClaimInRerunIfLedgered, ClaimInRerun, Executes, RowOf
    <2>4. CASE DispatchCapability = "C0" /\ Variant = "V3"
      BY <2>1, <2>4 DEF CallInv, DispatchCapability
    <2> QED
      BY <2>2, <2>3, <2>4 DEF Protected
  <1> QED
    BY <1>1, RerunInvariant, PTL

-----------------------------------------------------------------------------
(* What a rerun answers: an effect of its own, or one of the first run's.  *)

\* What a handler can say of an effect: its row's, its call's, or the one registered
\* when its lookup found one.
Source(r, e) ==
    \/ RowOf(r).state \in Confirmed /\ e = RowOf(r).effect
    \/ Returned(r) /\ e = call[r].effect
    \/ pc[r] = "found" /\ e = Registered(OpOf[r])

\* What a step of r's handler has to keep to for that.
RowSourced(r) == RowOf(r)'.state \in Confirmed => Source(r, RowOf(r)'.effect)
ReplySourced(r) ==
    reply'[r].status = "OK" => reply'[r] = reply[r] \/ Source(r, reply'[r].effect)
FoundSourced(r) == pc'[r] = "found" => Registered(OpOf[r]) # NoEffect

\* A handler confirms and answers nothing else.
LEMMA SaysItsSource ==
    ASSUME TypeOK, NEW r \in Requests, PrepareLedger(r) \/ Execute(r) \/ Reconcile(r)
    PROVE  RowSourced(r) /\ ReplySourced(r) /\ FoundSourced(r)
  <1>0. /\ OpOf[r] \in Ops /\ RowOf(r) \in Row /\ SeenRow(r) \in Row
        /\ DOMAIN ledger = Ops /\ DOMAIN pc = Requests /\ DOMAIN reply = Requests
    BY SeenRowType DEF TypeOK
  <1>1. ASSUME NEW row, SetRow(r, row), row.state \in Confirmed => Source(r, row.effect)
        PROVE  RowSourced(r)
    BY <1>0, <1>1 DEF SetRow, RowOf, RowSourced
  <1>2. ASSUME UNCHANGED ledger
        PROVE  RowSourced(r)
    BY <1>2 DEF RowOf, Source, RowSourced
  <1>3. ASSUME NEW status, NEW e, NEW b, Answer(r, status, e, b),
               status = "OK" => Source(r, e)
        PROVE  ReplySourced(r) /\ FoundSourced(r)
    <2>1. pc'[r] = "done" /\ reply'[r].status = status /\ reply'[r].effect = e
      BY <1>0, <1>3 DEF Answer, Reply
    <2> QED
      BY <1>3, <2>1 DEF ReplySourced, FoundSourced
  <1>4. ASSUME NEW phase, GoTo(r, phase), phase = "found" => Registered(OpOf[r]) # NoEffect
        PROVE  ReplySourced(r) /\ FoundSourced(r)
    BY <1>0, <1>4 DEF GoTo, ReplySourced, FoundSourced
  <1>5. ASSUME NEW status, Fail(r, status), status # "OK"
        PROVE  RowSourced(r) /\ ReplySourced(r) /\ FoundSourced(r)
    BY <1>2, <1>3, <1>5 DEF Fail
  <1>6. ASSUME NEW before, NEW after, after \notin Confirmed, NEW status, status # "OK", NEW e,
               TransitionAndAnswer(r, before, after, status, e)
        PROVE  RowSourced(r) /\ ReplySourced(r) /\ FoundSourced(r)
    <2>1. CASE SetRow(r, [RowOf(r) EXCEPT !.state = after]) /\ Answer(r, status, e, FALSE)
      <3>1. [RowOf(r) EXCEPT !.state = after].state = after
        BY <1>0 DEF Row
      <3> QED
        BY <1>1, <1>3, <1>6, <2>1, <3>1
    <2>2. CASE Fail(r, "ILLEGAL_OR_STALE_LEDGER_TRANSITION")
      BY <1>5, <2>2
    <2> QED
      BY <1>6, <2>1, <2>2 DEF TransitionAndAnswer
  <1>7. /\ SeenRow(r).effect = RowOf(r).effect
        /\ SeenRow(r).state \in Confirmed => Source(r, SeenRow(r).effect)
    BY SeenRowFields DEF Source, Confirmed
  <1>8. CASE PrepareLedger(r)
    <2>1. CASE LedgerReadUnavailable(r) \/ LedgerWriteUnavailable(r) \/ OperationIdConflict(r)
               \/ RejectClaim(r)
      BY <1>5, <2>1 DEF LedgerReadUnavailable, LedgerWriteUnavailable, OperationIdConflict,
         RejectClaim
    <2>2. CASE FindNoRow(r)
      BY <1>2, <1>4, <2>2 DEF FindNoRow
    <2>3. CASE ReplayResult(r)
      BY <1>2, <1>3, <1>7, <2>3 DEF ReplayResult, Confirmed
    <2>4. CASE RecoverFinalResult(r)
      <3>1. [SeenRow(r) EXCEPT !.state = "COMPLETED"].effect = SeenRow(r).effect
        BY <1>0 DEF Row
      <3>2. Source(r, SeenRow(r).effect)
        BY <1>7, <2>4 DEF RecoverFinalResult, Allowed, Confirmed
      <3> QED
        BY <1>1, <1>3, <2>4, <3>1, <3>2 DEF RecoverFinalResult
    <2>5. CASE ReportState(r)
      <3>1. PICK status, b : Answer(r, status, SeenRow(r).effect, b) /\ status # "OK"
        BY <2>5 DEF ReportState
      <3> QED
        BY <1>2, <1>3, <2>5, <3>1 DEF ReportState
    <2>6. CASE EnterUnknown(r)
      <3>1. SeenRow(r).state \notin Confirmed /\ SetRow(r, SeenRow(r))
        BY <2>6 DEF EnterUnknown, Confirmed
      <3>2. GoTo(r, "reconcile") \/ Answer(r, "UNKNOWN", SeenRow(r).effect, FALSE)
        BY <2>6 DEF EnterUnknown
      <3> QED
        BY <1>1, <1>3, <1>4, <3>1, <3>2
    <2>7. CASE InsertAndClaim(r) \/ Claim(r)
      <3>1. PICK row \in Row : SetRow(r, Claimed(r, row)) /\ GoTo(r, "proceed")
        BY <1>0, <2>7 DEF InsertAndClaim, Claim, NoRow, Row, RequestHash, EffectRef, Absent
      <3>2. Claimed(r, row).state \notin Confirmed
        BY DEF Claimed, Row, Confirmed
      <3> QED
        BY <1>1, <1>4, <3>1, <3>2
    <2> QED
      BY <1>8, <2>1, <2>2, <2>3, <2>4, <2>5, <2>6, <2>7 DEF PrepareLedger
  <1>9. CASE Execute(r)
    <2>1. CASE FailBeforeDispatch(r)
      BY <1>6, <2>1 DEF FailBeforeDispatch, Confirmed
    <2>2. CASE RefuseCapability(r) \/ DispatchError(r) \/ LoseResponseAfterEffect(r)
               \/ FinalizeStale(r)
      BY <1>5, <2>2 DEF RefuseCapability, DispatchError, LoseResponseAfterEffect,
         FinalizeStale
    <2>3. CASE Dispatch(r) \/ DelayedReply(r)
      BY <1>2, <1>4, <2>3 DEF Dispatch, DelayedReply
    <2>4. CASE SimulateCrash(r)
      BY <1>2, <1>3, <2>4 DEF SimulateCrash
    <2>5. CASE AnswerUnledgered(r)
      <3>1. PICK b : Answer(r, "OK", call[r].effect, b)
        BY <2>5 DEF AnswerUnledgered
      <3>2. Source(r, call[r].effect) /\ UNCHANGED ledger
        BY <2>5 DEF AnswerUnledgered, Source
      <3> QED
        BY <1>2, <1>3, <3>1, <3>2
    <2>6. CASE LoseConfirmation(r)
      BY <1>6, <2>6 DEF LoseConfirmation, Confirmed
    <2>7. CASE FinalizeLedger(r)
      <3>1. PICK s, status :
              /\ SetRow(r, [RowOf(r) EXCEPT !.state = s, !.effect = call[r].effect])
              /\ reply' = [reply EXCEPT ![r] = Reply(status, call[r].effect, FALSE)]
              /\ pc'[r] \in {"delayed", "done"}
        BY <1>0, <2>7 DEF FinalizeLedger
      <3>2. Source(r, call[r].effect)
        BY <2>7 DEF FinalizeLedger, Source
      <3>3. /\ [RowOf(r) EXCEPT !.state = s, !.effect = call[r].effect].effect = call[r].effect
            /\ reply'[r].effect = call[r].effect
        BY <1>0, <3>1 DEF Row, Reply
      <3>4. RowSourced(r)
        BY <1>1, <3>1, <3>2, <3>3
      <3> QED
        BY <3>1, <3>2, <3>3, <3>4 DEF ReplySourced, FoundSourced
    <2> QED
      BY <1>9, <2>1, <2>2, <2>3, <2>4, <2>5, <2>6, <2>7 DEF Execute
  <1>10. CASE Reconcile(r)
    <2>1. CASE CannotReconcile(r)
      BY <1>2, <1>3, <2>1 DEF CannotReconcile
    <2>2. CASE StartReconciliation(r)
      <3>1. [RowOf(r) EXCEPT !.state = "RECONCILING"].state \notin Confirmed
        BY <1>0 DEF Row, Confirmed
      <3> QED
        BY <1>1, <1>4, <1>5, <2>2, <3>1 DEF StartReconciliation
    <2>3. CASE Lookup(r) \/ LookupError(r)
      BY <1>2, <1>4, <2>3 DEF Lookup, LookupError
    <2>4. CASE ConfirmReconciled(r)
      <3>1. [RowOf(r) EXCEPT !.state = "COMPLETED", !.effect = Registered(OpOf[r])].effect
              = Registered(OpOf[r])
        BY <1>0 DEF Row
      <3>2. Source(r, Registered(OpOf[r]))
        BY <2>4 DEF ConfirmReconciled, Source
      <3> QED
        BY <1>1, <1>2, <1>3, <1>4, <2>4, <3>1, <3>2 DEF ConfirmReconciled
    <2>5. CASE ReconciledNoEffect(r) \/ ReconciliationInconclusive(r)
      BY <1>6, <2>5 DEF ReconciledNoEffect, ReconciliationInconclusive, Confirmed
    <2> QED
      BY <1>10, <2>1, <2>2, <2>3, <2>4, <2>5 DEF Reconcile
  <1> QED
    BY <1>8, <1>9, <1>10

\* What an operation is known by stays known, as effects stay and calls keep their names.
LEMMA KnownStays ==
    ASSUME UNCHANGED <<late, lookedUp>>, effects \subseteq effects', late \subseteq Requests,
           \A q \in Requests : call[q].effect # NoEffect => call'[q].effect = call[q].effect,
           NEW o, NEW e, Known(o, e)
    PROVE  Known(o, e)'
  <1>1. CASE e \in Measured(o)
    BY <1>1 DEF Known, Measured
  <1>2. CASE FromLate(o, e)
    <2>1. PICK q \in late : OpOf[q] = o /\ e \in {q, call[q].effect, lookedUp[q]} \ {NoEffect}
      BY <1>2 DEF FromLate
    <2>2. e \in {q, call'[q].effect, lookedUp[q]} \ {NoEffect}
      BY <2>1
    <2> QED
      BY <2>1, <2>2 DEF Known, FromLate
  <1> QED
    BY <1>1, <1>2 DEF Known

\* Nothing a handler does changes what the calls are named after.
LEMMA HandlerKeepsNames ==
    ASSUME TypeOK, NEW r \in Requests, PrepareLedger(r) \/ Execute(r) \/ Reconcile(r)
    PROVE  \A q \in Requests :
              /\ call'[q].effect = call[q].effect
              /\ \/ call'[q].phase = call[q].phase
                 \/ q = r /\ call[q].phase = "none" /\ call'[q].phase = "received"
  <1>1. CASE Dispatch(r)
    BY <1>1 DEF Dispatch, Submit, TypeOK, ServiceTypeOK
  <1> QED
    BY <1>1, HandlerCourse DEF Course

\* A handler that does not hold a lookup made before the reset finds, writes and
\* answers what is known.
LEMMA HandlerKnows ==
    ASSUME TypeOK, RerunInv, LateInv, NEW r \in Requests, Arrives(r), ~HoldsOldLookup(r),
           PrepareLedger(r) \/ Execute(r) \/ Reconcile(r), UNCHANGED rerunVars
    PROVE  LateInv'
  <1>1. /\ RowSourced(r) /\ ReplySourced(r) /\ FoundSourced(r)
        /\ UNCHANGED <<idempotency, effects, restarted, late, lookedUp>>
        /\ pc[r] \notin {"done", "lost"}
        /\ \A q \in Requests \ {r} : pc'[q] = pc[q] /\ reply'[q] = reply[q]
    <2>1. pc[r] \notin {"done", "lost"}
      BY HandlerCourse DEF Course, Dispatch, Unprotected
    <2> QED
      BY <2>1, SaysItsSource, HandlerLocal DEF rerunVars
  <1>2. /\ Second \subseteq Requests /\ late \subseteq Requests /\ OpOf[r] \in Ops
    BY SecondAssumption, RequestAssumption DEF RerunInv, First
  <1>3. \A q \in Requests :
           /\ call'[q].effect = call[q].effect
           /\ \/ call'[q].phase = call[q].phase
              \/ q = r /\ call[q].phase = "none" /\ call'[q].phase = "received"
    BY HandlerKeepsNames
  <1>4. CallsName'
    BY <1>1, <1>3 DEF LateInv, CallsName, FoundSourced, Registered
  <1>5. CASE ~restarted
    BY <1>1, <1>2, <1>4, <1>5 DEF LateInv, Arrives
  <1>6. CASE restarted
    <2>1. KnownInRerun /\ CallsName
      BY <1>6 DEF LateInv
    <2>2. ASSUME NEW e, Source(r, e)
          PROVE  Known(OpOf[r], e)
      <3>1. CASE RowOf(r).state \in Confirmed /\ e = RowOf(r).effect
        BY <1>2, <2>1, <3>1 DEF KnownInRerun, RowOf
      <3>2. CASE Returned(r) /\ e = call[r].effect
        <4>1. CASE r \in Second
          BY <2>1, <3>2, <4>1 DEF KnownInRerun, Returned
        <4>2. CASE r \notin Second
          <5>1. r \in late
            BY <1>1, <2>1, <4>2 DEF KnownInRerun, First
          <5> QED
            BY <2>1, <3>2, <5>1 DEF CallsName, Returned, Known, FromLate
        <4> QED
          BY <4>1, <4>2
      <3>3. CASE pc[r] = "found" /\ e = Registered(OpOf[r])
        BY <1>2, <2>1, <3>3 DEF HoldsOldLookup, CallsName, KnownInRerun
      <3> QED
        BY <2>2, <3>1, <3>2, <3>3 DEF Source
    <2>3. \A o, e : Known(o, e) => Known(o, e)'
      BY <1>1, <1>2, <1>3, KnownStays
    <2>4. \A q \in First \ late :
             pc'[q] \in {"done", "lost"} /\ call'[q].phase \notin {"received", "creating"}
      BY <1>1, <1>3, <2>1 DEF KnownInRerun, First
    <2>5. ASSUME NEW o \in Ops
          PROVE  /\ Registered(o)' # NoEffect => Known(o, Registered(o))'
                 /\ ledger'[o].state \in Confirmed => Known(o, ledger[o].effect)'
      <3>1. Registered(o)' # NoEffect => Known(o, Registered(o))'
        BY <1>1, <2>1, <2>3 DEF KnownInRerun, Registered
      <3>2. CASE o = OpOf[r]
        BY <1>1, <2>2, <2>3, <3>1, <3>2 DEF RowSourced, RowOf
      <3>3. CASE o # OpOf[r]
        <4>1. ledger'[o] = ledger[o]
          BY <3>3, OtherRowsStay
        <4> QED
          BY <2>1, <2>3, <3>1, <4>1 DEF KnownInRerun
      <3> QED
        BY <3>2, <3>3
    <2>6. ASSUME NEW q \in Second
          PROVE  /\ call'[q].phase = "answered" => Known(OpOf[q], call[q].effect)'
                 /\ reply'[q].status = "OK" => Known(OpOf[q], reply[q].effect)'
      <3>1. call'[q].phase = "answered" => Known(OpOf[q], call[q].effect)'
        BY <1>2, <1>3, <2>1, <2>3 DEF KnownInRerun
      <3>2. CASE reply'[q] = reply[q]
        BY <2>1, <2>3, <3>1, <3>2 DEF KnownInRerun
      <3>3. CASE reply'[q] # reply[q]
        BY <1>1, <1>2, <2>2, <2>3, <3>1, <3>3 DEF ReplySourced
      <3> QED
        BY <3>2, <3>3
    <2>7. KnownInRerun'
      BY <1>1, <2>4, <2>5, <2>6 DEF KnownInRerun
    <2> QED
      BY <1>1, <1>4, <1>6, <2>7 DEF LateInv
  <1> QED
    BY <1>5, <1>6


\* A call goes on, is answered with what is registered, or with an effect of its own.
LEMMA ServiceNames ==
    ASSUME TypeOK, CallInv, NEW r \in Requests, Serve(r) \/ AnswerLost(r)
    PROVE  /\ UNCHANGED <<pc, ledger, reply>>
           /\ \A q \in Requests \ {r} : call'[q] = call[q]
           /\ call[r].phase \in {"received", "creating"} \/ pc[r] = "waiting"
           /\ \/ /\ UNCHANGED <<idempotency, effects>> /\ call'[r].effect = call[r].effect
                 /\ call[r].phase # "none" /\ call'[r].phase # "answered"
                 /\ call'[r].phase = "creating" => call[r].phase = "received"
                 /\ call'[r].phase \notin {"none", "received"}
              \/ /\ UNCHANGED <<idempotency, effects>> /\ call[r].phase = "received"
                 /\ call'[r].phase = "answered" /\ call'[r].effect = Registered(OpOf[r])
                 /\ Registered(OpOf[r]) # NoEffect
              \/ /\ call[r].phase = "creating" /\ effects' = effects \cup {r}
                 /\ call'[r].phase = "answered" /\ call'[r].effect = r
                 /\ idempotency' \in {idempotency, [idempotency EXCEPT ![OpOf[r]] = r]}
  <1>0. call \in [Requests -> [phase : CallPhase, cap : Capability,
                               effect : EffectRef, replayed : BOOLEAN]]
    BY DEF TypeOK, ServiceTypeOK
  <1>1. UNCHANGED <<pc, ledger, reply>>
    BY ServiceLocal
  <1>2. CASE AnswerLost(r)
    BY <1>0, <1>1, <1>2 DEF AnswerLost, LoseAnswer
  <1>3. CASE ReplayExisting(r)
    BY <1>0, <1>1, <1>3 DEF ReplayExisting
  <1>4. CASE BeginCreate(r) \/ RejectDuplicateKey(r) \/ AbortCall(r)
    BY <1>0, <1>1, <1>4 DEF BeginCreate, RejectDuplicateKey, AbortCall
  <1>5. CASE CommitEffect(r)
    BY <1>0, <1>1, <1>5 DEF CommitEffect
  <1> QED
    BY <1>2, <1>3, <1>4, <1>5 DEF Serve, ServiceStep

\* What a service registers and answers is known: its effect is of a request of the
\* second run, or of one of the first that was not over.
LEMMA ServiceKnows ==
    ASSUME TypeOK, CallInv, RerunInv, LateInv, NEW r \in Requests,
           Serve(r) \/ AnswerLost(r), UNCHANGED rerunVars
    PROVE  LateInv'
  <1>1. UNCHANGED <<pc, ledger, reply, restarted, late, lookedUp>>
    BY ServiceNames DEF rerunVars
  <1>2. /\ Second \subseteq Requests /\ late \subseteq Requests
        /\ OpOf \in [Requests -> Ops] /\ r # NoEffect
        /\ idempotency \in [Ops -> EffectRef]
    BY SecondAssumption, RequestAssumption DEF RerunInv, First, TypeOK, ServiceTypeOK
  <1>3. \A q \in Requests \ {r} : call'[q] = call[q]
    BY ServiceNames
  <1>4. CallsName'
    <2>1. \A q \in Requests :
             /\ call'[q].phase \in {"none", "received", "creating"} => call'[q].effect = NoEffect
             /\ call'[q].phase = "answered" => call'[q].effect # NoEffect
      BY <1>2, <1>3, ServiceNames DEF LateInv, CallsName
    <2>2. \A o \in Ops : idempotency[o] # NoEffect => idempotency'[o] # NoEffect
      BY <1>2, ServiceNames
    <2> QED
      BY <1>1, <1>2, <2>1, <2>2 DEF LateInv, CallsName, Registered
  <1>5. CASE ~restarted
    BY <1>1, <1>4, <1>5 DEF LateInv
  <1>6. CASE restarted
    <2>1. KnownInRerun /\ CallsName
      BY <1>6 DEF LateInv
    <2>2. effects \subseteq effects'
      BY ServiceNames
    <2>3. \A q \in Requests : call[q].effect # NoEffect => call'[q].effect = call[q].effect
      BY <1>3, <2>1, ServiceNames DEF CallsName
    <2>4. \A o, e : Known(o, e) => Known(o, e)'
      BY <1>1, <1>2, <2>2, <2>3, KnownStays
    <2>5. r \in Second \/ r \in late
      BY <2>1, ServiceNames DEF KnownInRerun, First
    <2>6. r \in effects' => Known(OpOf[r], r)'
      BY <1>1, <1>2, <2>5 DEF Known, Measured, FromLate
    <2>7. ASSUME NEW o \in Ops
          PROVE  /\ Registered(o)' # NoEffect => Known(o, Registered(o))'
                 /\ ledger'[o].state \in Confirmed => Known(o, ledger[o].effect)'
      <3>1. Registered(o)' = Registered(o) \/ (o = OpOf[r] /\ Registered(o)' = r /\ r \in effects')
        BY <1>2, ServiceNames DEF Registered
      <3>2. Registered(o)' # NoEffect => Known(o, Registered(o))'
        BY <2>1, <2>4, <2>6, <3>1 DEF KnownInRerun
      <3> QED
        BY <1>1, <2>1, <2>4, <3>2 DEF KnownInRerun
    <2>8. ASSUME NEW q \in Second
          PROVE  /\ call'[q].phase = "answered" => Known(OpOf[q], call[q].effect)'
                 /\ reply'[q].status = "OK" => Known(OpOf[q], reply[q].effect)'
      <3>1. reply'[q].status = "OK" => Known(OpOf[q], reply[q].effect)'
        BY <1>1, <2>1, <2>4 DEF KnownInRerun
      <3>2. CASE q # r
        BY <1>2, <1>3, <2>1, <2>4, <3>1, <3>2 DEF KnownInRerun
      <3>3. CASE q = r
        <4>1. call'[r].phase = "answered" =>
                 \/ call'[r].effect = Registered(OpOf[r]) /\ Registered(OpOf[r]) # NoEffect
                 \/ call'[r].effect = r /\ r \in effects'
          BY ServiceNames
        <4> QED
          BY <1>2, <2>1, <2>4, <2>6, <3>1, <3>3, <4>1 DEF KnownInRerun
      <3> QED
        BY <3>2, <3>3
    <2>9. \A q \in First \ late :
             pc'[q] \in {"done", "lost"} /\ call'[q].phase \notin {"received", "creating"}
      BY <1>1, <1>3, <2>1, <2>5 DEF KnownInRerun, First
    <2>10. KnownInRerun'
      BY <1>1, <2>7, <2>8, <2>9 DEF KnownInRerun
    <2> QED
      BY <1>1, <1>4, <1>6, <2>10 DEF LateInv
  <1> QED
    BY <1>5, <1>6

\* A reconciler of the first run confirms the effect it looked up before the reset.
LEMMA OldLookupKnows ==
    ASSUME TypeOK, RerunInv, LateInv, NEW r \in Requests, ConfirmOldLookup(r)
    PROVE  LateInv'
  <1>1. /\ UNCHANGED <<call, idempotency, effects, restarted, late, lookedUp>>
        /\ lookedUp[r] # NoEffect /\ r \in late /\ restarted
        /\ KnownInRerun /\ CallsName
    BY DEF ConfirmOldLookup, HoldsOldLookup, LateInv, CallsName, serviceVars, rerunVars
  <1>2. /\ late \subseteq First /\ late \subseteq Requests /\ Second \subseteq Requests
        /\ OpOf[r] \in Ops /\ RowOf(r) \in Row /\ DOMAIN ledger = Ops
    BY SecondAssumption, SeenRowType DEF RerunInv, First, TypeOK
  <1>3. \A o, e : Known(o, e) => Known(o, e)'
    BY <1>1, <1>2, KnownStays
  <1>4. Known(OpOf[r], lookedUp[r])
    BY <1>1 DEF Known, FromLate
  <1>5. /\ \A q \in Requests \ {r} : pc'[q] = pc[q] /\ reply'[q] = reply[q]
        /\ pc'[r] # "found"
        /\ \A o \in Ops : \/ ledger'[o] = ledger[o]
                          \/ o = OpOf[r] /\ ledger'[o].effect = lookedUp[r]
    <2>1. [RowOf(r) EXCEPT !.state = "COMPLETED", !.effect = lookedUp[r]].effect = lookedUp[r]
      BY <1>2 DEF Row
    <2> QED
      BY <1>2, <2>1 DEF ConfirmOldLookup, Answer, GoTo, SetRow, TypeOK
  <1>6. CallsName'
    BY <1>1, <1>5 DEF CallsName, Registered
  <1>7. KnownInRerun'
    <2>1. \A q \in First \ late :
             pc'[q] \in {"done", "lost"} /\ call'[q].phase \notin {"received", "creating"}
      BY <1>1, <1>5 DEF KnownInRerun, First
    <2>2. \A o \in Ops : Registered(o)' # NoEffect => Known(o, Registered(o))'
      BY <1>1, <1>3 DEF KnownInRerun, Registered
    <2>3. \A o \in Ops : ledger'[o].state \in Confirmed => Known(o, ledger[o].effect)'
      BY <1>1, <1>3, <1>4, <1>5 DEF KnownInRerun
    <2>4. \A q \in Second : call'[q].phase = "answered" => Known(OpOf[q], call[q].effect)'
      BY <1>1, <1>3 DEF KnownInRerun
    <2>5. \A q \in Second : reply'[q].status = "OK" => Known(OpOf[q], reply[q].effect)'
      BY <1>1, <1>2, <1>3, <1>5 DEF KnownInRerun, First
    <2> QED
      BY <1>1, <2>1, <2>2, <2>3, <2>4, <2>5 DEF KnownInRerun
  <1> QED
    BY <1>1, <1>6, <1>7 DEF LateInv


\* The reset leaves nothing to be known: what a lookup has found goes with its handler.
LEMMA ResetKnows ==
    ASSUME TypeOK, RerunInv, LateInv, ResetDb
    PROVE  LateInv'
  <1>1. /\ UNCHANGED <<pc, reply, call>>
        /\ ~restarted /\ restarted' = TRUE /\ late' = Unfinished
        /\ ledger' = [o \in Ops |-> NoRow] /\ idempotency' = [o \in Ops |-> NoEffect]
        /\ \A q \in Requests :
              lookedUp'[q] = IF pc[q] = "found" THEN Registered(OpOf[q]) ELSE NoEffect
    BY DEF ResetDb
  <1>2. /\ Second \subseteq Requests /\ pc \in [Requests -> Phase]
        /\ OpOf \in [Requests -> Ops]
    BY SecondAssumption, RequestAssumption DEF TypeOK
  <1>3. /\ CallsName /\ late = {} /\ \A q \in Second : reply[q].status # "OK"
        /\ \A q \in Second : pc[q] = "idle" /\ call[q].phase = "none"
    BY <1>1 DEF LateInv, RerunInv, SecondIsLater
  <1>4. ASSUME NEW q \in Requests, pc[q] = "found"
        PROVE  lookedUp'[q] # NoEffect /\ q \in late'
    BY <1>1, <1>2, <1>3, <1>4 DEF CallsName, Unfinished, First, InFlight
  <1>5. CallsName'
    BY <1>1, <1>3, <1>4 DEF CallsName
  <1>6. \A q \in First \ late' :
           pc'[q] \in {"done", "lost"} /\ call'[q].phase \notin {"received", "creating"}
    BY <1>1, <1>2 DEF Unfinished, First, InFlight
  <1>7. \A o \in Ops : ledger'[o].state \notin Confirmed /\ Registered(o)' = NoEffect
    BY <1>1 DEF NoRow, Absent, Confirmed, Registered
  <1>8. KnownInRerun'
    BY <1>1, <1>3, <1>6, <1>7 DEF KnownInRerun
  <1> QED
    BY <1>1, <1>5, <1>8 DEF LateInv

\* Leases that run out and processes that stop name no effect.
LEMMA EnvironmentKnows ==
    ASSUME TypeOK, RerunInv, LateInv,
           Environment \/ BothFinished \/ UNCHANGED <<vars, rerunVars>>
    PROVE  LateInv'
  <1>1. /\ UNCHANGED <<call, idempotency, effects, reply, restarted, late, lookedUp>>
        /\ \A q \in Requests : pc'[q] = pc[q] \/ pc'[q] = "lost"
        /\ \A o \in Ops : ledger'[o].state = ledger[o].state /\ ledger'[o].effect = ledger[o].effect
    BY DEF Environment, BothFinished, LeaseExpires, Crash, vars, rerunVars, serviceVars,
       TypeOK, Row
  <1>2. CallsName'
    BY <1>1 DEF LateInv, CallsName, Registered
  <1>3. ASSUME restarted
        PROVE  KnownInRerun'
    <2>1. KnownInRerun /\ late \subseteq Requests /\ Second \subseteq Requests
      BY <1>3, SecondAssumption DEF LateInv, RerunInv, First
    <2>2. \A o, e : Known(o, e) => Known(o, e)'
      BY <1>1, <2>1, KnownStays
    <2>3. \A q \in First \ late :
             pc'[q] \in {"done", "lost"} /\ call'[q].phase \notin {"received", "creating"}
      BY <1>1, <2>1 DEF KnownInRerun, First
    <2>4. \A o \in Ops :
             /\ Registered(o)' # NoEffect => Known(o, Registered(o))'
             /\ ledger'[o].state \in Confirmed => Known(o, ledger[o].effect)'
      BY <1>1, <2>1, <2>2 DEF KnownInRerun, Registered
    <2>5. \A q \in Second :
             /\ call'[q].phase = "answered" => Known(OpOf[q], call[q].effect)'
             /\ reply'[q].status = "OK" => Known(OpOf[q], reply[q].effect)'
      BY <1>1, <2>1, <2>2 DEF KnownInRerun
    <2> QED
      BY <1>1, <2>3, <2>4, <2>5 DEF KnownInRerun
  <1> QED
    BY <1>1, <1>2, <1>3 DEF LateInv

\* Every step of a rerun keeps what is said of effects to those that are known.
LEMMA LateStep ==
    ASSUME TypeOK, CallInv, RerunInv, LateInv, [RerunNext]_<<vars, rerunVars>>
    PROVE  LateInv'
  BY HandlerKnows, ServiceKnows, OldLookupKnows, ResetKnows, EnvironmentKnows
  DEF RerunNext, Handled

\* An operation of the second run that was told OK has its effect measured, or the
\* answer names one that a request not over at the reset has brought along: reset_db
\* clears everything else a handler or a service could answer from.
THEOREM UncountedAreLate == RerunSpec => []UncountedOkIsLate
  <1>1. RerunInit => LateInv
    BY SecondAssumption, RequestAssumption
    DEF RerunInit, Init, ServiceInit, LateInv, CallsName, NoReply, Reply
  <1>2. TypeOK /\ CallInv /\ RerunInv /\ LateInv /\ [RerunNext]_<<vars, rerunVars>> => LateInv'
    BY LateStep
  <1>3. LateInv => UncountedOkIsLate
    BY DEF LateInv, KnownInRerun, Known, UncountedOkIsLate
  <1> QED
    BY <1>1, <1>2, <1>3, RerunInvariant, PTL DEF RerunSpec

=============================================================================
