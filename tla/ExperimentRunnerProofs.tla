----------------------- MODULE ExperimentRunnerProofs -----------------------
(***************************************************************************)
(* Proofs about a run: the runner uses the orchestrator as any client may, *)
(* so all that is proved of the orchestrator holds in it; what is measured *)
(* at the end is a part of what happened, all of it where nothing disturbs *)
(* the run; and what the summary says of an operation is so.               *)
(***************************************************************************)
EXTENDS ExperimentRunner, LedgerProofs, FiniteSetTheorems

\* A step of the runner is none of the orchestrator; a step of an attempt that
\* was sent, or of the environment, is one of its steps.
LEMMA RunStep ==
    ASSUME [RunNext]_runVars
    PROVE  [Next]_vars
  <1>1. CASE RunnerStep
    BY <1>1 DEF RunnerStep, Proceed, LoseBeforeGateway, ReceiveReply, ReceiveGatewayError,
       ClientTimeout, Record, ReadEffects, ReadServiceEvents
  <1>2. CASE \E r \in Requests : Handled(r)
    BY <1>2 DEF Handled, Next
  <1>3. CASE Environment
    BY <1>3 DEF Environment, Next
  <1>4. CASE UNCHANGED runVars
    BY <1>4 DEF runVars
  <1> QED
    BY <1>1, <1>2, <1>3, <1>4 DEF RunNext, RunFinished

\* A run, whatever its strategy, its timeouts and its draws, is a behaviour of
\* the orchestrator under arbitrary requests.
THEOREM RunIsOrchestrated == RunSpec => Spec
  <1>1. RunInit => Init
    BY DEF RunInit
  <1>2. [RunNext]_runVars => [Next]_vars
    BY RunStep
  <1> QED
    BY <1>1, <1>2, PTL DEF RunSpec, Spec

-----------------------------------------------------------------------------
(* The types of the runner's variables.                                    *)

\* The number of attempts is bounded by a natural number.
LEMMA HighestType == Highest \in Nat
  BY RunnerAssumption DEF Highest

\* The number of batches a strategy has is one Highest allows.
LEMMA BatchesFit ==
    /\ Len(Batches) \in Nat
    /\ Len(Batches) <= Highest
    /\ DOMAIN Batches = 1..Len(Batches)
    /\ failure = "F5" => Len(Batches) = MaxAttempts + 1
    /\ failure \notin {"F5", "F6", "F11", "CF2", "CF4"} => Len(Batches) = MaxAttempts
  <1> USE RunnerAssumption DEF Highest, Batches
  <1>1. CASE failure = "F6"
    BY <1>1
  <1>2. CASE failure \in {"F11", "CF2"}
    <2>1. Batches = << {1}, 2..(Fanout + 1) >>
      BY <1>2
    <2>2. Len(<< {1}, 2..(Fanout + 1) >>) = 2 /\ DOMAIN << {1}, 2..(Fanout + 1) >> = 1..2
      OBVIOUS
    <2>3. 2 <= Highest
      OBVIOUS
    <2> HIDE DEF Batches
    <2> QED
      BY <1>2, <2>1, <2>2, <2>3
  <1>3. CASE failure = "CF4"
    BY <1>3
  <1>4. CASE failure = "F5"
    BY <1>4
  <1>5. CASE failure \notin {"F5", "F6", "F11", "CF2", "CF4"}
    BY <1>5
  <1> QED
    BY <1>1, <1>2, <1>3, <1>4, <1>5

\* How far an operation can get: to the end of its strategy.
WithinBatches == step \in [Ops -> 0..(Len(Batches) + 1)]

\* Going on takes an operation to the next batch or to the end.
LEMMA StepWithin ==
    ASSUME RunTypeOK, WithinBatches, NEW o \in Ops, Proceed(o) \/ LoseBeforeGateway(o)
    PROVE  WithinBatches' /\ UNCHANGED failure
  <1>1. UNCHANGED failure /\ Batches' = Batches
    BY DEF Proceed, LoseBeforeGateway, Batches
  <1>2. /\ Len(Batches) \in Nat /\ step[o] \in 0..(Len(Batches) + 1)
        /\ failure = "F5" => Len(Batches) = MaxAttempts + 1
    BY BatchesFit DEF WithinBatches
  <1>3. CASE Proceed(o)
    <2>1. step[o] # Len(Batches) + 1
      BY <1>3 DEF Proceed, OperationOver
    <2>2. PICK n : /\ step' = [step EXCEPT ![o] = n]
                   /\ \/ n = step[o] + 1
                      \/ failure = "F5" /\ n = MaxAttempts + 1
                      \/ n = Len(Batches) + 1
      BY <1>3 DEF Proceed
    <2>3. n \in 0..(Len(Batches) + 1)
      BY <1>2, <2>1, <2>2, RunnerAssumption
    <2> QED
      BY <1>1, <2>2, <2>3 DEF WithinBatches
  <1>4. CASE LoseBeforeGateway(o)
    BY <1>1, <1>2, <1>4 DEF LoseBeforeGateway, WithinBatches
  <1> QED
    BY <1>3, <1>4, <1>1

\* Every step of a run keeps the types.
LEMMA RunStepType ==
    ASSUME RunTypeOK, WithinBatches, [RunNext]_runVars
    PROVE  RunTypeOK' /\ WithinBatches'
  <1>0. TypeOK'
    BY RunStep, StepType DEF RunTypeOK
  <1>1. ASSUME NEW o \in Ops, Proceed(o) \/ LoseBeforeGateway(o)
        PROVE  RunTypeOK' /\ WithinBatches'
    <2>1. WithinBatches' /\ UNCHANGED <<failure, result, rows, measures>>
      BY <1>1, StepWithin DEF Proceed, LoseBeforeGateway
    <2>2. Batches' = Batches
      BY <2>1 DEF Batches
    <2>3. step' \in [Ops -> 0..(Highest + 1)]
      <3>1. Len(Batches) \in Nat /\ Highest \in Nat /\ Len(Batches) <= Highest
        BY BatchesFit, HighestType
      <3>2. 0..(Len(Batches) + 1) \subseteq 0..(Highest + 1)
        BY <3>1
      <3>3. step' \in [Ops -> 0..(Len(Batches) + 1)]
        BY <2>1, <2>2 DEF WithinBatches
      <3> QED
        BY <3>2, <3>3
    <2> QED
      BY <1>0, <2>1, <2>3 DEF RunTypeOK, measures
  <1>2. ASSUME NEW r \in Requests,
               ReceiveReply(r) \/ ReceiveGatewayError(r) \/ ClientTimeout(r)
        PROVE  RunTypeOK' /\ WithinBatches'
    <2>1. PICK s \in Status \cup {"CLIENT_TIMEOUT", "HTTP_ERROR"} : Record(r, s)
      BY <1>2 DEF ReceiveReply, ReceiveGatewayError, ClientTimeout, RunTypeOK, TypeOK
    <2>2. r[1] \in Ops
      BY RunnerAssumption
    <2>3. Append(rows[r[1]], r) \in Seq(Requests)
      BY <2>2 DEF RunTypeOK
    <2>4. rows' \in [Ops -> Seq(Requests)]
      BY <2>1, <2>2, <2>3 DEF Record, RunTypeOK
    <2>5. result' \in [Requests -> Status \cup {"CLIENT_TIMEOUT", "HTTP_ERROR"}]
      BY <2>1 DEF Record, RunTypeOK
    <2> QED
      BY <1>0, <2>1, <2>4, <2>5 DEF Record, RunTypeOK, WithinBatches, Batches, measures
  <1>3. CASE ReadEffects \/ ReadServiceEvents
    <2>1. UNCHANGED <<failure, step, result, rows>>
      BY <1>3 DEF ReadEffects, ReadServiceEvents
    <2>2. tablesRead' \in 0..2
      BY <1>3 DEF ReadEffects, ReadServiceEvents, RunTypeOK
    <2>3. observed' \subseteq Requests /\ executed' \subseteq Requests
      BY <1>3 DEF ReadEffects, ReadServiceEvents, LoggedCalls, RunTypeOK, TypeOK, ServiceTypeOK
    <2> QED
      BY <1>0, <2>1, <2>2, <2>3 DEF RunTypeOK, WithinBatches, Batches
  <1>4. CASE UNCHANGED runnerVars
    BY <1>0, <1>4 DEF runnerVars, measures, RunTypeOK, WithinBatches, Batches
  <1> QED
    BY <1>1, <1>2, <1>3, <1>4
    DEF RunNext, RunnerStep, Handled, Environment, RunFinished, runVars, runnerVars

\* Type correctness: no strategy makes more attempts than the bound it is
\* configured with, in whatever order its attempts are over.
THEOREM RunTypeCorrect == RunSpec => []RunTypeOK
  <1>1. RunInit /\ TypeOK => RunTypeOK /\ WithinBatches
    <2> SUFFICES ASSUME RunInit, TypeOK
                 PROVE  RunTypeOK /\ WithinBatches
      OBVIOUS
    <2>1. 0 \in 0..(Highest + 1) /\ 0 \in 0..(Len(Batches) + 1)
      BY BatchesFit, HighestType
    <2>2. <<>> \in Seq(Requests)
      OBVIOUS
    <2>3. step \in [Ops -> 0..(Highest + 1)] /\ WithinBatches
      BY <2>1 DEF RunInit, WithinBatches
    <2>4. rows \in [Ops -> Seq(Requests)]
      BY <2>2 DEF RunInit
    <2>5. result \in [Requests -> Status \cup {"CLIENT_TIMEOUT", "HTTP_ERROR"}]
      BY DEF RunInit, Status
    <2> QED
      BY <2>3, <2>4, <2>5 DEF RunInit, RunTypeOK
  <1>2. RunTypeOK /\ WithinBatches /\ [RunNext]_runVars => RunTypeOK' /\ WithinBatches'
    BY RunStepType
  <1> QED
    BY <1>1, <1>2, RunIsOrchestrated, TypeCorrect, PTL DEF RunSpec

-----------------------------------------------------------------------------
(* What is measured.                                                       *)

\* The effects observed are effects, and an attempt that was told OK has it
\* from a reply that left.
ObservedInv ==
    /\ observed \subseteq effects
    /\ \A r \in Requests : result[r] = "OK" => reply[r].status = "OK" /\ pc[r] = "done"

\* Effects stay, and so does a reply that has left.
LEMMA PastKept ==
    ASSUME TypeOK, [Next]_vars
    PROVE  /\ effects \subseteq effects'
           /\ \A q \in Requests : pc[q] = "done" => pc'[q] = "done" /\ reply'[q] = reply[q]
  <1> USE DEF Answer, Fail, GoTo, TransitionAndAnswer
  <1>0. pc \in [Requests -> Phase] /\ DOMAIN reply = Requests
    BY DEF TypeOK
  <1>1. ASSUME NEW r \in Requests, PrepareLedger(r)
        PROVE  /\ UNCHANGED effects
               /\ \A q \in Requests : pc[q] = "done" => pc'[q] = "done" /\ reply'[q] = reply[q]
    BY <1>0, <1>1 DEF PrepareLedger, LedgerReadUnavailable, FindNoRow,
       LedgerWriteUnavailable, OperationIdConflict, ReplayResult, RecoverFinalResult,
       ReportState, EnterUnknown, InsertAndClaim, Claim, RejectClaim, Decides, Arrived,
       serviceVars
  <1>2. ASSUME NEW r \in Requests, Execute(r)
        PROVE  /\ UNCHANGED effects
               /\ \A q \in Requests : pc[q] = "done" => pc'[q] = "done" /\ reply'[q] = reply[q]
    BY <1>0, <1>2 DEF Execute, FailBeforeDispatch, RefuseCapability, Dispatch, Unprotected,
       Submit, DispatchError, Returned, AnswerUnledgered, LoseResponseAfterEffect,
       SimulateCrash, LoseConfirmation, FinalizeStale, FinalizeLedger, DelayedReply, serviceVars
  <1>3. ASSUME NEW r \in Requests, Reconcile(r)
        PROVE  /\ UNCHANGED effects
               /\ \A q \in Requests : pc[q] = "done" => pc'[q] = "done" /\ reply'[q] = reply[q]
    BY <1>0, <1>3 DEF Reconcile, CannotReconcile, StartReconciliation, Lookup,
       LookupError, ConfirmReconciled, ReconciledNoEffect, ReconciliationInconclusive,
       serviceVars
  <1>4. ASSUME NEW r \in Requests, Serve(r) \/ AnswerLost(r)
        PROVE  effects \subseteq effects' /\ UNCHANGED <<pc, reply>>
    BY <1>4 DEF Serve, AnswerLost, ServiceStep, ReplayExisting, BeginCreate, CommitEffect,
       RejectDuplicateKey, AbortCall, LoseAnswer, orchVars
  <1>5. CASE Crash
    BY <1>5 DEF Crash, InFlight, serviceVars
  <1>6. CASE UNCHANGED <<pc, reply, effects>>
    BY <1>6
  <1> QED
    BY <1>1, <1>2, <1>3, <1>4, <1>5, <1>6 DEF Next, LeaseExpires, Finished, serviceVars, vars

\* What is observed exists, and an OK was really sent.
THEOREM ObservedInvariant == RunSpec => []ObservedInv
  <1>1. RunInit => ObservedInv
    BY DEF RunInit, ObservedInv
  <1>2. RunTypeOK /\ ObservedInv /\ [RunNext]_runVars => ObservedInv'
    <2> SUFFICES ASSUME RunTypeOK, ObservedInv, [RunNext]_runVars
                 PROVE  ObservedInv'
      OBVIOUS
    <2>0. /\ effects \subseteq effects'
          /\ \A q \in Requests : pc[q] = "done" => pc'[q] = "done" /\ reply'[q] = reply[q]
      BY RunStep, PastKept DEF RunTypeOK
    <2>1. ASSUME NEW r \in Requests,
                 ReceiveReply(r) \/ ReceiveGatewayError(r) \/ ClientTimeout(r)
          PROVE  ObservedInv'
      <3>1. UNCHANGED <<vars, observed>> /\ \A q \in Requests \ {r} : result'[q] = result[q]
        BY <2>1 DEF ReceiveReply, ReceiveGatewayError, ClientTimeout, Record, RunTypeOK, measures
      <3>2. result'[r] = "OK" => reply[r].status = "OK" /\ pc[r] = "done"
        BY <2>1 DEF ReceiveReply, ReceiveGatewayError, ClientTimeout, Record, RunTypeOK
      <3> QED
        BY <3>1, <3>2 DEF ObservedInv, vars
    <2>2. CASE ReadEffects \/ ReadServiceEvents
      BY <2>2 DEF ReadEffects, ReadServiceEvents, ObservedInv, vars
    <2>3. CASE UNCHANGED <<observed, result>>
      BY <2>0, <2>3 DEF ObservedInv
    <2> QED
      BY <2>1, <2>2, <2>3
      DEF RunNext, RunnerStep, Proceed, LoseBeforeGateway, Handled, Environment,
          RunFinished, runVars, runnerVars, measures
  <1> QED
    BY <1>1, <1>2, RunTypeCorrect, PTL DEF RunSpec

-----------------------------------------------------------------------------
(* An OK is counted.                                                       *)

\* Once the effects are read nothing is recorded any more, and what was
\* answered OK until then has been read.
CountedInv ==
    tablesRead > 0 =>
        /\ \A o \in Ops : OperationOver(o)
        /\ \A r \in Requests : result[r] = "OK" => reply[r].effect \in observed

\* No attempt of an operation that is over is waited for.
LEMMA OverMeansRecorded ==
    ASSUME RunTypeOK, NEW r \in Requests, OperationOver(r[1]), Sent(r)
    PROVE  result[r] # "NONE"
  <1>1. step[r[1]] \notin DOMAIN Batches
    BY BatchesFit DEF OperationOver
  <1> QED
    BY <1>1 DEF Sent, Batch

\* Every step keeps what was counted.
LEMMA StepCounted ==
    ASSUME RunTypeOK, ObservedInv, TruthInv, CountedInv, [RunNext]_runVars
    PROVE  CountedInv'
  <1>0. /\ \A q \in Requests : pc[q] = "done" => pc'[q] = "done" /\ reply'[q] = reply[q]
        /\ \A r \in Requests : r[1] \in Ops
    BY RunStep, PastKept, RunnerAssumption DEF RunTypeOK
  <1>1. ASSUME NEW o \in Ops, Proceed(o) \/ LoseBeforeGateway(o)
        PROVE  CountedInv'
    <2>1. ~OperationOver(o) /\ UNCHANGED tablesRead
      BY <1>1, BatchesFit DEF Proceed, LoseBeforeGateway, OperationOver, measures
    <2> QED
      BY <2>1 DEF CountedInv
  <1>2. ASSUME NEW r \in Requests,
               ReceiveReply(r) \/ ReceiveGatewayError(r) \/ ClientTimeout(r)
        PROVE  CountedInv'
    <2>1. Sent(r) /\ result[r] = "NONE" /\ UNCHANGED tablesRead
      BY <1>2 DEF ReceiveReply, ReceiveGatewayError, ClientTimeout, Record, measures
    <2>2. ~(tablesRead > 0)
      BY <1>0, <2>1, OverMeansRecorded DEF CountedInv
    <2> QED
      BY <2>1, <2>2 DEF CountedInv
  <1>3. CASE ReadEffects
    <2>1. \A r \in Requests : result[r] = "OK" => reply[r].effect \in effects
      BY DEF ObservedInv, TruthInv, AnswersAreTrue, EffectsOf
    <2> QED
      BY <1>3, <2>1 DEF ReadEffects, CountedInv, OperationOver, Batches, vars
  <1>4. CASE ReadServiceEvents
    <2>1. tablesRead = 1
      BY <1>4 DEF ReadServiceEvents, ReadOrder, RunTypeOK
    <2>2. /\ UNCHANGED <<failure, step, result, observed, reply>>
          /\ \A o \in Ops : OperationOver(o)
      BY <1>4 DEF ReadServiceEvents, vars
    <2>3. Batches' = Batches
      BY <2>2 DEF Batches
    <2>4. CountedInv
      OBVIOUS
    <2> QED
      BY <2>1, <2>2, <2>3, <2>4 DEF CountedInv, OperationOver
  <1>5. CASE UNCHANGED runnerVars
    BY <1>0, <1>5 DEF runnerVars, measures, CountedInv, OperationOver, Batches, ObservedInv
  <1> QED
    BY <1>1, <1>2, <1>3, <1>4, <1>5
    DEF RunNext, RunnerStep, Handled, Environment, RunFinished, runVars, runnerVars

\* An effect in the measurement makes its operation's count positive.
LEMMA CountIsPositive ==
    ASSUME RunTypeOK, NEW e \in observed
    PROVE  EffectCount(OpOf[e]) > 0
  <1> DEFINE S == { d \in observed : OpOf[d] = OpOf[e] }
             T == {OpOf[e]} \X (1..Highest)
  <1>1. IsFiniteSet(1..Highest)
    BY FS_Interval, HighestType
  <1>2. IsFiniteSet(T)
    BY <1>1, FS_Singleton, FS_Product
  <1>3. S \subseteq T
    <2> SUFFICES ASSUME NEW d \in S
                 PROVE  d \in T
      OBVIOUS
    <2>1. d \in Ops \X (1..Highest) /\ d[1] = OpOf[e]
      BY RunnerAssumption DEF RunTypeOK
    <2> QED
      BY <2>1
  <1>4. IsFiniteSet(S)
    BY <1>2, <1>3, FS_Subset
  <1>5. e \in S
    OBVIOUS
  <1>6. Cardinality(S) \in Nat /\ Cardinality(S) # 0
    BY <1>4, <1>5, FS_CardinalityType, FS_EmptySet
  <1> QED
    BY <1>6 DEF EffectCount

\* When the tables are read every operation is over, and stays so.
THEOREM CountedWhenRead == RunSpec => []CountedInv
  <1>1. RunInit => CountedInv
    BY DEF RunInit, CountedInv
  <1>2. RunTypeOK /\ ObservedInv /\ TruthInv /\ CountedInv /\ [RunNext]_runVars => CountedInv'
    BY StepCounted
  <1> QED
    BY <1>1, <1>2, RunTypeCorrect, ObservedInvariant, RunIsOrchestrated, TruthInvariant,
       PTL DEF RunSpec

\* An operation that was told OK is never counted as lost, for every number of
\* operations and attempts and however many of them the runner gave up.
THEOREM OksAreCounted == RunSpec => []OkIsCounted
  <1>1. RunTypeOK /\ ObservedInv /\ TruthInv /\ CountedInv => OkIsCounted
    <2> SUFFICES ASSUME RunTypeOK, ObservedInv, TruthInv, CountedInv, reported,
                        NEW r \in Requests, result[r] = "OK"
                 PROVE  EffectCount(OpOf[r]) > 0 /\ reply[r].effect \in observed
      BY DEF OkIsCounted
    <2>1. reply[r].effect \in observed
      BY DEF CountedInv, reported
    <2>2. OpOf[reply[r].effect] = OpOf[r]
      BY DEF ObservedInv, TruthInv, AnswersAreTrue, EffectsOf
    <2> QED
      BY <2>1, <2>2, CountIsPositive
  <1> QED
    BY <1>1, CountedWhenRead, RunTypeCorrect, ObservedInvariant, RunIsOrchestrated,
       TruthInvariant, PTL

-----------------------------------------------------------------------------
(* The attempts and what is recorded of them.                              *)

\* Every strategy begins with the first attempt, and a loop sends one at a time.
LEMMA BatchesBegin ==
    /\ 1 \in DOMAIN Batches
    /\ 1 \in Batches[1]
    /\ Loops => \A i \in DOMAIN Batches : Batches[i] = {i}
  <1> USE RunnerAssumption DEF Batches, Loops
  <1>1. CASE failure = "F6"
    BY <1>1
  <1>2. CASE failure \in {"F11", "CF2"}
    <2>1. Batches = << {1}, 2..(Fanout + 1) >>
      BY <1>2
    <2>2. 1 \in DOMAIN << {1}, 2..(Fanout + 1) >> /\ << {1}, 2..(Fanout + 1) >>[1] = {1}
      OBVIOUS
    <2> HIDE DEF Batches
    <2> QED
      BY <1>2, <2>1, <2>2
  <1>3. CASE failure = "CF4"
    <2>1. Batches = << 1..Fanout, {Fanout + 1} >>
      BY <1>3
    <2>2. /\ 1 \in DOMAIN << 1..Fanout, {Fanout + 1} >>
          /\ << 1..Fanout, {Fanout + 1} >>[1] = 1..Fanout
      OBVIOUS
    <2> HIDE DEF Batches
    <2> QED
      BY <1>3, <2>1, <2>2
  <1>4. CASE failure = "F5"
    BY <1>4
  <1>5. CASE failure \notin {"F5", "F6", "F11", "CF2", "CF4"}
    BY <1>5
  <1> QED
    BY <1>1, <1>2, <1>3, <1>4, <1>5

\* An attempt is a pair of an operation and a number.
LEMMA AttemptsArePairs ==
    /\ \A r \in Requests : /\ OpOf[r] = r[1] /\ r[1] \in Ops /\ r[2] \in 1..Highest
                           /\ r = <<r[1], r[2]>>
    /\ \A o \in Ops, n \in 1..Highest : <<o, n>> \in Requests
  BY RunnerAssumption

\* What was sent stays sent.
LEMMA SentStays ==
    ASSUME RunTypeOK, [RunNext]_runVars, NEW r \in Requests, Sent(r)
    PROVE  Sent(r)'
  <1>0. r[1] \in Ops
    BY AttemptsArePairs
  <1>1. ASSUME NEW o \in Ops, Proceed(o) \/ LoseBeforeGateway(o)
        PROVE  Sent(r)'
    <2>1. o = r[1] => result[r] # "NONE"
      <3>1. 0 \notin DOMAIN Batches
        BY BatchesFit
      <3> QED
        BY <1>1, <3>1 DEF Proceed, LoseBeforeGateway, BatchOver, Sent, Batch
    <2>2. UNCHANGED <<result, failure>> /\ (o # r[1] => step'[r[1]] = step[r[1]])
      BY <1>0, <1>1 DEF Proceed, LoseBeforeGateway, RunTypeOK
    <2>3. o # r[1] => Batch(r[1])' = Batch(r[1])
      BY <2>2 DEF Batch, Batches
    <2> QED
      BY <2>1, <2>2, <2>3 DEF Sent
  <1>2. ASSUME NEW q \in Requests, NEW s, Record(q, s), s # "NONE"
        PROVE  Sent(r)'
    BY <1>2 DEF Record, Sent, Batch, Batches, RunTypeOK
  <1>3. CASE UNCHANGED <<failure, step, result>>
    BY <1>3 DEF Sent, Batch, Batches
  <1> QED
    BY <1>1, <1>2, <1>3
    DEF RunNext, RunnerStep, ReceiveReply, ReceiveGatewayError, ClientTimeout, Answered,
        ReadEffects, ReadServiceEvents, Handled, Environment, RunFinished, runVars, runnerVars

\* A request that was lost stays lost.
LEMMA LostStays ==
    ASSUME TypeOK, [Next]_vars, NEW q \in Requests, pc[q] = "lost"
    PROVE  pc'[q] = "lost"
  <1>1. ASSUME NEW r \in Requests, PrepareLedger(r) \/ Execute(r) \/ Reconcile(r)
        PROVE  pc'[q] = "lost"
    BY <1>1, HandlerCourse, HandlerLocal DEF Course, Dispatch, Unprotected
  <1>2. ASSUME NEW r \in Requests, Serve(r) \/ AnswerLost(r)
        PROVE  pc'[q] = "lost"
    BY <1>2, ServiceCourse
  <1> QED
    BY <1>1, <1>2 DEF Next, LeaseExpires, Crash, InFlight, Finished, vars

\* Only attempts that were sent are handled, and a result is that of the reply
\* that has left, or of a request that has no reply, or of the runner's timer.
SentInv ==
    \A r \in Requests :
        /\ pc[r] # "idle" => Sent(r)
        /\ result[r] \in Answered => pc[r] = "done" /\ reply[r].status = result[r]
        /\ result[r] = "HTTP_ERROR" => pc[r] \in {"done", "lost"}
        /\ result[r] \in Answered \cup {"NONE", "CLIENT_TIMEOUT", "HTTP_ERROR"}

\* Every step of a run keeps results those of replies.
LEMMA SentStep ==
    ASSUME RunTypeOK, SentInv, [RunNext]_runVars
    PROVE  SentInv'
  <1>0. /\ \A q \in Requests : pc[q] = "done" => pc'[q] = "done" /\ reply'[q] = reply[q]
        /\ \A q \in Requests : pc[q] = "lost" => pc'[q] = "lost"
        /\ \A q \in Requests : Sent(q) => Sent(q)'
    BY RunStep, PastKept, LostStays, SentStays DEF RunTypeOK
  <1>1. ASSUME NEW r \in Requests, NEW s, Record(r, s),
               s \in Answered => pc[r] = "done" /\ reply[r].status = s,
               s = "HTTP_ERROR" => pc[r] \in {"done", "lost"},
               s \in Answered \cup {"CLIENT_TIMEOUT", "HTTP_ERROR"}
        PROVE  SentInv'
    BY <1>0, <1>1 DEF Record, SentInv, RunTypeOK, vars
  <1>2. ASSUME NEW r \in Requests, Handled(r)
        PROVE  SentInv'
    <2>1. \A q \in Requests \ {r} : pc'[q] = pc[q]
      BY <1>2, HandlerLocal, ServiceCourse DEF Handled, RunTypeOK
    <2>2. UNCHANGED result /\ Sent(r)
      BY <1>2 DEF Handled, runnerVars
    <2> QED
      BY <1>0, <2>1, <2>2 DEF SentInv
  <1>3. CASE Crash /\ UNCHANGED runnerVars
    <2>1. \A q \in Requests : pc[q] = "idle" => pc'[q] = "idle"
      BY <1>3 DEF Crash, InFlight, RunTypeOK, TypeOK
    <2> QED
      BY <1>0, <1>3, <2>1 DEF SentInv, runnerVars
  <1>4. CASE UNCHANGED <<pc, result>>
    BY <1>0, <1>4 DEF SentInv
  <1>5. ASSUME NEW r \in Requests,
               ReceiveReply(r) \/ ReceiveGatewayError(r) \/ ClientTimeout(r)
        PROVE  SentInv'
    <2>1. CASE ReceiveReply(r) /\ reply[r].status \in Answered
      BY <1>1, <2>1 DEF ReceiveReply
    <2>2. CASE ReceiveReply(r) /\ reply[r].status \notin Answered
      BY <1>1, <2>2 DEF ReceiveReply, Answered
    <2>3. CASE ReceiveGatewayError(r) \/ ClientTimeout(r)
      BY <1>1, <2>3 DEF ReceiveGatewayError, ClientTimeout, Answered
    <2> QED
      BY <1>5, <2>1, <2>2, <2>3
  <1>6. CASE RunnerStep
    BY <1>4, <1>5, <1>6
    DEF RunnerStep, Proceed, LoseBeforeGateway, ReadEffects, ReadServiceEvents, vars
  <1>7. CASE Environment
    BY <1>3, <1>4, <1>7 DEF Environment, LeaseExpires, runnerVars
  <1> QED
    BY <1>2, <1>4, <1>6, <1>7 DEF RunNext, RunFinished, runVars, runnerVars, vars

\* Only attempts that were sent are handled, and what the runner recorded of an
\* attempt is what was answered to it, or that it was lost, or given up.
THEOREM ResultsAreReplies == RunSpec => []SentInv
  <1>1. RunInit => SentInv
    BY DEF RunInit, Init, SentInv, Answered
  <1>2. RunTypeOK /\ SentInv /\ [RunNext]_runVars => SentInv'
    BY SentStep
  <1> QED
    BY <1>1, <1>2, RunTypeCorrect, PTL DEF RunSpec

-----------------------------------------------------------------------------
(* The two tables agree.                                                   *)

\* An effect has its call logged, and a call that has an effect names one that
\* exists.
CallsLogged ==
    /\ effects \subseteq LoggedCalls
    /\ \A r \in LoggedCalls : call[r].effect \in effects

\* A commit writes both; nothing takes the entry of a call back.
LEMMA LogStep ==
    ASSUME TypeOK, CallInv, TruthInv, CallsLogged, [Next]_vars
    PROVE  CallsLogged' /\ LoggedCalls \subseteq LoggedCalls'
  <1> USE DEF CallsLogged, LoggedCalls
  <1>0. /\ call \in [Requests -> [phase : CallPhase, cap : Capability,
                                  effect : EffectRef, replayed : BOOLEAN]]
        /\ effects \subseteq Requests
    BY DEF TypeOK, ServiceTypeOK
  <1>1. ASSUME NEW r \in Requests, Dispatch(r)
        PROVE  CallsLogged' /\ LoggedCalls \subseteq LoggedCalls'
    <2>1. call' = [call EXCEPT ![r].phase = "received", ![r].cap = DispatchCapability]
          /\ UNCHANGED effects
      BY <1>1 DEF Dispatch, Submit
    <2>2. \A q \in Requests : call'[q].effect = call[q].effect
      BY <1>0, <2>1
    <2> QED
      BY <1>0, <2>1, <2>2
  <1>2. ASSUME NEW r \in Requests, ReplayExisting(r)
        PROVE  CallsLogged' /\ LoggedCalls \subseteq LoggedCalls'
    <2>1. Registered(OpOf[r]) # NoEffect /\ OpOf[r] \in Ops /\ UNCHANGED effects
      BY <1>2, RequestAssumption DEF ReplayExisting
    <2>2. Registered(OpOf[r]) \in effects
      BY <2>1 DEF TruthInv, EffectsOf
    <2>3. /\ call'[r].effect = Registered(OpOf[r])
          /\ \A q \in Requests \ {r} : call'[q] = call[q]
      BY <1>0, <1>2 DEF ReplayExisting
    <2> QED
      BY <1>0, <2>1, <2>2, <2>3
  <1>3. ASSUME NEW r \in Requests, CommitEffect(r)
        PROVE  CallsLogged' /\ LoggedCalls \subseteq LoggedCalls'
    <2>1. /\ effects' = effects \cup {r}
          /\ call'[r].effect = r
          /\ \A q \in Requests \ {r} : call'[q] = call[q]
      BY <1>0, <1>3 DEF CommitEffect
    <2> QED
      BY <1>0, <2>1, RequestAssumption
  <1>4. ASSUME NEW r \in Requests,
               BeginCreate(r) \/ RejectDuplicateKey(r) \/ AbortCall(r) \/ LoseAnswer(r)
        PROVE  CallsLogged' /\ LoggedCalls \subseteq LoggedCalls'
    <2>1. UNCHANGED effects /\ \A q \in Requests : call'[q].effect = call[q].effect
      BY <1>0, <1>4 DEF BeginCreate, RejectDuplicateKey, AbortCall, LoseAnswer
    <2> QED
      BY <2>1
  <1>5. CASE UNCHANGED <<call, effects>>
    BY <1>5
  <1>6. ASSUME NEW r \in Requests, PrepareLedger(r) \/ (Execute(r) /\ ~Dispatch(r)) \/ Reconcile(r)
        PROVE  UNCHANGED <<call, effects>>
    BY <1>6, HandlerPhases DEF serviceVars
  <1> QED
    BY <1>1, <1>2, <1>3, <1>4, <1>5, <1>6
    DEF Next, Serve, AnswerLost, ServiceStep, LeaseExpires, Crash, Finished, serviceVars, vars

\* Whatever exists was logged as the call that created it, and whatever a call
\* was answered with exists.
THEOREM EffectsAreLogged == Spec => []CallsLogged
  <1>1. Init => CallsLogged
    BY DEF Init, ServiceInit, CallsLogged, LoggedCalls
  <1>2. TypeOK /\ CallInv /\ TruthInv /\ CallsLogged /\ [Next]_vars => CallsLogged'
    BY LogStep
  <1> QED
    BY <1>1, <1>2, CallsInvariant, TruthInvariant, PTL DEF Spec

\* Once the effects are read, the calls of answered attempts are over and their
\* effects were read; what is then read as logged stays so.
CalledInv ==
    /\ tablesRead > 0 =>
          \A r \in LoggedCalls : result[r] \in Answered => call[r].effect \in observed
    /\ tablesRead = 2 => observed \subseteq executed /\ executed \subseteq LoggedCalls

\* An attempt that has its answer is not worked on any more, nor is its call.
LEMMA AnsweredIsOver ==
    ASSUME RunTypeOK, SentInv, HandlerInv, NEW r \in Requests, Handled(r)
    PROVE  /\ result[r] \notin Answered
           /\ UNCHANGED <<result, measures>>
           /\ \A q \in Requests \ {r} : call'[q] = call[q]
  <1>1. ASSUME result[r] \in Answered
        PROVE  FALSE
    <2>1. pc[r] = "done"
      BY <1>1 DEF SentInv
    <2>2. call[r].phase \notin {"received", "creating"}
      BY <2>1 DEF HandlerInv
    <2> QED
      BY <2>1, <2>2, HandlerLocal, ServiceCourse DEF Handled, RunTypeOK
  <1>2. \A q \in Requests \ {r} : call'[q] = call[q]
    <2>1. CASE Serve(r) \/ AnswerLost(r)
      BY <2>1, ServiceCourse DEF RunTypeOK
    <2>2. CASE Dispatch(r)
      BY <2>2 DEF Dispatch, Submit, RunTypeOK, TypeOK, ServiceTypeOK
    <2>3. CASE PrepareLedger(r) \/ (Execute(r) /\ ~Dispatch(r)) \/ Reconcile(r)
      BY <2>3, HandlerPhases DEF serviceVars, RunTypeOK
    <2> QED
      BY <2>1, <2>2, <2>3 DEF Handled
  <1> QED
    BY <1>1, <1>2 DEF Handled, runnerVars

\* Every step of a run keeps the two tables in agreement.
LEMMA CalledStep ==
    ASSUME RunTypeOK, ObservedInv, SentInv, CallInv, TruthInv, HandlerInv, CountedInv,
           CallsLogged, CalledInv, [RunNext]_runVars
    PROVE  CalledInv'
  <1>0. LoggedCalls \subseteq LoggedCalls'
    BY RunStep, LogStep DEF RunTypeOK
  <1>1. CASE ReadEffects
    <2>1. tablesRead = 0 /\ tablesRead' = 1 /\ observed' = effects /\ UNCHANGED call
      BY <1>1 DEF ReadEffects, ReadOrder, RunTypeOK, vars, serviceVars
    <2> QED
      BY <2>1 DEF CallsLogged, CalledInv, LoggedCalls
  <1>2. CASE ReadServiceEvents
    <2>1. /\ tablesRead = 1 /\ executed' = LoggedCalls
          /\ UNCHANGED <<observed, result, call>>
      BY <1>2 DEF ReadServiceEvents, ReadOrder, RunTypeOK, vars, serviceVars
    <2> QED
      BY <2>1 DEF ObservedInv, CallsLogged, CalledInv, LoggedCalls
  <1>3. ASSUME NEW r \in Requests,
               ReceiveReply(r) \/ ReceiveGatewayError(r) \/ ClientTimeout(r)
        PROVE  CalledInv'
    <2>1. Sent(r) /\ result[r] = "NONE" /\ UNCHANGED tablesRead
      BY <1>3 DEF ReceiveReply, ReceiveGatewayError, ClientTimeout, Record, measures
    <2>2. ~(tablesRead > 0) /\ tablesRead # 2
      BY <2>1, OverMeansRecorded, AttemptsArePairs DEF CountedInv
    <2> QED
      BY <2>1, <2>2 DEF CalledInv
  <1>4. ASSUME NEW r \in Requests, Handled(r)
        PROVE  CalledInv'
    BY <1>0, <1>4, AnsweredIsOver DEF CalledInv, LoggedCalls, measures
  <1>5. CASE UNCHANGED <<measures, result, call>>
    BY <1>5 DEF CalledInv, LoggedCalls, measures
  <1>6. CASE Environment
    BY <1>5, <1>6 DEF Environment, LeaseExpires, Crash, serviceVars, runnerVars
  <1> QED
    BY <1>1, <1>2, <1>3, <1>4, <1>5, <1>6
    DEF RunNext, RunnerStep, Proceed, LoseBeforeGateway, RunFinished, runVars, runnerVars,
        vars, serviceVars

\* The tables of effects and of calls fit together, for every number of attempts
\* and whatever commits between the two reads: no effect is counted without its
\* call, so DAF is never below the effects per operation, and no call of an
\* attempt that was answered is counted without its effect.
THEOREM CallsAreCounted == RunSpec => []TablesAgree
  <1>1. RunInit => CalledInv
    BY DEF RunInit, CalledInv
  <1>2. /\ RunTypeOK /\ ObservedInv /\ SentInv /\ CallInv /\ TruthInv /\ HandlerInv
        /\ CountedInv /\ CallsLogged /\ CalledInv /\ [RunNext]_runVars
        => CalledInv'
    BY CalledStep
  <1>3. CalledInv => TablesAgree
    BY DEF CalledInv, TablesAgree, reported
  <1> QED
    BY <1>1, <1>2, <1>3, RunTypeCorrect, ObservedInvariant, ResultsAreReplies,
       CountedWhenRead, RunIsOrchestrated, CallsInvariant, TruthInvariant, HandlersWait,
       EffectsAreLogged, PTL DEF RunSpec

-----------------------------------------------------------------------------
(* One row for each attempt that is over.                                  *)

Recorded(o) == { r \in RequestsOf(o) : result[r] # "NONE" }

\* events lists each attempt that is over, once.
RowsInv ==
    \A o \in Ops :
        /\ Cardinality(Recorded(o)) = Len(rows[o])
        /\ \A i \in 1..Len(rows[o]) : rows[o][i] \in Recorded(o)
        /\ step[o] >= 2 /\ failure # "F1" => rows[o] # <<>>

\* An operation has finitely many attempts.
LEMMA RequestsFinite ==
    ASSUME NEW o \in Ops
    PROVE  IsFiniteSet(RequestsOf(o))
  <1>1. IsFiniteSet({o} \X (1..Highest))
    <2>1. IsFiniteSet(1..Highest)
      BY FS_Interval, HighestType
    <2>2. IsFiniteSet({o})
      BY FS_Singleton
    <2> DEFINE S == {o}
               T == 1..Highest
    <2>3. IsFiniteSet(S) /\ IsFiniteSet(T)
      BY <2>1, <2>2
    <2> HIDE DEF S, T
    <2>4. IsFiniteSet(S \X T)
      BY <2>3, FS_Product
    <2> QED
      BY <2>4 DEF S, T
  <1>2. RequestsOf(o) \subseteq {o} \X (1..Highest)
    BY AttemptsArePairs DEF RequestsOf
  <1> QED
    BY <1>1, <1>2, FS_Subset

\* Every step of a run keeps one row for each attempt that is over.
LEMMA RowsStep ==
    ASSUME RunTypeOK, SentInv, RowsInv, [RunNext]_runVars
    PROVE  RowsInv'
  <1>0. /\ \A r \in Requests : OpOf[r] = r[1] /\ r[1] \in Ops
        /\ \A o \in Ops : rows[o] \in Seq(Requests) /\ step[o] \in Nat
    BY AttemptsArePairs, HighestType DEF RunTypeOK
  <1>1. ASSUME NEW r \in Requests, NEW s, Record(r, s), s # "NONE", NEW o \in Ops
        PROVE  /\ Cardinality(Recorded(o)') = Len(rows'[o])
               /\ \A i \in 1..Len(rows'[o]) : rows'[o][i] \in Recorded(o)'
               /\ step'[o] >= 2 /\ failure' # "F1" => rows'[o] # <<>>
    <2>1. /\ result[r] = "NONE" /\ result'[r] = s
          /\ \A q \in Requests \ {r} : result'[q] = result[q]
          /\ rows' = [rows EXCEPT ![r[1]] = Append(rows[r[1]], r)]
          /\ UNCHANGED <<step, failure>>
      BY <1>1 DEF Record, RunTypeOK
    <2>2. CASE o = r[1]
      <3>1. /\ rows'[o] = Append(rows[o], r) /\ Len(rows'[o]) = Len(rows[o]) + 1
            /\ \A i \in 1..Len(rows[o]) : rows'[o][i] = rows[o][i]
            /\ rows'[o][Len(rows[o]) + 1] = r
        BY <1>0, <2>1, <2>2 DEF RunTypeOK
      <3>2. Recorded(o)' = Recorded(o) \cup {r} /\ r \notin Recorded(o)
        BY <1>0, <1>1, <2>1, <2>2 DEF Recorded, RequestsOf
      <3>3. IsFiniteSet(Recorded(o))
        BY RequestsFinite, FS_Subset DEF Recorded
      <3>4. Cardinality(Recorded(o)') = Cardinality(Recorded(o)) + 1
        BY <3>2, <3>3, FS_AddElement
      <3>5. \A i \in 1..(Len(rows[o]) + 1) : i \in 1..Len(rows[o]) \/ i = Len(rows[o]) + 1
        BY <1>0
      <3> QED
        BY <1>0, <3>1, <3>2, <3>4, <3>5 DEF RowsInv
    <2>3. CASE o # r[1]
      <3>1. rows'[o] = rows[o]
        BY <2>1, <2>3 DEF RunTypeOK
      <3>2. Recorded(o)' = Recorded(o)
        BY <1>0, <2>1, <2>3 DEF Recorded, RequestsOf
      <3> QED
        BY <2>1, <3>1, <3>2 DEF RowsInv
    <2> QED
      BY <2>2, <2>3
  <1>2. ASSUME NEW p \in Ops, Proceed(p) \/ LoseBeforeGateway(p)
        PROVE  RowsInv'
    <2>1. UNCHANGED <<failure, result, rows>> /\ \A o \in Ops \ {p} : step'[o] = step[o]
      BY <1>2 DEF Proceed, LoseBeforeGateway, RunTypeOK
    <2>2. ASSUME step'[p] >= 2, failure # "F1"
          PROVE  rows[p] # <<>>
      <3>1. CASE step[p] >= 2
        BY <2>2, <3>1 DEF RowsInv
      <3>2. CASE step[p] = 0
        BY <1>2, <2>2, <3>2, RunnerAssumption
        DEF Proceed, LoseBeforeGateway, LoopBreaks, RunTypeOK
      <3>3. CASE step[p] = 1
        <4>1. <<p, 1>> \in Batch(p)
          BY <3>3, BatchesBegin DEF Batch
        <4>2. <<p, 1>> \in Requests /\ OpOf[<<p, 1>>] = p
          BY AttemptsArePairs, HighestType, RunnerAssumption DEF Highest
        <4>3. result[<<p, 1>>] # "NONE"
          BY <1>2, <3>3, <4>1 DEF Proceed, LoseBeforeGateway, BatchOver
        <4>4. Recorded(p) # {}
          BY <4>2, <4>3 DEF Recorded, RequestsOf
        <4>5. Cardinality(Recorded(p)) # 0
          BY <4>4, RequestsFinite, FS_Subset, FS_EmptySet DEF Recorded
        <4> QED
          BY <4>5 DEF RowsInv
      <3> QED
        BY <1>0, <3>1, <3>2, <3>3
    <2> QED
      BY <2>1, <2>2 DEF RowsInv, Recorded, RequestsOf
  <1>3. CASE UNCHANGED <<failure, step, result, rows>>
    BY <1>3 DEF RowsInv, Recorded, RequestsOf
  <1>4. ASSUME NEW r \in Requests,
               ReceiveReply(r) \/ ReceiveGatewayError(r) \/ ClientTimeout(r)
        PROVE  RowsInv'
    <2>1. PICK s : Record(r, s) /\ s # "NONE"
      BY <1>4 DEF ReceiveReply, ReceiveGatewayError, ClientTimeout, Answered
    <2> QED
      BY <1>1, <2>1 DEF RowsInv
  <1> QED
    BY <1>2, <1>3, <1>4
    DEF RunNext, RunnerStep, ReadEffects, ReadServiceEvents, Handled, Environment,
        RunFinished, runVars, runnerVars

\* events has exactly one row for each attempt that is over, in every strategy.
THEOREM RowsAreAttempts == RunSpec => []RowsInv
  <1>1. RunInit => RowsInv
    <2> SUFFICES ASSUME RunInit, NEW o \in Ops
                 PROVE  /\ Cardinality(Recorded(o)) = Len(rows[o])
                        /\ \A i \in 1..Len(rows[o]) : rows[o][i] \in Recorded(o)
                        /\ ~(step[o] >= 2)
      BY DEF RowsInv
    <2>1. Recorded(o) = {} /\ rows[o] = <<>> /\ step[o] = 0
      BY DEF RunInit, Recorded, RequestsOf
    <2>2. Cardinality({}) = 0
      BY FS_EmptySet
    <2> QED
      BY <2>1, <2>2
  <1>2. RunTypeOK /\ SentInv /\ RowsInv /\ [RunNext]_runVars => RowsInv'
    BY RowsStep
  <1> QED
    BY <1>1, <1>2, RunTypeCorrect, ResultsAreReplies, PTL DEF RunSpec

-----------------------------------------------------------------------------
(* A run that was not disturbed is measured completely.                    *)

\* When the tables are read in an undisturbed run, every attempt that was sent
\* has been answered, and no service works on a call any more.
LEMMA NothingUnderWay ==
    ASSUME RunTypeOK, SentInv, HandlerInv, CountedInv, Undisturbed, tablesRead > 0,
           NEW r \in Requests
    PROVE  /\ pc[r] = "done" \/ (pc[r] = "idle" /\ ~Sent(r))
           /\ call[r].phase \notin {"received", "creating"}
  <1>1. r[1] \in Ops /\ OperationOver(r[1])
    BY AttemptsArePairs DEF CountedInv
  <1>2. pc[r] # "lost"
    BY DEF HandlerInv, Undisturbed
  <1>3. Sent(r) => pc[r] = "done"
    BY <1>1, <1>2, OverMeansRecorded DEF SentInv, Undisturbed
  <1> QED
    BY <1>3 DEF SentInv, HandlerInv

\* Nothing that disturbs a run is undone.
LEMMA DisturbedStays ==
    ASSUME RunTypeOK, [RunNext]_runVars, Undisturbed'
    PROVE  Undisturbed
  <1>1. crashes = 0
    <2>1. crashes \in Nat
      BY ConfigAssumption DEF RunTypeOK, TypeOK
    <2>2. ASSUME NEW r \in Requests,
                 PrepareLedger(r) \/ Execute(r) \/ Reconcile(r) \/ Serve(r) \/ AnswerLost(r)
          PROVE  UNCHANGED crashes
      BY <2>2, HandlerCourse, ServiceCourse DEF Course, RunTypeOK
    <2> QED
      BY <2>1, <2>2, RunStep DEF Next, LeaseExpires, Crash, Finished, vars, Undisturbed
  <1>2. ASSUME NEW q \in Requests, result[q] = "CLIENT_TIMEOUT"
        PROVE  FALSE
    <2>1. ASSUME NEW r \in Requests, NEW s, Record(r, s)
          PROVE  result'[q] = result[q]
      BY <1>2, <2>1 DEF Record, RunTypeOK
    <2>2. result'[q] = result[q]
      BY <2>1
      DEF RunNext, RunnerStep, Proceed, LoseBeforeGateway, ReceiveReply, ReceiveGatewayError,
          ClientTimeout, ReadEffects, ReadServiceEvents, Handled, Environment, RunFinished,
          runVars, runnerVars
    <2> QED
      BY <1>2, <2>2 DEF Undisturbed
  <1> QED
    BY <1>1, <1>2 DEF Undisturbed

\* What was read of an undisturbed run is all there is, and stays so.
FrozenInv ==
    Undisturbed =>
        /\ tablesRead > 0 => observed = effects
        /\ tablesRead = 2 => executed = LoggedCalls

\* Every step of a run keeps what was read of an undisturbed run.
LEMMA FrozenStep ==
    ASSUME RunTypeOK, SentInv, HandlerInv, CountedInv, FrozenInv, [RunNext]_runVars
    PROVE  FrozenInv'
  <1> SUFFICES ASSUME Undisturbed'
               PROVE  /\ tablesRead' > 0 => observed' = effects'
                      /\ tablesRead' = 2 => executed' = LoggedCalls'
    BY DEF FrozenInv
  <1>1. Undisturbed /\ FrozenInv
    BY DisturbedStays
  <1>2. CASE ReadEffects
    <2>1. tablesRead = 0
      BY <1>2 DEF ReadEffects, ReadOrder, RunTypeOK
    <2> QED
      BY <1>2, <2>1 DEF ReadEffects, vars
  <1>3. CASE ReadServiceEvents
    <2>1. tablesRead = 1
      BY <1>3 DEF ReadServiceEvents, ReadOrder, RunTypeOK
    <2> QED
      BY <1>1, <1>3, <2>1 DEF ReadServiceEvents, FrozenInv, LoggedCalls, vars
  <1>4. ASSUME NEW r \in Requests, Handled(r)
        PROVE  ~(tablesRead > 0) /\ UNCHANGED tablesRead
    <2>1. UNCHANGED tablesRead /\ Sent(r)
      BY <1>4 DEF Handled, runnerVars, measures
    <2>2. ASSUME tablesRead > 0
          PROVE  FALSE
      <3>1. pc[r] = "done" /\ call[r].phase \notin {"received", "creating"}
        BY <1>1, <2>1, <2>2, NothingUnderWay
      <3> QED
        BY <1>4, <3>1, HandlerLocal, ServiceCourse DEF Handled, RunTypeOK
    <2> QED
      BY <2>1, <2>2
  <1>5. CASE UNCHANGED <<measures, effects, call>>
    BY <1>1, <1>5 DEF FrozenInv, measures, LoggedCalls
  <1>6. CASE RunnerStep
    BY <1>2, <1>3, <1>5, <1>6
    DEF RunnerStep, Proceed, LoseBeforeGateway, ReceiveReply, ReceiveGatewayError,
        ClientTimeout, Record, vars
  <1>7. CASE Environment
    BY <1>5, <1>7 DEF Environment, LeaseExpires, Crash, serviceVars, runnerVars
  <1>8. CASE \E r \in Requests : Handled(r)
    <2>1. ~(tablesRead > 0) /\ UNCHANGED tablesRead
      BY <1>4, <1>8
    <2> QED
      BY <2>1
  <1> QED
    BY <1>5, <1>6, <1>7, <1>8 DEF RunNext, RunFinished, runVars, runnerVars, vars

\* Both tables of an undisturbed run are final when they are read.
THEOREM ReadIsFrozen == RunSpec => []FrozenInv
  <1>1. RunInit => FrozenInv
    BY DEF RunInit, FrozenInv
  <1>2. /\ RunTypeOK /\ SentInv /\ HandlerInv /\ CountedInv /\ FrozenInv
        /\ [RunNext]_runVars
        => FrozenInv'
    BY FrozenStep
  <1> QED
    BY <1>1, <1>2, RunTypeCorrect, ResultsAreReplies, CountedWhenRead, RunIsOrchestrated,
       HandlersWait, PTL DEF RunSpec

\* Ground truth is read after the run: of a run in which nothing timed out and
\* nothing restarted, no effect appears after read_effects, for every strategy
\* and every number of attempts.
THEOREM MeasuredAtTheEnd == RunSpec => []MeasurementIsFinalIfUndisturbed
  <1>1. FrozenInv => MeasurementIsFinalIfUndisturbed
    BY DEF FrozenInv, MeasurementIsFinalIfUndisturbed, MeasurementIsFinal, reported
  <1> QED
    BY <1>1, ReadIsFrozen, PTL

-----------------------------------------------------------------------------
(* Replays are retries.                                                    *)

\* The attempt that had an effect created is a row of its operation.
LEMMA CreatorIsRecorded ==
    ASSUME RunTypeOK, SentInv, CallInv, CountedInv, tablesRead > 0, NEW e \in effects
    PROVE  e \in Recorded(OpOf[e])
  <1>1. e \in Requests /\ e[1] \in Ops /\ OperationOver(e[1])
    BY AttemptsArePairs DEF CountedInv, RunTypeOK, TypeOK, ServiceTypeOK
  <1>2. pc[e] # "idle"
    BY <1>1 DEF CallInv
  <1>3. result[e] # "NONE"
    BY <1>1, <1>2, OverMeansRecorded DEF SentInv
  <1> QED
    BY <1>1, <1>3 DEF Recorded, RequestsOf

\* Among the attempts of an operation that are over is one that is no replay.
LEMMA NotAllAreReplays ==
    ASSUME RunTypeOK, SentInv, CallInv, CountedInv, TruthInv, ReplayInv, RowsInv,
           tablesRead > 0, NEW o \in Ops, rows[o] # <<>>
    PROVE  Replayed(o) # Recorded(o)
  <1>1. PICK r \in Recorded(o) : TRUE
    <2>1. rows[o] \in Seq(Requests)
      BY DEF RunTypeOK
    <2>2. 1 \in 1..Len(rows[o])
      BY <2>1
    <2> QED
      BY <2>2 DEF RowsInv
  <1> SUFFICES ASSUME Replayed(o) = Recorded(o)
               PROVE  FALSE
    OBVIOUS
  <1>2. r \in Requests /\ OpOf[r] = o /\ reply[r].replayed
    BY <1>1 DEF Replayed, RequestsOf
  <1>3. reply[r].status = "OK"
    BY <1>2 DEF ReplayInv
  <1>4. PICK e \in effects : OpOf[e] = o
    BY <1>2, <1>3 DEF TruthInv, AnswersAreTrue, EffectsOf
  <1>5. e \in Replayed(o)
    BY <1>4, CreatorIsRecorded
  <1> QED
    BY <1>4, <1>5 DEF Replayed, ReplayInv

\* RRR relates replays to retries: in every operation that has attempts one of
\* them, the one that had the effect created, does not say "replayed".
THEOREM ReplaysAreFewer == RunSpec => []ReplaysAreRetries
  <1>1. /\ RunTypeOK /\ SentInv /\ CallInv /\ CountedInv /\ TruthInv /\ ReplayInv /\ RowsInv
        => ReplaysAreRetries
    <2> SUFFICES ASSUME RunTypeOK, SentInv, CallInv, CountedInv, TruthInv, ReplayInv, RowsInv,
                        reported, NEW o \in Ops, rows[o] # <<>>
                 PROVE  Cardinality(Replayed(o)) < Len(rows[o])
      BY DEF ReplaysAreRetries
    <2>1. tablesRead > 0
      BY DEF reported
    <2>2. Replayed(o) \subseteq Recorded(o)
      BY DEF Replayed, Recorded, Answered
    <2>3. Replayed(o) # Recorded(o)
      BY <2>1, NotAllAreReplays
    <2>4. IsFiniteSet(Recorded(o))
      BY RequestsFinite, FS_Subset DEF Recorded
    <2>5. /\ IsFiniteSet(Replayed(o))
          /\ Cardinality(Replayed(o)) <= Cardinality(Recorded(o))
          /\ Cardinality(Replayed(o)) # Cardinality(Recorded(o))
      BY <2>2, <2>3, <2>4, FS_Subset
    <2>6. Cardinality(Recorded(o)) \in Nat /\ Cardinality(Replayed(o)) \in Nat
      BY <2>4, <2>5, FS_CardinalityType
    <2>7. Cardinality(Recorded(o)) = Len(rows[o])
      BY DEF RowsInv
    <2> QED
      BY <2>5, <2>6, <2>7
  <1> QED
    BY <1>1, RunTypeCorrect, ResultsAreReplies, CountedWhenRead, RowsAreAttempts,
       RunIsOrchestrated, CallsInvariant, TruthInvariant, ReplaysAreOthers, PTL

-----------------------------------------------------------------------------
(* Faults that count as injected.                                          *)

\* An attempt has the scenario its number gives it, or none.
DrawInv == \A r \in Requests : scenario[r] \in {ScenarioOf(failure, r[2]), "F0"}

\* The scenario of an attempt is that of the configuration, or none, for good.
THEOREM DrawsAreKept == RunSpec => []DrawInv
  <1>1. RunInit => DrawInv
    BY AttemptsArePairs DEF RunInit, Drawn, RequestsOf, DrawInv
  <1>2. DrawInv /\ [RunNext]_runVars => DrawInv'
    <2> SUFFICES ASSUME DrawInv, [RunNext]_runVars
                 PROVE  DrawInv'
      OBVIOUS
    <2>1. UNCHANGED scenario
      BY RunStep, ScenarioKept
    <2>2. UNCHANGED failure
      BY DEF RunNext, RunnerStep, Proceed, LoseBeforeGateway, ReceiveReply,
         ReceiveGatewayError, ClientTimeout, Record, ReadEffects, ReadServiceEvents, Handled,
         Environment, RunFinished, runVars, runnerVars
    <2> QED
      BY <2>1, <2>2 DEF DrawInv, ScenarioOf, FirstScenario
  <1> QED
    BY <1>1, <1>2, PTL DEF RunSpec

\* A scenario whose hook is behind the call lets every claim be dispatched.
LEMMA CallIsMade ==
    ASSUME DrawInv, failure \in AfterCall, NEW r \in Requests
    PROVE  ~Inject(r, "BEFORE_DOWNSTREAM_DISPATCH")
  BY DEF DrawInv, ScenarioOf, FirstScenario, AfterCall, Inject, ScenarioHook

\* The last row of an operation is one of its attempts.
LEMMA LastIsRecorded ==
    ASSUME RunTypeOK, RowsInv, NEW o \in Ops, rows[o] # <<>>
    PROVE  rows[o][Len(rows[o])] \in Recorded(o)
  <1>1. rows[o] \in Seq(Requests)
    BY DEF RunTypeOK
  <1>2. Len(rows[o]) \in 1..Len(rows[o])
    BY <1>1
  <1> QED
    BY <1>2 DEF RowsInv

\* In an undisturbed run a row of the ledger stands for a call that was logged,
\* where every claim is dispatched and no call fails before it is logged.
LEMMA RowMeansCall ==
    ASSUME RunTypeOK, SentInv, HandlerInv, CountedInv, TruthInv, OwnerInv, DrawInv,
           Undisturbed, NoCallFailed, tablesRead > 0, failure \in AfterCall,
           NEW o \in Ops, ledger[o].state # Absent
    PROVE  \E q \in LoggedCalls : OpOf[q] = o
  <1> DEFINE q == ledger[o].owner
  <1>1. /\ q \in Requests /\ OpOf[q] = o
        /\ \/ pc[q] = "proceed" \/ call[q].phase # "none" \/ crashes > 0
           \/ Inject(q, "BEFORE_DOWNSTREAM_DISPATCH")
    BY DEF OwnerInv, Owned, RequestsOf
  <1>2. pc[q] # "proceed" /\ call[q].phase \notin {"received", "creating"}
    BY <1>1, NothingUnderWay
  <1>3. call[q].phase \in {"answered", "failed"}
    BY <1>1, <1>2, CallIsMade DEF Undisturbed, RunTypeOK, TypeOK, ServiceTypeOK, CallPhase
  <1>4. call[q].effect # NoEffect
    BY <1>1, <1>3, RequestAssumption
    DEF NoCallFailed, TruthInv, EffectsOf, RunTypeOK, TypeOK, ServiceTypeOK
  <1> QED
    BY <1>1, <1>4 DEF LoggedCalls

\* What fault_injected counts, reached_fault_hook counts.
LEMMA InjectedIsReached ==
    ASSUME RunTypeOK, SentInv, HandlerInv, CountedInv, TruthInv, BegunInv, OwnerInv, DrawInv,
           CallsLogged, RowsInv, FrozenInv, reported, Undisturbed, NoCallFailed,
           NEW o \in Ops, Injected(o)
    PROVE  Reached(o)
  <1>0. tablesRead > 0 /\ executed = LoggedCalls
    BY DEF reported, FrozenInv
  <1>1. ASSUME failure \in AfterCall,
               FinalState(o) \in {"UNKNOWN", "EXECUTING", "COMPLETED", "NO_LEDGER"}
        PROVE  Reached(o)
    <2> DEFINE l == rows[o][Len(rows[o])]
    <2>1. rows[o] # <<>> /\ FinalState(o) = FinalStateOf(l)
      BY <1>1 DEF FinalState
    <2>2. l \in Requests /\ OpOf[l] = o /\ result[l] # "NONE"
      BY <2>1, LastIsRecorded DEF Recorded, RequestsOf
    <2>3. result[l] \in Answered \cup {"NONE", "CLIENT_TIMEOUT", "HTTP_ERROR"}
      BY <2>2 DEF SentInv
    <2> HIDE DEF l
    <2>4. result[l] \in {"OK", "IN_PROGRESS", "CRASH_SIMULATED", "UNKNOWN"}
      BY <1>1, <2>1, <2>2, <2>3 DEF FinalStateOf, Answered
    <2>5. reply[l].status = result[l]
      BY <2>2, <2>4 DEF SentInv, Answered
    <2>6. \E q \in LoggedCalls : OpOf[q] = o
      <3>1. CASE result[l] = "OK"
        BY <2>2, <2>5, <3>1 DEF TruthInv, AnswersAreTrue, EffectsOf, CallsLogged
      <3>2. CASE result[l] # "OK"
        <4>1. ledger[o].state # Absent
          BY <2>2, <2>4, <2>5, <3>2 DEF BegunInv, Begun, RowOf
        <4> QED
          BY <1>0, <1>1, <4>1, RowMeansCall
      <3> QED
        BY <3>1, <3>2
    <2> QED
      BY <1>0, <1>1, <2>6 DEF Reached
  <1>2. CASE failure \in {"F2", "F7"} /\ ResultStatus(o) = "RETRYABLE_FAILURE"
    BY <1>2 DEF ResultStatus, Reached
  <1>3. CASE failure \in {"F6", "F11"}
    BY <1>3 DEF Reached
  <1>4. CASE failure = "CF4"
    <2>1. Batches = << 1..Fanout, {Fanout + 1} >>
      BY <1>4 DEF Batches
    <2>2. Len(<< 1..Fanout, {Fanout + 1} >>) = 2
      OBVIOUS
    <2>3. step[o] = 3
      BY <1>0, <2>1, <2>2 DEF CountedInv, OperationOver
    <2>4. rows[o] # <<>>
      BY <1>4, <2>3 DEF RowsInv
    <2> QED
      BY <1>4, <2>4 DEF Reached
  <1> QED
    BY <1>1, <1>2, <1>3, <1>4 DEF Injected

\* fault_injected never counts an operation reached_fault_hook does not: for every
\* scenario, every number of attempts and every outcome they have in an
\* undisturbed run, what ended like a fault has a call behind it.
THEOREM InjectionsAreReached == RunSpec => []InjectedWasReached
  <1>1. /\ RunTypeOK /\ SentInv /\ HandlerInv /\ CountedInv /\ TruthInv /\ BegunInv /\ OwnerInv
        /\ DrawInv /\ CallsLogged /\ RowsInv /\ FrozenInv
        => InjectedWasReached
    BY InjectedIsReached DEF InjectedWasReached
  <1> QED
    BY <1>1, RunTypeCorrect, ResultsAreReplies, CountedWhenRead, DrawsAreKept,
       RowsAreAttempts, ReadIsFrozen, RunIsOrchestrated, HandlersWait, TruthInvariant,
       HandlersHaveSeenRows, OwnersCall, EffectsAreLogged, PTL

-----------------------------------------------------------------------------
(* Every run that ends is valid.                                           *)

\* Only F9 has a handler answer EFFECT_CONFIRMED.
PartialInv == \A r \in Requests : reply[r].status = "EFFECT_CONFIRMED" => scenario[r] = "F9"

\* Every step keeps EFFECT_CONFIRMED to F9.
LEMMA PartialStep ==
    ASSUME TypeOK, PartialInv, [Next]_vars
    PROVE  PartialInv'
  <1>0. UNCHANGED scenario /\ DOMAIN reply = Requests
    BY ScenarioKept DEF TypeOK
  <1>1. ASSUME NEW r \in Requests, PrepareLedger(r) \/ Execute(r) \/ Reconcile(r)
        PROVE  PartialInv'
    <2>1. reply'[r].status = "EFFECT_CONFIRMED" => scenario[r] = "F9" \/ reply'[r] = reply[r]
      <3> USE DEF Answer, Fail, GoTo, TransitionAndAnswer, Reply
      <3>1. CASE PrepareLedger(r)
        BY <1>0, <3>1 DEF PrepareLedger, LedgerReadUnavailable, FindNoRow,
           LedgerWriteUnavailable, OperationIdConflict, ReplayResult, RecoverFinalResult,
           ReportState, EnterUnknown, InsertAndClaim, Claim, RejectClaim, Decides, Arrived
      <3>2. CASE Execute(r)
        BY <1>0, <3>2 DEF Execute, FailBeforeDispatch, RefuseCapability, Dispatch,
           DispatchError, Returned, AnswerUnledgered, LoseResponseAfterEffect, SimulateCrash,
           LoseConfirmation, FinalizeStale, FinalizeLedger, DelayedReply, Inject, ScenarioHook
      <3>3. CASE Reconcile(r)
        BY <1>0, <3>3 DEF Reconcile, CannotReconcile, StartReconciliation, Lookup,
           LookupError, ConfirmReconciled, ReconciledNoEffect, ReconciliationInconclusive
      <3> QED
        BY <1>1, <3>1, <3>2, <3>3
    <2> QED
      BY <1>0, <1>1, <2>1, HandlerLocal DEF PartialInv
  <1>2. CASE UNCHANGED reply
    BY <1>0, <1>2 DEF PartialInv
  <1>3. ASSUME NEW r \in Requests, Serve(r) \/ AnswerLost(r)
        PROVE  UNCHANGED reply
    BY <1>3, ServiceCourse
  <1> QED
    BY <1>1, <1>2, <1>3 DEF Next, LeaseExpires, Crash, Finished, vars

\* EFFECT_CONFIRMED is answered only where F9 was injected.
THEOREM PartialIsInjected == Spec => []PartialInv
  <1>1. Init => PartialInv
    BY DEF Init, PartialInv, NoReply, Reply
  <1>2. TypeOK /\ PartialInv /\ [Next]_vars => PartialInv'
    BY PartialStep
  <1> QED
    BY <1>1, <1>2, TypeCorrect, PTL DEF Spec

LastRow(o) == rows[o][Len(rows[o])]

\* The course of an F9 operation: attempts follow one another, the last row is
\* that of the attempt under way once it is over, and the operation ends with an
\* attempt that was answered for good or with the last one it may make.
CourseOf(o) ==
    /\ \A r \in Recorded(o) : r[2] <= step[o]
    /\ step[o] \in 1..MaxAttempts /\ result[<<o, step[o]>>] # "NONE" =>
          rows[o] # <<>> /\ LastRow(o) = <<o, step[o]>>
    /\ step[o] = MaxAttempts + 1 /\ rows[o] # <<>> =>
          result[LastRow(o)] \in {"OK", "FAILED_FINAL"} \/ LastRow(o) = <<o, MaxAttempts>>

CourseInv == failure = "F9" => \A o \in Ops : CourseOf(o)

\* An F9 operation has MaxAttempts batches of one attempt each.
LEMMA BatchesOfF9 ==
    ASSUME failure = "F9"
    PROVE  /\ Loops
           /\ Batches = [n \in 1..MaxAttempts |-> {n}]
           /\ Len(Batches) = MaxAttempts
           /\ \A o \in Ops : step[o] \in 1..MaxAttempts => Batch(o) = {<<o, step[o]>>}
           /\ \A o \in Ops : step[o] \notin 1..MaxAttempts => Batch(o) = {}
  <1>1. Batches = [n \in 1..MaxAttempts |-> {n}]
    BY DEF Batches
  <1>2. Loops
    BY DEF Loops
  <1> QED
    BY <1>1, <1>2, BatchesFit DEF Batch

\* Every step of a run keeps the course of an F9 operation.
LEMMA CourseStep ==
    ASSUME RunTypeOK, WithinBatches, SentInv, RowsInv, CourseInv, [RunNext]_runVars
    PROVE  CourseInv'
  <1>0. UNCHANGED failure
    BY DEF RunNext, RunnerStep, Proceed, LoseBeforeGateway, ReceiveReply,
       ReceiveGatewayError, ClientTimeout, Record, ReadEffects, ReadServiceEvents, Handled,
       Environment, RunFinished, runVars, runnerVars
  <1> SUFFICES ASSUME failure = "F9", NEW o \in Ops
               PROVE  CourseOf(o)'
    BY <1>0 DEF CourseInv
  <1>1. /\ CourseOf(o) /\ step[o] \in 0..(MaxAttempts + 1) /\ MaxAttempts \in Nat \ {0}
        /\ MaxAttempts <= Highest /\ Highest \in Nat
    BY BatchesOfF9, BatchesFit, HighestType, RunnerAssumption DEF CourseInv, WithinBatches
  <1>2. \A r \in Recorded(o) : r[2] \in Nat /\ r[2] > 0 /\ r = <<o, r[2]>>
    BY AttemptsArePairs, HighestType DEF Recorded, RequestsOf
  <1>3. ASSUME Proceed(o)
        PROVE  CourseOf(o)'
    <2>1. /\ step[o] # MaxAttempts + 1 /\ BatchOver(o)
          /\ step'[o] = IF ~LoopBreaks(o) THEN step[o] + 1 ELSE MaxAttempts + 1
          /\ UNCHANGED <<result, rows>>
      BY <1>3, BatchesOfF9 DEF Proceed, OperationOver, RunTypeOK
    <2>2. Recorded(o)' = Recorded(o) /\ LastRow(o)' = LastRow(o)
      BY <2>1 DEF Recorded, RequestsOf, LastRow
    <2>3. step[o] \in 1..MaxAttempts => result[<<o, step[o]>>] # "NONE"
      BY <2>1, BatchesOfF9 DEF BatchOver
    <2>4. CASE ~LoopBreaks(o)
      <3>1. step'[o] = step[o] + 1
        BY <2>1, <2>4
      <3>2. step'[o] \in 1..MaxAttempts => result[<<o, step'[o]>>] = "NONE"
        <4> SUFFICES ASSUME step'[o] \in 1..MaxAttempts, result[<<o, step'[o]>>] # "NONE"
                     PROVE  FALSE
          OBVIOUS
        <4>1. <<o, step'[o]>> \in Requests /\ OpOf[<<o, step'[o]>>] = o
          <5>1. step'[o] \in 1..Highest
            BY <1>1
          <5> QED
            BY <5>1, AttemptsArePairs
        <4>2. <<o, step'[o]>> \in Recorded(o)
          BY <4>1 DEF Recorded, RequestsOf
        <4>3. <<o, step'[o]>>[2] <= step[o]
          BY <1>1, <4>2 DEF CourseOf
        <4> QED
          BY <1>1, <3>1, <4>3
      <3>3. step'[o] = MaxAttempts + 1 /\ rows[o] # <<>> => LastRow(o) = <<o, MaxAttempts>>
        BY <1>1, <2>3, <3>1 DEF CourseOf
      <3>4. \A r \in Recorded(o) : r[2] <= step'[o]
        BY <1>1, <1>2, <3>1 DEF CourseOf
      <3> QED
        BY <2>1, <2>2, <3>2, <3>3, <3>4 DEF CourseOf
    <2>5. CASE LoopBreaks(o)
      <3>1. /\ step[o] \in 1..MaxAttempts /\ result[<<o, step[o]>>] \in {"OK", "FAILED_FINAL"}
            /\ step'[o] = MaxAttempts + 1
        BY <2>1, <2>5 DEF LoopBreaks
      <3>2. LastRow(o) = <<o, step[o]>>
        BY <1>1, <2>3, <3>1 DEF CourseOf
      <3>3. \A r \in Recorded(o) : r[2] <= step'[o]
        BY <1>1, <1>2, <3>1 DEF CourseOf
      <3>4. step'[o] \notin 1..MaxAttempts
        BY <1>1, <3>1
      <3> QED
        BY <2>1, <2>2, <3>1, <3>2, <3>3, <3>4 DEF CourseOf
    <2> QED
      BY <2>4, <2>5
  <1>4. ASSUME NEW r \in Requests, NEW s, Record(r, s), s # "NONE"
        PROVE  CourseOf(o)'
    <2>1. /\ r[1] \in Ops /\ OpOf[r] = r[1] /\ r = <<r[1], r[2]>>
          /\ result[r] = "NONE" /\ result'[r] = s
          /\ \A q \in Requests \ {r} : result'[q] = result[q]
          /\ rows' = [rows EXCEPT ![r[1]] = Append(rows[r[1]], r)]
          /\ UNCHANGED step
      BY <1>4, AttemptsArePairs DEF Record, RunTypeOK
    <2>2. r \in Batch(r[1])
      BY <1>4 DEF Record, Sent
    <2>3. r = <<r[1], step[r[1]]>> /\ step[r[1]] \in 1..MaxAttempts
      BY <2>1, <2>2, BatchesOfF9
    <2>4. CASE o = r[1]
      <3>1. rows'[o] = Append(rows[o], r) /\ rows[o] \in Seq(Requests)
        BY <2>1, <2>4 DEF RunTypeOK
      <3>2. rows'[o] # <<>> /\ LastRow(o)' = r
        BY <3>1 DEF LastRow
      <3>3. Recorded(o)' \subseteq Recorded(o) \cup {r}
        BY <2>1, <2>4 DEF Recorded, RequestsOf
      <3>4. r[2] = step[o]
        BY <2>3, <2>4
      <3>5. \A q \in Recorded(o)' : q[2] <= step[o]
        BY <1>1, <3>3, <3>4 DEF CourseOf
      <3>6. step[o] # MaxAttempts + 1
        BY <1>1, <2>3, <2>4
      <3> QED
        BY <2>1, <2>3, <2>4, <3>2, <3>5, <3>6 DEF CourseOf
    <2>5. CASE o # r[1]
      <3>1. rows'[o] = rows[o] /\ LastRow(o)' = LastRow(o)
        BY <2>1, <2>5 DEF RunTypeOK, LastRow
      <3>2. Recorded(o)' = Recorded(o)
        BY <2>1, <2>5 DEF Recorded, RequestsOf
      <3>3. ASSUME rows[o] # <<>>
            PROVE  result'[LastRow(o)] = result[LastRow(o)]
        <4>1. LastRow(o) \in Recorded(o)
          BY <3>3, LastIsRecorded DEF LastRow
        <4> QED
          BY <2>1, <2>5, <4>1 DEF Recorded, RequestsOf
      <3>4. result'[<<o, step[o]>>] # "NONE" /\ step[o] \in 1..MaxAttempts
            => result[<<o, step[o]>>] # "NONE"
        <4>1. ASSUME step[o] \in 1..MaxAttempts
              PROVE  <<o, step[o]>> \in Requests /\ <<o, step[o]>> # r
          <5>1. step[o] \in 1..Highest
            BY <1>1, <4>1
          <5> QED
            BY <2>1, <2>5, <5>1, AttemptsArePairs
        <4> QED
          BY <2>1, <4>1
      <3> QED
        BY <1>1, <2>1, <3>1, <3>2, <3>3, <3>4 DEF CourseOf
    <2> QED
      BY <2>4, <2>5
  <1>5. ASSUME UNCHANGED <<result, rows>>, step'[o] = step[o]
        PROVE  CourseOf(o)'
    BY <1>1, <1>5 DEF CourseOf, Recorded, RequestsOf, LastRow
  <1>6. ASSUME NEW p \in Ops, Proceed(p) \/ LoseBeforeGateway(p)
        PROVE  CourseOf(o)'
    <2>1. Proceed(p) /\ UNCHANGED <<result, rows>>
      BY <1>6 DEF Proceed, LoseBeforeGateway
    <2>2. p # o => step'[o] = step[o]
      BY <2>1 DEF Proceed, RunTypeOK
    <2> QED
      BY <1>3, <1>5, <2>1, <2>2
  <1>7. ASSUME NEW r \in Requests,
               ReceiveReply(r) \/ ReceiveGatewayError(r) \/ ClientTimeout(r)
        PROVE  CourseOf(o)'
    <2>1. PICK s : Record(r, s) /\ s # "NONE"
      BY <1>7 DEF ReceiveReply, ReceiveGatewayError, ClientTimeout, Answered
    <2> QED
      BY <1>4, <2>1
  <1> QED
    BY <1>5, <1>6, <1>7
    DEF RunNext, RunnerStep, ReadEffects, ReadServiceEvents, Handled, Environment,
        RunFinished, runVars, runnerVars

\* No strategy gets beyond its batches, and an F9 operation keeps its course.
THEOREM CoursesAreKept == RunSpec => [](WithinBatches /\ CourseInv)
  <1>1. RunInit => WithinBatches /\ CourseInv
    <2> SUFFICES ASSUME RunInit
                 PROVE  WithinBatches /\ CourseInv
      OBVIOUS
    <2>1. 0 \in 0..(Len(Batches) + 1)
      BY BatchesFit
    <2>2. WithinBatches
      BY <2>1 DEF RunInit, WithinBatches
    <2>3. ASSUME NEW o \in Ops
          PROVE  Recorded(o) = {} /\ step[o] = 0 /\ rows[o] = <<>>
      BY DEF RunInit, Recorded, RequestsOf
    <2>4. 0 \notin 1..MaxAttempts /\ 0 # MaxAttempts + 1
      BY RunnerAssumption
    <2> QED
      BY <2>2, <2>3, <2>4 DEF CourseInv, CourseOf
  <1>2. /\ RunTypeOK /\ SentInv /\ RowsInv /\ WithinBatches /\ CourseInv /\ [RunNext]_runVars
        => (WithinBatches /\ CourseInv)'
    BY CourseStep, RunStepType
  <1> QED
    BY <1>1, <1>2, RunTypeCorrect, ResultsAreReplies, RowsAreAttempts, PTL DEF RunSpec

\* A run that ends is one phase 6 takes as valid: an operation is left with an
\* effect that is only confirmed when F9 hit it and no attempt was left to
\* recover it, whatever happened to the attempts before.
THEOREM RunsValidate == RunSpec => []RunValidates
  <1>1. /\ RunTypeOK /\ SentInv /\ RowsInv /\ CountedInv /\ DrawInv /\ PartialInv /\ CourseInv
        => RunValidates
    <2> SUFFICES ASSUME RunTypeOK, SentInv, RowsInv, CountedInv, DrawInv, PartialInv,
                        CourseInv, reported, NEW o \in Ops, ~ValidFinalState(o)
                 PROVE  failure = "F9" /\ result[<<o, MaxAttempts>>] = "EFFECT_CONFIRMED"
      BY DEF RunValidates
    <2> DEFINE l == LastRow(o)
    <2>1. rows[o] # <<>> /\ FinalState(o) = FinalStateOf(l)
      BY DEF ValidFinalState, FinalState, LastRow
    <2>2. l \in Requests /\ OpOf[l] = o /\ result[l] # "NONE"
      BY <2>1, LastIsRecorded DEF LastRow, Recorded, RequestsOf
    <2>3. result[l] \in Answered \cup {"NONE", "CLIENT_TIMEOUT", "HTTP_ERROR"}
      BY <2>2 DEF SentInv
    <2> HIDE DEF l
    <2>4. result[l] = "EFFECT_CONFIRMED"
      <3>1. FinalStateOf(l) \notin { "COMPLETED", "UNKNOWN", "FAILED_FINAL", "EXECUTING", "",
                       "RETRYABLE_FAILURE", "NO_LEDGER", "NO_ATTEMPT", "SERVICE_DEDUPED" }
        BY <2>1 DEF ValidFinalState
      <3>2. CASE result[l] = "OK"
        <4>1. Variant \in {"V0", "V1", "V2", "V3", "V4", "V5"}
          BY ConfigAssumption DEF RunTypeOK, TypeOK, Configuration, Variant
        <4> QED
          BY <3>1, <3>2, <4>1 DEF FinalStateOf, LedgerBacked
      <3>3. CASE result[l] # "OK"
        BY <2>2, <2>3, <3>1, <3>3 DEF FinalStateOf, Answered
      <3> QED
        BY <3>2, <3>3
    <2>5. scenario[l] = "F9"
      BY <2>2, <2>4 DEF SentInv, Answered, PartialInv
    <2>6. failure = "F9"
      BY <2>2, <2>5 DEF DrawInv, ScenarioOf, FirstScenario
    <2>7. step[o] = MaxAttempts + 1
      BY <2>6, BatchesOfF9 DEF CountedInv, OperationOver, reported
    <2>8. LastRow(o) = <<o, MaxAttempts>>
      BY <2>1, <2>4, <2>6, <2>7 DEF CourseInv, CourseOf, l
    <2> QED
      BY <2>4, <2>6, <2>8 DEF l
  <1> QED
    BY <1>1, RunTypeCorrect, ResultsAreReplies, RowsAreAttempts, CountedWhenRead,
       DrawsAreKept, CoursesAreKept, RunIsOrchestrated, PartialIsInjected, PTL

-----------------------------------------------------------------------------
(* The state a run reports is the ledger's.                                *)

\* The state of the ledger a reply stands for.
Told(status) ==
    CASE status = "OK" -> "COMPLETED"
      [] status \in {"IN_PROGRESS", "CRASH_SIMULATED"} -> "EXECUTING"
      [] OTHER -> status

\* What a handler knows of its operation's row where nobody else is handled.
KnowsRow(r) ==
    /\ pc[r] \in {"proceed", "waiting"} => RowOf(r).state = "EXECUTING"
    /\ pc[r] = "reconcile" => RowOf(r).state = "UNKNOWN"
    /\ pc[r] \in {"lookup", "found", "absent", "inconclusive"} => RowOf(r).state = "RECONCILING"
    /\ pc[r] \in {"delayed", "done"} /\ reply[r].status \in Answered =>
          RowOf(r).state = Told(reply[r].status)

\* Alone, a handler knows the row from its first decision to its reply.
LEMMA RowIsKnown ==
    ASSUME TypeOK, RestInv, LedgerBacked, NEW r \in Requests, KnowsRow(r),
           PrepareLedger(r) \/ Execute(r) \/ Reconcile(r)
    PROVE  KnowsRow(r)'
  <1>0. /\ OpOf[r] \in Ops /\ RowOf(r) \in Row /\ SeenRow(r) \in Row
        /\ DOMAIN ledger = Ops /\ DOMAIN pc = Requests /\ DOMAIN reply = Requests
    BY SeenRowType DEF TypeOK
  <1>1. ASSUME NEW row, SetRow(r, row)
        PROVE  RowOf(r)' = row
    BY <1>0, <1>1 DEF SetRow, RowOf
  <1>2. ASSUME UNCHANGED ledger
        PROVE  RowOf(r)' = RowOf(r)
    BY <1>2 DEF RowOf
  <1>3. ASSUME NEW status, NEW e, NEW b, Answer(r, status, e, b),
               status \in Answered => RowOf(r)'.state = Told(status)
        PROVE  KnowsRow(r)'
    <2>1. pc'[r] = "done" /\ reply'[r].status = status
      BY <1>0, <1>3 DEF Answer, Reply
    <2> QED
      BY <1>3, <2>1 DEF KnowsRow
  <1>4. ASSUME NEW phase, GoTo(r, phase), phase \notin {"delayed", "done"},
               phase \in {"proceed", "waiting"} => RowOf(r)'.state = "EXECUTING",
               phase = "reconcile" => RowOf(r)'.state = "UNKNOWN",
               phase \in {"lookup", "found", "absent", "inconclusive"} =>
                  RowOf(r)'.state = "RECONCILING"
        PROVE  KnowsRow(r)'
    <2>1. pc'[r] = phase
      BY <1>0, <1>4 DEF GoTo
    <2> QED
      BY <1>4, <2>1 DEF KnowsRow
  <1>5. ASSUME NEW status, Fail(r, status), status \notin Answered
        PROVE  KnowsRow(r)'
    BY <1>3, <1>5 DEF Fail
  <1>6. ASSUME NEW before, NEW status, NEW e,
               TransitionAndAnswer(r, before, status, status, e),
               status \in {"RETRYABLE_FAILURE", "UNKNOWN"}
        PROVE  KnowsRow(r)'
    <2>1. CASE SetRow(r, [RowOf(r) EXCEPT !.state = status]) /\ Answer(r, status, e, FALSE)
      <3>1. RowOf(r)'.state = status
        BY <1>0, <1>1, <2>1 DEF Row
      <3>2. Told(status) = status
        BY <1>6 DEF Told
      <3> QED
        BY <1>3, <2>1, <3>1, <3>2
    <2>2. CASE Fail(r, "ILLEGAL_OR_STALE_LEDGER_TRANSITION")
      BY <1>5, <2>2 DEF Answered
    <2> QED
      BY <1>6, <2>1, <2>2 DEF TransitionAndAnswer
  <1>7. /\ Told("OK") = "COMPLETED" /\ Told("IN_PROGRESS") = "EXECUTING"
        /\ Told("CRASH_SIMULATED") = "EXECUTING" /\ Told("UNKNOWN") = "UNKNOWN"
        /\ Told("EFFECT_CONFIRMED") = "EFFECT_CONFIRMED"
    BY DEF Told
  <1>8. CASE PrepareLedger(r)
    <2>1. CASE LedgerReadUnavailable(r) \/ LedgerWriteUnavailable(r) \/ OperationIdConflict(r)
               \/ RejectClaim(r)
      BY <1>5, <2>1 DEF LedgerReadUnavailable, LedgerWriteUnavailable, OperationIdConflict,
         RejectClaim, Answered
    <2>2. CASE FindNoRow(r)
      BY <1>4, <2>2 DEF FindNoRow
    <2>3. CASE ReplayResult(r)
      <3>1. RowOf(r).state = "COMPLETED"
        BY <2>3, SeenRowFields DEF ReplayResult
      <3> QED
        BY <1>2, <1>3, <1>7, <2>3, <3>1 DEF ReplayResult
    <2>4. CASE RecoverFinalResult(r)
      <3>1. [SeenRow(r) EXCEPT !.state = "COMPLETED"].state = "COMPLETED"
        BY <1>0 DEF Row
      <3> QED
        BY <1>1, <1>3, <1>7, <2>4, <3>1 DEF RecoverFinalResult
    <2>5. CASE ReportState(r)
      <3>1. RowOf(r).state \notin {"CLAIMED", "FAILED_FINAL"}
        BY <1>0 DEF RestInv, RowOf
      <3>2. RowOf(r).state = "EXECUTING" /\ SeenRow(r).state = "EXECUTING"
        BY <2>5, <3>1, SeenRowFields DEF ReportState
      <3>3. Answer(r, "IN_PROGRESS", SeenRow(r).effect, FALSE) /\ UNCHANGED ledger
        BY <2>5, <3>2 DEF ReportState
      <3> QED
        BY <1>2, <1>3, <1>7, <3>2, <3>3
    <2>6. CASE EnterUnknown(r)
      <3>1. RowOf(r)'.state = "UNKNOWN"
        BY <1>1, <2>6 DEF EnterUnknown
      <3>2. GoTo(r, "reconcile") \/ Answer(r, "UNKNOWN", SeenRow(r).effect, FALSE)
        BY <2>6 DEF EnterUnknown
      <3> QED
        BY <1>3, <1>4, <1>7, <3>1, <3>2
    <2>7. CASE InsertAndClaim(r) \/ Claim(r)
      <3>1. PICK row \in Row : SetRow(r, Claimed(r, row)) /\ GoTo(r, "proceed")
        BY <1>0, <2>7 DEF InsertAndClaim, Claim, NoRow, Row, RequestHash, EffectRef, Absent
      <3>2. Claimed(r, row).state = "EXECUTING"
        BY DEF Claimed, Row
      <3> QED
        BY <1>1, <1>4, <3>1, <3>2
    <2> QED
      BY <1>8, <2>1, <2>2, <2>3, <2>4, <2>5, <2>6, <2>7 DEF PrepareLedger
  <1>9. CASE Execute(r)
    <2>1. CASE FailBeforeDispatch(r)
      BY <1>6, <2>1 DEF FailBeforeDispatch
    <2>2. CASE RefuseCapability(r) \/ DispatchError(r) \/ LoseResponseAfterEffect(r)
               \/ FinalizeStale(r)
      BY <1>5, <2>2 DEF RefuseCapability, DispatchError, LoseResponseAfterEffect,
         FinalizeStale, Answered
    <2>3. CASE Dispatch(r)
      <3>1. pc[r] = "proceed" /\ GoTo(r, "waiting") /\ UNCHANGED ledger
        BY <2>3 DEF Dispatch, Unprotected
      <3> QED
        BY <1>2, <1>4, <3>1 DEF KnowsRow
    <2>4. CASE SimulateCrash(r)
      BY <1>2, <1>3, <1>7, <2>4 DEF SimulateCrash, Returned, KnowsRow
    <2>5. CASE LoseConfirmation(r)
      BY <1>6, <2>5 DEF LoseConfirmation
    <2>6. CASE FinalizeLedger(r)
      <3>1. PICK s \in {"EFFECT_CONFIRMED", "OK"} :
              /\ SetRow(r, [RowOf(r) EXCEPT !.state = Told(s), !.effect = call[r].effect])
              /\ reply' = [reply EXCEPT ![r] = Reply(s, call[r].effect, FALSE)]
              /\ pc'[r] \in {"delayed", "done"}
        BY <1>0, <1>7, <2>6 DEF FinalizeLedger
      <3>2. RowOf(r)'.state = Told(s)
        BY <1>0, <1>1, <3>1 DEF Row
      <3>3. reply'[r].status = s
        BY <1>0, <3>1 DEF Reply
      <3> QED
        BY <3>1, <3>2, <3>3 DEF KnowsRow
    <2>7. CASE DelayedReply(r)
      <3>1. pc[r] = "delayed" /\ pc'[r] = "done" /\ reply' = reply /\ RowOf(r)' = RowOf(r)
        BY <1>0, <1>2, <2>7 DEF DelayedReply, GoTo
      <3> QED
        BY <3>1 DEF KnowsRow
    <2>8. ~AnswerUnledgered(r)
      BY DEF AnswerUnledgered
    <2> QED
      BY <1>9, <2>1, <2>2, <2>3, <2>4, <2>5, <2>6, <2>7, <2>8 DEF Execute
  <1>10. CASE Reconcile(r)
    <2>1. CASE CannotReconcile(r)
      BY <1>2, <1>3, <1>7, <2>1 DEF CannotReconcile, KnowsRow
    <2>2. CASE StartReconciliation(r)
      <3>1. [RowOf(r) EXCEPT !.state = "RECONCILING"].state = "RECONCILING"
        BY <1>0 DEF Row
      <3> QED
        BY <1>1, <1>4, <1>5, <2>2, <3>1 DEF StartReconciliation, Answered
    <2>3. CASE Lookup(r) \/ LookupError(r)
      <3>1. /\ pc[r] = "lookup" /\ UNCHANGED ledger
            /\ GoTo(r, "absent") \/ GoTo(r, "found") \/ GoTo(r, "inconclusive")
        BY <2>3 DEF Lookup, LookupError
      <3> QED
        BY <1>2, <1>4, <3>1 DEF KnowsRow
    <2>4. CASE ConfirmReconciled(r)
      <3>1. [RowOf(r) EXCEPT !.state = "COMPLETED", !.effect = Registered(OpOf[r])].state
              = "COMPLETED"
        BY <1>0 DEF Row
      <3>2. CASE SetRow(r, [RowOf(r) EXCEPT !.state = "COMPLETED",
                                            !.effect = Registered(OpOf[r])])
                 /\ Answer(r, "OK", Registered(OpOf[r]), TRUE)
        BY <1>1, <1>3, <1>7, <3>1, <3>2
      <3>3. CASE GoTo(r, "inconclusive") /\ UNCHANGED ledger
        BY <1>2, <1>4, <2>4, <3>3 DEF ConfirmReconciled, KnowsRow
      <3> QED
        BY <2>4, <3>2, <3>3 DEF ConfirmReconciled
    <2>5. CASE ReconciledNoEffect(r) \/ ReconciliationInconclusive(r)
      BY <1>6, <2>5 DEF ReconciledNoEffect, ReconciliationInconclusive
    <2> QED
      BY <1>10, <2>1, <2>2, <2>3, <2>4, <2>5 DEF Reconcile
  <1> QED
    BY <1>8, <1>9, <1>10

\* The runner waits for attempt r.
Waited(r) == r \in Batch(r[1]) /\ result[r] = "NONE"

GivenUp(o) == \E r \in RequestsOf(o) : result[r] = "CLIENT_TIMEOUT"

\* Where attempts follow one another, only the one that is waited for is handled
\* and it knows the row; between two attempts the last reply tells the row.
LoopOf(o) ==
    /\ \A r \in RequestsOf(o) : pc[r] \notin {"idle", "done", "lost"} => Waited(r)
    /\ \A r \in RequestsOf(o) : Waited(r) => KnowsRow(r)
    /\ (\A r \in RequestsOf(o) : ~Waited(r)) =>
          FinalState(o) \in {"NO_ATTEMPT", "", ledger[o].state}

LoopInv == LedgerBacked /\ Loops => \A o \in Ops : GivenUp(o) \/ LoopOf(o)

\* A loop waits for one attempt at a time.
LEMMA OneIsWaited ==
    ASSUME Loops, NEW r \in Requests, NEW q \in Requests, OpOf[r] = OpOf[q],
           Waited(r), Waited(q)
    PROVE  r = q
  <1>1. r[1] = q[1] /\ r \in Batch(r[1]) /\ q \in Batch(r[1])
    BY AttemptsArePairs DEF Waited
  <1>2. step[r[1]] \in DOMAIN Batches
    BY <1>1 DEF Batch
  <1>3. Batches[step[r[1]]] = {step[r[1]]}
    BY <1>2, BatchesBegin
  <1>4. Batch(r[1]) = {<<r[1], step[r[1]]>>}
    BY <1>2, <1>3 DEF Batch
  <1> QED
    BY <1>1, <1>4

\* The attempts of an operation, its step, its rows and the state of its row are
\* all the invariant looks at.
LEMMA LoopKept ==
    ASSUME RunTypeOK, RowsInv, NEW o \in Ops, LoopOf(o), UNCHANGED <<config, failure>>,
           step'[o] = step[o], rows'[o] = rows[o], ledger'[o].state = ledger[o].state,
           \A r \in RequestsOf(o) :
              pc'[r] = pc[r] /\ reply'[r] = reply[r] /\ result'[r] = result[r]
    PROVE  LoopOf(o)'
  <1>1. Batch(o)' = Batch(o)
    BY DEF Batch, Batches
  <1>2. \A r \in RequestsOf(o) : r \in Requests /\ r[1] = o /\ OpOf[r] = o
    BY AttemptsArePairs DEF RequestsOf
  <1>3. \A r \in RequestsOf(o) : Waited(r)' = Waited(r)
    BY <1>1, <1>2 DEF Waited
  <1>4. \A r \in RequestsOf(o) : KnowsRow(r)' = KnowsRow(r)
    BY <1>2 DEF KnowsRow, RowOf
  <1>5. FinalState(o)' = FinalState(o)
    <2>1. CASE rows[o] = <<>>
      BY <2>1 DEF FinalState
    <2>2. CASE rows[o] # <<>>
      <3> DEFINE l == rows[o][Len(rows[o])]
      <3>1. l \in RequestsOf(o)
        BY <2>2, LastIsRecorded DEF Recorded
      <3>2. result'[l] = result[l] /\ LedgerBacked' = LedgerBacked /\ Variant' = Variant
        BY <3>1, SameConfiguration
      <3> HIDE DEF l
      <3>3. FinalStateOf(l)' = FinalStateOf(l)
        BY <3>2 DEF FinalStateOf, l
      <3>4. FinalState(o) = FinalStateOf(l) /\ FinalState(o)' = FinalStateOf(l)'
        BY <2>2 DEF FinalState, l
      <3> QED
        BY <3>3, <3>4
    <2> QED
      BY <2>1, <2>2
  <1>6. RequestsOf(o)' = RequestsOf(o)
    BY DEF RequestsOf
  <1> QED
    BY <1>2, <1>3, <1>4, <1>5, <1>6 DEF LoopOf

\* A handled attempt is the one that is waited for.
LEMMA HandledIsWaited ==
    ASSUME RunTypeOK, SentInv, NEW r \in Requests, Sent(r), LedgerBacked,
           PrepareLedger(r) \/ Execute(r) \/ Reconcile(r),
           ~GivenUp(OpOf[r]), LoopOf(OpOf[r])
    PROVE  Waited(r)
  <1>1. r \in RequestsOf(OpOf[r])
    BY DEF RequestsOf
  <1>2. pc[r] \notin {"done", "lost"}
    BY HandlerCourse, HandlerLocal DEF RunTypeOK, Course, Dispatch, Unprotected
  <1>3. CASE pc[r] = "idle"
    <2>1. result[r] \notin Answered \cup {"HTTP_ERROR", "CLIENT_TIMEOUT"}
      BY <1>1, <1>3 DEF SentInv, GivenUp
    <2> QED
      BY <2>1 DEF SentInv, Sent, Waited
  <1>4. CASE pc[r] # "idle"
    BY <1>1, <1>2, <1>4 DEF LoopOf
  <1> QED
    BY <1>3, <1>4

\* A step of a handler keeps the invariant of its operation.
LEMMA HandlerKeepsLoop ==
    ASSUME RunTypeOK, SentInv, RestInv, NEW r \in Requests, Sent(r), LedgerBacked, Loops,
           PrepareLedger(r) \/ Execute(r) \/ Reconcile(r), UNCHANGED <<config, runnerVars>>,
           NEW o \in Ops, OpOf[r] = o, ~GivenUp(o), LoopOf(o)
    PROVE  LoopOf(o)'
  <1>1. Waited(r) /\ r \in RequestsOf(o)
    BY HandledIsWaited DEF RequestsOf
  <1>2. \A q \in Requests \ {r} : pc'[q] = pc[q] /\ reply'[q] = reply[q]
    BY HandlerLocal DEF RunTypeOK
  <1>3. \A q \in Requests : Waited(q)' = Waited(q)
    BY DEF Waited, Batch, Batches, runnerVars
  <1>4. KnowsRow(r)'
    BY <1>1, RowIsKnown DEF LoopOf, RunTypeOK
  <1>5. RequestsOf(o)' = RequestsOf(o) /\ RequestsOf(o) \subseteq Requests
    BY DEF RequestsOf
  <1>6. ASSUME NEW q \in RequestsOf(o), Waited(q)
        PROVE  q = r
    BY <1>1, <1>6, OneIsWaited DEF RequestsOf
  <1>7. ASSUME NEW q \in RequestsOf(o), pc'[q] \notin {"idle", "done", "lost"}
        PROVE  Waited(q)'
    <2>1. CASE q = r
      BY <1>1, <1>3, <1>5, <2>1
    <2>2. CASE q # r
      BY <1>2, <1>3, <1>5, <1>7, <2>2 DEF LoopOf
    <2> QED
      BY <2>1, <2>2
  <1>8. \A q \in RequestsOf(o) : Waited(q)' => KnowsRow(q)'
    BY <1>3, <1>4, <1>5, <1>6
  <1>9. Waited(r)'
    BY <1>1, <1>3
  <1> QED
    BY <1>1, <1>5, <1>7, <1>8, <1>9 DEF LoopOf

\* Going on to the next attempt keeps it.
LEMMA ProceedKeepsLoop ==
    ASSUME RunTypeOK, SentInv, RowsInv, NEW o \in Ops, Proceed(o) \/ LoseBeforeGateway(o),
           ~GivenUp(o), LoopOf(o)
    PROVE  LoopOf(o)'
  <1>1. /\ UNCHANGED <<failure, result, rows, vars>>
        /\ \A r \in Batch(o) : result[r] # "NONE"
    <2>1. 0 \notin DOMAIN Batches
      BY BatchesFit
    <2> QED
      BY <2>1 DEF Proceed, LoseBeforeGateway, BatchOver, Batch
  <1>2. \A r \in RequestsOf(o) : r \in Requests /\ r[1] = o /\ OpOf[r] = o
    BY AttemptsArePairs DEF RequestsOf
  <1>3. \A r \in RequestsOf(o) : ~Waited(r)
    BY <1>1, <1>2 DEF Waited
  <1>4. \A r \in RequestsOf(o) : pc[r] \in {"idle", "done", "lost"}
    BY <1>3 DEF LoopOf
  <1>5. \A r \in RequestsOf(o) : result[r] = "NONE" => pc[r] = "idle"
    BY <1>2, <1>3 DEF SentInv, Sent, Waited
  <1>6. FinalState(o)' = FinalState(o)
    BY <1>1 DEF FinalState, FinalStateOf, LedgerBacked, Variant, vars
  <1>7. FinalState(o) \in {"NO_ATTEMPT", "", ledger[o].state}
    BY <1>3 DEF LoopOf
  <1>8. \A r \in RequestsOf(o) : Waited(r)' => KnowsRow(r)'
    BY <1>1, <1>5 DEF Waited, KnowsRow, vars
  <1>9. RequestsOf(o)' = RequestsOf(o)
    BY DEF RequestsOf
  <1> QED
    BY <1>1, <1>4, <1>6, <1>7, <1>8, <1>9 DEF LoopOf, vars

\* The reply of the attempt that was waited for tells the row.
LEMMA RecordKeepsLoop ==
    ASSUME RunTypeOK, LedgerBacked, Loops, NEW r \in Requests, NEW s, Record(r, s),
           \/ pc[r] = "done" /\ s = reply[r].status /\ s \in Answered
           \/ pc[r] \in {"done", "lost"} /\ s = "HTTP_ERROR",
           NEW o \in Ops, OpOf[r] = o, LoopOf(o)
    PROVE  LoopOf(o)'
  <1>1. /\ Waited(r) /\ r \in RequestsOf(o) /\ r[1] = o
        /\ result' = [result EXCEPT ![r] = s]
        /\ rows'[o] = Append(rows[o], r) /\ rows[o] \in Seq(Requests)
        /\ UNCHANGED <<failure, step, vars>>
    BY AttemptsArePairs DEF Record, Sent, Waited, RequestsOf, RunTypeOK
  <1>2. s # "NONE" /\ result'[r] = s /\ \A q \in Requests \ {r} : result'[q] = result[q]
    BY <1>1 DEF RunTypeOK, Answered
  <1>3. ASSUME NEW q \in RequestsOf(o)
        PROVE  ~Waited(q)'
    <2>1. q \in Requests /\ OpOf[q] = o
      BY DEF RequestsOf
    <2>2. CASE q = r
      BY <1>2, <2>2 DEF Waited
    <2>3. CASE q # r
      <3>1. ~Waited(q)
        BY <1>1, <2>1, <2>3, OneIsWaited
      <3>2. Waited(q)' = Waited(q)
        BY <1>1, <1>2, <2>1, <2>3 DEF Waited, Batch, Batches
      <3> QED
        BY <3>1, <3>2
    <2> QED
      BY <2>2, <2>3
  <1>4. ASSUME NEW q \in RequestsOf(o)
        PROVE  pc'[q] \in {"idle", "done", "lost"}
    <2>1. q \in Requests /\ OpOf[q] = o
      BY DEF RequestsOf
    <2>2. pc[q] \in {"idle", "done", "lost"}
      <3>1. CASE q = r
        BY <3>1
      <3>2. CASE q # r
        <4>1. ~Waited(q)
          BY <1>1, <2>1, <3>2, OneIsWaited
        <4> QED
          BY <4>1 DEF LoopOf
      <3> QED
        BY <3>1, <3>2
    <2> QED
      BY <1>1, <2>2 DEF vars
  <1>5. FinalState(o)' = FinalStateOf(r)'
    <2>1. rows'[o] # <<>> /\ rows'[o][Len(rows'[o])] = r
      BY <1>1
    <2> QED
      BY <2>1 DEF FinalState
  <1>6. FinalStateOf(r)' \in {"", ledger[o].state}
    <2>1. LedgerBacked'
      BY <1>1, SameConfiguration DEF vars
    <2>2. CASE s = "HTTP_ERROR"
      BY <1>2, <2>2 DEF FinalStateOf
    <2>3. CASE pc[r] = "done" /\ s = reply[r].status /\ s \in Answered
      <3>1. ledger[o].state = Told(s)
        BY <1>1, <2>3 DEF LoopOf, KnowsRow, RowOf
      <3>2. FinalStateOf(r)' = Told(s)
        <4>1. Variant' \in {"V2", "V4", "V5"}
          BY <2>1 DEF LedgerBacked
        <4>2. CASE s = "OK"
          BY <1>2, <2>1, <4>1, <4>2 DEF FinalStateOf, Told
        <4>3. CASE s \in {"IN_PROGRESS", "CRASH_SIMULATED"}
          BY <1>2, <4>3 DEF FinalStateOf, Told
        <4>4. CASE s \in {"RETRYABLE_FAILURE", "UNKNOWN", "EFFECT_CONFIRMED", "FAILED_FINAL"}
          BY <1>2, <4>4 DEF FinalStateOf, Told
        <4> QED
          BY <2>3, <4>2, <4>3, <4>4 DEF Answered
      <3> QED
        BY <3>1, <3>2
    <2> QED
      BY <2>2, <2>3
  <1>7. RequestsOf(o)' = RequestsOf(o) /\ ledger' = ledger
    BY <1>1 DEF RequestsOf, vars
  <1> QED
    BY <1>3, <1>4, <1>5, <1>6, <1>7 DEF LoopOf

\* What was given up stays given up.
LEMMA GivenUpStays ==
    ASSUME RunTypeOK, [RunNext]_runVars, NEW o \in Ops, GivenUp(o)
    PROVE  GivenUp(o)'
  <1>1. PICK q \in RequestsOf(o) : result[q] = "CLIENT_TIMEOUT"
    BY DEF GivenUp
  <1>2. ASSUME NEW r \in Requests, NEW s, Record(r, s)
        PROVE  result'[q] = result[q]
    BY <1>1, <1>2 DEF Record, RunTypeOK, RequestsOf
  <1>3. result'[q] = result[q]
    BY <1>2
    DEF RunNext, RunnerStep, Proceed, LoseBeforeGateway, ReceiveReply, ReceiveGatewayError,
        ClientTimeout, ReadEffects, ReadServiceEvents, Handled, Environment, RunFinished,
        runVars, runnerVars
  <1> QED
    BY <1>1, <1>3 DEF GivenUp, RequestsOf

\* Every step of a run keeps what is known of the row in a loop.
LEMMA LoopStep ==
    ASSUME RunTypeOK, SentInv, RowsInv, RestInv, LoopInv, [RunNext]_runVars
    PROVE  LoopInv'
  <1>0. UNCHANGED <<config, failure>>
    <2>1. UNCHANGED failure
      BY DEF RunNext, RunnerStep, Proceed, LoseBeforeGateway, ReceiveReply,
         ReceiveGatewayError, ClientTimeout, Record, ReadEffects, ReadServiceEvents, Handled,
         Environment, RunFinished, runVars, runnerVars
    <2> QED
      BY <2>1, RunStep, ConfigurationKept
  <1> SUFFICES ASSUME LedgerBacked, Loops, NEW o \in Ops, ~GivenUp(o)'
               PROVE  LoopOf(o)'
    BY <1>0, SameConfiguration DEF LoopInv, Loops
  <1>1. ~GivenUp(o) /\ LoopOf(o)
    BY GivenUpStays DEF LoopInv
  <1>2. \A q \in RequestsOf(o) : q \in Requests /\ OpOf[q] = o /\ q[1] = o
    BY AttemptsArePairs DEF RequestsOf
  <1>3. ASSUME NEW p \in Ops, Proceed(p) \/ LoseBeforeGateway(p)
        PROVE  LoopOf(o)'
    <2>1. CASE p = o
      BY <1>1, <1>3, <2>1, ProceedKeepsLoop
    <2>2. CASE p # o
      <3>1. step'[o] = step[o] /\ UNCHANGED <<result, rows, vars>>
        BY <1>3, <2>2 DEF Proceed, LoseBeforeGateway, RunTypeOK
      <3> QED
        BY <1>0, <1>1, <3>1, LoopKept DEF vars
    <2> QED
      BY <2>1, <2>2
  <1>4. ASSUME NEW r \in Requests,
               ReceiveReply(r) \/ ReceiveGatewayError(r) \/ ClientTimeout(r)
        PROVE  LoopOf(o)'
    <2>1. PICK s : /\ Record(r, s)
                   /\ \/ pc[r] = "done" /\ s = reply[r].status /\ s \in Answered
                      \/ pc[r] \in {"done", "lost"} /\ s = "HTTP_ERROR"
                      \/ s = "CLIENT_TIMEOUT"
      BY <1>4 DEF ReceiveReply, ReceiveGatewayError, ClientTimeout
    <2>2. CASE OpOf[r] = o
      <3>1. s # "CLIENT_TIMEOUT"
        <4>1. result'[r] = s
          BY <2>1 DEF Record, RunTypeOK
        <4>2. r \in RequestsOf(o)'
          BY <2>2 DEF RequestsOf
        <4> QED
          BY <4>1, <4>2 DEF GivenUp
      <3> QED
        BY <1>1, <2>1, <2>2, <3>1, RecordKeepsLoop
    <2>3. CASE OpOf[r] # o
      <3>1. r \notin RequestsOf(o) /\ r[1] # o
        BY <1>2, <2>3, AttemptsArePairs
      <3>2. /\ rows'[o] = rows[o] /\ \A q \in RequestsOf(o) : result'[q] = result[q]
            /\ UNCHANGED <<step, vars>>
        BY <1>2, <2>1, <3>1 DEF Record, RunTypeOK
      <3> QED
        BY <1>0, <1>1, <3>2, LoopKept DEF vars
    <2> QED
      BY <2>2, <2>3
  <1>5. ASSUME NEW r \in Requests, Handled(r)
        PROVE  LoopOf(o)'
    <2>1. Sent(r) /\ UNCHANGED runnerVars
      BY <1>5 DEF Handled
    <2>2. CASE Serve(r) \/ AnswerLost(r)
      <3>1. UNCHANGED <<pc, reply, ledger>>
        BY <2>2, ServiceCourse DEF RunTypeOK
      <3> QED
        BY <1>0, <1>1, <2>1, <3>1, LoopKept DEF runnerVars
    <2>3. CASE PrepareLedger(r) \/ Execute(r) \/ Reconcile(r)
      <3>1. CASE OpOf[r] = o
        BY <1>0, <1>1, <2>1, <2>3, <3>1, HandlerKeepsLoop
      <3>2. CASE OpOf[r] # o
        <4>1. r \notin RequestsOf(o)
          BY <1>2, <3>2
        <4>2. ledger'[o] = ledger[o]
          BY <2>3, <3>2, OtherRowsStay DEF RunTypeOK
        <4>3. \A q \in RequestsOf(o) : pc'[q] = pc[q] /\ reply'[q] = reply[q]
          BY <1>2, <2>3, <4>1, HandlerLocal DEF RunTypeOK
        <4> QED
          BY <1>0, <1>1, <2>1, <4>2, <4>3, LoopKept DEF runnerVars
      <3> QED
        BY <3>1, <3>2
    <2> QED
      BY <1>5, <2>2, <2>3 DEF Handled
  <1>6. CASE Environment
    <2>1. ASSUME NEW p \in Ops, LeaseExpires(p)
          PROVE  LoopOf(o)'
      <3>1. ledger'[o].state = ledger[o].state
        BY <2>1 DEF LeaseExpires, RunTypeOK, TypeOK, Row
      <3> QED
        BY <1>0, <1>1, <1>6, <2>1, <3>1, LoopKept DEF Environment, LeaseExpires, runnerVars
    <2>2. CASE Crash
      <3>1. /\ UNCHANGED <<config, ledger, reply>> /\ UNCHANGED runnerVars
            /\ \A q \in Requests : pc'[q] = IF pc[q] \in InFlight THEN "lost" ELSE pc[q]
        BY <1>6, <2>2 DEF Crash, Environment
      <3>2. \A q \in Requests : pc'[q] \in {"idle", "done", "lost"}
        BY <3>1 DEF InFlight, RunTypeOK, TypeOK
      <3>3. \A q \in Requests : Waited(q)' = Waited(q)
        BY <3>1 DEF Waited, Batch, Batches, runnerVars
      <3>4. \A q \in Requests : KnowsRow(q) => KnowsRow(q)'
        BY <3>1, <3>2 DEF KnowsRow, RowOf, InFlight
      <3>5. FinalState(o)' = FinalState(o) /\ RequestsOf(o)' = RequestsOf(o)
        BY <3>1 DEF FinalState, FinalStateOf, LedgerBacked, Variant, RequestsOf, runnerVars
      <3> QED
        BY <1>1, <1>2, <3>1, <3>2, <3>3, <3>4, <3>5 DEF LoopOf
    <2> QED
      BY <1>6, <2>1, <2>2 DEF Environment
  <1>7. CASE UNCHANGED <<step, result, rows, vars>>
    BY <1>0, <1>1, <1>7, LoopKept DEF vars
  <1>8. CASE RunnerStep
    BY <1>3, <1>4, <1>7, <1>8 DEF RunnerStep, ReadEffects, ReadServiceEvents
  <1> QED
    BY <1>5, <1>6, <1>7, <1>8 DEF RunNext, RunFinished, runVars, runnerVars

\* In a loop, the attempt that is waited for knows the row, and the last reply
\* tells it.
THEOREM LoopsKnowTheirRow == RunSpec => []LoopInv
  <1>1. RunInit => LoopInv
    <2> SUFFICES ASSUME RunInit, NEW o \in Ops
                 PROVE  LoopOf(o)
      BY DEF LoopInv
    <2>1. Batch(o) = {}
      BY BatchesFit DEF RunInit, Batch
    <2>2. \A r \in RequestsOf(o) : r[1] = o /\ pc[r] = "idle"
      BY AttemptsArePairs DEF RequestsOf, RunInit, Init
    <2>3. FinalState(o) = "NO_ATTEMPT"
      BY DEF RunInit, FinalState
    <2> QED
      BY <2>1, <2>2, <2>3 DEF LoopOf, Waited
  <1>2. /\ RunTypeOK /\ SentInv /\ RowsInv /\ RestInv /\ LoopInv /\ [RunNext]_runVars
        => LoopInv'
    BY LoopStep
  <1> QED
    BY <1>1, <1>2, RunTypeCorrect, ResultsAreReplies, RowsAreAttempts, RunIsOrchestrated,
       RowsRest, PTL DEF RunSpec

\* What the last row says of an operation is what its attempt was told.
LEMMA FinalStateIsTold ==
    ASSUME RunTypeOK, SentInv, RowsInv, HoldsInv, LedgerBacked, NEW o \in Ops
    PROVE  /\ FinalState(o) = "COMPLETED" => ledger[o].state = "COMPLETED"
           /\ FinalState(o) = "UNKNOWN" /\ ~MayRedispatch => ledger[o].state = "UNKNOWN"
  <1>1. CASE rows[o] = <<>>
    BY <1>1 DEF FinalState
  <1>2. CASE rows[o] # <<>>
    <2> DEFINE r == rows[o][Len(rows[o])]
    <2>1. r \in Requests /\ OpOf[r] = o
      BY <1>2, LastIsRecorded DEF Recorded, RequestsOf
    <2>2. FinalState(o) = FinalStateOf(r)
      BY <1>2 DEF FinalState
    <2> HIDE DEF r
    <2>3. ledger[o] = RowOf(r) /\ ReplyHolds(r)
      BY <2>1 DEF RowOf, HoldsInv
    <2>4. result[r] \in Answered => reply[r].status = result[r]
      BY <2>1 DEF SentInv
    <2>5. result[r] \in Answered \cup {"NONE", "CLIENT_TIMEOUT", "HTTP_ERROR"}
      BY <2>1 DEF SentInv
    <2>6. FinalStateOf(r) = "COMPLETED" => result[r] = "OK"
      BY <2>5 DEF FinalStateOf, Answered
    <2>7. FinalStateOf(r) = "UNKNOWN" => result[r] = "UNKNOWN"
      BY <2>5 DEF FinalStateOf, Answered
    <2> QED
      BY <2>2, <2>3, <2>4, <2>6, <2>7 DEF ReplyHolds, Answered
  <1> QED
    BY <1>1, <1>2

\* No operation is reported COMPLETED that is not, nor, where nothing is looked up,
\* UNKNOWN, for every strategy and number of attempts, fan-outs and attempts given
\* up included; and final_state is the state of the ledger for every strategy that
\* sends one attempt after another, as long as none was given up.
THEOREM ReportedStateIsTrue == RunSpec => []FinalStateIsLedgerState
  <1>1. RunTypeOK /\ SentInv /\ RowsInv /\ HoldsInv /\ CountedInv /\ LoopInv
        => FinalStateIsLedgerState
    <2> SUFFICES ASSUME RunTypeOK, SentInv, RowsInv, HoldsInv, CountedInv, LoopInv,
                        reported, LedgerBacked, NEW o \in Ops
                 PROVE  /\ FinalState(o) = "COMPLETED" => ledger[o].state = "COMPLETED"
                        /\ FinalState(o) = "UNKNOWN" /\ ~MayRedispatch =>
                              ledger[o].state = "UNKNOWN"
                        /\ \/ ~Loops \/ GivenUp(o)
                           \/ FinalState(o) \in {"NO_ATTEMPT", "", ledger[o].state}
      BY DEF FinalStateIsLedgerState, GivenUp
    <2>1. ASSUME Loops, ~GivenUp(o)
          PROVE  FinalState(o) \in {"NO_ATTEMPT", "", ledger[o].state}
      <3>1. OperationOver(o) /\ LoopOf(o)
        BY <2>1 DEF reported, CountedInv, LoopInv
      <3>2. Batch(o) = {}
        BY <3>1, BatchesFit DEF OperationOver, Batch
      <3>3. \A r \in RequestsOf(o) : r[1] = o
        BY AttemptsArePairs DEF RequestsOf
      <3> QED
        BY <3>1, <3>2, <3>3 DEF LoopOf, Waited
    <2> QED
      BY <2>1, FinalStateIsTold
  <1> QED
    BY <1>1, RunTypeCorrect, ResultsAreReplies, RowsAreAttempts, CountedWhenRead,
       LoopsKnowTheirRow, RunIsOrchestrated, RepliesTellRows, PTL

=============================================================================
