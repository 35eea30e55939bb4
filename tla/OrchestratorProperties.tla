----------------------- MODULE OrchestratorProperties -----------------------
(***************************************************************************)
(* What the orchestrator and the services promise together, for the        *)
(* variants that promise it.  "Effect" means a row of the observer's       *)
(* table: something that really happened, whatever the ledger says.        *)
(***************************************************************************)
EXTENDS Orchestrator

\* The effects that exist for an operation.
EffectsOf(o) == { e \in effects : OpOf[e] = o }

\* The requests of an operation.
RequestsOf(o) == { r \in Requests : OpOf[r] = o }

\* The handler holds the right to execute and has not given it back.
Executing(r) == pc[r] \in {"proceed", "waiting"} /\ LedgerBacked

\* The handler is between start-reconciliation and its outcome.
Reconciling(r) == pc[r] \in {"lookup", "found", "absent", "inconclusive"}

\* The variant and capability in which an operation may be dispatched again
\* while a call of an earlier claim is still under way.
MayRedispatch == AllowReconcile /\ DownstreamCapability = "C2"

\* The configurations that claim at most one effect: the ledger, or a mapping
\* in the service, or (V3 over C0) a refusal to execute at all.
Protected == LedgerBacked \/ Variant = "V3" \/ DispatchCapability # "C0"

-----------------------------------------------------------------------------
\* Exactly-once, safety half: however requests, retries, lease expiries, lost
\* answers and restarts interleave, an operation has at most one effect.  It
\* rests on the ledger in V2 and V4 over C0, and on the service's primary key
\* where C1 or C2 reaches the service (V1, V3, V4, V5), and there on nothing
\* else: V5 over C2 does dispatch an operation twice.
AtMostOneEffect ==
    Protected => \A e1, e2 \in effects : OpOf[e1] = OpOf[e2] => e1 = e2

\* Every OK names an effect that exists, of the operation asked for: the first
\* answer, a replay from the ledger, a reconciled one and a service replay.
AnswersAreTrue ==
    \A r \in Requests :
        reply[r].status = "OK" => reply[r].effect \in EffectsOf(OpOf[r])

\* At most one request is told OK as the one that executed the operation; all
\* others see "replayed".
OneFreshAnswer ==
    Protected => \A r1, r2 \in Requests :
        /\ OpOf[r1] = OpOf[r2]
        /\ reply[r1].status = "OK" /\ reply[r2].status = "OK"
        /\ ~reply[r1].replayed /\ ~reply[r2].replayed
        => r1 = r2

\* A row says EFFECT_CONFIRMED or COMPLETED only of an effect that exists and
\* is the operation's own: no confirmation runs ahead of the service, and a
\* stale finalize cannot leave a foreign effect_reference behind.
ConfirmedMeansEffect ==
    \A o \in Ops :
        ledger[o].state \in {"EFFECT_CONFIRMED", "COMPLETED"} =>
            ledger[o].effect \in EffectsOf(o)

\* Where nothing reconciles through a lookup, a row that may be claimed is a
\* row no request of the operation has dispatched for: the ledger never offers
\* an operation for execution while an effect of it exists or may yet appear.
NoBlindRetry ==
    LedgerBacked /\ ~MayRedispatch =>
        \A o \in Ops : ledger[o].state \in {Absent, "RECEIVED", "RETRYABLE_FAILURE"} =>
            \A r \in RequestsOf(o) : call[r].phase = "none"

\* The right to execute is exclusive, the "ownership" of architecture.md's V4:
\* one request at a time is between its claim and its confirmation.
ExclusiveOwnership ==
    \A r1, r2 \in Requests :
        OpOf[r1] = OpOf[r2] /\ Executing(r1) /\ Executing(r2) => r1 = r2

\* It is exclusive where nothing reconciles through a lookup: neither an
\* expired lease nor a late result nor a restart lets a second executor in.
OneExecutor == ~MayRedispatch => ExclusiveOwnership

\* A reconciliation is exclusive, and as long as it runs the row stays in
\* RECONCILING: its outcome never finds the row moved by anyone else, so the
\* lookup's answer is always recorded.
OneReconciler ==
    \A r1 \in Requests : Reconciling(r1) =>
        /\ RowOf(r1).state = "RECONCILING"
        /\ \A r2 \in RequestsOf(OpOf[r1]) : Reconciling(r2) => r1 = r2

\* A row is never at rest in RECEIVED or CLAIMED, states nothing but its own
\* transaction would move it out of (only EXECUTING has its lease checked): a
\* restart at any point leaves no operation IN_PROGRESS for good.
NeverRestsUnclaimed ==
    \A o \in Ops : ledger[o].state \notin {"RECEIVED", "CLAIMED"}

\* A claim changes hands only where architecture.md lets it: from no row or
\* from RETRYABLE_FAILURE.  In particular an expired EXECUTING lease and an
\* UNKNOWN outcome are never directly retried.
ClaimsFromRetryableOnly ==
    [][\A o \in Ops : ledger[o].owner' # ledger[o].owner =>
          ledger[o].state \in {Absent, "RETRYABLE_FAILURE"}]_vars

\* COMPLETED is final: no late finalize, confirmation or reconciliation of any
\* request changes the row of a completed operation, its result included.
CompletedIsFinal ==
    [][\A o \in Ops : ledger[o].state = "COMPLETED" => ledger[o]' = ledger[o]]_vars

\* Without a lookup an UNKNOWN outcome stays UNKNOWN (architecture.md: "C0/C1
\* cannot provide reliable lookup, so unresolved ambiguity remains UNKNOWN"),
\* also when the executor whose lease expired comes back with its result.
AmbiguityStays ==
    [][~MayRedispatch =>
          \A o \in Ops : ledger[o].state = "UNKNOWN" => ledger[o].state' = "UNKNOWN"]_vars

\* Every request that is answered OK carries the hash of the operation's row
\* (architecture.md: "Ledger-backed variants reject reuse of an existing
\* operation_id with a different hash").
HashVerified ==
    \A r \in Requests :
        LedgerBacked /\ reply[r].status = "OK" => RowOf(r).hash = HashOf[r]

-----------------------------------------------------------------------------
(* The inductive strengthenings the proofs rest on.                        *)

\* A handler calls the service once and only after its claim; the calls carry
\* the capability of the variant; an effect exists only once its call is over
\* for the service, and a keyed effect is the registered one.
CallInv ==
    /\ \A r \in Requests :
          /\ pc[r] \in {"idle", "inserting", "proceed"} => call[r].phase = "none"
          /\ pc[r] = "waiting" => call[r].phase # "none"
          /\ pc[r] \in {"inserting", "proceed"} => LedgerBacked
          /\ call[r].phase # "none" =>
                /\ call[r].cap = DispatchCapability
                /\ ~(Variant = "V3" /\ DownstreamCapability = "C0")
    /\ \A e \in effects :
          /\ call[e].phase \in {"answered", "failed"}
          /\ Keyed(e) => Registered(OpOf[e]) = e

\* Where nothing reconciles through a lookup, a request that may dispatch, or
\* has, is the owner of its operation's row, and the row is in no state from
\* which it could be claimed again.
ExclusiveClaim ==
    /\ \A r \in Requests :
          /\ ~Reconciling(r)
          /\ pc[r] = "reconcile" => AllowReconcile
          /\ pc[r] = "proceed" =>
                RowOf(r).owner = r /\ RowOf(r).state \in {"EXECUTING", "UNKNOWN"}
          /\ call[r].phase # "none" =>
                /\ RowOf(r).owner = r
                /\ RowOf(r).state \in {"EXECUTING", "UNKNOWN", "EFFECT_CONFIRMED", "COMPLETED"}
    /\ \A o \in Ops :
          ledger[o].state \notin {"RECEIVED", "CLAIMED", "RECONCILING", "FAILED_FINAL"}

ExclusiveClaimIfLedgered == LedgerBacked /\ ~MayRedispatch => ExclusiveClaim

\* What is said of an effect is true wherever it is said: in the answer of a
\* call, in the mapping, in a row, in a reply; and a lookup that found something
\* found what is still there.
TruthInv ==
    /\ \A r \in Requests :
          /\ call[r].phase = "answered" => call[r].effect \in EffectsOf(OpOf[r])
          /\ pc[r] = "found" => Registered(OpOf[r]) # NoEffect
    /\ \A o \in Ops : Registered(o) # NoEffect => Registered(o) \in EffectsOf(o)
    /\ ConfirmedMeansEffect
    /\ AnswersAreTrue

\* The moves of a row other than a claim: the state before a transaction and
\* the one it commits.
RowMoves ==
    { <<"EXECUTING", "RETRYABLE_FAILURE">>, <<"EXECUTING", "UNKNOWN">>,
      <<"EXECUTING", "EFFECT_CONFIRMED">>, <<"EXECUTING", "COMPLETED">>,
      <<"EFFECT_CONFIRMED", "COMPLETED">>, <<"UNKNOWN", "RECONCILING">>,
      <<"RECONCILING", "COMPLETED">>, <<"RECONCILING", "RETRYABLE_FAILURE">>,
      <<"RECONCILING", "UNKNOWN">> }

\* No variant without a ledger writes one, and no transaction of one that has
\* leaves a row in RECEIVED, CLAIMED or FAILED_FINAL.
RestInv ==
    \A o \in Ops :
        /\ ledger[o].state \notin {"RECEIVED", "CLAIMED", "FAILED_FINAL"}
        /\ ~LedgerBacked => ledger[o].state = Absent

-----------------------------------------------------------------------------
(* The abstract specification ExactlyOnce, with the observer's table as the *)
(* effect of an operation and the OK replies that have left as answers.    *)
(* A configuration that is not protected promises nothing of the kind and  *)
(* is seen as one in which nothing happens.                                *)

effectOf ==
    [o \in Ops |-> IF Protected /\ EffectsOf(o) # {}
                   THEN CHOOSE e \in EffectsOf(o) : TRUE
                   ELSE NoEffect]

answered ==
    [r \in Requests |-> IF Protected /\ pc[r] = "done" /\ reply[r].status = "OK"
                        THEN reply[r].effect ELSE NoEffect]

Abstract == INSTANCE ExactlyOnce WITH effect <- effectOf, answer <- answered

\* In every protected configuration each operation takes effect at most once
\* and every answer, once given, is the operation's effect and stands.
ImplementsExactlyOnce == Abstract!Spec

=============================================================================
