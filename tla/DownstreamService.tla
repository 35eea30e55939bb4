-------------------------- MODULE DownstreamService --------------------------
(***************************************************************************)
(* One downstream service (order, payment, inventory and notification have *)
(* the same execute and lookup): its business effects, recorded in         *)
(* observer.observer_effects, and the table runtime.service_idempotency.   *)
(*                                                                         *)
(* A request makes at most one call, so a call is named by the request     *)
(* that makes it and so is the effect the call creates.  execute runs in   *)
(* one transaction at READ COMMITTED: two calls of one operation may both  *)
(* find no mapping, and the primary key of service_idempotency then lets   *)
(* only one of them commit.                                                *)
(***************************************************************************)
CONSTANTS
    Requests,     \* the attempts the agent makes
    Ops,          \* the operation ids
    OpOf,         \* the operation of an attempt
    NoEffect      \* what is stored where there is no effect id

ASSUME RequestAssumption ==
    /\ OpOf \in [Requests -> Ops]
    /\ NoEffect \notin Requests

VARIABLES
    call,         \* the execute call of a request
    idempotency,  \* service_idempotency: the effect registered for an operation
    effects       \* the effects that exist: the calls whose transaction created one

serviceVars == <<call, idempotency, effects>>

\* C0: no mapping; C1: mapping written with the effect; C2: C1 and lookup.
Capability == {"C0", "C1", "C2"}

EffectRef == Requests \cup {NoEffect}

CallPhase == {"none", "received", "creating", "answered", "failed"}

ServiceTypeOK ==
    /\ call \in [Requests -> [phase : CallPhase, cap : Capability,
                              effect : EffectRef, replayed : BOOLEAN]]
    /\ idempotency \in [Ops -> EffectRef]
    /\ effects \in SUBSET Requests

ServiceInit ==
    /\ call = [r \in Requests |-> [phase |-> "none", cap |-> "C0",
                                   effect |-> NoEffect, replayed |-> FALSE]]
    /\ idempotency = [o \in Ops |-> NoEffect]
    /\ effects = {}

-----------------------------------------------------------------------------
\* lookupInternal: the registered effect of an operation, or none.
Registered(o) == idempotency[o]

\* Whether the call keeps a mapping at all: capability C1 or C2.
Keyed(r) == call[r].cap # "C0"

\* The request body arrives at /execute with capability c.
Submit(r, c) ==
    /\ call[r].phase = "none"
    /\ call' = [call EXCEPT ![r].phase = "received", ![r].cap = c]
    /\ UNCHANGED <<idempotency, effects>>

\* execute finds the mapping and answers the effect it names.
ReplayExisting(r) ==
    /\ call[r].phase = "received"
    /\ Keyed(r)
    /\ Registered(OpOf[r]) # NoEffect
    /\ call' = [call EXCEPT ![r].phase = "answered", ![r].replayed = TRUE,
                            ![r].effect = Registered(OpOf[r])]
    /\ UNCHANGED <<idempotency, effects>>

\* execute finds no mapping, or does not look for one, and goes on to insert.
BeginCreate(r) ==
    /\ call[r].phase = "received"
    /\ Keyed(r) => Registered(OpOf[r]) = NoEffect
    /\ call' = [call EXCEPT ![r].phase = "creating"]
    /\ UNCHANGED <<idempotency, effects>>

\* Mutant: the mapping is written without its primary key, the last call wins.
CommitEffect_NoPrimaryKey(r) ==
    /\ call[r].phase = "creating"
    /\ effects' = effects \cup {r}
    /\ idempotency' = IF Keyed(r) THEN [idempotency EXCEPT ![OpOf[r]] = r]
                                  ELSE idempotency
    /\ call' = [call EXCEPT ![r].phase = "answered", ![r].effect = r]

\* Mutant: the mapping is not written with the effect.
CommitEffect_NoMapping(r) ==
    /\ call[r].phase = "creating"
    /\ Keyed(r) => Registered(OpOf[r]) = NoEffect
    /\ effects' = effects \cup {r}
    /\ call' = [call EXCEPT ![r].phase = "answered", ![r].effect = r]
    /\ UNCHANGED idempotency

\* The transaction commits the business row, the mapping and the observer row.
CommitEffect(r) ==
    /\ call[r].phase = "creating"
    /\ Keyed(r) => Registered(OpOf[r]) = NoEffect
    /\ effects' = effects \cup {r}
    /\ idempotency' = IF Keyed(r) THEN [idempotency EXCEPT ![OpOf[r]] = r]
                                  ELSE idempotency
    /\ call' = [call EXCEPT ![r].phase = "answered", ![r].effect = r]

\* Mutant: the transaction of a call that loses the race is not rolled back.
RejectDuplicateKey_NoRollback(r) ==
    /\ call[r].phase = "creating"
    /\ Keyed(r)
    /\ Registered(OpOf[r]) # NoEffect
    /\ call' = [call EXCEPT ![r].phase = "failed"]
    /\ effects' = effects \cup {r}
    /\ UNCHANGED idempotency

\* The primary key (service_name, operation_id) refuses a second mapping: the
\* transaction rolls back, business row included, and the call answers 500.
RejectDuplicateKey(r) ==
    /\ call[r].phase = "creating"
    /\ Keyed(r)
    /\ Registered(OpOf[r]) # NoEffect
    /\ call' = [call EXCEPT ![r].phase = "failed"]
    /\ UNCHANGED <<idempotency, effects>>

\* The service stops or its database fails before the transaction commits.
AbortCall(r) ==
    /\ call[r].phase \in {"received", "creating"}
    /\ call' = [call EXCEPT ![r].phase = "failed"]
    /\ UNCHANGED <<idempotency, effects>>

\* The connection fails after the commit: the caller sees an error although
\* the effect exists.
LoseAnswer(r) ==
    /\ call[r].phase = "answered"
    /\ call' = [call EXCEPT ![r].phase = "failed"]
    /\ UNCHANGED <<idempotency, effects>>

\* A step the service takes on its own for call r.
ServiceStep(r) ==
    \/ ReplayExisting(r)
    \/ BeginCreate(r)
    \/ CommitEffect(r)
    \/ RejectDuplicateKey(r)
    \/ AbortCall(r)

ServiceNext ==
    \E r \in Requests :
        \/ \E c \in Capability : Submit(r, c)
        \/ ServiceStep(r)
        \/ LoseAnswer(r)

ServiceSpec == ServiceInit /\ [][ServiceNext]_serviceVars

-----------------------------------------------------------------------------
\* C1 and C2 (architecture.md: "effect creation and operation_id registration
\* occur atomically in one service transaction"): at every moment the effects
\* created by keyed calls of an operation are exactly the one registered for
\* it, however its calls interleave and whichever of them fail.
RegisteredIffCreated ==
    \A o \in Ops :
        { r \in effects : OpOf[r] = o /\ Keyed(r) } =
            { r \in Requests : r = Registered(o) }

=============================================================================
