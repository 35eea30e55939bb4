------------------------------- MODULE Rerun -------------------------------
(***************************************************************************)
(* An experiment that is run again (execute_one of the phase 6 runner,     *)
(* run_one of the phase 5 harness): its operations have the ids they had   *)
(* before, reset_db truncates the tables in between, and what the first    *)
(* run left with the orchestrator and the services goes on, on rows that   *)
(* now belong to the second.                                               *)
(***************************************************************************)
EXTENDS OrchestratorProperties

CONSTANT Second    \* the requests of the second run; the others are the first's

ASSUME SecondAssumption == Second \subseteq Requests

VARIABLES
    restarted,  \* whether the database has been reset
    late,       \* the requests of the first run that were not over then
    lookedUp    \* the effects the lookups among them have found

rerunVars == <<restarted, late, lookedUp>>

First == Requests \ Second

\* The scenarios a strategy gives to some attempts of an operation and not to others
\* (CF1 to CF4, F10's outage).
Overriding == {"F0", "F3", "F8", "F10read", "F10write"}

\* Mutant: the id of the run is part of what is drawn from.
SameDraws_ByRun ==
    \A r, q \in Requests :
        OpOf[r] = OpOf[q] /\ (r \in Second <=> q \in Second) /\ scenario[r] # scenario[q] =>
            {scenario[r], scenario[q]} \subseteq Overriding

\* All other draws are the same for all attempts, in both runs: they are made of the
\* seed, the operation id, the scenario and the hook.
SameDraws ==
    \A r, q \in Requests : OpOf[r] = OpOf[q] /\ scenario[r] # scenario[q] =>
        {scenario[r], scenario[q]} \subseteq Overriding

RerunInit ==
    /\ Init /\ SameDraws
    /\ restarted = FALSE /\ late = {}
    /\ lookedUp = [r \in Requests |-> NoEffect]

-----------------------------------------------------------------------------
\* The second run sends its requests after the reset; those of the first may reach
\* the orchestrator at any time, the gateway and the agent are on their way there.
Arrives(r) == r \in Second => restarted

\* The requests that are not over: not handled yet, or by the handler or the service.
Unfinished ==
    { r \in First : pc[r] \in InFlight \cup {"idle"} \/ call[r].phase \in {"received", "creating"} }

\* The handler waits with the result of a lookup made before the reset.
HoldsOldLookup(r) == pc[r] = "found" /\ lookedUp[r] # NoEffect

\* Mutant: service_idempotency is not in the list of tables.
ResetDb_KeepsMapping ==
    /\ ~restarted
    /\ \A r \in Requests : pc[r] # "inserting" /\ ~(Keyed(r) /\ call[r].phase = "creating")
    /\ restarted' = TRUE
    /\ late' = Unfinished
    /\ lookedUp' = [r \in Requests |-> IF pc[r] = "found" THEN Registered(OpOf[r]) ELSE NoEffect]
    /\ ledger' = [o \in Ops |-> NoRow]
    /\ effects' = {}
    /\ UNCHANGED <<config, scenario, pc, reply, crashes, call, idempotency>>

\* reset_db: TRUNCATE takes an exclusive lock of each table, so it waits for the
\* transactions that have read or written one of them.
ResetDb ==
    /\ ~restarted
    /\ \A r \in Requests : pc[r] # "inserting" /\ ~(Keyed(r) /\ call[r].phase = "creating")
    /\ restarted' = TRUE
    /\ late' = Unfinished
    /\ lookedUp' = [r \in Requests |-> IF pc[r] = "found" THEN Registered(OpOf[r]) ELSE NoEffect]
    /\ ledger' = [o \in Ops |-> NoRow]
    /\ idempotency' = [o \in Ops |-> NoEffect]
    /\ effects' = {}
    /\ UNCHANGED <<config, scenario, pc, reply, crashes, call>>

\* A request is handled, whichever run it is of.
Handled(r) ==
    /\ Arrives(r)
    /\ ~HoldsOldLookup(r)
    /\ PrepareLedger(r) \/ Execute(r) \/ Reconcile(r) \/ Serve(r) \/ AnswerLost(r)
    /\ UNCHANGED rerunVars

\* The reconciler of the first run writes what its lookup found into the row.
ConfirmOldLookup(r) ==
    /\ HoldsOldLookup(r)
    /\ \/ /\ Allowed(RowOf(r), "RECONCILING", "EFFECT_CONFIRMED")
          /\ SetRow(r, [RowOf(r) EXCEPT !.state = "COMPLETED", !.effect = lookedUp[r]])
          /\ Answer(r, "OK", lookedUp[r], TRUE)
       \/ /\ ~Allowed(RowOf(r), "RECONCILING", "EFFECT_CONFIRMED")
          /\ GoTo(r, "inconclusive")
          /\ UNCHANGED ledger
    /\ UNCHANGED <<serviceVars, rerunVars>>

Environment ==
    /\ Crash \/ \E o \in Ops : LeaseExpires(o)
    /\ UNCHANGED rerunVars

\* The second run has its answers and nothing of the first is left.
BothFinished ==
    /\ restarted
    /\ \A r \in Requests : pc[r] \in {"done", "lost"}
    /\ UNCHANGED <<vars, rerunVars>>

RerunNext ==
    \/ \E r \in Requests : Handled(r) \/ ConfirmOldLookup(r)
    \/ ResetDb
    \/ Environment
    \/ BothFinished

RerunSpec == RerunInit /\ [][RerunNext]_<<vars, rerunVars>>

-----------------------------------------------------------------------------
\* What read_effects returns for the second run: rows with its run_id.
Measured(o) == { e \in effects \cap Second : OpOf[e] = o }

\* No operation is measured with two effects, whatever requests of the first run
\* still do to its row: transition asks for a state and not for an owner, so that
\* they can fail, finalize or reconcile what a request of the second run claimed.
NoDuplicateInRerun ==
    Protected => \A o \in Ops : \A e1, e2 \in Measured(o) : e1 = e2

\* Effect e is one of operation o that a request which was not over at the reset
\* has made, been told of, or looked up.
FromLate(o, e) ==
    \E q \in late : OpOf[q] = o /\ e \in {q, call[q].effect, lookedUp[q]} \ {NoEffect}

\* An operation of the second run that was told OK has its effect measured, or
\* its answer names such an effect of the first run: reset_db clears all else.
UncountedOkIsLate ==
    \A r \in Second : reply[r].status = "OK" =>
        reply[r].effect \in Measured(OpOf[r]) \/ FromLate(OpOf[r], reply[r].effect)

-----------------------------------------------------------------------------
(* The inductive strengthenings the proofs rest on.                        *)

\* The draw says that attempts of this request fail before they call the service.
NeverCalls(r) == Inject(r, "BEFORE_DOWNSTREAM_DISPATCH")

\* A request that calls the service, or has, from its claim on.
Executes(r) == call[r].phase # "none" \/ (pc[r] = "proceed" /\ ~NeverCalls(r))

\* A state in which a row is not claimed again where nothing reconciles through a lookup.
Held == {"EXECUTING", "UNKNOWN", "EFFECT_CONFIRMED", "COMPLETED"}

\* Where nothing reconciles through a lookup, a request of the second run that
\* executes holds its operation's row.  Requests of the first run may move the row on,
\* but only one that never calls offers it again, and then none of the operation does.
ClaimInRerun ==
    /\ \A r \in Requests :
          /\ ~Reconciling(r)
          /\ pc[r] = "reconcile" => AllowReconcile
          /\ NeverCalls(r) => call[r].phase = "none"
    /\ \A r \in Second : Executes(r) => RowOf(r).owner = r /\ RowOf(r).state \in Held

ClaimInRerunIfLedgered == LedgerBacked /\ ~MayRedispatch => ClaimInRerun

\* Before the reset nothing of the second run is under way.
SecondIsLater ==
    ~restarted => \A r \in Second : pc[r] = "idle" /\ call[r].phase = "none"

RerunInv ==
    /\ SameDraws /\ SecondIsLater /\ ClaimInRerunIfLedgered
    /\ restarted \in BOOLEAN /\ late \subseteq First
    /\ lookedUp \in [Requests -> EffectRef]

Confirmed == {"EFFECT_CONFIRMED", "COMPLETED"}

\* An effect the second run may have been told of.
Known(o, e) == e \in Measured(o) \/ FromLate(o, e)

\* A call names an effect when it is through, and a handler that found one with its
\* lookup still holds it, or it is still registered.
CallsName ==
    \A r \in Requests :
        /\ call[r].phase \in {"none", "received", "creating"} => call[r].effect = NoEffect
        /\ call[r].phase = "answered" => call[r].effect # NoEffect
        /\ pc[r] = "found" => lookedUp[r] # NoEffect \/ Registered(OpOf[r]) # NoEffect
        /\ lookedUp[r] # NoEffect => r \in late

\* Nothing of the first run that was over at the reset moves any more, and what the
\* second finds in the mapping, in a row, in the answer of its own call and in its
\* replies is known.
KnownInRerun ==
    /\ \A q \in First \ late :
          pc[q] \in {"done", "lost"} /\ call[q].phase \notin {"received", "creating"}
    /\ \A o \in Ops :
          /\ Registered(o) # NoEffect => Known(o, Registered(o))
          /\ ledger[o].state \in Confirmed => Known(o, ledger[o].effect)
    /\ \A r \in Second :
          /\ call[r].phase = "answered" => Known(OpOf[r], call[r].effect)
          /\ reply[r].status = "OK" => Known(OpOf[r], reply[r].effect)

LateInv ==
    /\ CallsName
    /\ ~restarted => late = {} /\ \A r \in Second : reply[r].status # "OK"
    /\ restarted => KnownInRerun

=============================================================================
