----------------------------- MODULE LedgerAudit -----------------------------
(***************************************************************************)
(* The log of ledger transitions and the audits the harness runs over it.  *)
(*                                                                         *)
(* transition writes a row of runtime.ledger_transitions in the            *)
(* transaction that changes the ledger.  Its id is drawn as it is          *)
(* inserted, under the lock of the ledger's row; its created_at defaults   *)
(* to now(), the time the transaction began, which may be before it had to *)
(* wait for that lock.  The runner reads the log ordered by created_at and *)
(* only then by id.                                                        *)
(***************************************************************************)
EXTENDS OrchestratorProperties, Sequences

VARIABLES
    begun,   \* how many transactions have begun: the clock now() reads
    tx,      \* when the open transaction of a request began, 0 if there is none
    log      \* runtime.ledger_transitions, in the order of id

auditVars == <<begun, tx, log>>
allVars == <<vars, auditVars>>

AuditInit ==
    /\ Init
    /\ begun = 0
    /\ tx = [r \in Requests |-> 0]
    /\ log = <<>>

-----------------------------------------------------------------------------
\* What r does next is a transaction of the ledger; an insert goes on in the
\* transaction of the find before it.
AtTransaction(r) ==
    /\ LedgerBacked
    /\ \/ pc[r] \in {"idle", "inserting", "found", "absent", "inconclusive"}
       \/ pc[r] = "proceed" /\ Inject(r, "BEFORE_DOWNSTREAM_DISPATCH")
       \/ Returned(r) /\ scenario[r] # "F8"
       \/ pc[r] = "reconcile" /\ DownstreamCapability = "C2"

Handle(r) == PrepareLedger(r) \/ Execute(r) \/ Reconcile(r)

\* Mutant: every claim is logged as one of a row just received.
Path_FromReceived(before, after) ==
    CASE before = Absent /\ after = "EXECUTING" -> <<Absent, "RECEIVED", "CLAIMED", "EXECUTING">>
      [] before # Absent /\ after = "EXECUTING" -> <<"RECEIVED", "CLAIMED", "EXECUTING">>
      [] after = "COMPLETED" /\ before # "EFFECT_CONFIRMED"
                                                -> <<before, "EFFECT_CONFIRMED", "COMPLETED">>
      [] OTHER                                  -> <<before, after>>

\* The states a transaction takes a row through, from the first to the last.
Path(before, after) ==
    CASE before = Absent /\ after = "EXECUTING" -> <<Absent, "RECEIVED", "CLAIMED", "EXECUTING">>
      [] before # Absent /\ after = "EXECUTING" -> <<before, "CLAIMED", "EXECUTING">>
      [] after = "COMPLETED" /\ before # "EFFECT_CONFIRMED"
                                                -> <<before, "EFFECT_CONFIRMED", "COMPLETED">>
      [] OTHER                                  -> <<before, after>>

\* The entries for a path of operation o in a transaction begun at t, which is
\* their created_at.
Entries(o, path, t) ==
    [i \in 1..(Len(path) - 1) |->
        [op |-> o, before |-> path[i], after |-> path[i + 1], at |-> t]]

\* Mutant: like an expired lease, a failure before the dispatch is not logged.
Logged_NoFailure(r) ==
    LET before == RowOf(r).state
        after  == ledger'[OpOf[r]].state
    IN  IF after = before \/ pc[r] \notin {"idle", "inserting", "waiting", "found"}
        THEN <<>> ELSE Entries(OpOf[r], Path(before, after), tx[r])

\* What the transaction of r logs.  markExpiredExecutingUnknown logs nothing.
Logged(r) ==
    LET before == RowOf(r).state
        after  == ledger'[OpOf[r]].state
        marked == pc[r] \in {"idle", "inserting"} /\ after = "UNKNOWN"
    IN  IF after = before \/ marked THEN <<>> ELSE Entries(OpOf[r], Path(before, after), tx[r])

Begin(r) ==
    /\ AtTransaction(r)
    /\ tx[r] = 0
    /\ begun' = begun + 1
    /\ tx' = [tx EXCEPT ![r] = begun + 1]
    /\ UNCHANGED <<log, vars>>

\* The transaction gets the lock it needs, and all it does with it.  A find
\* that returns no row leaves it open for the insert.
RunTransaction(r) ==
    /\ AtTransaction(r)
    /\ tx[r] > 0
    /\ Handle(r)
    /\ log' = log \o Logged(r)
    /\ tx' = [tx EXCEPT ![r] = IF pc'[r] = "inserting" THEN tx[r] ELSE 0]
    /\ UNCHANGED begun

\* What a handler does outside its transactions, services and the network do.
Elsewhere ==
    /\ \/ \E r \in Requests : \/ ~AtTransaction(r) /\ Handle(r)
                              \/ Serve(r)
                              \/ tx[r] = 0 /\ AnswerLost(r)
       \/ \E o \in Ops : LeaseExpires(o)
       \/ Finished
    /\ UNCHANGED auditVars

\* A restart rolls back what is open.
Restart ==
    /\ Crash
    /\ tx' = [r \in Requests |-> IF pc'[r] = "lost" THEN 0 ELSE tx[r]]
    /\ UNCHANGED <<begun, log>>

AuditNext ==
    \/ \E r \in Requests : Begin(r) \/ RunTransaction(r)
    \/ Elsewhere
    \/ Restart

AuditSpec == AuditInit /\ [][AuditNext]_allVars

-----------------------------------------------------------------------------
(* The audits of phase5_harness.py.                                        *)

\* The pairs state_transition_violations allows; it has its own list.
AuditedTransitions ==
    { <<Absent, "RECEIVED">>, <<"RECEIVED", "CLAIMED">>, <<"CLAIMED", "EXECUTING">>,
      <<"EXECUTING", "EFFECT_CONFIRMED">>, <<"EFFECT_CONFIRMED", "COMPLETED">>,
      <<"EXECUTING", "RETRYABLE_FAILURE">>, <<"RETRYABLE_FAILURE", "CLAIMED">>,
      <<"EXECUTING", "UNKNOWN">>, <<"UNKNOWN", "RECONCILING">>,
      <<"RECONCILING", "EFFECT_CONFIRMED">>, <<"RECONCILING", "RETRYABLE_FAILURE">>,
      <<"RECONCILING", "UNKNOWN">> }

\* state_transition_violations.
TransitionViolations ==
    { i \in DOMAIN log : log[i].before # log[i].after /\
                         <<log[i].before, log[i].after>> \notin AuditedTransitions }

\* The states after which ownership_overlaps takes an operation as free.
Freeing == {"UNKNOWN", "EFFECT_CONFIRMED", "RETRYABLE_FAILURE", "FAILED_FINAL", "COMPLETED"}

\* ownership_overlaps, over the log in a given order, a set of pairs of entries.
Overlaps(order) ==
    { i \in DOMAIN log : log[i].after = "EXECUTING" /\
        \E j \in DOMAIN log :
            /\ <<j, i>> \in order /\ log[j].op = log[i].op /\ log[j].after = "EXECUTING"
            /\ \A k \in DOMAIN log :
                  <<j, k>> \in order /\ <<k, i>> \in order /\ log[k].op = log[i].op
                      => log[k].after \notin Freeing }

\* lease_audit over the log in that order: "PASS" if it finds nothing.
LeaseAudit(order) == TransitionViolations = {} /\ Overlaps(order) = {}

Pairs == (DOMAIN log) \X (DOMAIN log)

ById == { p \in Pairs : p[1] < p[2] }

\* ORDER BY created_at, id.
AsRead ==
    { p \in Pairs : \/ log[p[1]].at < log[p[2]].at
                    \/ log[p[1]].at = log[p[2]].at /\ p[1] < p[2] }

-----------------------------------------------------------------------------
\* The entries of an operation, in the order of id.
Of(o) == { i \in DOMAIN log : log[i].op = o }

\* The harness never reports a transition: two lists of what is legal, the
\* database's and the harness's, agree on everything the orchestrator does,
\* in every variant and through every failure.
NoTransitionReported == TransitionViolations = {}

\* The log, read by id, is the history of the row: each entry starts where the
\* one before ended, and the last ends where the row is.  The one gap is the
\* expired lease, which takes a row from EXECUTING to UNKNOWN unlogged.
Continues(before, after) == before = after \/ (before = "EXECUTING" /\ after = "UNKNOWN")

LogIsHistory ==
    \A o \in Ops :
        /\ \A i, j \in Of(o) : i < j /\ (\A k \in Of(o) : k <= i \/ k >= j)
                                  => Continues(log[i].after, log[j].before)
        /\ \A i \in Of(o) : (\A k \in Of(o) : k <= i) => Continues(log[i].after, ledger[o].state)
        /\ Of(o) = {} => ledger[o].state = Absent

\* Read by id the log has no overlap, in any variant: a row only comes back to
\* EXECUTING through an entry that frees it.  So the audit says nothing of V5
\* over C2, where two requests do execute at once: reconciled-no-effect frees an
\* operation whose executor is still at work.
NoOverlapById == Overlaps(ById) = {}

\* What the harness asks of a run (phase5_harness.py:661: "PASS" if there are
\* neither violations nor overlaps) in the order it reads.
AuditPasses == LeaseAudit(AsRead)

=============================================================================
