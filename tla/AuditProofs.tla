----------------------------- MODULE AuditProofs -----------------------------
(***************************************************************************)
(* Proofs about the log of ledger transitions: it is the history of each   *)
(* row, and the audits, had they read it by id, would report nothing.      *)
(***************************************************************************)
EXTENDS LedgerAudit, LedgerProofs

-----------------------------------------------------------------------------
(* The audited orchestrator is the orchestrator.                           *)

LEMMA AuditStepIsStep ==
    ASSUME [AuditNext]_allVars
    PROVE  [Next]_vars
  BY DEF AuditNext, allVars, Begin, RunTransaction, Elsewhere, Restart, Handle, Next

THEOREM AuditedIsOrchestrator == AuditSpec => Spec
  <1>1. AuditInit => Init
    BY DEF AuditInit
  <1>2. [AuditNext]_allVars => [Next]_vars
    BY AuditStepIsStep
  <1> QED
    BY <1>1, <1>2, PTL DEF AuditSpec, Spec

-----------------------------------------------------------------------------
(* What a transaction logs.                                                *)

Entry == [ op : Ops, before : LedgerState \cup {Absent}, after : LedgerState, at : Nat ]

AuditTypes ==
    /\ begun \in Nat
    /\ tx \in [Requests -> Nat]
    /\ log \in Seq(Entry)

\* new is the log of a move of the row of o from before to after.
LogsMove(new, o, before, after) ==
    /\ new \in Seq(Entry)
    /\ Len(new) > 0
    /\ new[1].before = before
    /\ new[Len(new)].after = after
    /\ \A i \in 1..Len(new) :
          /\ new[i].op = o
          /\ <<new[i].before, new[i].after>> \in AuditedTransitions
          /\ i > 1 => new[i].before = new[i - 1].after
          /\ new[i].after = "EXECUTING" =>
                i = Len(new) /\ before \in {Absent, "RETRYABLE_FAILURE"}

\* A move of a row between the ends of a transaction that is logged.
LoggedMoves ==
    { <<Absent, "EXECUTING">>, <<"RETRYABLE_FAILURE", "EXECUTING">> } \cup RowMoves

\* An entry of o.
EntryOf(o, before, after, t) == [op |-> o, before |-> before, after |-> after, at |-> t]

\* The entries of a path of audited moves log the move from its first state to
\* its last.
LEMMA TwoLog ==
    ASSUME NEW o \in Ops, NEW t \in Nat,
           NEW a \in LedgerState \cup {Absent}, NEW b \in LedgerState,
           <<a, b>> \in AuditedTransitions, b # "EXECUTING"
    PROVE  LogsMove(Entries(o, <<a, b>>, t), o, a, b)
  <1>1. PICK e1 : e1 = EntryOf(o, a, b, t)
    OBVIOUS
  <1> DEFINE new == <<e1>>
  <1>2. Entries(o, <<a, b>>, t) = new
    BY <1>1 DEF Entries, EntryOf
  <1>3. e1 \in Entry /\ e1.op = o /\ e1.before = a /\ e1.after = b
    BY <1>1 DEF EntryOf, Entry
  <1>4. new \in Seq(Entry) /\ Len(new) = 1 /\ new[1] = e1
    BY <1>3
  <1>5. \A i \in 1..Len(new) : i = 1
    BY <1>4
  <1> HIDE DEF new
  <1> QED
    BY <1>2, <1>3, <1>4, <1>5 DEF LogsMove

LEMMA ThreeLog ==
    ASSUME NEW o \in Ops, NEW t \in Nat, NEW a \in LedgerState \cup {Absent},
           NEW b \in LedgerState, NEW c \in LedgerState,
           <<a, b>> \in AuditedTransitions, <<b, c>> \in AuditedTransitions,
           b # "EXECUTING", c = "EXECUTING" => a \in {Absent, "RETRYABLE_FAILURE"}
    PROVE  LogsMove(Entries(o, <<a, b, c>>, t), o, a, c)
  <1>1. PICK e1, e2 : e1 = EntryOf(o, a, b, t) /\ e2 = EntryOf(o, b, c, t)
    OBVIOUS
  <1> DEFINE new == <<e1, e2>>
  <1>2. Entries(o, <<a, b, c>>, t) = new
    BY <1>1 DEF Entries, EntryOf
  <1>3. /\ e1 \in Entry /\ e1.op = o /\ e1.before = a /\ e1.after = b
        /\ e2 \in Entry /\ e2.op = o /\ e2.before = b /\ e2.after = c
    BY <1>1 DEF EntryOf, Entry
  <1>4. new \in Seq(Entry) /\ Len(new) = 2 /\ new[1] = e1 /\ new[2] = e2
    BY <1>3
  <1>5. \A i \in 1..Len(new) : i = 1 \/ i = 2
    BY <1>4
  <1> HIDE DEF new
  <1>6. \A i \in 1..Len(new) :
           /\ new[i].op = o
           /\ <<new[i].before, new[i].after>> \in AuditedTransitions
    BY <1>3, <1>4, <1>5
  <1>7. \A i \in 1..Len(new) : i > 1 => new[i].before = new[i - 1].after
    BY <1>3, <1>4, <1>5
  <1>8. \A i \in 1..Len(new) : new[i].after = "EXECUTING" =>
           i = Len(new) /\ a \in {Absent, "RETRYABLE_FAILURE"}
    BY <1>3, <1>4, <1>5
  <1>9. new[1].before = a /\ new[Len(new)].after = c /\ Len(new) > 0
    BY <1>3, <1>4
  <1>10. LogsMove(new, o, a, c)
    BY <1>4, <1>6, <1>7, <1>8, <1>9 DEF LogsMove
  <1> QED
    BY <1>2, <1>10

LEMMA FourLog ==
    ASSUME NEW o \in Ops, NEW t \in Nat, NEW a \in LedgerState \cup {Absent},
           NEW b \in LedgerState, NEW c \in LedgerState, NEW d \in LedgerState,
           <<a, b>> \in AuditedTransitions, <<b, c>> \in AuditedTransitions,
           <<c, d>> \in AuditedTransitions,
           b # "EXECUTING", c # "EXECUTING",
           d = "EXECUTING" => a \in {Absent, "RETRYABLE_FAILURE"}
    PROVE  LogsMove(Entries(o, <<a, b, c, d>>, t), o, a, d)
  <1>1. PICK e1, e2, e3 : /\ e1 = EntryOf(o, a, b, t)
                          /\ e2 = EntryOf(o, b, c, t)
                          /\ e3 = EntryOf(o, c, d, t)
    OBVIOUS
  <1> DEFINE new == <<e1, e2, e3>>
  <1>2. Entries(o, <<a, b, c, d>>, t) = new
    BY <1>1 DEF Entries, EntryOf
  <1>3. /\ e1 \in Entry /\ e1.op = o /\ e1.before = a /\ e1.after = b
        /\ e2 \in Entry /\ e2.op = o /\ e2.before = b /\ e2.after = c
        /\ e3 \in Entry /\ e3.op = o /\ e3.before = c /\ e3.after = d
    BY <1>1 DEF EntryOf, Entry
  <1>4. new \in Seq(Entry) /\ Len(new) = 3 /\ new[1] = e1 /\ new[2] = e2 /\ new[3] = e3
    BY <1>3
  <1>5. \A i \in 1..Len(new) : i = 1 \/ i = 2 \/ i = 3
    BY <1>4
  <1> HIDE DEF new
  <1>6. \A i \in 1..Len(new) :
           /\ new[i].op = o
           /\ <<new[i].before, new[i].after>> \in AuditedTransitions
    BY <1>3, <1>4, <1>5
  <1>7. \A i \in 1..Len(new) : i > 1 => new[i].before = new[i - 1].after
    BY <1>3, <1>4, <1>5
  <1>8. \A i \in 1..Len(new) : new[i].after = "EXECUTING" =>
           i = Len(new) /\ a \in {Absent, "RETRYABLE_FAILURE"}
    BY <1>3, <1>4, <1>5
  <1>9. new[1].before = a /\ new[Len(new)].after = d /\ Len(new) > 0
    BY <1>3, <1>4
  <1>10. LogsMove(new, o, a, d)
    BY <1>4, <1>6, <1>7, <1>8, <1>9 DEF LogsMove
  <1> QED
    BY <1>2, <1>10

LEMMA PathLogs ==
    ASSUME NEW o \in Ops, NEW t \in Nat, NEW before, NEW after,
           <<before, after>> \in LoggedMoves
    PROVE  LogsMove(Entries(o, Path(before, after), t), o, before, after)
  <1>1. CASE before = Absent /\ after = "EXECUTING"
    <2>1. PICK b, c : b = "RECEIVED" /\ c = "CLAIMED"
      OBVIOUS
    <2>2. Path(before, after) = <<before, b, c, after>>
      BY <1>1, <2>1 DEF Path
    <2> QED
      BY <1>1, <2>1, <2>2, FourLog DEF AuditedTransitions, LedgerState
  <1>2. CASE before = "RETRYABLE_FAILURE" /\ after = "EXECUTING"
    <2>1. PICK b : b = "CLAIMED"
      OBVIOUS
    <2>2. Path(before, after) = <<before, b, after>>
      BY <1>2, <2>1 DEF Path, Absent
    <2> QED
      BY <1>2, <2>1, <2>2, ThreeLog DEF AuditedTransitions, LedgerState
  <1>3. CASE after = "COMPLETED" /\ before \in {"EXECUTING", "RECONCILING"}
    <2>1. PICK b : b = "EFFECT_CONFIRMED"
      OBVIOUS
    <2>2. Path(before, after) = <<before, b, after>>
      BY <1>3, <2>1 DEF Path
    <2> QED
      BY <1>3, <2>1, <2>2, ThreeLog DEF AuditedTransitions, LedgerState
  <1>4. CASE /\ after # "EXECUTING" /\ ~(after = "COMPLETED" /\ before # "EFFECT_CONFIRMED")
             /\ <<before, after>> \in RowMoves
    <2>1. Path(before, after) = <<before, after>>
      BY <1>4 DEF Path
    <2>2. /\ <<before, after>> \in AuditedTransitions
          /\ before \in LedgerState /\ after \in LedgerState
      BY <1>4 DEF RowMoves, AuditedTransitions, LedgerState
    <2> QED
      BY <1>4, <2>1, <2>2, TwoLog
  <1> QED
    BY <1>1, <1>2, <1>3, <1>4 DEF LoggedMoves, RowMoves

-----------------------------------------------------------------------------
(* The log and the rows.                                                   *)

\* What holds of the entries of o: they are its history, an entry that took it
\* to EXECUTING is followed by one that frees it before the next, and by one at
\* all while it may be claimed.
EntriesInv(o) ==
    /\ \A i, j \in Of(o) : i < j /\ (\A k \in Of(o) : k <= i \/ k >= j)
                              => Continues(log[i].after, log[j].before)
    /\ \A i \in Of(o) : (\A k \in Of(o) : k <= i) => Continues(log[i].after, ledger[o].state)
    /\ Of(o) = {} => ledger[o].state = Absent
    /\ ledger[o].state = Absent => Of(o) = {}
    /\ \A i \in Of(o) : <<log[i].before, log[i].after>> \in AuditedTransitions
    /\ \A i, j \in Of(o) :
          j < i /\ log[i].after = "EXECUTING" /\ log[j].after = "EXECUTING" =>
             \E k \in Of(o) : j < k /\ k < i /\ log[k].after \in Freeing
    /\ ledger[o].state = "RETRYABLE_FAILURE" =>
          \A j \in Of(o) : log[j].after = "EXECUTING" =>
             \E k \in Of(o) : j < k /\ log[k].after \in Freeing

LogInv == AuditTypes /\ \A o \in Ops : EntriesInv(o)

\* Nothing is logged of o, and its row stays or its lease runs out.
LEMMA EntriesKept ==
    ASSUME NEW o \in Ops, EntriesInv(o), Of(o)' = Of(o),
           \A i \in Of(o) : log'[i] = log[i],
           \/ ledger'[o].state = ledger[o].state
           \/ ledger[o].state = "EXECUTING" /\ ledger'[o].state = "UNKNOWN"
    PROVE  EntriesInv(o)'
  <1>1. ASSUME NEW i \in Of(o), \A k \in Of(o) : k <= i
        PROVE  Continues(log[i].after, ledger'[o].state)
    BY <1>1 DEF EntriesInv, Continues
  <1>2. /\ Of(o) = {} => ledger'[o].state = Absent
        /\ ledger'[o].state = Absent => Of(o) = {}
        /\ ledger'[o].state = "RETRYABLE_FAILURE" => ledger[o].state = "RETRYABLE_FAILURE"
    BY DEF EntriesInv, Absent
  <1>4. \A i, j \in Of(o) : i < j /\ (\A k \in Of(o) : k <= i \/ k >= j)
                              => Continues(log'[i].after, log'[j].before)
    BY DEF EntriesInv
  <1>5. \A i \in Of(o) : <<log'[i].before, log'[i].after>> \in AuditedTransitions
    BY DEF EntriesInv
  <1>6. \A i, j \in Of(o) :
          j < i /\ log'[i].after = "EXECUTING" /\ log'[j].after = "EXECUTING" =>
             \E k \in Of(o) : j < k /\ k < i /\ log'[k].after \in Freeing
    BY DEF EntriesInv
  <1>7. ledger'[o].state = "RETRYABLE_FAILURE" =>
          \A j \in Of(o) : log'[j].after = "EXECUTING" =>
             \E k \in Of(o) : j < k /\ log'[k].after \in Freeing
    BY <1>2 DEF EntriesInv
  <1> QED
    BY <1>1, <1>2, <1>4, <1>5, <1>6, <1>7 DEF EntriesInv, Continues

\* A move of one operation leaves the entries of the others alone.
LEMMA OfOthers ==
    ASSUME NEW o, NEW p, o # p, NEW new \in Seq(Entry), log \in Seq(Entry),
           \A i \in 1..Len(new) : new[i].op = p, log' = log \o new
    PROVE  Of(o)' = Of(o) /\ \A i \in Of(o) : log'[i] = log[i]
  <1> DEFINE n == Len(log)
             m == Len(new)
  <1>1. /\ n \in Nat /\ m \in Nat /\ DOMAIN log = 1..n /\ DOMAIN log' = 1..(n + m)
        /\ \A i \in 1..n : log'[i] = log[i]
        /\ \A i \in 1..m : log'[n + i] = new[i]
    OBVIOUS
  <1> HIDE DEF n
  <1>2. ASSUME NEW i \in 1..(n + m), i \notin 1..n
        PROVE  log'[i].op = p
    <2>1. i - n \in 1..m /\ n + (i - n) = i
      BY <1>1, <1>2
    <2>2. new[i - n].op = p
      BY <2>1
    <2> QED
      BY <1>1, <2>1, <2>2
  <1> HIDE DEF m
  <1>3. 1..n \subseteq 1..(n + m)
    BY <1>1
  <1> QED
    BY <1>1, <1>2, <1>3 DEF Of

\* A move of o is logged.
LEMMA EntriesAdded ==
    ASSUME AuditTypes, NEW o \in Ops, EntriesInv(o), NEW new,
           LogsMove(new, o, ledger[o].state, ledger'[o].state), log' = log \o new
    PROVE  EntriesInv(o)'
  <1> DEFINE n == Len(log)
             m == Len(new)
  <1>1. /\ n \in Nat /\ m \in Nat /\ m > 0
        /\ log' \in Seq(Entry) /\ Len(log') = n + m
        /\ \A i \in 1..n : log'[i] = log[i]
        /\ \A i \in 1..m : log'[n + i] = new[i]
    BY DEF AuditTypes, LogsMove
  <1>2. /\ DOMAIN log = 1..n /\ DOMAIN log' = 1..(n + m)
        /\ \A i \in 1..m : new[i].op = o
    <2>1. DOMAIN log = 1..n
      BY DEF AuditTypes
    <2>2. DOMAIN log' = 1..(n + m)
      BY <1>1
    <2>3. \A i \in 1..m : new[i].op = o
      BY DEF LogsMove
    <2> HIDE DEF n, m
    <2> QED
      BY <2>1, <2>2, <2>3
  <1>3. \A i \in Of(o)' : i \in Of(o) \/ i \in (n + 1)..(n + m)
    BY <1>1, <1>2 DEF Of
  <1>4. /\ Of(o) \subseteq Of(o)' /\ (n + 1)..(n + m) \subseteq Of(o)'
        /\ \A i \in Of(o) : i \in 1..n /\ log'[i] = log[i]
    <2>1. \A i \in (n + 1)..(n + m) : i \in 1..(n + m) /\ log'[i].op = o
      <3> SUFFICES ASSUME NEW i \in (n + 1)..(n + m)
                   PROVE  i \in 1..(n + m) /\ log'[i].op = o
        OBVIOUS
      <3>1. i - n \in 1..m /\ n + (i - n) = i
        BY <1>1
      <3> QED
        BY <1>1, <1>2, <3>1
    <2> QED
      BY <1>1, <1>2, <2>1 DEF Of
  <1>5. \A i \in (n + 1)..(n + m) : i - n \in 1..m /\ log'[i] = new[i - n]
    <2> SUFFICES ASSUME NEW i \in (n + 1)..(n + m)
                 PROVE  i - n \in 1..m /\ log'[i] = new[i - n]
      OBVIOUS
    <2>1. i - n \in 1..m /\ n + (i - n) = i
      BY <1>1
    <2> QED
      BY <1>1, <2>1
  <1> HIDE DEF n, m
  <1>6. n + 1 \in Of(o)' /\ n + m \in Of(o)'
    BY <1>1, <1>4
  <1>7. log'[n + 1].before = ledger[o].state /\ log'[n + m].after = ledger'[o].state
    BY <1>1, <1>5 DEF LogsMove, m
  \* The log continues.
  <1>8. ASSUME NEW i \in Of(o)', NEW j \in Of(o)', i < j, \A k \in Of(o)' : k <= i \/ k >= j
        PROVE  Continues(log'[i].after, log'[j].before)
    <2>1. CASE j \in Of(o)
      <3>1. i \in Of(o)
        BY <1>1, <1>3, <1>4, <1>8, <2>1
      <3>2. \A k \in Of(o) : k <= i \/ k >= j
        BY <1>4, <1>8
      <3> QED
        BY <1>4, <1>8, <2>1, <3>1, <3>2 DEF EntriesInv
    <2>2. CASE i \in Of(o) /\ j \notin Of(o)
      <3>1. j = n + 1
        BY <1>1, <1>3, <1>4, <1>6, <1>8, <2>2
      <3>2. \A k \in Of(o) : k <= i
        BY <1>1, <1>4, <1>8, <3>1
      <3> QED
        BY <1>4, <1>7, <2>2, <3>1, <3>2 DEF EntriesInv
    <2>3. CASE i \notin Of(o) /\ j \notin Of(o)
      <3>1. i \in (n + 1)..(n + m) /\ j \in (n + 1)..(n + m)
        BY <1>3, <2>3
      <3>2. i + 1 \in Of(o)'
        BY <1>1, <1>4, <1>8, <3>1
      <3>3. j = i + 1
        BY <1>1, <1>8, <3>1, <3>2
      <3>4. (j - n) - 1 = i - n /\ j - n > 1 /\ j - n \in 1..m
        BY <1>1, <3>1, <3>3
      <3>5. new[j - n].before = new[i - n].after
        BY <3>4 DEF LogsMove, m
      <3> QED
        BY <1>5, <3>1, <3>5 DEF Continues
    <2> QED
      BY <2>1, <2>2, <2>3
  <1>9. ASSUME NEW i \in Of(o)', \A k \in Of(o)' : k <= i
        PROVE  i = n + m
    <2>1. n + m <= i
      BY <1>6, <1>9
    <2>2. i <= n + m /\ i \in Nat
      BY <1>1, <1>3, <1>4
    <2> QED
      BY <1>1, <2>1, <2>2
  <1>10. ASSUME NEW i \in Of(o)'
         PROVE  <<log'[i].before, log'[i].after>> \in AuditedTransitions
    <2>1. CASE i \in Of(o)
      BY <1>4, <2>1 DEF EntriesInv
    <2>2. CASE i \in (n + 1)..(n + m)
      BY <1>5, <2>2 DEF LogsMove, m
    <2> QED
      BY <1>3, <2>1, <2>2
  \* An entry to EXECUTING among the new ones is the last and finds o free.
  <1>11. ASSUME NEW i \in (n + 1)..(n + m), log'[i].after = "EXECUTING"
         PROVE  i = n + m /\ ledger[o].state \in {Absent, "RETRYABLE_FAILURE"}
    <2>1. i - n = m /\ ledger[o].state \in {Absent, "RETRYABLE_FAILURE"}
      BY <1>5, <1>11 DEF LogsMove, m
    <2> QED
      BY <1>1, <2>1
  <1>12. ASSUME NEW i \in Of(o)', NEW j \in Of(o)', j < i,
                log'[i].after = "EXECUTING", log'[j].after = "EXECUTING"
         PROVE  \E k \in Of(o)' : j < k /\ k < i /\ log'[k].after \in Freeing
    <2>1. j \in Of(o)
      <3>1. j \notin (n + 1)..(n + m)
        BY <1>1, <1>3, <1>4, <1>11, <1>12
      <3> QED
        BY <1>3, <3>1
    <2>2. CASE i \in Of(o)
      BY <1>4, <1>12, <2>1, <2>2 DEF EntriesInv
    <2>3. CASE i \in (n + 1)..(n + m)
      <3>1. ledger[o].state = "RETRYABLE_FAILURE"
        BY <1>11, <1>12, <2>1, <2>3 DEF EntriesInv
      <3>2. PICK k \in Of(o) : j < k /\ log[k].after \in Freeing
        BY <1>4, <1>12, <2>1, <3>1 DEF EntriesInv
      <3> QED
        <4>1. k \in 1..n /\ log'[k] = log[k] /\ k \in Of(o)'
          BY <1>4, <3>2
        <4>2. k < i
          BY <1>1, <2>3, <4>1
        <4> QED
          BY <3>2, <4>1, <4>2
    <2> QED
      BY <1>3, <2>2, <2>3
  <1>13. ASSUME ledger'[o].state = "RETRYABLE_FAILURE", NEW j \in Of(o)',
                log'[j].after = "EXECUTING"
         PROVE  \E k \in Of(o)' : j < k /\ log'[k].after \in Freeing
    <2>1. log'[n + m].after \in Freeing
      BY <1>7, <1>13 DEF Freeing
    <2>2. j # n + m
      BY <1>7, <1>13
    <2>3. j < n + m
      <3>1. j \in 1..(n + m)
        BY <1>1, <1>3, <1>4
      <3>2. n + m \in Nat
        BY <1>1
      <3> QED
        BY <2>2, <3>1, <3>2
    <2> QED
      BY <1>6, <2>1, <2>3
  <1>14. ledger'[o].state # Absent
    BY <1>7, <1>6, <1>10 DEF AuditedTransitions, Absent
  <1> QED
    BY <1>6, <1>7, <1>8, <1>9, <1>10, <1>12, <1>13, <1>14 DEF EntriesInv, Continues

-----------------------------------------------------------------------------
(* Every step keeps the log.                                               *)

\* A handler writes the row of its own operation and no other.
LEMMA HandleWritesOneRow ==
    ASSUME TypeOK, NEW r \in Requests, Handle(r)
    PROVE  \A p \in Ops \ {OpOf[r]} : ledger'[p] = ledger[p]
  <1> USE DEF SetRow, Fail, TransitionAndAnswer, TypeOK
  <1>1. CASE PrepareLedger(r)
    BY <1>1 DEF PrepareLedger, LedgerReadUnavailable, FindNoRow, LedgerWriteUnavailable,
       OperationIdConflict, ReplayResult, RecoverFinalResult, ReportState, EnterUnknown,
       InsertAndClaim, Claim, RejectClaim
  <1>2. CASE Execute(r)
    BY <1>2 DEF Execute, FailBeforeDispatch, RefuseCapability, Dispatch, DispatchError,
       AnswerUnledgered, LoseResponseAfterEffect, SimulateCrash, LoseConfirmation,
       FinalizeStale, FinalizeLedger, DelayedReply
  <1>3. CASE Reconcile(r)
    BY <1>3 DEF Reconcile, CannotReconcile, StartReconciliation, Lookup, LookupError,
       ConfirmReconciled, ReconciledNoEffect, ReconciliationInconclusive
  <1> QED
    BY <1>1, <1>2, <1>3 DEF Handle

\* Outside its transactions a handler moves no row.
LEMMA NothingMovesElsewhere ==
    ASSUME TypeOK, CallInv, RestInv, RestInv', UNCHANGED config,
           NEW r \in Requests, Handle(r), ~AtTransaction(r)
    PROVE  \A p \in Ops : ledger'[p].state = ledger[p].state
  <1>1. CASE ~LedgerBacked
    BY <1>1, SameConfiguration DEF RestInv
  <1>2. CASE LedgerBacked
    <2> USE <1>2 DEF AtTransaction
    <2>1. ~PrepareLedger(r)
      BY DEF PrepareLedger, LedgerReadUnavailable, FindNoRow, LedgerWriteUnavailable,
         OperationIdConflict, ReplayResult, RecoverFinalResult, ReportState, EnterUnknown,
         InsertAndClaim, Claim, RejectClaim, Decides, Arrived
    <2>2. CASE Execute(r)
      BY <2>2 DEF Execute, FailBeforeDispatch, RefuseCapability, Dispatch, DispatchError,
         AnswerUnledgered, LoseResponseAfterEffect, SimulateCrash, LoseConfirmation,
         FinalizeStale, FinalizeLedger, DelayedReply, Fail, Inject, ScenarioHook
    <2>3. CASE Reconcile(r)
      BY <2>3 DEF Reconcile, CannotReconcile, StartReconciliation, Lookup, LookupError,
         ConfirmReconciled, ReconciledNoEffect, ReconciliationInconclusive
    <2> QED
      BY <2>1, <2>2, <2>3 DEF Handle
  <1> QED
    BY <1>1, <1>2

\* A transaction logs the move it makes, unless it only marks an expired lease.
LEMMA TransactionLogs ==
    ASSUME TypeOK, CallInv, RestInv, AuditTypes, NEW r \in Requests,
           AtTransaction(r), Handle(r)
    PROVE  \/ /\ Logged(r) = <<>>
              /\ \/ ledger'[OpOf[r]].state = RowOf(r).state
                 \/ RowOf(r).state = "EXECUTING" /\ ledger'[OpOf[r]].state = "UNKNOWN"
           \/ LogsMove(Logged(r), OpOf[r], RowOf(r).state, ledger'[OpOf[r]].state)
  <1> DEFINE o == OpOf[r]
             before == RowOf(r).state
             after == ledger'[o].state
  <1>0. o \in Ops /\ tx[r] \in Nat
    BY RequestAssumption DEF AuditTypes
  <1>1. \/ after = before
        \/ <<before, after>> \in LoggedMoves
    <2>1. RowStep(o)
      BY <1>0, EveryRowStep DEF Handle, Next
    <2> QED
      BY <1>0, <2>1 DEF RowStep, LoggedMoves, RestInv, RowOf
  <1>2. CASE after = before
    BY <1>2 DEF Logged
  <1>3. CASE after # before /\ pc[r] \in {"idle", "inserting"} /\ after = "UNKNOWN"
    <2>1. before # "RECONCILING"
      <3>1. ~Reconcile(r)
        BY <1>3 DEF Reconcile, CannotReconcile, StartReconciliation, Lookup, LookupError,
           ConfirmReconciled, ReconciledNoEffect, ReconciliationInconclusive
      <3> QED
        BY <1>0, <1>3, <3>1, OthersKeepReconciling DEF Handle, RowOf
    <2>2. before = "EXECUTING"
      BY <1>1, <1>3, <2>1 DEF LoggedMoves, RowMoves
    <2>3. Logged(r) = <<>>
      BY <1>3 DEF Logged
    <2> QED
      BY <1>3, <2>2, <2>3
  <1>4. CASE after # before /\ ~(pc[r] \in {"idle", "inserting"} /\ after = "UNKNOWN")
    <2>1. Logged(r) = Entries(o, Path(before, after), tx[r])
      BY <1>4 DEF Logged
    <2> HIDE DEF o, before, after
    <2>2. LogsMove(Logged(r), o, before, after)
      BY <1>0, <1>1, <1>4, <2>1, PathLogs
    <2> QED
      BY <2>2 DEF o, before, after
  <1> QED
    BY <1>2, <1>3, <1>4

LEMMA LogStep ==
    ASSUME TypeOK, CallInv, RestInv, RestInv', LogInv, [AuditNext]_allVars
    PROVE  LogInv'
  <1>0. UNCHANGED config /\ OpOf \in [Requests -> Ops]
    BY AuditStepIsStep, ConfigurationKept, RequestAssumption
  \* Steps that log nothing.
  <1>1. ASSUME UNCHANGED log, begun' \in Nat, tx' \in [Requests -> Nat],
               \A o \in Ops : ledger'[o].state = ledger[o].state
        PROVE  LogInv'
    <2>1. \A o \in Ops : Of(o)' = Of(o)
      BY <1>1 DEF Of
    <2>2. \A o \in Ops : EntriesInv(o)'
      BY <1>1, <2>1, EntriesKept DEF LogInv
    <2> QED
      BY <1>1, <2>2 DEF LogInv, AuditTypes
  <1>2. ASSUME NEW r \in Requests, RunTransaction(r)
        PROVE  LogInv'
    <2>1. /\ AtTransaction(r) /\ Handle(r) /\ log' = log \o Logged(r)
          /\ UNCHANGED begun /\ tx' \in [Requests -> Nat]
      BY <1>2 DEF RunTransaction, LogInv, AuditTypes
    <2>2. \A p \in Ops \ {OpOf[r]} : ledger'[p] = ledger[p]
      BY <2>1, HandleWritesOneRow
    <2>3. CASE /\ Logged(r) = <<>>
               /\ \/ ledger'[OpOf[r]].state = RowOf(r).state
                  \/ RowOf(r).state = "EXECUTING" /\ ledger'[OpOf[r]].state = "UNKNOWN"
      <3>1. log' = log
        BY <2>1, <2>3 DEF LogInv, AuditTypes
      <3>2. \A o \in Ops : Of(o)' = Of(o)
        BY <3>1 DEF Of
      <3>3. \A o \in Ops : EntriesInv(o)'
        BY <2>2, <2>3, <3>1, <3>2, EntriesKept DEF LogInv, RowOf
      <3> QED
        BY <2>1, <3>1, <3>3 DEF LogInv, AuditTypes
    <2>4. CASE LogsMove(Logged(r), OpOf[r], RowOf(r).state, ledger'[OpOf[r]].state)
      <3>1. EntriesInv(OpOf[r])'
        BY <1>0, <2>1, <2>4, EntriesAdded DEF LogInv, RowOf
      <3>2. ASSUME NEW o \in Ops, o # OpOf[r]
            PROVE  EntriesInv(o)'
        <4>1. /\ log \in Seq(Entry) /\ Logged(r) \in Seq(Entry)
              /\ \A i \in 1..Len(Logged(r)) : Logged(r)[i].op = OpOf[r]
          BY <2>4 DEF LogInv, AuditTypes, LogsMove
        <4>2. Of(o)' = Of(o) /\ \A i \in Of(o) : log'[i] = log[i]
          BY <2>1, <3>2, <4>1, OfOthers
        <4> QED
          BY <2>2, <3>2, <4>2, EntriesKept DEF LogInv
      <3>3. log' \in Seq(Entry)
        BY <2>1, <2>4 DEF LogInv, AuditTypes, LogsMove
      <3> QED
        BY <2>1, <3>1, <3>2, <3>3 DEF LogInv, AuditTypes
    <2> QED
      BY <2>1, <2>3, <2>4, TransactionLogs DEF LogInv
  <1>3. ASSUME NEW r \in Requests, Begin(r)
        PROVE  LogInv'
    BY <1>1, <1>3 DEF Begin, LogInv, AuditTypes, vars
  <1>4. CASE Elsewhere
    <2>1. UNCHANGED <<log, begun, tx>>
      BY <1>4 DEF Elsewhere, auditVars
    <2>2. ASSUME NEW r \in Requests, ~AtTransaction(r), Handle(r)
          PROVE  \A o \in Ops : ledger'[o].state = ledger[o].state
      BY <1>0, <2>2, NothingMovesElsewhere
    <2>3. ASSUME NEW p \in Ops, LeaseExpires(p)
          PROVE  \A o \in Ops : ledger'[o].state = ledger[o].state
      BY <2>3 DEF LeaseExpires, TypeOK, Row
    <2>4. \A o \in Ops : ledger'[o].state = ledger[o].state
      BY <1>4, <2>2, <2>3 DEF Elsewhere, Serve, AnswerLost, orchVars, Finished, vars
    <2> QED
      BY <1>1, <2>1, <2>4 DEF LogInv, AuditTypes
  <1>5. CASE Restart
    BY <1>1, <1>5 DEF Restart, Crash, LogInv, AuditTypes
  <1>6. CASE UNCHANGED allVars
    BY <1>1, <1>6 DEF allVars, vars, auditVars, LogInv, AuditTypes
  <1> QED
    BY <1>2, <1>3, <1>4, <1>5, <1>6 DEF AuditNext

THEOREM LogInvariant == AuditSpec => []LogInv
  <1>1. AuditInit => LogInv
    <2> SUFFICES ASSUME AuditInit
                 PROVE  LogInv
      OBVIOUS
    <2>1. \A o \in Ops : Of(o) = {} /\ ledger[o].state = Absent
      BY DEF AuditInit, Init, NoRow, Of
    <2> QED
      BY <2>1 DEF AuditInit, LogInv, AuditTypes, EntriesInv, Absent
  <1>2. TypeOK /\ CallInv /\ RestInv /\ RestInv' /\ LogInv /\ [AuditNext]_allVars => LogInv'
    BY LogStep
  <1> QED
    BY <1>1, <1>2, AuditedIsOrchestrator, CallsInvariant, RowsRest, PTL DEF AuditSpec

-----------------------------------------------------------------------------
(* What follows.                                                           *)

LEMMA LogEntries ==
    ASSUME LogInv, NEW i \in DOMAIN log
    PROVE  log[i].op \in Ops
  <1>1. log \in Seq(Entry)
    BY DEF LogInv, AuditTypes
  <1>2. log[i] \in Entry
    BY <1>1
  <1> QED
    BY <1>2 DEF Entry

\* The harness reports no transition, for all six variants.
THEOREM TransitionsPass == AuditSpec => []NoTransitionReported
  <1>1. LogInv => NoTransitionReported
    <2> SUFFICES ASSUME LogInv, NEW i \in DOMAIN log
                 PROVE  <<log[i].before, log[i].after>> \in AuditedTransitions
      BY DEF NoTransitionReported, TransitionViolations
    <2>1. log[i].op \in Ops
      BY LogEntries
    <2> QED
      BY <2>1 DEF LogInv, EntriesInv, Of
  <1> QED
    BY <1>1, LogInvariant, PTL

\* The log read by id is the history of every row.
THEOREM LogIsTheHistory == AuditSpec => []LogIsHistory
  <1>1. LogInv => LogIsHistory
    BY DEF LogInv, EntriesInv, LogIsHistory
  <1> QED
    BY <1>1, LogInvariant, PTL

\* Read by id the log has no overlap.
THEOREM NoOverlapReadById == AuditSpec => []NoOverlapById
  <1>1. LogInv => NoOverlapById
    <2> SUFFICES ASSUME LogInv, NEW i \in DOMAIN log, NEW j \in DOMAIN log,
                        log[i].after = "EXECUTING", log[j].after = "EXECUTING",
                        <<j, i>> \in ById, log[j].op = log[i].op
                 PROVE  \E k \in DOMAIN log : /\ <<j, k>> \in ById /\ <<k, i>> \in ById
                                              /\ log[k].op = log[i].op
                                              /\ log[k].after \in Freeing
      BY DEF NoOverlapById, Overlaps
    <2>1. log[i].op \in Ops
      BY LogEntries
    <2>2. i \in Of(log[i].op) /\ j \in Of(log[i].op) /\ j < i
      BY DEF Of, ById
    <2>3. PICK k \in Of(log[i].op) : j < k /\ k < i /\ log[k].after \in Freeing
      BY <2>1, <2>2 DEF LogInv, EntriesInv
    <2> QED
      BY <2>3 DEF Of, ById, Pairs
  <1> QED
    BY <1>1, LogInvariant, PTL

=============================================================================
