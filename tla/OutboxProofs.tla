---------------------------- MODULE OutboxProofs ----------------------------
(***************************************************************************)
(* What the outbox promises for any number of jobs and claims, any limit   *)
(* of attempts, and any number of crashes.                                 *)
(*                                                                         *)
(* The type invariant is proved with what it rests on: which row the       *)
(* worker may have in hand.  What the child process has reported is then   *)
(* true of the ledger (ReportsAreTrue), and so is what is recorded of it.  *)
(***************************************************************************)
EXTENDS Outbox, TLAPS

\* The worker has a row in hand while it submits and only then, the process is up and
\* the row pending, and a child runs only for it.
InHand ==
    /\ worker = "submitting" <=> cur # NoJob
    /\ cli # "none" => worker = "submitting"
    /\ cur # NoJob => up /\ Pending(cur)

\* Only what forms a claim is queued, or under way without a child; a row that is not
\* there has no id.
QueuedAreClaims ==
    /\ \A j \in Job : row[j].status # "absent" => ClaimOf[j] # NoClaim
    /\ \A j \in late : ClaimOf[j] # NoClaim
    /\ \A i \in DOMAIN rows : row[rows[i]].status # "absent"

RowInv == TypeOK /\ InHand /\ QueuedAreClaims

\* What the child has answered is so on the ledger.
ReportsAreTrue ==
    /\ cli = "landed" => cur \in landed
    /\ cli = "AlreadyAttested" => ClaimOf[cur] \in attested
    /\ cli = "WindowClosed" => ClaimOf[cur] \in closed
    /\ cli = "NotActive" => cur \in lapsed

\* While an attempt is under way, a verifier that is inactive has been noted.
LapsesAreNoted == cur # NoJob /\ ~active => cur \in lapsed

\* From the query that found nothing on, whatever is pending was queued after it.
NoWakeupLost ==
    (worker \in {"to idle", "idle"} /\ \E j \in Job : Pending(j))
        => permit \/ \E j \in Job : task[j] = "waking"

\* A job that is under way was accepted, so it is not accepted again.
TasksWereAccepted == \A j \in Job : task[j] # "none" => verif[j] # "absent"
-----------------------------------------------------------------------------
(* What an outcome writes to a row. *)

RowType == [status : {"absent", "pending", "submitted", "rejected"},
            attempts : 0 .. MAX_ATTEMPTS, due : BOOLEAN,
            why : Refusal \cup {"none", "transport", "GaveUp"}, tx : BOOLEAN]

\* finish_attestation changes the status, the count and the reason of one row.
LEMMA FinishWrites ==
  ASSUME TypeOK, NEW j \in Job, Pending(j),
         NEW status \in {"submitted", "rejected"},
         NEW why \in Refusal \cup {"none", "transport", "GaveUp"},
         NEW tx \in BOOLEAN, Finish(j, status, why, tx)
  PROVE  /\ row' \in [Job -> RowType]
         /\ row'[j].status = status /\ row'[j].why = why /\ row'[j].tx = tx
         /\ row'[j].attempts = row[j].attempts + 1
         /\ \A k \in Job : k # j => row'[k] = row[k]
<1>1. row \in [Job -> RowType] /\ row[j].attempts < MAX_ATTEMPTS
  BY DEF TypeOK, RowType
<1>2. row[j].attempts + 1 \in 0 .. MAX_ATTEMPTS
  BY <1>1, OutboxAssumption DEF RowType
<1> DEFINE new == [row[j] EXCEPT !.status = status, !.attempts = @ + 1, !.why = why,
                                   !.tx = tx]
<1>3. row' = [row EXCEPT ![j] = new]
  BY <1>1 DEF Finish, RowType
<1>4. /\ new \in RowType /\ new.status = status /\ new.why = why /\ new.tx = tx
      /\ new.attempts = row[j].attempts + 1
  BY <1>1, <1>2 DEF RowType
<1> QED
  BY <1>1, <1>3, <1>4

\* attestation_retry_later counts the attempt and leaves the row pending.
LEMMA RetryWrites ==
  ASSUME TypeOK, NEW j \in Job, Pending(j), row[j].attempts + 1 < MAX_ATTEMPTS, RetryLater(j)
  PROVE  /\ row' \in [Job -> RowType]
         /\ row'[j].status = "pending" /\ row'[j].attempts = row[j].attempts + 1
         /\ row'[j].tx = row[j].tx
         /\ \A k \in Job : k # j => row'[k] = row[k]
<1>1. row \in [Job -> RowType] /\ row[j].status = "pending"
  BY DEF TypeOK, RowType, Pending
<1>2. row[j].attempts + 1 \in 0 .. MAX_ATTEMPTS
  BY <1>1, OutboxAssumption DEF RowType
<1> DEFINE new == [row[j] EXCEPT !.attempts = @ + 1, !.due = FALSE, !.why = "transport"]
<1>3. row' = [row EXCEPT ![j] = new]
  BY <1>1 DEF RetryLater, RowType
<1>4. /\ new \in RowType /\ new.status = "pending" /\ new.attempts = row[j].attempts + 1
      /\ new.tx = row[j].tx
  BY <1>1, <1>2 DEF RowType
<1> QED
  BY <1>1, <1>3, <1>4

\* The ways an attempt ends leave the row in hand with one attempt more, or as it was.
LEMMA OutcomeWrites ==
  ASSUME RowInv, Outcome
  PROVE  /\ cur \in Job /\ Pending(cur) /\ cur' = NoJob /\ cli' = "none"
         /\ worker' \in {"scan", "scheduling"}
         /\ row' \in [Job -> RowType]
         /\ \A k \in Job : k # cur => row'[k] = row[k]
         /\ \/ row'[cur] = row[cur]
            \/ /\ row'[cur].status = "pending" /\ row'[cur].attempts < MAX_ATTEMPTS
               /\ row'[cur].tx = row[cur].tx
            \/ cli = "landed" /\ row'[cur].status = "submitted"
            \/ /\ cli \in Refusal /\ row'[cur].status = "rejected" /\ row'[cur].why = cli
               /\ row'[cur].tx = FALSE
            \/ /\ row'[cur].status = "rejected" /\ row'[cur].why = "GaveUp"
               /\ row'[cur].attempts = MAX_ATTEMPTS /\ row'[cur].tx = FALSE
         /\ late' \subseteq late \cup {cur}
         /\ UNCHANGED <<verif, rows, up, task, permit, active, closed, attested, landed>>
         /\ lapsed' \subseteq lapsed
<1>1. /\ cur \in Job /\ Pending(cur) /\ TypeOK /\ row \in [Job -> RowType]
      /\ row[cur].attempts \in Nat /\ row[cur].attempts < MAX_ATTEMPTS
  <2>1. worker = "submitting"
    BY DEF Outcome, Submitted, Refused, Failed, AttemptEnds
  <2>2. cur \in Job /\ Pending(cur) /\ TypeOK
    BY <2>1 DEF RowInv, InHand, TypeOK
  <2>3. row \in [Job -> RowType] /\ row[cur].attempts < MAX_ATTEMPTS
    BY <2>2 DEF TypeOK, RowType
  <2> QED
    BY <2>2, <2>3, OutboxAssumption DEF RowType
<1>2. /\ AttemptEnds
      /\ UNCHANGED <<verif, rows, up, task, permit, active, closed, attested, landed>>
      /\ cur' = NoJob /\ cli' = "none" /\ late' \subseteq late \cup {cur}
      /\ lapsed' \subseteq lapsed
  BY DEF Outcome, Submitted, Refused, Failed, AttemptEnds
<1>3. CASE NotWritten
  BY <1>1, <1>2, <1>3 DEF NotWritten
<1>4. CASE Submitted /\ ~NotWritten
  <2>1. PICK tx \in BOOLEAN : Finish(cur, "submitted", "none", tx)
    BY <1>4 DEF Submitted
  <2>2. worker' = "scan" /\ cli = "landed"
    BY <1>4 DEF Submitted
  <2> QED
    BY <1>1, <1>2, <2>1, <2>2, FinishWrites
<1>5. CASE Refused /\ ~NotWritten
  <2>1. Finish(cur, "rejected", cli, FALSE) /\ worker' = "scan" /\ cli \in Refusal
    BY <1>5 DEF Refused
  <2> QED
    BY <1>1, <1>2, <2>1, FinishWrites
<1>6. CASE Failed /\ ~NotWritten
  <2> DEFINE a == row[cur].attempts
             last == Finish(cur, "rejected", "GaveUp", FALSE) /\ worker' = "scan"
             more == RetryLater(cur)
  <2>0. a \in Nat /\ a < MAX_ATTEMPTS /\ MAX_ATTEMPTS \in Nat
    BY <1>1, OutboxAssumption
  <2>1. (a + 1 >= MAX_ATTEMPTS /\ last) \/ (a + 1 < MAX_ATTEMPTS /\ more)
    BY <1>6 DEF Failed
  <2>2. CASE a + 1 >= MAX_ATTEMPTS /\ last
    <3>1. a + 1 = MAX_ATTEMPTS
      BY <2>0, <2>2
    <3> QED
      BY <1>1, <1>2, <2>2, <3>1, FinishWrites
  <2>3. CASE a + 1 < MAX_ATTEMPTS /\ more
    <3>1. worker' \in {"scan", "scheduling"}
      BY <2>3 DEF RetryLater
    <3> QED
      BY <1>1, <1>2, <2>3, <3>1, RetryWrites
  <2> QED
    BY <2>1, <2>2, <2>3
<1> QED
  BY <1>3, <1>4, <1>5, <1>6 DEF Outcome
-----------------------------------------------------------------------------
(* Every step keeps the rows in order. *)

\* The registry accepts a claim, and what an applied transaction changes.
LEMMA ApplyChanges ==
  ASSUME NEW j \in Job, ClaimOf[j] # NoClaim, TypeOK, Apply(j)
  PROVE  /\ attested \subseteq attested' /\ landed \subseteq landed'
         /\ attested' \subseteq Claim /\ landed' \subseteq Job
         /\ RegistryAnswer(ClaimOf[j]) = "accepted" => j \in landed'
<1>1. ClaimOf[j] \in Claim /\ attested \subseteq Claim /\ landed \subseteq Job
  BY OutboxAssumption DEF TypeOK
<1> QED
  BY <1>1 DEF Apply

LEMMA JobStepKeepsRows ==
  ASSUME RowInv, NEW j \in Job,
         Accept(j) \/ JobErrs(j) \/ StoreResult(j) \/ NothingQueued(j) \/ Wake(j)
  PROVE  RowInv'
<1>1. /\ UNCHANGED <<rows, row, up, worker, cur, cli, chain, lapsed>>
      /\ verif' \in [Job -> {"absent", "pending", "finished", "error"}]
      /\ task' \in [Job -> {"none", "building", "queueing", "waking", "done", "lost"}]
      /\ permit' \in BOOLEAN
  BY DEF RowInv, TypeOK, Accept, JobErrs, StoreResult, NothingQueued, Wake, proc, db, history
<1>2. TypeOK'
  BY <1>1 DEF RowInv, TypeOK, chain, Pending
<1>3. InHand' /\ QueuedAreClaims'
  BY <1>1 DEF RowInv, InHand, QueuedAreClaims, chain, Pending
<1> QED
  BY <1>2, <1>3 DEF RowInv

\* The row a job queues is new: no other has its verification id.
LEMMA QueueKeepsRows ==
  ASSUME RowInv, NEW j \in Job, Queue(j)
  PROVE  RowInv'
<1> DEFINE new == [NoRow EXCEPT !.status = "pending", !.due = TRUE]
<1>1. /\ UNCHANGED <<verif, up, worker, cur, permit, cli, chain, lapsed>>
      /\ ClaimOf[j] # NoClaim /\ row[j].status = "absent"
      /\ rows' = Append(rows, j) /\ row' = [row EXCEPT ![j] = new]
      /\ task' \in [Job -> {"none", "building", "queueing", "waking", "done", "lost"}]
  BY DEF RowInv, TypeOK, Queue, proc, history
<1>2. new \in RowType /\ new.status = "pending" /\ new.attempts = 0
  <2>1. NoRow \in RowType /\ NoRow.attempts = 0
    BY OutboxAssumption DEF NoRow, RowType
  <2> QED
    BY <2>1 DEF RowType
<1>3. row \in [Job -> RowType] /\ rows \in Seq(Job)
  BY DEF RowInv, TypeOK, RowType
<1>4. /\ row' \in [Job -> RowType] /\ row'[j].status = "pending" /\ row'[j].attempts = 0
      /\ \A k \in Job : k # j => row'[k] = row[k]
  BY <1>1, <1>2, <1>3
<1>5. /\ rows' \in Seq(Job) /\ DOMAIN rows' = DOMAIN rows \cup {Len(rows) + 1}
      /\ rows'[Len(rows) + 1] = j /\ Len(rows) + 1 \notin DOMAIN rows
      /\ \A i \in DOMAIN rows : rows'[i] = rows[i] /\ rows[i] \in Job /\ rows[i] # j
  BY <1>1, <1>3 DEF RowInv, QueuedAreClaims
<1>6. \A i, k \in DOMAIN rows' : rows'[i] = rows'[k] => i = k
  BY <1>5 DEF RowInv, TypeOK
<1>7. \A k \in Job : Pending(k)' => row'[k].attempts < MAX_ATTEMPTS
  <2>1. \A k \in Job : k # j /\ Pending(k) => row[k].attempts < MAX_ATTEMPTS
    BY DEF RowInv, TypeOK
  <2>2. 0 < MAX_ATTEMPTS
    BY OutboxAssumption
  <2> QED
    BY <1>4, <2>1, <2>2 DEF Pending
<1>8. TypeOK'
  BY <1>1, <1>4, <1>5, <1>6, <1>7 DEF RowInv, TypeOK, RowType, chain
<1>9. InHand'
  BY <1>1, <1>4 DEF RowInv, InHand, TypeOK, Pending
<1>10. QueuedAreClaims'
  <2>1. \A k \in Job : row'[k].status # "absent" => ClaimOf[k] # NoClaim
    BY <1>1, <1>4 DEF RowInv, QueuedAreClaims
  <2>2. \A k \in late' : ClaimOf[k] # NoClaim
    BY <1>1 DEF RowInv, QueuedAreClaims, chain
  <2>3. \A i \in DOMAIN rows : row'[rows'[i]].status # "absent"
    BY <1>4, <1>5 DEF RowInv, QueuedAreClaims
  <2>4. \A i \in DOMAIN rows' : row'[rows'[i]].status # "absent"
    BY <1>4, <1>5, <2>3
  <2> QED
    BY <2>1, <2>2, <2>4 DEF QueuedAreClaims
<1> QED
  BY <1>8, <1>9, <1>10 DEF RowInv

LEMMA WorkerStepKeepsRows ==
  ASSUME RowInv,
         \/ TakeDue
         \/ \E failed \in BOOLEAN : NothingTaken(failed) \/ Schedule(failed)
         \/ FallAsleep \/ TimerWakes \/ NotifyWakes
  PROVE  RowInv'
<1>1. /\ UNCHANGED <<db, up, task, chain>> /\ permit' \in BOOLEAN
      /\ lapsed' \subseteq Job
  BY DEF RowInv, TypeOK, TakeDue, NothingTaken, Schedule, FallAsleep, TimerWakes, NotifyWakes, history
<1>2. CASE TakeDue
  <2>1. up /\ cur' \in Job /\ Pending(cur') /\ worker' = "submitting" /\ cli' = "started"
    BY <1>2 DEF TakeDue, IsOldestDue, Due
  <2>2. TypeOK'
    BY <1>1, <2>1 DEF RowInv, TypeOK, db, chain, Pending
  <2> QED
    BY <1>1, <2>1, <2>2, OutboxAssumption
    DEF RowInv, InHand, QueuedAreClaims, db, chain, Pending
<1>3. CASE ~TakeDue
  <2>1. /\ UNCHANGED <<cur, cli>> /\ worker # "submitting"
        /\ worker' \in {"scan", "scheduling", "to sleep", "to idle", "asleep", "idle"}
    BY <1>3 DEF NothingTaken, Schedule, FallAsleep, TimerWakes, NotifyWakes, Asleep
  <2>2. TypeOK'
    BY <1>1, <2>1 DEF RowInv, TypeOK, db, chain, Pending
  <2> QED
    BY <1>1, <2>1, <2>2 DEF RowInv, InHand, QueuedAreClaims, db, chain, Pending
<1> QED
  BY <1>2, <1>3

\* BackoffElapses only makes a pending row due.
LEMMA BackoffKeepsRows ==
  ASSUME RowInv, NEW j \in Job, BackoffElapses(j)
  PROVE  RowInv' /\ \A k \in Job : row'[k].status = row[k].status /\ row'[k].tx = row[k].tx
<1> DEFINE new == [row[j] EXCEPT !.due = TRUE]
<1>1. row \in [Job -> RowType] /\ row' = [row EXCEPT ![j] = new]
  BY DEF RowInv, TypeOK, RowType, BackoffElapses
<1>2. /\ row' \in [Job -> RowType]
      /\ \A k \in Job : /\ row'[k].status = row[k].status
                        /\ row'[k].attempts = row[k].attempts
                        /\ row'[k].tx = row[k].tx
  BY <1>1 DEF RowType
<1>3. UNCHANGED <<verif, rows, up, task, proc, chain, lapsed>>
  BY DEF BackoffElapses, history
<1>4. rows \in Seq(Job)
  BY DEF RowInv, TypeOK
<1>5. TypeOK'
  BY <1>2, <1>3 DEF RowInv, TypeOK, RowType, proc, chain, Pending
<1>6. InHand'
  BY <1>2, <1>3 DEF RowInv, TypeOK, InHand, proc, Pending
<1>7. QueuedAreClaims'
  BY <1>2, <1>3, <1>4 DEF RowInv, QueuedAreClaims, chain
<1> QED
  BY <1>2, <1>5, <1>6, <1>7 DEF RowInv

\* The ledger and the child move; the rows and the worker do not.
LEMMA ChainStepKeepsRows ==
  ASSUME RowInv,
         \/ CliSimulates \/ TransactionApplied \/ MoveStake
         \/ \E c \in Claim : CloseWindow(c)
         \/ \E j \in Job : LateTransactionApplied(j) \/ LateTransactionDropped(j)
  PROVE  RowInv'
<1>1. UNCHANGED <<db, up, task, worker, cur, permit>> /\ late' \subseteq late
  BY DEF CliSimulates, TransactionApplied, MoveStake, CloseWindow, LateTransactionApplied,
     LateTransactionDropped, chain, proc
<1>2. cli # "none" => cur \in Job /\ ClaimOf[cur] # NoClaim
  BY DEF RowInv, InHand, QueuedAreClaims, TypeOK, Pending
<1>3. /\ attested' \subseteq Claim /\ landed' \subseteq Job
      /\ closed' \subseteq Claim /\ active' \in BOOLEAN /\ lapsed' \subseteq Job
  <2>1. CASE TransactionApplied
    BY <1>2, <2>1, ApplyChanges DEF TransactionApplied, RowInv, TypeOK, history
  <2>2. ASSUME NEW j \in Job, LateTransactionApplied(j) PROVE <1>3!:
    BY <2>2, ApplyChanges DEF LateTransactionApplied, RowInv, TypeOK, QueuedAreClaims, history
  <2> QED
    BY <2>1, <2>2 DEF CliSimulates, MoveStake, CloseWindow, LateTransactionDropped, chain,
       history, RowInv, TypeOK
<1>4. /\ cli' \in Refusal \cup {"none", "started", "sent", "landed"}
      /\ cli' # "none" => cli # "none"
  BY DEF CliSimulates, TransactionApplied, MoveStake, CloseWindow, LateTransactionApplied,
     LateTransactionDropped, proc, RegistryAnswer, Refusal, RowInv, TypeOK
<1>5. TypeOK'
  BY <1>1, <1>3, <1>4 DEF RowInv, TypeOK, db, Pending
<1> QED
  BY <1>1, <1>4, <1>5 DEF RowInv, InHand, QueuedAreClaims, db, Pending

LEMMA OutcomeKeepsRows ==
  ASSUME RowInv, Outcome
  PROVE  RowInv'
<1>1. /\ cur \in Job /\ Pending(cur) /\ cur' = NoJob /\ cli' = "none"
      /\ worker' \in {"scan", "scheduling"} /\ row' \in [Job -> RowType]
      /\ \A k \in Job : k # cur => row'[k] = row[k]
      /\ late' \subseteq late \cup {cur}
      /\ UNCHANGED <<verif, rows, up, task, permit, active, closed, attested, landed>>
      /\ lapsed' \subseteq lapsed
  BY OutcomeWrites
<1>2. /\ row'[cur].status # "absent"
      /\ row'[cur].status = "pending" => row'[cur].attempts < MAX_ATTEMPTS
  BY OutcomeWrites DEF RowInv, TypeOK, Pending
<1>3. \A k \in Job : Pending(k)' => row'[k].attempts < MAX_ATTEMPTS
  BY <1>1, <1>2 DEF RowInv, TypeOK, Pending
<1>4. TypeOK'
  BY <1>1, <1>3 DEF RowInv, TypeOK, RowType
<1>5. InHand'
  BY <1>1 DEF InHand
<1>6. QueuedAreClaims'
  <2>1. rows \in Seq(Job) /\ ClaimOf[cur] # NoClaim
    BY <1>1 DEF RowInv, TypeOK, QueuedAreClaims, Pending
  <2> QED
    BY <1>1, <1>2, <2>1 DEF RowInv, QueuedAreClaims
<1> QED
  BY <1>4, <1>5, <1>6 DEF RowInv

\* Neither a crash nor the sweep of a restart touches a row.
LEMMA RestartKeepsRows ==
  ASSUME RowInv, Crash \/ Restart
  PROVE  RowInv'
<1>1. CASE Crash
  <2>1. /\ late' \subseteq late \cup (IF cli # "none" THEN {cur} ELSE {})
        /\ task' \in [Job -> {"none", "building", "queueing", "waking", "done", "lost"}]
    BY <1>1 DEF Crash, RowInv, TypeOK
  <2>2. cli # "none" => cur \in Job /\ ClaimOf[cur] # NoClaim
    BY DEF RowInv, InHand, QueuedAreClaims, TypeOK, Pending
  <2>3. TypeOK'
    BY <1>1, <2>1, <2>2 DEF Crash, RowInv, TypeOK, db, Pending
  <2>4. InHand' /\ QueuedAreClaims'
    BY <1>1, <2>1, <2>2 DEF Crash, RowInv, InHand, QueuedAreClaims, db
  <2> QED
    BY <2>3, <2>4 DEF RowInv
<1>2. CASE Restart
  <2>1. /\ UNCHANGED <<rows, row, task, cur, permit, cli, chain, lapsed>> /\ worker' = "scan"
        /\ ~up /\ up' = TRUE /\ verif' \in [Job -> {"absent", "pending", "finished", "error"}]
    BY <1>2 DEF Restart, RowInv, TypeOK, history
  <2>2. TypeOK'
    BY <2>1 DEF RowInv, TypeOK, chain, Pending
  <2> QED
    BY <2>1, <2>2 DEF RowInv, InHand, QueuedAreClaims, chain, Pending
<1> QED
  BY <1>1, <1>2

LEMMA StepKeepsRows == RowInv /\ [Next]_vars => RowInv'
<1> SUFFICES ASSUME RowInv, [Next]_vars PROVE RowInv'
  OBVIOUS
<1>1. CASE UNCHANGED vars
  BY <1>1 DEF RowInv, TypeOK, InHand, QueuedAreClaims, vars, db, proc, chain, history, Pending
<1> QED
  BY <1>1, JobStepKeepsRows, QueueKeepsRows, WorkerStepKeepsRows, BackoffKeepsRows,
     ChainStepKeepsRows, OutcomeKeepsRows, RestartKeepsRows DEF Next, Outcome

LEMMA RowsStart == Init => RowInv
<1> SUFFICES ASSUME Init PROVE RowInv
  OBVIOUS
<1>1. NoRow \in RowType /\ NoRow.status = "absent"
  BY OutboxAssumption DEF NoRow, RowType
<1>2. rows = <<>> /\ rows \in Seq(Job) /\ DOMAIN rows = {}
  BY DEF Init
<1>3. TypeOK
  BY <1>1, <1>2 DEF Init, TypeOK, RowType, Pending
<1> QED
  BY <1>1, <1>2, <1>3 DEF Init, RowInv, InHand, QueuedAreClaims

\* The row invariant, with the type invariant in it.
THEOREM RowInvariant == Spec => []RowInv
  BY RowsStart, StepKeepsRows, PTL DEF Spec

\* The outbox keeps its types: in particular no verification has two rows and no row
\* is attempted more than MAX_ATTEMPTS times, however often the process crashes
\* (enqueue_attestation, attempt).
THEOREM OutboxTypeCorrect == Spec => []TypeOK
  BY RowInvariant, PTL DEF RowInv
-----------------------------------------------------------------------------
(* What is recorded. *)

\* A row changes only by being queued or retried, or when the attempt at it ends; a
\* decided row does not change.
LEMMA OnlyOutcomesDecide ==
  ASSUME RowInv, [Next]_vars, NEW j \in Job
  PROVE  \/ row'[j] = row[j]
         \/ row'[j].status = "pending" /\ ~Decided(j) /\ row'[j].tx \in {FALSE, row[j].tx}
         \/ Outcome /\ j = cur /\ ~Decided(j)
<1>1. CASE Outcome
  <2>1. j # cur => row'[j] = row[j]
    BY <1>1, OutcomeWrites
  <2>2. ~Decided(cur)
    BY <1>1, OutcomeWrites DEF Pending, Decided
  <2> QED
    BY <1>1, <2>1, <2>2
<1>2. ASSUME NEW k \in Job, BackoffElapses(k)
      PROVE  \/ row'[j] = row[j]
             \/ row'[j].status = "pending" /\ ~Decided(j) /\ row'[j].tx \in {FALSE, row[j].tx}
  <2>1. row'[j].status = row[j].status /\ row'[j].tx = row[j].tx
    BY <1>2, BackoffKeepsRows
  <2>2. row[k].status = "pending" /\ (j # k => row'[j] = row[j])
    BY <1>2 DEF BackoffElapses, Pending, RowInv, TypeOK
  <2> QED
    BY <2>1, <2>2 DEF Decided
<1>3. ASSUME NEW k \in Job, Queue(k)
      PROVE  \/ row'[j] = row[j]
             \/ row'[j].status = "pending" /\ ~Decided(j) /\ row'[j].tx \in {FALSE, row[j].tx}
  <2>1. /\ row[k].status = "absent" /\ row'[k].status = "pending" /\ row'[k].tx = FALSE
        /\ (j # k => row'[j] = row[j])
    BY <1>3 DEF Queue, NoRow, RowInv, TypeOK
  <2> QED
    BY <2>1 DEF Decided
<1>4. CASE UNCHANGED row
  BY <1>4
<1> QED
  BY <1>1, <1>2, <1>3, <1>4
  DEF Next, vars, db, Outcome, Accept, JobErrs, StoreResult, NothingQueued, Wake,
      LateTransactionApplied, LateTransactionDropped, TakeDue, NothingTaken, Schedule,
      FallAsleep, TimerWakes, NotifyWakes, CliSimulates, TransactionApplied, CloseWindow,
      MoveStake, Crash, Restart

\* The ledger forgets nothing.
LEMMA LedgerGrows ==
  ASSUME [Next]_vars
  PROVE  closed \subseteq closed' /\ attested \subseteq attested' /\ landed \subseteq landed'
<1>1. ASSUME NEW j, Apply(j) PROVE attested \subseteq attested' /\ landed \subseteq landed'
  BY <1>1 DEF Apply
<1>2. CASE TransactionApplied \/ \E j \in Job : LateTransactionApplied(j)
  BY <1>1, <1>2 DEF TransactionApplied, LateTransactionApplied
<1>3. CASE \E c \in Claim : CloseWindow(c)
  BY <1>3 DEF CloseWindow
<1>4. CASE UNCHANGED <<closed, attested, landed>>
  BY <1>4
<1> QED
  BY <1>2, <1>3, <1>4
  DEF Next, vars, chain, Accept, JobErrs, StoreResult, NothingQueued, Queue, Wake,
      BackoffElapses, LateTransactionDropped, TakeDue, NothingTaken, Schedule, FallAsleep,
      TimerWakes, NotifyWakes, CliSimulates, MoveStake, Submitted, Refused, Failed,
      AttemptEnds, Crash, Restart

\* MoveStake notes the attempt it falls into, and an attempt that begins while the
\* verifier is inactive is noted at once.
LEMMA StepKeepsLapses ==
  ASSUME RowInv, LapsesAreNoted, [Next]_vars
  PROVE  LapsesAreNoted'
<1>1. CASE TakeDue
  BY <1>1 DEF TakeDue, chain, LapsesAreNoted
<1>2. CASE MoveStake
  BY <1>2 DEF MoveStake, proc, LapsesAreNoted
<1>3. CASE cur' = NoJob
  BY <1>3 DEF LapsesAreNoted
<1>4. CASE UNCHANGED <<cur, active, lapsed>>
  BY <1>4 DEF LapsesAreNoted
<1> QED
  BY <1>1, <1>2, <1>3, <1>4
  DEF Next, vars, chain, proc, history, Accept, JobErrs, StoreResult, NothingQueued, Queue, Wake,
      BackoffElapses, LateTransactionApplied, LateTransactionDropped, NothingTaken, Schedule,
      FallAsleep, TimerWakes, NotifyWakes, CliSimulates, TransactionApplied, CloseWindow,
      Submitted, Refused, Failed, AttemptEnds, Crash, Restart

\* Only an attempt that begins clears the note of the one before it, and one that ends
\* otherwise than in NotActive its own, so what is noted of a row that is not pending, or
\* of the row in hand once it was refused for it, stays.
LEMMA LapsesStay ==
  ASSUME RowInv, [Next]_vars, NEW j \in lapsed,
         ~Pending(j) \/ (j = cur /\ cli = "NotActive")
  PROVE  j \in lapsed'
<1>1. CASE TakeDue
  <2>1. Pending(cur') /\ (cur' # j => j \in lapsed')
    BY <1>1 DEF TakeDue, IsOldestDue, Due
  <2>2. worker = "scan" /\ cur' \in Job
    BY <1>1 DEF TakeDue
  <2>3. cur = NoJob
    BY <2>2 DEF RowInv, InHand
  <2>4. j \in Job
    BY DEF RowInv, TypeOK
  <2> QED
    BY <2>1, <2>3, <2>4, OutboxAssumption
<1>2. CASE MoveStake
  BY <1>2 DEF MoveStake
<1>3. CASE AttemptEnds
  BY <1>3 DEF AttemptEnds, RowInv, InHand, TypeOK
<1>4. CASE UNCHANGED lapsed
  BY <1>4
<1> QED
  BY <1>1, <1>2, <1>3, <1>4
  DEF Next, vars, history, Accept, JobErrs, StoreResult, NothingQueued, Queue, Wake,
      BackoffElapses, LateTransactionApplied, LateTransactionDropped, NothingTaken, Schedule,
      FallAsleep, TimerWakes, NotifyWakes, CliSimulates, TransactionApplied, CloseWindow,
      Submitted, Refused, Failed, Crash, Restart

LEMMA StepKeepsReports ==
  ASSUME RowInv, ReportsAreTrue, LapsesAreNoted, [Next]_vars
  PROVE  ReportsAreTrue'
<1>1. closed \subseteq closed' /\ attested \subseteq attested' /\ landed \subseteq landed'
  BY LedgerGrows
<1>2. CASE CliSimulates
  <2>1. cur # NoJob /\ UNCHANGED <<cur, closed, attested, landed, lapsed>>
    BY <1>2 DEF CliSimulates, chain, history, RowInv, InHand
  <2>2. cli' \in {"sent", RegistryAnswer(ClaimOf[cur])} /\ cli' # "accepted"
    BY <1>2 DEF CliSimulates, RegistryAnswer
  <2> QED
    BY <2>1, <2>2 DEF RegistryAnswer, ReportsAreTrue, LapsesAreNoted
<1>3. CASE TransactionApplied
  <2>1. /\ cur \in Job /\ ClaimOf[cur] # NoClaim /\ cur # NoJob
        /\ UNCHANGED <<cur, closed, lapsed>>
    BY <1>3, OutboxAssumption DEF TransactionApplied, history, RowInv, InHand, QueuedAreClaims, TypeOK, Pending
  <2>2. RegistryAnswer(ClaimOf[cur]) = "accepted" => cur \in landed'
    BY <1>3, <2>1, ApplyChanges DEF TransactionApplied, RowInv
  <2>3. cli' = IF RegistryAnswer(ClaimOf[cur]) = "accepted" THEN "landed"
               ELSE RegistryAnswer(ClaimOf[cur])
    BY <1>3 DEF TransactionApplied
  <2> QED
    BY <1>1, <2>1, <2>2, <2>3 DEF ReportsAreTrue, RegistryAnswer, LapsesAreNoted
<1>4. CASE cli' \in {"none", "started"}
  BY <1>4 DEF ReportsAreTrue
<1>5. CASE UNCHANGED <<cli, cur>>
  <2>1. cli = "NotActive" => cur \in lapsed'
    BY LapsesStay DEF ReportsAreTrue
  <2> QED
    BY <1>1, <1>5, <2>1 DEF ReportsAreTrue
<1> QED
  BY <1>2, <1>3, <1>4, <1>5
  DEF Next, vars, proc, Accept, JobErrs, StoreResult, NothingQueued, Queue, Wake,
      BackoffElapses, LateTransactionApplied, LateTransactionDropped, TakeDue, NothingTaken,
      Schedule, FallAsleep, TimerWakes, NotifyWakes, CloseWindow, MoveStake, Submitted,
      Refused, Failed, AttemptEnds, Crash, Restart

\* What a decided row says is so: a submitted row's own transaction landed, only a
\* submitted row names one, and a rejected row gives a reason that was true when it was
\* given: a closed window or an attested claim, which stay; an inactive verifier at some
\* moment of the last attempt, which need not; or MAX_ATTEMPTS attempts (attempt,
\* classify, transaction_hash).
THEOREM OutboxRecordsTheTruth == Spec => []RecordsAreTrue
<1> DEFINE Inv == ReportsAreTrue /\ LapsesAreNoted /\ RecordsAreTrue
<1>1. Init => Inv
  BY DEF Init, ReportsAreTrue, LapsesAreNoted, RecordsAreTrue, NoRow
<1>2. RowInv /\ Inv /\ [Next]_vars => Inv'
  <2> SUFFICES ASSUME RowInv, Inv, [Next]_vars
               PROVE  Inv'
    OBVIOUS
  <2>1. closed \subseteq closed' /\ attested \subseteq attested' /\ landed \subseteq landed'
    BY LedgerGrows
  <2> DEFINE True(j) ==
        /\ row[j].status = "submitted" => j \in landed
        /\ row[j].tx => row[j].status = "submitted"
        /\ row[j].status = "rejected" => ReasonHeld(j)
  <2>2. ASSUME NEW j \in Job PROVE True(j)'
    <3>1. True(j)
      BY DEF RecordsAreTrue
    <3>2. CASE row'[j] = row[j]
      <4>1. row[j].status = "rejected" /\ j \in lapsed => j \in lapsed'
        BY LapsesStay DEF Pending
      <4> QED
        BY <2>1, <3>1, <3>2, <4>1 DEF ReasonHeld
    <3>3. CASE row'[j].status = "pending" /\ ~Decided(j) /\ row'[j].tx \in {FALSE, row[j].tx}
      BY <3>1, <3>3 DEF Decided
    <3>4. CASE Outcome /\ j = cur
      <4>1. j \in lapsed /\ cli = "NotActive" => j \in lapsed'
        BY <3>4, LapsesStay
      <4> QED
        BY <2>1, <3>1, <3>2, <3>4, <4>1, OutcomeWrites DEF ReportsAreTrue, Refusal, ReasonHeld, Pending
    <3> QED
      BY <3>2, <3>3, <3>4, OnlyOutcomesDecide
  <2> QED
    BY <2>2, StepKeepsReports, StepKeepsLapses DEF RecordsAreTrue
<1> QED
  BY <1>1, <1>2, RowInvariant, PTL DEF Spec

\* A decided row is never written again, nor taken for another attempt (attempt,
\* due_attestation).
THEOREM DecidedRowsAreFinal == Spec => DecidedRowsStay
<1> DEFINE Stay == \A j \in Job : Decided(j) =>
        row'[j] = row[j] /\ (worker' = "submitting" /\ worker # "submitting" => cur' # j)
<1>1. RowInv /\ RowInv' /\ [Next]_vars => [Stay]_vars
  <2> SUFFICES ASSUME RowInv, RowInv', Next, NEW j \in Job, Decided(j)
               PROVE  /\ row'[j] = row[j]
                      /\ worker' = "submitting" /\ worker # "submitting" => cur' # j
    BY DEF Stay
  <2>1. row'[j] = row[j]
    <3>1. Outcome => ~(j = cur)
      BY OutcomeWrites DEF Pending, Decided
    <3>2. CASE row'[j].status = "pending" /\ ~Decided(j) /\ row'[j].tx \in {FALSE, row[j].tx}
      BY <3>2
    <3> QED
      BY <3>1, <3>2, OnlyOutcomesDecide
  <2>2. cur' # NoJob => Pending(cur)'
    BY DEF RowInv, InHand
  <2>3. j # NoJob
    BY OutboxAssumption
  <2> QED
    BY <2>1, <2>2, <2>3 DEF Decided, Pending
<1> QED
  BY <1>1, RowInvariant, PTL DEF Spec, DecidedRowsStay
-----------------------------------------------------------------------------
(* No wakeup is lost. *)

LEMMA StepKeepsAcceptance ==
  ASSUME RowInv, TasksWereAccepted, [Next]_vars
  PROVE  TasksWereAccepted'
<1>1. CASE \E k \in Job : Accept(k) \/ JobErrs(k) \/ StoreResult(k)
  BY <1>1 DEF Accept, JobErrs, StoreResult, RowInv, TypeOK, TasksWereAccepted
<1>2. CASE \E k \in Job : NothingQueued(k) \/ Queue(k) \/ Wake(k)
  BY <1>2 DEF NothingQueued, Queue, Wake, db, RowInv, TypeOK, TasksWereAccepted
<1>3. CASE Crash \/ Restart
  BY <1>3 DEF Crash, Restart, db, RowInv, TypeOK, TasksWereAccepted
<1>4. CASE UNCHANGED <<verif, task>>
  BY <1>4 DEF TasksWereAccepted
<1> QED
  BY <1>1, <1>2, <1>3, <1>4
  DEF Next, vars, db, BackoffElapses, LateTransactionApplied, LateTransactionDropped, TakeDue,
      NothingTaken, Schedule, FallAsleep, TimerWakes, NotifyWakes, CliSimulates,
      TransactionApplied, CloseWindow, MoveStake, Submitted, Refused, Failed, AttemptEnds

LEMMA StepKeepsWakeups ==
  ASSUME RowInv, TasksWereAccepted, NoWakeupLost, [Next]_vars
  PROVE  NoWakeupLost'
<1> DEFINE Dozing == worker \in {"to idle", "idle"}
           Told == permit \/ \E j \in Job : task[j] = "waking"
<1> SUFFICES ASSUME Dozing', NEW j \in Job, Pending(j)'
             PROVE  Told'
  BY DEF NoWakeupLost
<1>1. CASE \E k \in Job : Queue(k)
  BY <1>1 DEF Queue, RowInv, TypeOK
<1>2. CASE \E k \in Job : Wake(k)
  BY <1>2 DEF Wake
<1>3. CASE \E failed \in BOOLEAN : Schedule(failed)
  BY <1>3 DEF Schedule, db, Pending
<1>4. CASE /\ Dozing /\ Pending(j) /\ permit' = permit
           /\ \A k \in Job : task[k] = "waking" => task'[k] = "waking"
  BY <1>4 DEF NoWakeupLost
<1>5. ASSUME NEW k \in Job,
             Accept(k) \/ JobErrs(k) \/ StoreResult(k) \/ NothingQueued(k)
      PROVE  Told'
  <2>1. /\ UNCHANGED <<row, worker, permit>>
        /\ \A i \in Job : task[i] = "waking" => task'[i] = "waking"
    BY <1>5 DEF Accept, JobErrs, StoreResult, NothingQueued, proc, db, RowInv, TypeOK,
       TasksWereAccepted
  <2> QED
    BY <1>4, <2>1 DEF Pending
<1>6. CASE \E k \in Job : BackoffElapses(k)
  <2>1. /\ UNCHANGED <<task, worker, permit>>
        /\ \A i \in Job : row'[i].status = row[i].status
    BY <1>6, BackoffKeepsRows DEF BackoffElapses, proc
  <2> QED
    BY <1>4, <2>1 DEF Pending
<1>7. CASE FallAsleep
  <2>1. UNCHANGED <<row, task, permit>> /\ Dozing
    BY <1>7 DEF FallAsleep, db
  <2> QED
    BY <1>4, <2>1 DEF Pending
<1>8. CASE UNCHANGED <<row, worker, permit, task>>
  BY <1>4, <1>8 DEF Pending
<1>9. CASE worker' \in {"scan", "scheduling", "submitting", "down"}
  BY <1>9
<1>10. Outcome => worker' \in {"scan", "scheduling"}
  BY OutcomeWrites
<1> QED
  BY <1>1, <1>2, <1>3, <1>5, <1>6, <1>7, <1>8, <1>9, <1>10
  DEF Next, vars, proc, db, Outcome, LateTransactionApplied, LateTransactionDropped, TakeDue,
      NothingTaken, TimerWakes, NotifyWakes, CliSimulates, TransactionApplied, CloseWindow,
      MoveStake, Crash, Restart

\* No wakeup is lost between the query that finds the queue empty and the sleep that
\* follows it: a row queued meanwhile has its notification (enqueue, worker).
THEOREM NoWakeupIsLost == Spec => []NoSleepOnNewWork
<1>1. Init => NoWakeupLost /\ TasksWereAccepted
  BY DEF Init, NoWakeupLost, TasksWereAccepted
<1>2. RowInv /\ TasksWereAccepted /\ NoWakeupLost /\ [Next]_vars
        => NoWakeupLost' /\ TasksWereAccepted'
  BY StepKeepsWakeups, StepKeepsAcceptance
<1>3. NoWakeupLost => NoSleepOnNewWork
  BY DEF NoWakeupLost, NoSleepOnNewWork
<1> QED
  BY <1>1, <1>2, <1>3, RowInvariant, PTL DEF Spec
=============================================================================
