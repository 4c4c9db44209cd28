------------------------------- MODULE Outbox -------------------------------
(***************************************************************************)
(* The attestation outbox of one node: the end of run_job, which stores a  *)
(* job's result and queues its attestation (crates/api/src/server.rs), the *)
(* two SQLite tables (db.rs), the single worker that drains the queue      *)
(* through a stellar-cli child process (attest.rs), process crashes and    *)
(* restarts (main.rs), and the part of the registry that answers attest(). *)
(*                                                                         *)
(* Abstractions: hashes are claims, a retry time is due or not yet due,    *)
(* the length of a backoff and the wording of errors are left out, and     *)
(* verified and mismatch are one outcome, "finished", since both attest.   *)
(***************************************************************************)
EXTENDS Integers, Sequences, FiniteSets

CONSTANTS
    Job,           \* verification ids
    Claim,         \* claims the registry can be asked about
    NoClaim,       \* a report that cannot form a claim (no image digest)
    NoJob,         \* the worker has no row in hand
    ClaimOf,       \* the claim of a job's report, or NoClaim
    MAX_ATTEMPTS,  \* attempts before an attestation is given up on
    MaxCrashes,    \* bound: crashes of the process
    MaxStakeMoves  \* bound: times this verifier becomes active or inactive

ASSUME OutboxAssumption ==
    /\ NoClaim \notin Claim /\ NoJob \notin Job
    /\ ClaimOf \in [Job -> Claim \cup {NoClaim}]
    /\ MAX_ATTEMPTS \in Nat \ {0}
    /\ MaxCrashes \in Nat /\ MaxStakeMoves \in Nat

VARIABLES
    \* the database
    verif,     \* status of a job's row in verifications
    rows,      \* attestations: jobs in order of their row id
    row,       \* a job's attestation row: status, attempts, is it due, last refusal, and
               \* whether its tx_hash names a transaction
    \* the process
    up,        \* is the service running
    task,      \* how far run_job is for a job
    worker,    \* the worker's phase; "idle" is the sleep with nothing pending
    cur,       \* the row the worker submits
    permit,    \* tokio Notify: a stored notification
    cli,       \* the stellar-cli child
    \* the ledger
    active,    \* this verifier's stake reaches min_stake
    closed,    \* claims whose window has closed
    attested,  \* claims this verifier has attested
    landed,    \* jobs whose own transaction made the attestation
    late,      \* jobs with a transaction under way that no child waits for
    \* history, and counters of the bounds
    lapsed,    \* jobs in whose last attempt this verifier was inactive for a moment,
               \* unless that attempt ended otherwise than in NotActive
    crashes, stakeMoves

db     == <<verif, rows, row>>
chain  == <<active, closed, attested, landed, late>>
proc   == <<worker, cur, permit, cli>>
history == <<lapsed, crashes, stakeMoves>>
vars   == <<db, up, task, proc, chain, history>>

Asleep == {"asleep", "idle"}

Refusal == {"NotActive", "WindowClosed", "AlreadyAttested"}

NoRow == [status |-> "absent", attempts |-> 0, due |-> FALSE, why |-> "none", tx |-> FALSE]

Init ==
    /\ verif = [j \in Job |-> "absent"]
    /\ rows = <<>>
    /\ row = [j \in Job |-> NoRow]
    /\ up = TRUE
    /\ task = [j \in Job |-> "none"]
    /\ worker = "scan" /\ cur = NoJob
    /\ permit = FALSE
    /\ cli = "none"
    /\ active = TRUE
    /\ closed = {} /\ attested = {} /\ landed = {} /\ late = {}
    /\ lapsed = {} /\ crashes = 0 /\ stakeMoves = 0
-----------------------------------------------------------------------------
(* The job: POST /verify up to the spawn, then run_job. *)

\* insert_pending and the spawn of run_job.
Accept(j) ==
    /\ up /\ verif[j] = "absent"
    /\ verif' = [verif EXCEPT ![j] = "pending"]
    /\ task' = [task EXCEPT ![j] = "building"]
    /\ UNCHANGED <<rows, row, up, proc, chain, history>>

\* reproduce() returned an error, or panicked: fail(), which may itself fail.
JobErrs(j) ==
    /\ up /\ task[j] = "building"
    /\ verif' \in {verif, [verif EXCEPT ![j] = "error"]}
    /\ task' = [task EXCEPT ![j] = "done"]
    /\ UNCHANGED <<rows, row, up, proc, chain, history>>

\* reproduce() returned a report: complete(), whose error is only looked at
\* after the attestation has been queued.
StoreResult(j) ==
    /\ up /\ task[j] = "building"
    /\ verif' \in {verif, [verif EXCEPT ![j] = "finished"]}
    /\ task' = [task EXCEPT ![j] = "queueing"]
    /\ UNCHANGED <<rows, row, up, proc, chain, history>>

\* Attestor::enqueue before the insert: nothing to attest, or the insert fails.
NothingQueued(j) ==
    /\ up /\ task[j] = "queueing"
    /\ task' = [task EXCEPT ![j] = "done"]
    /\ UNCHANGED <<db, up, proc, chain, history>>

\* enqueue_attestation: INSERT OR IGNORE on the unique verification id.
Queue(j) ==
    /\ up /\ task[j] = "queueing"
    /\ ClaimOf[j] # NoClaim /\ row[j].status = "absent"
    /\ rows' = Append(rows, j)
    /\ row' = [row EXCEPT ![j] = [NoRow EXCEPT !.status = "pending", !.due = TRUE]]
    /\ task' = [task EXCEPT ![j] = "waking"]
    /\ UNCHANGED <<verif, up, proc, chain, history>>

\* Mutant: the worker is told only if it is already asleep.
WakeOnlyASleeper(j) ==
    /\ up /\ task[j] = "waking"
    /\ permit' = (permit \/ worker \in Asleep)
    /\ task' = [task EXCEPT ![j] = "done"]
    /\ UNCHANGED <<db, up, worker, cur, cli, chain, history>>

\* notify_one: a notification nobody waits for is stored, and one is enough.
Wake(j) ==
    /\ up /\ task[j] = "waking"
    /\ permit' = TRUE
    /\ task' = [task EXCEPT ![j] = "done"]
    /\ UNCHANGED <<db, up, worker, cur, cli, chain, history>>
-----------------------------------------------------------------------------
(* The worker. *)

Pending(j) == row[j].status = "pending"

\* Mutant: the status is not part of the query.
DueWhateverStatus(j) == row[j].status # "absent" /\ row[j].due

Due(j) == Pending(j) /\ row[j].due

\* ORDER BY id LIMIT 1 over the due rows.
IsOldestDue(j) ==
    \E i \in DOMAIN rows :
        /\ rows[i] = j /\ Due(j)
        /\ \A k \in DOMAIN rows : k < i => ~Due(rows[k])

\* due_attestation found a row: its attempt starts.
TakeDue ==
    /\ up /\ worker = "scan"
    /\ \E j \in Job :
        /\ IsOldestDue(j) /\ cur' = j
        /\ lapsed' = IF active THEN lapsed \ {j} ELSE lapsed \cup {j}
    /\ worker' = "submitting" /\ cli' = "started"
    /\ UNCHANGED <<db, up, task, permit, chain, crashes, stakeMoves>>

\* Nothing is due, or the query failed.
NothingTaken(failed) ==
    /\ up /\ worker = "scan"
    /\ failed \/ \A j \in Job : ~Due(j)
    /\ worker' = "scheduling"
    /\ UNCHANGED <<db, up, task, cur, permit, cli, chain, history>>

\* seconds_until_next_attestation: Some(secs) with any row pending, else the
\* idle poll; the idle poll as well when the query fails.
Schedule(failed) ==
    /\ up /\ worker = "scheduling"
    /\ worker' = IF ~failed /\ \A j \in Job : ~Pending(j) THEN "to idle" ELSE "to sleep"
    /\ UNCHANGED <<db, up, task, cur, permit, cli, chain, history>>

\* select! is polled for the first time, some time after the query.
FallAsleep ==
    /\ up /\ worker \in {"to idle", "to sleep"}
    /\ worker' = IF worker = "to idle" THEN "idle" ELSE "asleep"
    /\ UNCHANGED <<db, up, task, cur, permit, cli, chain, history>>

\* select!: the timer.
TimerWakes ==
    /\ up /\ worker \in Asleep
    /\ worker' = "scan"
    /\ UNCHANGED <<db, up, task, cur, permit, cli, chain, history>>

\* select!: the notification, which consumes the permit.
NotifyWakes ==
    /\ up /\ worker \in Asleep /\ permit
    /\ permit' = FALSE
    /\ worker' = "scan"
    /\ UNCHANGED <<db, up, task, cur, cli, chain, history>>

\* next_attempt_at is reached.
BackoffElapses(j) ==
    /\ Pending(j) /\ ~row[j].due
    /\ row' = [row EXCEPT ![j].due = TRUE]
    /\ UNCHANGED <<verif, rows, up, task, proc, chain, history>>
-----------------------------------------------------------------------------
(* The child process and the ledger. *)

\* What attest() answers, in the order in which the registry checks.
RegistryAnswer(c) ==
    IF ~active THEN "NotActive"
    ELSE IF c \in closed THEN "WindowClosed"
    ELSE IF c \in attested THEN "AlreadyAttested"
    ELSE "accepted"

\* The CLI simulates the call and sends the transaction only if that succeeds.
CliSimulates ==
    /\ cli = "started"
    /\ cli' = IF RegistryAnswer(ClaimOf[cur]) = "accepted" THEN "sent"
              ELSE RegistryAnswer(ClaimOf[cur])
    /\ UNCHANGED <<db, up, task, worker, cur, permit, chain, history>>

\* The registry's verdict on job j's transaction when the ledger applies it.
Apply(j) ==
    IF RegistryAnswer(ClaimOf[j]) = "accepted"
    THEN attested' = attested \cup {ClaimOf[j]} /\ landed' = landed \cup {j}
    ELSE UNCHANGED <<attested, landed>>

TransactionApplied ==
    /\ cli = "sent"
    /\ Apply(cur)
    /\ cli' = IF RegistryAnswer(ClaimOf[cur]) = "accepted" THEN "landed"
              ELSE RegistryAnswer(ClaimOf[cur])
    /\ UNCHANGED <<db, up, task, worker, cur, permit, active, closed, late, history>>

\* A transaction whose child was killed, or died with its process.
LateTransactionApplied(j) ==
    /\ j \in late
    /\ Apply(j)
    /\ late' = late \ {j}
    /\ UNCHANGED <<db, up, task, proc, active, closed, history>>

LateTransactionDropped(j) ==
    /\ j \in late
    /\ late' = late \ {j}
    /\ UNCHANGED <<db, up, task, proc, active, closed, attested, landed, history>>

CloseWindow(c) ==
    /\ c \notin closed
    /\ closed' = closed \cup {c}
    /\ UNCHANGED <<db, up, task, proc, active, attested, landed, late, history>>

\* The operator stakes or unstakes, or the verifier is slashed.
MoveStake ==
    /\ stakeMoves < MaxStakeMoves
    /\ stakeMoves' = stakeMoves + 1
    /\ active' = ~active
    /\ lapsed' = IF active /\ cur # NoJob THEN lapsed \cup {cur} ELSE lapsed
    /\ UNCHANGED <<db, up, task, proc, closed, attested, landed, late, crashes>>
-----------------------------------------------------------------------------
(* The outcome of an attempt and its bookkeeping.  An outcome that cannot be *)
(* written leaves the row as it was, and the worker sleeps before it looks   *)
(* again; one that is written sends it straight back to the queue.           *)

\* finish_attestation.
Finish(j, status, why, tx) ==
    row' = [row EXCEPT ![j].status = status, ![j].attempts = @ + 1, ![j].why = why,
                       ![j].tx = tx]

NotWritten == UNCHANGED row /\ worker' = "scheduling"

AttemptEnds ==
    /\ up /\ worker = "submitting"
    /\ cli' = "none" /\ cur' = NoJob
    /\ lapsed' = IF cli = "NotActive" THEN lapsed ELSE lapsed \ {cur}
    /\ UNCHANGED <<verif, rows, up, task, permit, active, closed, attested, landed,
                   crashes, stakeMoves>>

\* Ok(tx_hash): the child named its transaction, or no hash could be read from it.
Submitted ==
    /\ AttemptEnds /\ cli = "landed"
    /\ UNCHANGED late
    /\ \/ \E tx \in BOOLEAN : Finish(cur, "submitted", "none", tx) /\ worker' = "scan"
       \/ NotWritten

\* Mutant: "already attested" is taken for success.
RefusedUnlessAttested ==
    /\ AttemptEnds /\ cli \in Refusal
    /\ UNCHANGED late
    /\ \/ /\ Finish(cur, IF cli = "AlreadyAttested" THEN "submitted" ELSE "rejected", cli,
                  FALSE)
          /\ worker' = "scan"
       \/ NotWritten

\* SubmitError::Permanent: classify found a contract error.
Refused ==
    /\ AttemptEnds /\ cli \in Refusal
    /\ UNCHANGED late
    /\ \/ Finish(cur, "rejected", cli, FALSE) /\ worker' = "scan"
       \/ NotWritten

\* attestation_retry_later updates the row and then reads the count back: the
\* read may fail when the update did not.
RetryLater(j) ==
    /\ row' = [row EXCEPT ![j].attempts = @ + 1, ![j].due = FALSE, ![j].why = "transport"]
    /\ worker' \in {"scan", "scheduling"}

\* Mutant: one attempt too many.
FailedOneMore ==
    /\ AttemptEnds
    /\ late' \in IF cli = "sent" THEN {late, late \cup {cur}} ELSE {late}
    /\ \/ /\ row[cur].attempts + 1 > MAX_ATTEMPTS
          /\ Finish(cur, "rejected", "GaveUp", FALSE) /\ worker' = "scan"
       \/ row[cur].attempts + 1 <= MAX_ATTEMPTS /\ RetryLater(cur)
       \/ NotWritten

\* SubmitError::Transient: the child did not start, hung until INVOKE_TIMEOUT and
\* was killed, or lost the network, whatever its transaction has come to.
Failed ==
    /\ AttemptEnds
    /\ late' \in IF cli = "sent" THEN {late, late \cup {cur}} ELSE {late}
    /\ \/ /\ row[cur].attempts + 1 >= MAX_ATTEMPTS
          /\ Finish(cur, "rejected", "GaveUp", FALSE) /\ worker' = "scan"
       \/ row[cur].attempts + 1 < MAX_ATTEMPTS /\ RetryLater(cur)
       \/ NotWritten

Outcome == Submitted \/ Refused \/ Failed
-----------------------------------------------------------------------------
(* Crash and restart. *)

\* SIGKILL, out of memory or a redeploy: the tasks, the worker and the stored
\* notification are gone; a running child may finish what it had begun.
Crash ==
    /\ up /\ crashes < MaxCrashes
    /\ crashes' = crashes + 1
    /\ up' = FALSE
    /\ task' = [j \in Job |-> IF task[j] \in {"none", "done"} THEN task[j] ELSE "lost"]
    /\ late' \in IF cli \in {"started", "sent"} THEN {late, late \cup {cur}} ELSE {late}
    /\ worker' = "down" /\ cur' = NoJob /\ cli' = "none" /\ permit' = FALSE
    /\ UNCHANGED <<db, active, closed, attested, landed, lapsed, stakeMoves>>

\* Mutant: the outbox is not drained until something new is queued.
RestartAsleep ==
    /\ ~up /\ up' = TRUE
    /\ verif' = [j \in Job |-> IF verif[j] = "pending" THEN "error" ELSE verif[j]]
    /\ worker' = "down"
    /\ UNCHANGED <<rows, row, task, cur, permit, cli, chain, history>>

\* fail_orphaned_pending sweeps verifications, never attestations; the listener
\* opens after it and the worker starts.
Restart ==
    /\ ~up /\ up' = TRUE
    /\ verif' = [j \in Job |-> IF verif[j] = "pending" THEN "error" ELSE verif[j]]
    /\ worker' = "scan"
    /\ UNCHANGED <<rows, row, task, cur, permit, cli, chain, history>>

Next ==
    \/ \E j \in Job : \/ Accept(j) \/ JobErrs(j) \/ StoreResult(j)
                      \/ NothingQueued(j) \/ Queue(j) \/ Wake(j)
                      \/ BackoffElapses(j)
                      \/ LateTransactionApplied(j) \/ LateTransactionDropped(j)
    \/ TakeDue \/ \E failed \in BOOLEAN : NothingTaken(failed) \/ Schedule(failed)
    \/ FallAsleep \/ TimerWakes \/ NotifyWakes
    \/ CliSimulates \/ TransactionApplied
    \/ \E c \in Claim : CloseWindow(c)
    \/ MoveStake
    \/ Submitted \/ Refused \/ Failed
    \/ Crash \/ Restart

Spec == Init /\ [][Next]_vars

\* An outcome whose write went through.
OutcomeWritten == Outcome /\ row' # row

\* The worker's own loop, a query that fails included.
WorkerMoves ==
    \/ \E failed \in BOOLEAN : NothingTaken(failed) \/ Schedule(failed)
    \/ FallAsleep \/ TimerWakes

\* The runtime polls the worker and its timers fire; INVOKE_TIMEOUT ends every
\* attempt; a query and an update do not fail every single time; a retry time is
\* reached; a supervisor restarts the process.
FairSpec ==
    /\ Spec
    /\ WF_vars(WorkerMoves)
    /\ SF_vars(TakeDue)
    /\ SF_vars(OutcomeWritten)
    /\ \A j \in Job : WF_vars(BackoffElapses(j))
    /\ WF_vars(Restart)
-----------------------------------------------------------------------------
Decided(j) == row[j].status \in {"submitted", "rejected"}

\* Row ids are unique per verification and no row is attempted more than
\* MAX_ATTEMPTS times (the outbox table, attempt).
TypeOK ==
    /\ verif \in [Job -> {"absent", "pending", "finished", "error"}]
    /\ rows \in Seq(Job)
    /\ \A i, k \in DOMAIN rows : rows[i] = rows[k] => i = k
    /\ row \in [Job -> [status : {"absent", "pending", "submitted", "rejected"},
                        attempts : 0 .. MAX_ATTEMPTS, due : BOOLEAN,
                        why : Refusal \cup {"none", "transport", "GaveUp"}, tx : BOOLEAN]]
    /\ \A j \in Job : Pending(j) => row[j].attempts < MAX_ATTEMPTS
    /\ up \in BOOLEAN
    /\ task \in [Job -> {"none", "building", "queueing", "waking", "done", "lost"}]
    /\ worker \in {"scan", "scheduling", "to sleep", "to idle", "asleep", "idle",
                  "submitting", "down"}
    /\ cur \in Job \cup {NoJob} /\ permit \in BOOLEAN
    /\ cli \in Refusal \cup {"none", "started", "sent", "landed"}
    /\ active \in BOOLEAN
    /\ closed \subseteq Claim /\ attested \subseteq Claim
    /\ landed \subseteq Job /\ late \subseteq Job /\ lapsed \subseteq Job

\* The reason a rejected row gives, as far as it is one the ledger knows: the window is
\* closed and the claim attested for good, but an inactive verifier may have become
\* active again since.
ReasonHeld(j) ==
    CASE row[j].why = "WindowClosed" -> ClaimOf[j] \in closed
      [] row[j].why = "AlreadyAttested" -> ClaimOf[j] \in attested
      [] row[j].why = "NotActive" -> j \in lapsed
      [] row[j].why = "GaveUp" -> row[j].attempts = MAX_ATTEMPTS
      [] OTHER -> FALSE

\* What a decided row says, across crashes, lost replies, failed writes and transactions
\* applied late.  A submitted row's own transaction landed, whether or not the row could
\* name it; a row that names a transaction is submitted.  A rejected row gives one of four
\* reasons, each true when it was given: the registry's three, of which NotActive held
\* at some moment of the attempt and need not last, or attempts used up (attempt,
\* classify, transaction_hash).
RecordsAreTrue ==
    \A j \in Job :
        /\ row[j].status = "submitted" => j \in landed
        /\ row[j].tx => row[j].status = "submitted"
        /\ row[j].status = "rejected" => ReasonHeld(j)

\* No lost wakeup: while the worker sleeps out the idle poll believing that
\* nothing is pending, every row queued since has a notification stored or about
\* to be given (enqueue's notify_one against worker's query and select!).
NoSleepOnNewWork ==
    (worker = "idle" /\ \E j \in Job : Pending(j))
        => permit \/ \E j \in Job : task[j] = "waking"

\* A decided row is never touched, taken or submitted again, by the worker or by
\* the sweep of a restart (due_attestation, fail_orphaned_pending).
DecidedRowsStay ==
    [][ \A j \in Job : Decided(j) =>
            row'[j] = row[j] /\ (worker' = "submitting" /\ worker # "submitting" => cur' # j) ]_vars

\* Every queued attestation is decided in the end, across failed writes, failed
\* reads, a crash and an unreachable chain, because attempts are counted in the
\* database and capped (worker, attempt, MAX_ATTEMPTS).
EveryRowIsDecided == \A j \in Job : Pending(j) ~> Decided(j)

\* AttestationStatus says that a row is rejected when "the registry refused in a way that
\* will not change on a retry", or when the worker gave up: so a retry of a refused row
\* would still be refused.
RefusalsLast ==
    \A j \in Job :
        (row[j].status = "rejected" /\ row[j].why # "GaveUp")
            => RegistryAnswer(ClaimOf[j]) # "accepted"
=============================================================================
