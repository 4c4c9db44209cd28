----------------------------- MODULE JobService -----------------------------
(***************************************************************************)
(* The verification service of crates/api: start-up over the versioned     *)
(* cache (main.rs, db.rs), POST /verify and the job it spawns (server.rs), *)
(* graceful shutdown, and a kill at any point.                             *)
(*                                                                         *)
(* A request is a handler up to Spawn and a task from then on.  Handlers   *)
(* and tasks run on several threads, so every step that touches shared     *)
(* state is an action.  A future can be dropped only where it awaits: the  *)
(* on-chain lookup, the wait for a build slot, the build.  The threads of  *)
(* spawn_blocking go on when the future that awaits them is dropped.       *)
(* The attestation queued between Record and OnFinished is in Outbox.      *)
(***************************************************************************)
EXTENDS ResultCache, FiniteSets

CONSTANTS
    Request,                \* the POSTs that may arrive
    Builds,                 \* deployable binaries: how many migrations each has
    MAX_OUTSTANDING_JOBS,
    MAX_CONCURRENT_BUILDS,
    MaxFaults               \* bound: kills, stops, failed starts and failed writes

ASSUME ServiceAssumption ==
    /\ IsFiniteSet(Request)
    /\ Builds \subseteq 1 .. Len(MIGRATIONS)
    /\ MAX_OUTSTANDING_JOBS \in Nat \ {0} /\ MAX_CONCURRENT_BUILDS \in Nat \ {0}
    /\ MaxFaults \in Nat

VARIABLES
    \* the database file
    version, tables, rows,
    \* the process
    phase,        \* down, migrate, swept, serving, draining or stopping
    build,        \* the migrations its binary has
    admission,    \* free permits
    build_slots,  \* free permits
    submitted, in_flight, finished,  \* Metrics; finished counts per Outcome
    stage,        \* where a request's handler or task is
    id,           \* the row id its handler got back, or 0
    blocking,     \* requests whose spawn_blocking thread is running
    result,       \* what reproduce returned, or none
    \* faults
    lost,         \* history: jobs whose outcome could not be written
    faults

dbVars   == <<version, tables, rows>>
metrics  == <<submitted, in_flight, finished>>
permits  == <<admission, build_slots>>
jobVars  == <<stage, id, blocking, result>>
vars     == <<dbVars, phase, build, metrics, permits, jobVars, lost, faults>>

Handling  == {"lookup", "insert", "accepted", "spawn"}
Awaiting  == {"lookup", "queued", "building"}
Recording == {"record", "finish", "end"}
Outcome   == Terminal

Running == phase \in {"serving", "draining"}
\* A task that is past its last await is polled to its end, even when the runtime stops.
Polled  == phase \in {"serving", "draining", "stopping"}

\* The process is gone, and what it kept in memory with it.
GoDown ==
    /\ phase' = "down" /\ build' = 0
    /\ admission' = 0 /\ build_slots' = 0
    /\ submitted' = 0 /\ in_flight' = 0 /\ finished' = [o \in Outcome |-> 0]

Fault == faults < MaxFaults /\ faults' = faults + 1

Init ==
    /\ version = 0 /\ tables \in {{}, {"verifications"}} /\ rows = <<>>
    /\ phase = "down" /\ build = 0
    /\ admission = 0 /\ build_slots = 0
    /\ submitted = 0 /\ in_flight = 0 /\ finished = [o \in Outcome |-> 0]
    /\ stage = [r \in Request |-> "new"]
    /\ id = [r \in Request |-> 0]
    /\ blocking = {}
    /\ result = [r \in Request |-> "none"]
    /\ lost = {} /\ faults = 0
-----------------------------------------------------------------------------
(* Start-up: migrate, sweep the orphans, then open the listener. *)

\* main up to migrate's check of the version: a refused start changes nothing.
Boot(b) ==
    /\ phase = "down" /\ understands(b, version)
    /\ phase' = "migrate" /\ build' = b
    /\ UNCHANGED <<dbVars, metrics, permits, jobVars, lost, faults>>

\* Mutant: user_version is set in a transaction of its own, before the tables.
MigrateInTwo ==
    /\ phase = "migrate" /\ version < build
    /\ version' = version + 1
    /\ \/ tables' = tables \cup {MIGRATIONS[version + 1]} /\ UNCHANGED <<phase, faults>>
          /\ UNCHANGED <<build, metrics, permits>>
       \/ GoDown /\ Fault /\ UNCHANGED tables
    /\ UNCHANGED <<rows, jobVars, lost>>

\* One migration and its user_version, in one transaction.
Migrate ==
    /\ phase = "migrate" /\ version < build
    /\ version' = version + 1
    /\ tables' = tables \cup {MIGRATIONS[version + 1]}
    /\ UNCHANGED <<rows, phase, build, metrics, permits, jobVars, lost, faults>>

\* Mutant: the listener opens without the sweep.
SweepSkipped ==
    /\ phase = "migrate" /\ version >= build
    /\ phase' = "swept"
    /\ UNCHANGED <<dbVars, build, metrics, permits, jobVars, lost, faults>>

\* fail_orphaned_pending, once the schema is ready.
Sweep ==
    /\ phase = "migrate" /\ version >= build
    /\ rows' = fail_orphaned_pending(rows)
    /\ phase' = "swept"
    /\ UNCHANGED <<version, tables, build, metrics, permits, jobVars, lost, faults>>

\* AppState::new and the listener.
Listen ==
    /\ phase = "swept"
    /\ phase' = "serving"
    /\ admission' = MAX_OUTSTANDING_JOBS /\ build_slots' = MAX_CONCURRENT_BUILDS
    /\ UNCHANGED <<dbVars, build, metrics, jobVars, lost, faults>>

\* A failed query or migration, an incomplete attestation config, a taken port.
StartFails ==
    /\ phase \in {"migrate", "swept"} /\ Fault
    /\ GoDown
    /\ UNCHANGED <<dbVars, jobVars, lost>>
-----------------------------------------------------------------------------
(* POST /verify. *)

\* The optional fields of VerifyRequest.
Field == {"contract_id", "wasm_hash", "repo", "rev", "source_uri", "source_sha256"}

parse_source(req) ==
    CASE "repo" \in req /\ "source_uri" \notin req /\ "rev" \in req -> "git"
      [] "repo" \notin req /\ "source_uri" \in req /\ "source_sha256" \in req -> "archive"
      [] OTHER -> "bad"

\* Where the handler goes once admitted; "gone" is a 400, with the permit dropped.
Target(req) ==
    CASE "contract_id" \in req -> "lookup"
      [] "contract_id" \notin req /\ "wasm_hash" \in req -> "insert"
      [] OTHER -> "gone"

Targets == {Target(req) : req \in {q \in SUBSET Field : parse_source(q) # "bad"}}

Leave(r) == stage' = [stage EXCEPT ![r] = "gone"]

\* 401, 429 by the rate limiter, 400 by parse_source, or 429 with no permit free.
Refuse(r) ==
    /\ phase = "serving" /\ stage[r] = "new"
    /\ Leave(r)
    /\ UNCHANGED <<dbVars, phase, build, metrics, permits, id, blocking, result, lost, faults>>

\* try_acquire_owned, and the start of the target's resolution.
Admit(r) ==
    /\ phase = "serving" /\ stage[r] = "new" /\ admission > 0
    /\ \E t \in Targets :
        /\ stage' = [stage EXCEPT ![r] = t]
        /\ admission' = IF t = "gone" THEN admission ELSE admission - 1
        /\ blocking' = IF t = "lookup" THEN blocking \cup {r} ELSE blocking
    /\ UNCHANGED <<dbVars, phase, build, metrics, build_slots, id, result, lost, faults>>

\* fetch_executable returns on its thread.
LookupEnds(r) ==
    /\ r \in blocking /\ id[r] = 0
    /\ blocking' = blocking \ {r}
    /\ UNCHANGED <<dbVars, phase, build, metrics, permits, stage, id, result, lost, faults>>

\* Mutant: an error return keeps the permit.
ResolveLeaking(r) ==
    /\ Running /\ stage[r] = "lookup" /\ r \notin blocking
    /\ \/ stage' = [stage EXCEPT ![r] = "insert"]
       \/ Leave(r)
    /\ UNCHANGED <<dbVars, phase, build, metrics, permits, id, blocking, result, lost, faults>>

\* A WASM hash, or an error, an asset contract or an absent one.
Resolve(r) ==
    /\ Running /\ stage[r] = "lookup" /\ r \notin blocking
    /\ \/ /\ stage' = [stage EXCEPT ![r] = "insert"]
          /\ UNCHANGED admission
       \/ /\ Leave(r)
          /\ admission' = admission + 1
    /\ UNCHANGED <<dbVars, phase, build, metrics, build_slots, id, blocking, result, lost, faults>>

\* The client goes away: the handler is dropped where it awaits the lookup.
Disconnect(r) ==
    /\ Running /\ stage[r] = "lookup"
    /\ Leave(r)
    /\ admission' = admission + 1
    /\ UNCHANGED <<dbVars, phase, build, metrics, build_slots, id, blocking, result, lost, faults>>

\* Mutant: on_accepted is left out.
InsertUncounted(r) ==
    /\ Running /\ stage[r] = "insert"
    /\ rows' = insert_pending(rows, r)
    /\ id' = [id EXCEPT ![r] = Len(rows')]
    /\ stage' = [stage EXCEPT ![r] = "spawn"]
    /\ UNCHANGED <<version, tables, phase, build, metrics, permits, blocking, result, lost, faults>>

\* insert_pending and last_insert_rowid, under one lock.
Insert(r) ==
    /\ Running /\ stage[r] = "insert"
    /\ rows' = insert_pending(rows, r)
    /\ id' = [id EXCEPT ![r] = Len(rows')]
    /\ stage' = [stage EXCEPT ![r] = "accepted"]
    /\ UNCHANGED <<version, tables, phase, build, metrics, permits, blocking, result, lost, faults>>

InsertFails(r) ==
    /\ Running /\ stage[r] = "insert" /\ Fault
    /\ Leave(r)
    /\ admission' = admission + 1
    /\ UNCHANGED <<dbVars, phase, build, metrics, build_slots, id, blocking, result, lost>>

\* Mutant: the row id is read after the lock was given up.
OnAcceptedLateId(r) ==
    /\ Running /\ stage[r] = "accepted"
    /\ submitted' = submitted + 1 /\ in_flight' = in_flight + 1
    /\ id' = [id EXCEPT ![r] = Len(rows)]
    /\ stage' = [stage EXCEPT ![r] = "spawn"]
    /\ UNCHANGED <<dbVars, phase, build, finished, permits, blocking, result, lost, faults>>

OnAccepted(r) ==
    /\ Running /\ stage[r] = "accepted"
    /\ submitted' = submitted + 1 /\ in_flight' = in_flight + 1
    /\ stage' = [stage EXCEPT ![r] = "spawn"]
    /\ UNCHANGED <<dbVars, phase, build, finished, permits, id, blocking, result, lost, faults>>

\* tokio::spawn and the 202: from here the client cannot cancel the job.
Spawn(r) ==
    /\ Running /\ stage[r] = "spawn"
    /\ stage' = [stage EXCEPT ![r] = "queued"]
    /\ UNCHANGED <<dbVars, phase, build, metrics, permits, id, blocking, result, lost, faults>>
-----------------------------------------------------------------------------
(* run_job. *)

TakeSlot(r) ==
    /\ Running /\ stage[r] = "queued" /\ build_slots > 0
    /\ build_slots' = build_slots - 1
    /\ stage' = [stage EXCEPT ![r] = "building"]
    /\ blocking' = blocking \cup {r}
    /\ UNCHANGED <<dbVars, phase, build, metrics, admission, id, result, lost, faults>>

\* reproduce returns a report or an error, or panics, on its thread.
BuildEnds(r) ==
    /\ r \in blocking /\ id[r] # 0
    /\ blocking' = blocking \ {r}
    /\ \E o \in Outcome : result' = [result EXCEPT ![r] = o]
    /\ UNCHANGED <<dbVars, phase, build, metrics, permits, stage, id, lost, faults>>

\* Mutant: the slot of a failed build is never given back.
ReleaseSlotReportsOnly(r) ==
    /\ Running /\ stage[r] = "building" /\ r \notin blocking
    /\ build_slots' = IF result[r] = "error" THEN build_slots ELSE build_slots + 1
    /\ stage' = [stage EXCEPT ![r] = "record"]
    /\ UNCHANGED <<dbVars, phase, build, metrics, admission, id, blocking, result, lost, faults>>

\* drop(permit).
ReleaseSlot(r) ==
    /\ Running /\ stage[r] = "building" /\ r \notin blocking
    /\ build_slots' = build_slots + 1
    /\ stage' = [stage EXCEPT ![r] = "record"]
    /\ UNCHANGED <<dbVars, phase, build, metrics, admission, id, blocking, result, lost, faults>>

\* complete or fail.
Record(r) ==
    /\ Polled /\ stage[r] = "record"
    /\ \/ /\ rows' = IF result[r] = "error" THEN fail(rows, id[r])
                     ELSE complete(rows, id[r], result[r])
          /\ UNCHANGED <<lost, faults>>
       \/ /\ Fault
          /\ lost' = lost \cup {r}
          /\ UNCHANGED rows
    /\ stage' = [stage EXCEPT ![r] = "finish"]
    /\ UNCHANGED <<version, tables, phase, build, metrics, permits, id, blocking, result>>

\* Mutant: a failed job is not taken off the gauge.
OnFinishedReportsOnly(r) ==
    /\ Polled /\ stage[r] = "finish"
    /\ in_flight' = IF result[r] = "error" THEN in_flight ELSE in_flight - 1
    /\ finished' = [finished EXCEPT ![result[r]] = @ + 1]
    /\ stage' = [stage EXCEPT ![r] = "end"]
    /\ UNCHANGED <<dbVars, phase, build, submitted, permits, id, blocking, result, lost, faults>>

OnFinished(r) ==
    /\ Polled /\ stage[r] = "finish"
    /\ in_flight' = in_flight - 1
    /\ finished' = [finished EXCEPT ![result[r]] = @ + 1]
    /\ stage' = [stage EXCEPT ![r] = "end"]
    /\ UNCHANGED <<dbVars, phase, build, submitted, permits, id, blocking, result, lost, faults>>

\* run_job returns and drops _admission.
End(r) ==
    /\ Polled /\ stage[r] = "end"
    /\ Leave(r)
    /\ admission' = admission + 1
    /\ UNCHANGED <<dbVars, phase, build, metrics, build_slots, id, blocking, result, lost, faults>>
-----------------------------------------------------------------------------
(* The end of a process. *)

\* SIGTERM or Ctrl-C: no new connections, requests in flight finish.
Term ==
    /\ phase = "serving" /\ Fault
    /\ phase' = "draining"
    /\ UNCHANGED <<dbVars, build, metrics, permits, jobVars, lost>>

\* serve and main return; the runtime drops every task where it awaits.
Stop ==
    /\ phase = "draining"
    /\ \A r \in Request : stage[r] \notin Handling
    /\ phase' = "stopping"
    /\ stage' = [r \in Request |-> IF stage[r] \in Awaiting THEN "gone" ELSE stage[r]]
    /\ UNCHANGED <<dbVars, build, metrics, permits, id, blocking, result, lost, faults>>

\* The runtime has waited for its blocking threads, builds included.
Exit ==
    /\ phase = "stopping" /\ blocking = {}
    /\ \A r \in Request : stage[r] \notin Recording
    /\ GoDown
    /\ UNCHANGED <<dbVars, jobVars, lost, faults>>

\* SIGKILL, a crash, the OOM killer.
Kill ==
    /\ phase # "down" /\ Fault
    /\ GoDown
    /\ stage' = [r \in Request |-> IF stage[r] = "new" THEN "new" ELSE "gone"]
    /\ blocking' = {}
    /\ UNCHANGED <<dbVars, id, result, lost>>

Starting == (\E b \in Builds : Boot(b)) \/ Migrate \/ Sweep \/ Listen

Handler(r) ==
    \/ Resolve(r) \/ Insert(r) \/ OnAccepted(r) \/ Spawn(r)

Job(r) ==
    \/ TakeSlot(r) \/ ReleaseSlot(r) \/ Record(r) \/ OnFinished(r) \/ End(r)

Blocking(r) == LookupEnds(r) \/ BuildEnds(r)

Next ==
    \/ Starting \/ StartFails
    \/ \E r \in Request :
        \/ Refuse(r) \/ Admit(r) \/ Disconnect(r) \/ InsertFails(r)
        \/ Handler(r) \/ Job(r) \/ Blocking(r)
    \/ Term \/ Stop \/ Exit \/ Kill

\* The orchestrator restarts the service; handlers, tasks and blocking threads are
\* scheduled.  Assumed of their calls: that they return, a reproduction included, which
\* the code cannot make of one whose source stalls (git clone, the archive's server) or
\* of a docker call that hangs.  New requests, clients and faults owe nothing.
Fairness ==
    /\ WF_vars(Starting \/ Stop \/ Exit)
    /\ \A r \in Request : WF_vars(Handler(r) \/ Job(r) \/ Blocking(r))

Spec == Init /\ [][Next]_vars /\ Fairness
-----------------------------------------------------------------------------
TypeOK ==
    /\ version \in 0 .. Len(MIGRATIONS) /\ tables \subseteq ToSet(MIGRATIONS)
    /\ rows \in Seq([req : Request, status : JobStatus])
    /\ phase \in {"down", "migrate", "swept", "serving", "draining", "stopping"}
    /\ build \in Builds \cup {0}
    /\ admission \in 0 .. MAX_OUTSTANDING_JOBS /\ build_slots \in 0 .. MAX_CONCURRENT_BUILDS
    /\ submitted \in Nat /\ in_flight \in Nat /\ finished \in [Outcome -> Nat]
    /\ stage \in [Request -> {"new", "gone", "queued", "building"} \cup Handling \cup Recording]
    /\ id \in [Request -> 0 .. Cardinality(Request)]
    /\ blocking \subseteq Request
    /\ result \in [Request -> Outcome \cup {"none"}]
    /\ lost \subseteq Request /\ faults \in 0 .. MaxFaults

In(stages) == {r \in Request : stage[r] \in stages}

\* A permit of either semaphore is out exactly while a handler or a job of this
\* process holds it, through every error return, disconnect and failed write: none
\* leaks, so the service never refuses for good, and none is freed early, so no more
\* than MAX_OUTSTANDING_JOBS are outstanding (start_verification, run_job).
PermitsAccounted ==
    Running =>
        /\ admission = MAX_OUTSTANDING_JOBS
                        - Cardinality(In(Handling \cup Recording \cup {"queued", "building"}))
        /\ build_slots = MAX_CONCURRENT_BUILDS - Cardinality(In({"building"}))
        /\ {r \in blocking : id[r] # 0} \subseteq In({"building"})

\* The in_flight gauge never goes below zero or above the admission cap, and once no
\* job is under way it is zero and every submitted job is in exactly one outcome
\* counter (Metrics: "one on_accepted per job and exactly one on_finished per job").
GaugeBalances ==
    Running =>
        /\ in_flight \in 0 .. MAX_OUTSTANDING_JOBS
        /\ In({"spawn", "queued", "building"} \cup Recording) = {} =>
            /\ in_flight = 0
            /\ submitted = finished["verified"] + finished["mismatch"] + finished["error"]

\* While the service answers, a row says pending only if this process still has the
\* job, or the one write of its outcome failed: the sweep comes before the listener,
\* and a stop or kill at any point leaves nothing behind that a GET would see as
\* under way (fail_orphaned_pending; main: "so no caller can observe the lie").
PendingIsLive ==
    phase = "serving" =>
        \A i \in DOMAIN rows : rows[i].status = "pending" =>
            \/ stage[rows[i].req] \in {"accepted", "spawn", "queued", "building", "record"}
            \/ rows[i].req \in lost

\* A job's id names the row of that job, and a row's verdict is the one its own build
\* returned, however inserts and outcomes of several jobs and a restart's sweep
\* interleave (insert_pending, complete, fail).
JobsKeepTheirRows ==
    /\ \A r \in Request : id[r] # 0 => rows[id[r]].req = r
    /\ \A i \in DOMAIN rows :
        rows[i].status \in {"verified", "mismatch"} => rows[i].status = result[rows[i].req]

\* A build serves only a database whose schema it knows entirely: all its migrations
\* applied, their tables there, none of a newer build, through failed starts,
\* crashes between two migrations and rollbacks to an older build (migrate).
ServesItsSchema ==
    phase \in {"swept", "serving", "draining", "stopping"} =>
        /\ version = build
        /\ ToSet(SubSeq(MIGRATIONS, 1, build)) \subseteq tables

\* What a GET has shown of a row stays true: rows keep their id and job, and a
\* verdict or an error, once given, never changes (complete, fail, the sweep).
AnswersStand ==
    [][ /\ Len(rows') >= Len(rows)
        /\ \A i \in DOMAIN rows :
            /\ rows'[i].req = rows[i].req
            /\ rows[i].status \in Terminal => rows'[i].status = rows[i].status ]_rows

Unsettled == {r \in Request \ lost : id[r] # 0 /\ rows[id[r]].status = "pending"}

\* Every accepted job gets an outcome in the end: from its build, or from the sweep of
\* a later process; only a job whose write failed waits for the next restart.  Provided
\* that reproductions return (Fairness).
EveryJobEnds ==
    []<>(Unsettled = {})
=============================================================================
