-------------------------- MODULE JobServiceProofs --------------------------
(***************************************************************************)
(* What the verification service promises for any number of requests, any  *)
(* size of the two semaphores, and any number of faults.                   *)
(*                                                                         *)
(* Four inductive invariants, each resting on the ones before it: where    *)
(* the handlers, tasks and threads can be (StageInv), the schema           *)
(* (SchemaInv), whose row is whose and what it says (CacheInv), and how    *)
(* many permits and jobs there are (CountInv).                             *)
(***************************************************************************)
EXTENDS JobService, FiniteSetTheorems, SequenceTheorems, TLAPS

Stage == {"new", "gone", "queued", "building"} \cup Handling \cup Recording
Phase == {"down", "migrate", "swept", "serving", "draining", "stopping"}

StageTypes ==
    /\ phase \in Phase
    /\ stage \in [Request -> Stage]
    /\ id \in [Request -> Nat]
    /\ blocking \subseteq Request
    /\ result \in [Request -> Outcome \cup {"none"}]
    /\ lost \subseteq Request /\ faults \in 0 .. MaxFaults

\* No handler, task or thread outlives its process; when the runtime stops, only tasks
\* past their last await and threads are left.
NoneOutlives ==
    /\ phase \in {"down", "migrate", "swept"} =>
          blocking = {} /\ \A r \in Request : stage[r] \in {"new", "gone"}
    /\ phase = "stopping" => \A r \in Request : stage[r] \in {"new", "gone"} \cup Recording

\* The stages of a job that has a row.
Owning == {"accepted", "spawn", "queued", "building"} \cup Recording

IdsFollow ==
    \A r \in Request :
        /\ stage[r] \in {"new", "lookup", "insert"} => id[r] = 0
        /\ stage[r] \in Owning => id[r] # 0

\* The thread of a build belongs to a job in "building", until the runtime drops it.
ThreadsFollow ==
    \A r \in blocking :
        /\ stage[r] \in {"lookup", "building", "gone"}
        /\ id[r] # 0 /\ phase # "stopping" => stage[r] = "building"

\* A job records only what its build returned.
ResultsFollow ==
    \A r \in Request :
        stage[r] \in Recording \/ (stage[r] = "building" /\ r \notin blocking)
            => result[r] \in Outcome

StageInv == StageTypes /\ NoneOutlives /\ IdsFollow /\ ThreadsFollow /\ ResultsFollow

\* What has been applied is what the version says, and the build knows all of it.
SchemaInv ==
    /\ build \in Builds \cup {0} /\ (phase # "down" => build \in Builds)
    /\ version \in 0 .. Len(MIGRATIONS) /\ tables \subseteq ToSet(MIGRATIONS)
    /\ \A n \in 1 .. version : MIGRATIONS[n] \in tables
    /\ phase # "down" => version <= build
    /\ phase \in {"swept", "serving", "draining", "stopping"} => version = build

Row == [req : Request, status : JobStatus]

\* Jobs and rows are one to one.
RowsOfJobs ==
    /\ rows \in Seq(Row)
    /\ \A r \in Request : id[r] # 0 => id[r] \in DOMAIN rows /\ rows[id[r]].req = r
    /\ \A i \in DOMAIN rows : id[rows[i].req] = i
    /\ Len(rows) = Cardinality({r \in Request : id[r] # 0})

\* A row whose job has not written its outcome yet is pending.
Unwritten(r) ==
    \/ stage[r] \in {"accepted", "spawn", "queued", "building", "record"}
    \/ r \in blocking /\ id[r] # 0

RowsSayTheTruth ==
    /\ \A r \in Request : Unwritten(r) => rows[id[r]].status = "pending"
    /\ \A i \in DOMAIN rows :
          rows[i].status \in {"verified", "mismatch"} => rows[i].status = result[rows[i].req]
    /\ phase = "swept" => \A i \in DOMAIN rows : rows[i].status # "pending"
    /\ Running => \A i \in DOMAIN rows : rows[i].status = "pending" =>
          Unwritten(rows[i].req) \/ rows[i].req \in lost

CacheInv == RowsOfJobs /\ RowsSayTheTruth

\* The stages that hold an admission permit, those that hold a build slot, and those
\* that are on the gauge.
Admitted == Handling \cup Recording \cup {"queued", "building"}
Slotted  == {"building"}
Gauged   == {"spawn", "queued", "building", "record", "finish"}

Count(stages) == Cardinality(In(stages))

Sum(f) == f["verified"] + f["mismatch"] + f["error"]

\* Permits and gauge are exact while the service runs; when the runtime stops it drops
\* tasks without giving anything back, so that only bounds are left.
CountInv ==
    /\ admission \in Nat /\ build_slots \in Nat
    /\ submitted \in Nat /\ in_flight \in Nat /\ finished \in [Outcome -> Nat]
    /\ submitted = in_flight + Sum(finished)
    /\ phase \in {"down", "migrate", "swept"} =>
          admission = 0 /\ build_slots = 0 /\ in_flight = 0 /\ submitted = 0
    /\ Polled => /\ admission + Count(Admitted) <= MAX_OUTSTANDING_JOBS
                 /\ build_slots + Count(Slotted) <= MAX_CONCURRENT_BUILDS
                 /\ in_flight >= Count(Gauged)
    /\ Running => /\ admission + Count(Admitted) = MAX_OUTSTANDING_JOBS
                  /\ build_slots + Count(Slotted) = MAX_CONCURRENT_BUILDS
                  /\ in_flight = Count(Gauged)
-----------------------------------------------------------------------------
(* Where handlers, tasks and threads can be. *)

LEMMA TargetsAre == Targets \subseteq {"lookup", "insert", "gone"}
  BY DEF Targets, Target

\* The steps of the process that leave every request where it is.
LEMMA StartUpKeepsStages ==
  ASSUME StageInv,
         \/ \E b \in Builds : Boot(b)
         \/ Migrate \/ Sweep \/ Listen \/ StartFails \/ Term \/ UNCHANGED vars
  PROVE  StageInv'
<1>1. /\ UNCHANGED <<stage, id, blocking, result, lost>>
      /\ phase' \in Phase
      /\ (phase # "stopping" /\ phase' # "stopping") \/ UNCHANGED phase
      /\ faults' \in 0 .. MaxFaults
      /\ \/ phase \in {"down", "migrate", "swept"}
         \/ phase' \notin {"down", "migrate", "swept"}
  BY ServiceAssumption
  DEF Boot, Migrate, Sweep, Listen, StartFails, Term, GoDown, Fault, jobVars, vars, Phase,
      StageInv, StageTypes
<1>2. StageTypes'
  BY <1>1 DEF StageInv, StageTypes
<1>3. NoneOutlives'
  BY <1>1 DEF StageInv, NoneOutlives
<1>4. ThreadsFollow'
  BY <1>1 DEF StageInv, NoneOutlives, ThreadsFollow
<1> QED
  BY <1>1, <1>2, <1>3, <1>4 DEF StageInv, IdsFollow, ResultsFollow

\* The steps of one handler or task.
LEMMA RequestKeepsStages ==
  ASSUME StageInv, NEW r \in Request,
         \/ Refuse(r) \/ Admit(r) \/ Disconnect(r) \/ InsertFails(r)
         \/ Resolve(r) \/ OnAccepted(r) \/ Spawn(r)
         \/ TakeSlot(r) \/ ReleaseSlot(r) \/ Record(r) \/ OnFinished(r) \/ End(r)
  PROVE  StageInv'
<1>1. UNCHANGED <<phase, id, result>> /\ lost' \subseteq Request /\ faults' \in 0 .. MaxFaults
  BY ServiceAssumption
  DEF Refuse, Admit, Disconnect, InsertFails, Resolve, OnAccepted, Spawn, TakeSlot,
      ReleaseSlot, Record, OnFinished, End, Fault, StageInv, StageTypes
<1>2. PICK t \in Stage :
        /\ stage' = [stage EXCEPT ![r] = t]
        /\ blocking' = IF t = "lookup" \/ stage[r] = "queued" THEN blocking \cup {r}
                       ELSE blocking
        /\ phase \in {"serving", "draining"} \/ (phase = "stopping" /\ stage[r] \in Recording)
        /\ \/ t = "gone" /\ (stage[r] \in {"new", "lookup", "insert", "end"})
           \/ stage[r] = "new" /\ t \in {"lookup", "insert"}
           \/ stage[r] = "lookup" /\ r \notin blocking /\ t = "insert"
           \/ stage[r] = "accepted" /\ t = "spawn"
           \/ stage[r] = "spawn" /\ t = "queued"
           \/ stage[r] = "queued" /\ t = "building"
           \/ stage[r] = "building" /\ r \notin blocking /\ t = "record"
           \/ stage[r] = "record" /\ t = "finish"
           \/ stage[r] = "finish" /\ t = "end"
  <2>1. CASE Admit(r)
    BY <2>1, TargetsAre DEF Admit, Stage, Handling
  <2> QED
    BY <2>1
    DEF Refuse, Disconnect, InsertFails, Resolve, OnAccepted, Spawn, TakeSlot, ReleaseSlot,
        Record, OnFinished, End, Leave, Running, Polled, Stage, Handling, Recording
<1>3. stage'[r] = t /\ \A q \in Request : q # r => stage'[q] = stage[q]
  BY <1>2 DEF StageInv, StageTypes
<1>4. StageTypes'
  BY <1>1, <1>2 DEF StageInv, StageTypes
<1>5. NoneOutlives'
  BY <1>1, <1>2, <1>3 DEF StageInv, NoneOutlives, Recording, Handling
<1>6. IdsFollow'
  BY <1>1, <1>2, <1>3 DEF StageInv, IdsFollow, Owning, Recording, Handling
<1>7. ThreadsFollow'
  BY <1>1, <1>2, <1>3 DEF StageInv, StageTypes, IdsFollow, ThreadsFollow, Recording
<1>8. ResultsFollow'
  BY <1>1, <1>2, <1>3 DEF StageInv, ResultsFollow, Recording, Handling
<1> QED
  BY <1>4, <1>5, <1>6, <1>7, <1>8 DEF StageInv

\* insert_pending gives the job its row.
LEMMA InsertKeepsStages ==
  ASSUME StageInv, CacheInv, NEW r \in Request, Insert(r)
  PROVE  StageInv'
<1>1. /\ UNCHANGED <<phase, blocking, result, lost, faults>>
      /\ stage[r] = "insert" /\ phase \in {"serving", "draining"}
      /\ stage' = [stage EXCEPT ![r] = "accepted"]
      /\ id' = [id EXCEPT ![r] = Len(rows')] /\ rows' = insert_pending(rows, r)
  BY DEF Insert, Running
<1>2. Len(rows') \in Nat /\ Len(rows') # 0
  BY <1>1 DEF insert_pending, CacheInv, RowsOfJobs
<1>3. StageTypes'
  BY <1>1, <1>2 DEF StageInv, StageTypes, Stage, Handling
<1>4. /\ stage'[r] = "accepted" /\ id'[r] # 0
      /\ \A q \in Request : q # r => stage'[q] = stage[q] /\ id'[q] = id[q]
  BY <1>1, <1>2 DEF StageInv, StageTypes
<1>5. r \notin blocking
  BY <1>1 DEF StageInv, ThreadsFollow
<1>6. NoneOutlives'
  BY <1>1 DEF NoneOutlives
<1>7. IdsFollow'
  BY <1>4 DEF StageInv, IdsFollow
<1>8. ThreadsFollow'
  BY <1>1, <1>4, <1>5 DEF StageInv, StageTypes, ThreadsFollow
<1>9. ResultsFollow'
  BY <1>1, <1>4 DEF StageInv, ResultsFollow, Recording
<1> QED
  BY <1>3, <1>6, <1>7, <1>8, <1>9 DEF StageInv

\* A thread ends: the job it belongs to may be gone.
LEMMA ThreadsKeepStages ==
  ASSUME StageInv, NEW r \in Request, LookupEnds(r) \/ BuildEnds(r)
  PROVE  StageInv'
<1>1. /\ UNCHANGED <<phase, stage, id, lost, faults>>
      /\ r \in blocking /\ blocking' = blocking \ {r}
  BY DEF LookupEnds, BuildEnds
<1>2. CASE LookupEnds(r)
  <2>1. id[r] = 0 /\ UNCHANGED result
    BY <1>2 DEF LookupEnds
  <2>2. stage[r] # "building"
    BY <2>1 DEF StageInv, IdsFollow, Owning
  <2> QED
    BY <1>1, <2>1, <2>2
    DEF StageInv, StageTypes, NoneOutlives, IdsFollow, ThreadsFollow, ResultsFollow
<1>3. CASE BuildEnds(r)
  <2>1. PICK o \in Outcome : result' = [result EXCEPT ![r] = o]
    BY <1>3 DEF BuildEnds
  <2>2. StageTypes'
    BY <1>1, <2>1 DEF StageInv, StageTypes
  <2>3. result'[r] \in Outcome /\ \A q \in Request : q # r => result'[q] = result[q]
    BY <2>1 DEF StageInv, StageTypes
  <2> QED
    BY <1>1, <2>2, <2>3
    DEF StageInv, NoneOutlives, IdsFollow, ThreadsFollow, ResultsFollow
<1> QED
  BY <1>2, <1>3

\* The runtime stops, the process exits or is killed.
LEMMA EndKeepsStages ==
  ASSUME StageInv, Stop \/ Exit \/ Kill
  PROVE  StageInv'
<1>1. CASE Stop
  <2>1. /\ UNCHANGED <<id, blocking, result, lost, faults>> /\ phase' = "stopping"
        /\ stage' \in [Request -> Stage]
        /\ \A r \in Request :
              /\ stage[r] \notin Handling
              /\ stage'[r] = IF stage[r] \in Awaiting THEN "gone" ELSE stage[r]
    BY <1>1 DEF Stop, StageInv, StageTypes, Stage
  <2>2. StageTypes'
    BY <2>1 DEF StageInv, StageTypes, Phase
  <2>3. NoneOutlives'
    BY <2>1 DEF NoneOutlives, StageInv, StageTypes, Stage, Awaiting, Handling
  <2>4. IdsFollow'
    BY <2>1 DEF StageInv, IdsFollow, Owning, Recording
  <2>5. ThreadsFollow'
    BY <2>1 DEF StageInv, StageTypes, ThreadsFollow, Awaiting
  <2>6. ResultsFollow'
    BY <2>1 DEF StageInv, ResultsFollow, Recording
  <2> QED
    BY <2>2, <2>3, <2>4, <2>5, <2>6 DEF StageInv
<1>2. CASE Exit
  <2>1. /\ UNCHANGED <<stage, id, blocking, result, lost, faults>> /\ phase' = "down"
        /\ blocking = {} /\ \A r \in Request : stage[r] \in {"new", "gone"}
    BY <1>2 DEF Exit, GoDown, jobVars, StageInv, NoneOutlives
  <2> QED
    BY <2>1
    DEF StageInv, StageTypes, Phase, NoneOutlives, IdsFollow, ThreadsFollow, ResultsFollow
<1>3. CASE Kill
  <2>1. /\ UNCHANGED <<id, result, lost>> /\ phase' = "down" /\ blocking' = {}
        /\ faults' \in 0 .. MaxFaults /\ stage' \in [Request -> Stage]
        /\ \A r \in Request : stage'[r] = IF stage[r] = "new" THEN "new" ELSE "gone"
    BY <1>3, ServiceAssumption DEF Kill, GoDown, Fault, StageInv, StageTypes, Stage
  <2>2. StageTypes' /\ NoneOutlives'
    BY <2>1 DEF StageInv, StageTypes, Phase, NoneOutlives
  <2>3. IdsFollow' /\ ThreadsFollow' /\ ResultsFollow'
    BY <2>1 DEF StageInv, IdsFollow, ThreadsFollow, ResultsFollow, Owning, Recording
  <2> QED
    BY <2>2, <2>3 DEF StageInv
<1> QED
  BY <1>1, <1>2, <1>3

LEMMA StepKeepsStages ==
  ASSUME StageInv, CacheInv, [Next]_vars
  PROVE  StageInv'
  BY StartUpKeepsStages, RequestKeepsStages, InsertKeepsStages, ThreadsKeepStages,
     EndKeepsStages DEF Next, Starting, Handler, Job, Blocking
-----------------------------------------------------------------------------
(* The schema. *)

LEMMA MigrationsAre ==
  /\ Len(MIGRATIONS) = 2 /\ DOMAIN MIGRATIONS = 1 .. 2
  /\ ToSet(MIGRATIONS) = {MIGRATIONS[n] : n \in 1 .. 2}
  /\ MIGRATIONS[1] = "verifications"
<1>1. Len(MIGRATIONS) = 2 /\ DOMAIN MIGRATIONS = 1 .. 2 /\ MIGRATIONS[1] = "verifications"
  BY DEF MIGRATIONS
<1> QED
  BY <1>1 DEF ToSet

LEMMA StepKeepsSchema ==
  ASSUME StageInv, SchemaInv, [Next]_vars
  PROVE  SchemaInv'
<1> USE ServiceAssumption, MigrationsAre
<1>1. CASE \E b \in Builds : Boot(b)
  BY <1>1 DEF Boot, understands, dbVars, SchemaInv
<1>2. CASE Migrate
  <2>1. /\ version' = version + 1 /\ tables' = tables \cup {MIGRATIONS[version + 1]}
        /\ version < build /\ build \in 1 .. 2 /\ phase = "migrate" /\ UNCHANGED <<phase, build>>
    BY <1>2 DEF Migrate, SchemaInv
  <2>2. version \in 0 .. 2 /\ version + 1 \in 1 .. 2
    BY <2>1 DEF SchemaInv
  <2>3. tables' \subseteq ToSet(MIGRATIONS)
    BY <2>1, <2>2 DEF SchemaInv
  <2>4. \A n \in 1 .. version' : MIGRATIONS[n] \in tables'
    <3>1. \A n \in 1 .. version' : n \in 1 .. version \/ n = version + 1
      BY <2>1, <2>2
    <3> QED
      BY <2>1, <3>1 DEF SchemaInv
  <2> QED
    BY <2>1, <2>2, <2>3, <2>4 DEF SchemaInv
<1>3. CASE Sweep
  BY <1>3 DEF Sweep, SchemaInv
<1>4. CASE StartFails \/ Exit \/ Kill
  BY <1>4 DEF StartFails, Exit, Kill, GoDown, dbVars, SchemaInv
<1>5. CASE Listen \/ Term \/ Stop
  BY <1>5 DEF Listen, Term, Stop, dbVars, SchemaInv
<1>6. CASE UNCHANGED <<version, tables, build, phase>>
  BY <1>6 DEF SchemaInv
<1> QED
  BY <1>1, <1>2, <1>3, <1>4, <1>5, <1>6
  DEF Next, Starting, Handler, Job, Blocking, vars, dbVars, Refuse, Admit, Disconnect,
      InsertFails, Resolve, Insert, OnAccepted, Spawn, TakeSlot, ReleaseSlot, Record,
      OnFinished, End, LookupEnds, BuildEnds
-----------------------------------------------------------------------------
(* The rows. *)

\* The sweep of a restart leaves every row in its place, with its job, and every
\* outcome as it was.
LEMMA SweepRows ==
  ASSUME NEW s \in Seq(Row)
  PROVE  /\ fail_orphaned_pending(s) \in Seq(Row)
         /\ Len(fail_orphaned_pending(s)) = Len(s)
         /\ DOMAIN fail_orphaned_pending(s) = DOMAIN s
         /\ \A i \in DOMAIN s :
               /\ fail_orphaned_pending(s)[i].req = s[i].req
               /\ fail_orphaned_pending(s)[i].status =
                     IF s[i].status = "pending" THEN "error" ELSE s[i].status
<1> DEFINE t == fail_orphaned_pending(s)
<1>1. DOMAIN s = 1 .. Len(s) /\ Len(s) \in Nat /\ \A i \in DOMAIN s : s[i] \in Row
  OBVIOUS
<1>2. \A i \in DOMAIN s :
        /\ t[i] \in Row /\ t[i].req = s[i].req
        /\ t[i].status = IF s[i].status = "pending" THEN "error" ELSE s[i].status
  BY <1>1 DEF fail_orphaned_pending, Row, JobStatus, Terminal
<1>3. t \in [1 .. Len(s) -> Row]
  BY <1>1, <1>2 DEF fail_orphaned_pending
<1> HIDE DEF t
<1>4. t \in Seq(Row) /\ Len(t) = Len(s) /\ DOMAIN t = DOMAIN s
  BY <1>1, <1>3
<1> QED
  BY <1>2, <1>4 DEF t

\* complete and fail write the status of one row.
LEMMA UpdateRow ==
  ASSUME NEW s \in Seq(Row), NEW k \in DOMAIN s, NEW status \in JobStatus,
         NEW t, t = [s EXCEPT ![k].status = status]
  PROVE  /\ t \in Seq(Row) /\ Len(t) = Len(s) /\ DOMAIN t = DOMAIN s
         /\ t[k].req = s[k].req /\ t[k].status = status
         /\ \A i \in DOMAIN s : i # k => t[i] = s[i]
<1>1. DOMAIN s = 1 .. Len(s) /\ Len(s) \in Nat /\ \A i \in DOMAIN s : s[i] \in Row
  OBVIOUS
<1> DEFINE new == [s[k] EXCEPT !.status = status]
<1>2. new \in Row /\ new.req = s[k].req /\ new.status = status
  BY <1>1 DEF Row
<1>3. t = [s EXCEPT ![k] = new]
  BY <1>1 DEF Row
<1> HIDE DEF new
<1>4. t \in [1 .. Len(s) -> Row] /\ t[k] = new /\ \A i \in DOMAIN s : i # k => t[i] = s[i]
  BY <1>1, <1>2, <1>3
<1> QED
  BY <1>1, <1>2, <1>4

LEMMA RowsHaveJobs ==
  ASSUME CacheInv
  PROVE  \A i \in DOMAIN rows : rows[i] \in Row /\ rows[i].req \in Request
<1>1. rows \in Seq(Row)
  BY DEF CacheInv, RowsOfJobs
<1>2. \A i \in DOMAIN rows : rows[i] \in Row
  BY <1>1
<1> QED
  BY <1>2 DEF Row

\* A step that writes no row keeps what the rows say, if the jobs that have not written
\* their outcome yet stay the same, or are fewer in a process that no longer runs.
LEMMA QuietKeepsCache ==
  ASSUME CacheInv, UNCHANGED <<rows, id, result, lost>>,
         \A q \in Request : Unwritten(q)' => Unwritten(q),
         phase' = "swept" => phase = "swept",
         Running' => Running /\ \A q \in Request : Unwritten(q) => Unwritten(q)'
  PROVE  CacheInv'
<1>1. RowsOfJobs'
  BY DEF CacheInv, RowsOfJobs
<1>2. \A i \in DOMAIN rows : rows[i].req \in Request
  BY RowsHaveJobs
<1>3. RowsSayTheTruth'
  BY <1>2 DEF CacheInv, RowsSayTheTruth
<1> QED
  BY <1>1, <1>3 DEF CacheInv

LEMMA RequestKeepsCache ==
  ASSUME StageInv, CacheInv, NEW r \in Request,
         \/ Refuse(r) \/ Admit(r) \/ Disconnect(r) \/ InsertFails(r)
         \/ Resolve(r) \/ OnAccepted(r) \/ Spawn(r)
         \/ TakeSlot(r) \/ ReleaseSlot(r) \/ OnFinished(r) \/ End(r) \/ LookupEnds(r)
  PROVE  CacheInv'
<1>1. UNCHANGED <<rows, id, result, lost, phase>>
  BY DEF Refuse, Admit, Disconnect, InsertFails, Resolve, OnAccepted, Spawn, TakeSlot,
     ReleaseSlot, OnFinished, End, LookupEnds, dbVars
<1>2. /\ \A q \in Request : q # r => stage'[q] = stage[q] /\ (q \in blocking' <=> q \in blocking)
      /\ r \in blocking' => r \in blocking \/ stage[r] \in {"new", "queued"}
      /\ r \in blocking => r \in blocking' \/ id[r] = 0
      /\ \/ stage[r] \in {"new", "lookup", "insert", "finish", "end"}
            /\ stage'[r] \in {"gone", "lookup", "insert", "end"}
         \/ stage[r] \in {"accepted", "spawn", "queued", "building"}
            /\ stage'[r] \in {"spawn", "queued", "building", "record"}
         \/ stage'[r] = stage[r] /\ id[r] = 0
  <2>1. CASE Admit(r)
    BY <2>1, TargetsAre DEF Admit, StageInv, StageTypes
  <2> QED
    BY <2>1
    DEF Refuse, Disconnect, InsertFails, Resolve, OnAccepted, Spawn, TakeSlot, ReleaseSlot,
        OnFinished, End, Leave, LookupEnds, StageInv, StageTypes
<1>3. /\ stage[r] \in {"new", "lookup", "insert"} => id[r] = 0
      /\ stage[r] \in {"finish", "end"} => r \notin blocking
  BY DEF StageInv, IdsFollow, ThreadsFollow
<1>4. \A q \in Request : Unwritten(q)' <=> Unwritten(q)
  BY <1>1, <1>2, <1>3 DEF Unwritten
<1> QED
  BY <1>1, <1>4, QuietKeepsCache DEF Running

LEMMA ProcessKeepsCache ==
  ASSUME StageInv, CacheInv,
         \/ \E b \in Builds : Boot(b)
         \/ Migrate \/ Listen \/ StartFails \/ Term \/ Stop \/ Exit \/ Kill \/ UNCHANGED vars
  PROVE  CacheInv'
<1>1. UNCHANGED <<rows, id, result, lost>>
  BY DEF Boot, Migrate, Listen, StartFails, Term, Stop, Exit, Kill, vars, dbVars, jobVars
<1>2. CASE Listen
  <2>1. UNCHANGED <<stage, blocking>> /\ phase = "swept" /\ phase' = "serving"
    BY <1>2 DEF Listen, jobVars
  <2> QED
    BY <1>1, <2>1 DEF CacheInv, RowsOfJobs, RowsSayTheTruth, Unwritten
<1>3. CASE Stop \/ Kill
  <2>1. /\ \A r \in Request : stage'[r] = stage[r] \/ stage'[r] = "gone"
        /\ blocking' \subseteq blocking /\ phase' \in {"stopping", "down"}
    BY <1>3 DEF Stop, Kill, GoDown, StageInv, StageTypes
  <2>2. \A q \in Request : Unwritten(q)' => Unwritten(q)
    BY <1>1, <2>1 DEF Unwritten
  <2> QED
    BY <1>1, <2>1, <2>2, QuietKeepsCache DEF Running
<1>4. CASE ~Listen /\ ~Stop /\ ~Kill
  <2>1. /\ UNCHANGED <<stage, blocking>>
        /\ phase' = phase \/ phase' \in {"migrate", "down"}
           \/ (phase' = "draining" /\ phase = "serving")
    BY <1>4 DEF Boot, Migrate, StartFails, Term, Exit, GoDown, vars, jobVars
  <2>2. \A q \in Request : Unwritten(q)' <=> Unwritten(q)
    BY <1>1, <2>1 DEF Unwritten
  <2> QED
    BY <1>1, <2>1, <2>2, QuietKeepsCache DEF Running
<1> QED
  BY <1>2, <1>3, <1>4

LEMMA SweepKeepsCache ==
  ASSUME StageInv, CacheInv, Sweep
  PROVE  CacheInv'
<1>1. /\ UNCHANGED <<id, result, stage, blocking, lost>> /\ phase = "migrate" /\ phase' = "swept"
      /\ rows' = fail_orphaned_pending(rows) /\ rows \in Seq(Row)
  BY DEF Sweep, jobVars, CacheInv, RowsOfJobs
<1>2. /\ rows' \in Seq(Row) /\ Len(rows') = Len(rows) /\ DOMAIN rows' = DOMAIN rows
      /\ \A i \in DOMAIN rows :
            /\ rows'[i].req = rows[i].req
            /\ rows'[i].status = IF rows[i].status = "pending" THEN "error" ELSE rows[i].status
  BY <1>1, SweepRows
<1>3. RowsOfJobs'
  BY <1>1, <1>2 DEF CacheInv, RowsOfJobs
<1>4. \A r \in Request : ~Unwritten(r)'
  BY <1>1 DEF Unwritten, StageInv, NoneOutlives
<1>5. RowsSayTheTruth'
  BY <1>1, <1>2, <1>4 DEF CacheInv, RowsSayTheTruth, Running
<1> QED
  BY <1>3, <1>5 DEF CacheInv

LEMMA InsertKeepsCache ==
  ASSUME StageInv, CacheInv, NEW r \in Request, Insert(r)
  PROVE  CacheInv'
<1>1. /\ UNCHANGED <<phase, blocking, result, lost>> /\ Running
      /\ stage[r] = "insert" /\ stage' = [stage EXCEPT ![r] = "accepted"]
      /\ id' = [id EXCEPT ![r] = Len(rows')] /\ rows' = insert_pending(rows, r)
      /\ rows \in Seq(Row)
  BY DEF Insert, CacheInv, RowsOfJobs
<1> DEFINE n == Len(rows) + 1
<1>2. /\ rows' \in Seq(Row) /\ Len(rows') = n
      /\ DOMAIN rows' = DOMAIN rows \cup {n} /\ n \notin DOMAIN rows
      /\ rows'[n].req = r /\ rows'[n].status = "pending"
      /\ \A i \in DOMAIN rows : rows'[i] = rows[i]
  <2> DEFINE new == [req |-> r, status |-> "pending"]
  <2>1. new \in Row /\ new.req = r /\ new.status = "pending"
    BY DEF Row, JobStatus
  <2>2. rows' = Append(rows, new)
    BY <1>1 DEF insert_pending
  <2> HIDE DEF new
  <2> QED
    BY <1>1, <2>1, <2>2
<1>3. n \in Nat \ {0}
  BY <1>1
<1> HIDE DEF n
<1>4. /\ id[r] = 0 /\ id'[r] = n /\ stage'[r] = "accepted"
      /\ \A q \in Request : q # r => id'[q] = id[q] /\ stage'[q] = stage[q]
  BY <1>1, <1>2 DEF StageInv, StageTypes, IdsFollow
<1>5. \A i \in DOMAIN rows : rows[i].req # r /\ rows[i].req \in Request
  <2>1. \A i \in DOMAIN rows : i # 0
    BY <1>1
  <2> QED
    BY <1>4, <2>1, RowsHaveJobs DEF CacheInv, RowsOfJobs
<1>6. RowsOfJobs'
  <2>1. \A q \in Request : id'[q] # 0 => id'[q] \in DOMAIN rows' /\ rows'[id'[q]].req = q
    BY <1>2, <1>4 DEF CacheInv, RowsOfJobs
  <2>2. \A i \in DOMAIN rows' : id'[rows'[i].req] = i
    BY <1>2, <1>4, <1>5 DEF CacheInv, RowsOfJobs
  <2>3. Len(rows') = Cardinality({q \in Request : id'[q] # 0})
    <3> DEFINE S == {q \in Request : id[q] # 0}
    <3>1. {q \in Request : id'[q] # 0} = S \cup {r}
      BY <1>3, <1>4
    <3>2. IsFiniteSet(S) /\ r \notin S /\ Len(rows) = Cardinality(S)
      BY <1>4, FS_Subset, ServiceAssumption DEF CacheInv, RowsOfJobs
    <3>3. Cardinality(S \cup {r}) = Cardinality(S) + 1
      BY <3>2, FS_AddElement
    <3> QED
      BY <1>2, <3>1, <3>2, <3>3 DEF n
  <2> QED
    BY <1>2, <2>1, <2>2, <2>3 DEF RowsOfJobs
<1>7. RowsSayTheTruth'
  <2>1. \A q \in Request : q # r => (Unwritten(q)' <=> Unwritten(q))
    BY <1>1, <1>4 DEF Unwritten
  <2>2. \A q \in Request : Unwritten(q) => id[q] \in DOMAIN rows
    <3>1. \A q \in Request : Unwritten(q) => id[q] # 0
      BY DEF Unwritten, StageInv, IdsFollow, Owning, Recording
    <3> QED
      BY <3>1 DEF CacheInv, RowsOfJobs
  <2>3. \A q \in Request : Unwritten(q)' => rows'[id'[q]].status = "pending"
    BY <1>2, <1>4, <2>1, <2>2 DEF CacheInv, RowsSayTheTruth
  <2>4. Unwritten(r)'
    BY <1>4 DEF Unwritten
  <2>5. phase' # "swept" /\ (Running' <=> Running)
    BY <1>1 DEF Running
  <2>6. \A i \in DOMAIN rows' : rows'[i].status \in {"verified", "mismatch"} =>
            rows'[i].status = result'[rows'[i].req]
    BY <1>1, <1>2 DEF CacheInv, RowsSayTheTruth
  <2>7. \A i \in DOMAIN rows' : rows'[i].status = "pending" =>
            \E q \in Request : q = rows'[i].req /\ (Unwritten(q)' \/ q \in lost')
    <3>1. \A i \in DOMAIN rows : rows[i].status = "pending" =>
            \E q \in Request : q = rows[i].req /\ (Unwritten(q)' \/ q \in lost')
      BY <1>1, <1>5, <2>1 DEF CacheInv, RowsSayTheTruth
    <3> QED
      BY <1>2, <2>4, <3>1
  <2> QED
    BY <2>3, <2>5, <2>6, <2>7 DEF RowsSayTheTruth, Unwritten
<1> QED
  BY <1>6, <1>7 DEF CacheInv

\* complete and fail write the row of the job that ended, and only that, while it is
\* pending; a failed write leaves it pending.
LEMMA RecordKeepsCache ==
  ASSUME StageInv, CacheInv, NEW r \in Request, Record(r)
  PROVE  CacheInv'
<1> DEFINE k == id[r]
<1>1. /\ UNCHANGED <<phase, id, blocking, result>> /\ Polled
      /\ stage[r] = "record" /\ stage' = [stage EXCEPT ![r] = "finish"]
      /\ rows \in Seq(Row) /\ result[r] \in Outcome
      /\ k # 0 /\ r \notin blocking
  BY DEF Record, CacheInv, RowsOfJobs, StageInv, ResultsFollow, IdsFollow, Owning, Recording,
     ThreadsFollow
<1>2. stage'[r] = "finish" /\ \A q \in Request : q # r => stage'[q] = stage[q]
  BY <1>1 DEF StageInv, StageTypes
<1>3. k \in DOMAIN rows /\ rows[k].req = r
  BY <1>1 DEF CacheInv, RowsOfJobs
<1>4. \A i \in DOMAIN rows : i # k => rows[i].req # r /\ rows[i].req \in Request
  BY <1>3, RowsHaveJobs DEF CacheInv, RowsOfJobs
<1>5. ~Unwritten(r)' /\ \A q \in Request : q # r => (Unwritten(q)' <=> Unwritten(q))
  BY <1>1, <1>2 DEF Unwritten
<1>6. phase' # "swept" /\ phase # "swept" /\ (Running' <=> Running)
  BY <1>1 DEF Running, Polled
<1>7. CASE UNCHANGED rows /\ lost' = lost \cup {r}
  <2>1. RowsOfJobs'
    BY <1>1, <1>7 DEF CacheInv, RowsOfJobs
  <2>2. \A i \in DOMAIN rows' : Running' /\ rows'[i].status = "pending" =>
            \E q \in Request : q = rows'[i].req /\ (Unwritten(q)' \/ q \in lost')
    BY <1>3, <1>4, <1>5, <1>6, <1>7, RowsHaveJobs DEF CacheInv, RowsSayTheTruth
  <2>3. RowsSayTheTruth'
    BY <1>1, <1>5, <1>6, <1>7, <2>2 DEF CacheInv, RowsSayTheTruth, Unwritten
  <2> QED
    BY <2>1, <2>3 DEF CacheInv
<1>8. CASE UNCHANGED lost /\ rows' # rows
  <2>1. PICK status \in JobStatus :
           /\ rows' = [rows EXCEPT ![k].status = status]
           /\ status \in Terminal /\ (status \in {"verified", "mismatch"} => status = result[r])
    BY <1>1, <1>8 DEF Record, fail, complete, Outcome, JobStatus, Terminal
  <2>2. /\ rows' \in Seq(Row) /\ Len(rows') = Len(rows) /\ DOMAIN rows' = DOMAIN rows
        /\ rows'[k].req = rows[k].req /\ rows'[k].status = status
        /\ \A i \in DOMAIN rows : i # k => rows'[i] = rows[i]
    BY <1>1, <1>3, <2>1, UpdateRow
  <2> HIDE DEF k
  <2>3. RowsOfJobs'
    <3>1. \A i \in DOMAIN rows : rows'[i].req = rows[i].req
      BY <2>2
    <3> QED
      BY <1>1, <2>2, <3>1 DEF CacheInv, RowsOfJobs
  <2>4. \A q \in Request : Unwritten(q)' => rows'[id'[q]].status = "pending"
    <3> SUFFICES ASSUME NEW q \in Request, Unwritten(q)' PROVE rows[id[q]] = rows'[id'[q]]
      BY <1>5 DEF CacheInv, RowsSayTheTruth
    <3>1. q # r /\ id[q] # 0
      BY <1>5 DEF Unwritten, StageInv, IdsFollow, Owning, Recording
    <3>2. id[q] \in DOMAIN rows /\ id[q] # k
      BY <1>3, <3>1 DEF CacheInv, RowsOfJobs
    <3> QED
      BY <1>1, <2>2, <3>2
  <2>5. \A i \in DOMAIN rows' : rows'[i].status \in {"verified", "mismatch"} =>
            rows'[i].status = result'[rows'[i].req]
    BY <1>1, <1>3, <2>1, <2>2 DEF CacheInv, RowsSayTheTruth
  <2>6. \A i \in DOMAIN rows' : Running' /\ rows'[i].status = "pending" =>
            \E q \in Request : q = rows'[i].req /\ (Unwritten(q)' \/ q \in lost')
    BY <1>4, <1>5, <1>6, <1>8, <2>1, <2>2 DEF CacheInv, RowsSayTheTruth, Terminal
  <2>7. RowsSayTheTruth'
    BY <1>6, <2>4, <2>5, <2>6 DEF RowsSayTheTruth, Unwritten
  <2> QED
    BY <2>3, <2>7 DEF CacheInv
<1>9. CASE UNCHANGED <<lost, rows>> /\ lost' # lost \cup {r}
  <2>1. rows[k].status # "pending"
    <3>1. PICK status \in JobStatus :
             status \in Terminal /\ rows' = [rows EXCEPT ![k].status = status]
      BY <1>1, <1>9 DEF Record, fail, complete, Outcome, JobStatus, Terminal
    <3>2. rows'[k].status = status
      BY <1>1, <1>3, <3>1, UpdateRow
    <3> QED
      BY <1>9, <3>1, <3>2 DEF Terminal
  <2>2. rows[k].status = "pending"
    BY <1>1 DEF CacheInv, RowsSayTheTruth, Unwritten
  <2> QED
    BY <2>1, <2>2
<1> QED
  BY <1>7, <1>8, <1>9 DEF Record

LEMMA BuildEndsKeepsCache ==
  ASSUME StageInv, CacheInv, NEW r \in Request, BuildEnds(r)
  PROVE  CacheInv'
<1>1. /\ UNCHANGED <<phase, stage, id, lost, rows>>
      /\ r \in blocking /\ blocking' = blocking \ {r} /\ id[r] # 0
      /\ \A q \in Request : q # r => result'[q] = result[q]
  BY DEF BuildEnds, dbVars, StageInv, StageTypes
<1>2. Unwritten(r) /\ \A q \in Request : Unwritten(q)' => Unwritten(q)
  BY <1>1 DEF Unwritten
<1>3. \A i \in DOMAIN rows : rows[i].req = r => rows[i].status = "pending"
  BY <1>2 DEF CacheInv, RowsOfJobs, RowsSayTheTruth
<1>4. Running => \A q \in Request : Unwritten(q) => Unwritten(q)'
  BY <1>1 DEF Unwritten, Running, StageInv, ThreadsFollow
<1>5. RowsOfJobs'
  BY <1>1 DEF CacheInv, RowsOfJobs
<1>6. RowsSayTheTruth'
  <2>1. \A q \in Request : Unwritten(q)' => rows'[id'[q]].status = "pending"
    BY <1>1, <1>2 DEF CacheInv, RowsSayTheTruth
  <2>2. \A i \in DOMAIN rows' : rows'[i].status \in {"verified", "mismatch"} =>
            rows'[i].status = result'[rows'[i].req]
    BY <1>1, <1>3, RowsHaveJobs DEF CacheInv, RowsSayTheTruth
  <2>3. \A i \in DOMAIN rows : Running /\ rows[i].status = "pending" =>
            \E q \in Request : q = rows[i].req /\ (Unwritten(q)' \/ q \in lost)
    BY <1>4, RowsHaveJobs DEF CacheInv, RowsSayTheTruth
  <2>4. phase' = "swept" => \A i \in DOMAIN rows' : rows'[i].status # "pending"
    BY <1>1 DEF CacheInv, RowsSayTheTruth
  <2> QED
    BY <1>1, <2>1, <2>2, <2>3, <2>4 DEF RowsSayTheTruth, Unwritten, Running
<1> QED
  BY <1>5, <1>6 DEF CacheInv

LEMMA StepKeepsCache ==
  ASSUME StageInv, CacheInv, [Next]_vars
  PROVE  CacheInv'
  BY ProcessKeepsCache, SweepKeepsCache, RequestKeepsCache, InsertKeepsCache,
     RecordKeepsCache, BuildEndsKeepsCache DEF Next, Starting, Handler, Job, Blocking
-----------------------------------------------------------------------------
(* The permits and the gauge. *)

\* One request moves from a stage to another.
LEMMA CountMoves ==
  ASSUME StageTypes, NEW r \in Request, NEW t, stage' = [stage EXCEPT ![r] = t], NEW S
  PROVE  /\ Count(S) \in Nat /\ Count(S)' \in Nat
         /\ Count(S)' = Count(S) + (IF t \in S THEN 1 ELSE 0)
                                 - (IF stage[r] \in S THEN 1 ELSE 0)
<1> DEFINE A == {q \in Request : stage[q] \in S}
           B == {q \in Request : stage'[q] \in S}
           C == {q \in Request \ {r} : stage[q] \in S}
<1>1. IsFiniteSet(C)
  BY FS_Subset, ServiceAssumption
<1>2. A = IF stage[r] \in S THEN C \cup {r} ELSE C
  OBVIOUS
<1>3. stage'[r] = t /\ \A q \in Request \ {r} : stage'[q] = stage[q]
  BY DEF StageTypes
<1>4. B = IF t \in S THEN C \cup {r} ELSE C
  BY <1>3
<1>5. r \notin C /\ Cardinality(C) \in Nat
  BY <1>1, FS_CardinalityType
<1>6. Cardinality(C \cup {r}) = Cardinality(C) + 1
  BY <1>1, <1>5, FS_AddElement
<1>7. Count(S) = Cardinality(A) /\ Count(S)' = Cardinality(B)
  BY DEF Count, In
<1> HIDE DEF A, B, C
<1> QED
  BY <1>2, <1>4, <1>5, <1>6, <1>7

\* Where no request is at a stage of S the count is zero.
LEMMA CountZero ==
  ASSUME NEW S, \A r \in Request : stage[r] \notin S
  PROVE  Count(S) = 0
<1>1. In(S) = {}
  BY DEF In
<1> QED
  BY <1>1, FS_EmptySet DEF Count

\* Requests that leave their stages are counted no more.
LEMMA CountShrinks ==
  ASSUME NEW S, \A r \in Request : stage'[r] \in S => stage[r] \in S
  PROVE  Count(S) \in Nat /\ Count(S)' \in Nat /\ Count(S)' <= Count(S)
<1>1. In(S)' \subseteq In(S) /\ In(S) \subseteq Request
  BY DEF In
<1>2. IsFiniteSet(In(S)) /\ IsFiniteSet(In(S)')
  BY <1>1, FS_Subset, ServiceAssumption
<1> QED
  BY <1>1, <1>2, FS_Subset, FS_CardinalityType DEF Count

\* What a request at stage t holds of each.
PermitAt(t) == IF t \in Admitted THEN 1 ELSE 0
SlotAt(t)   == IF t \in Slotted THEN 1 ELSE 0
GaugeAt(t)  == IF t \in Gauged THEN 1 ELSE 0

\* A request moves from its stage to t and takes or gives back what the two differ in.
Moves(r, t) ==
    /\ stage' = [stage EXCEPT ![r] = t]
    /\ admission' \in Nat /\ build_slots' \in Nat /\ in_flight' \in Int
    /\ submitted' \in Nat /\ finished' \in [Outcome -> Nat]
    /\ admission' + PermitAt(t) = admission + PermitAt(stage[r])
    /\ build_slots' + SlotAt(t) = build_slots + SlotAt(stage[r])
    /\ in_flight' + GaugeAt(stage[r]) = in_flight + GaugeAt(t)
    /\ submitted' = in_flight' + Sum(finished')

LEMMA MoveKeepsCounts ==
  ASSUME StageTypes, CountInv, Polled, UNCHANGED phase, NEW r \in Request, NEW t, Moves(r, t)
  PROVE  CountInv'
<1> DEFINE u == stage[r]
<1>0. /\ stage' = [stage EXCEPT ![r] = t]
      /\ admission' \in Nat /\ build_slots' \in Nat /\ in_flight' \in Int
      /\ submitted' \in Nat /\ finished' \in [Outcome -> Nat]
      /\ admission' + PermitAt(t) = admission + PermitAt(u)
      /\ build_slots' + SlotAt(t) = build_slots + SlotAt(u)
      /\ in_flight' + GaugeAt(u) = in_flight + GaugeAt(t)
      /\ submitted' = in_flight' + Sum(finished')
  BY DEF Moves
<1>1. /\ Count(Admitted) \in Nat /\ Count(Admitted)' \in Nat
      /\ Count(Admitted)' = Count(Admitted) + PermitAt(t) - PermitAt(u)
  BY <1>0, CountMoves DEF PermitAt
<1>2. /\ Count(Slotted) \in Nat /\ Count(Slotted)' \in Nat
      /\ Count(Slotted)' = Count(Slotted) + SlotAt(t) - SlotAt(u)
  BY <1>0, CountMoves DEF SlotAt
<1>3. /\ Count(Gauged) \in Nat /\ Count(Gauged)' \in Nat
      /\ Count(Gauged)' = Count(Gauged) + GaugeAt(t) - GaugeAt(u)
  BY <1>0, CountMoves DEF GaugeAt
<1>4. /\ PermitAt(t) \in {0, 1} /\ SlotAt(t) \in {0, 1} /\ GaugeAt(t) \in {0, 1}
      /\ PermitAt(u) \in {0, 1} /\ SlotAt(u) \in {0, 1} /\ GaugeAt(u) \in {0, 1}
  BY DEF PermitAt, SlotAt, GaugeAt
<1>5. /\ admission \in Nat /\ build_slots \in Nat /\ in_flight \in Nat
      /\ phase \notin {"down", "migrate", "swept"}
      /\ (Polled' <=> Polled) /\ (Running' <=> Running)
  BY DEF CountInv, Polled, Running
<1> HIDE DEF u
<1>6. /\ admission' + Count(Admitted)' = admission + Count(Admitted)
      /\ build_slots' + Count(Slotted)' = build_slots + Count(Slotted)
      /\ in_flight' - Count(Gauged)' = in_flight - Count(Gauged)
  BY <1>0, <1>1, <1>2, <1>3, <1>4, <1>5
<1>7. in_flight >= Count(Gauged) /\ (Running => in_flight = Count(Gauged))
  BY DEF CountInv
<1>8. in_flight' \in Nat /\ in_flight' >= Count(Gauged)' /\ (Running => in_flight' = Count(Gauged)')
  BY <1>0, <1>3, <1>5, <1>6, <1>7
<1> QED
  BY <1>0, <1>5, <1>6, <1>8 DEF CountInv

LEMMA StagesHold ==
  /\ \A t \in {"new", "gone"} : PermitAt(t) = 0 /\ SlotAt(t) = 0 /\ GaugeAt(t) = 0
  /\ \A t \in {"lookup", "insert", "accepted", "end"} :
        PermitAt(t) = 1 /\ SlotAt(t) = 0 /\ GaugeAt(t) = 0
  /\ \A t \in {"spawn", "queued", "record", "finish"} :
        PermitAt(t) = 1 /\ SlotAt(t) = 0 /\ GaugeAt(t) = 1
  /\ PermitAt("building") = 1 /\ SlotAt("building") = 1 /\ GaugeAt("building") = 1
  BY DEF PermitAt, SlotAt, GaugeAt, Admitted, Slotted, Gauged, Handling, Recording

LEMMA RequestKeepsCounts ==
  ASSUME StageInv, CountInv, NEW r \in Request,
         \/ Refuse(r) \/ Admit(r) \/ Disconnect(r) \/ InsertFails(r)
         \/ Resolve(r) \/ Insert(r) \/ OnAccepted(r) \/ Spawn(r)
         \/ TakeSlot(r) \/ ReleaseSlot(r) \/ Record(r) \/ OnFinished(r) \/ End(r)
  PROVE  CountInv'
<1>0. /\ StageTypes /\ admission \in Nat /\ build_slots \in Nat
      /\ submitted \in Nat /\ in_flight \in Nat /\ finished \in [Outcome -> Nat]
      /\ submitted = in_flight + Sum(finished) /\ Sum(finished) \in Nat
  BY DEF StageInv, CountInv, Sum, Outcome, Terminal
<1>1. UNCHANGED phase /\ Polled
  BY DEF Refuse, Admit, Disconnect, InsertFails, Resolve, Insert, OnAccepted, Spawn, TakeSlot,
     ReleaseSlot, Record, OnFinished, End, Running, Polled
<1>2. CASE Refuse(r) \/ Insert(r) \/ Spawn(r) \/ Record(r)
  <2>1. UNCHANGED <<admission, build_slots, submitted, in_flight, finished>>
    BY <1>2 DEF Refuse, Insert, Spawn, Record, permits, metrics
  <2>2. PICK t :
          /\ stage' = [stage EXCEPT ![r] = t]
          /\ \/ stage[r] = "new" /\ t = "gone"
             \/ stage[r] = "insert" /\ t = "accepted"
             \/ stage[r] = "spawn" /\ t = "queued"
             \/ stage[r] = "record" /\ t = "finish"
    BY <1>2 DEF Refuse, Insert, Spawn, Record, Leave
  <2>3. Moves(r, t)
    BY <1>0, <2>1, <2>2, StagesHold DEF Moves
  <2> QED
    BY <1>0, <1>1, <2>3, MoveKeepsCounts
<1>3. CASE Admit(r)
  <2>1. PICK t \in Targets :
          /\ stage' = [stage EXCEPT ![r] = t]
          /\ admission' = IF t = "gone" THEN admission ELSE admission - 1
    BY <1>3 DEF Admit
  <2>2. /\ UNCHANGED <<build_slots, submitted, in_flight, finished>>
        /\ stage[r] = "new" /\ admission > 0 /\ t \in {"lookup", "insert", "gone"}
    BY <1>3, TargetsAre DEF Admit, metrics
  <2>3. Moves(r, t)
    BY <1>0, <2>1, <2>2, StagesHold DEF Moves
  <2> QED
    BY <1>0, <1>1, <2>3, MoveKeepsCounts
<1>4. CASE Disconnect(r) \/ InsertFails(r) \/ Resolve(r) \/ End(r)
  <2>1. UNCHANGED <<build_slots, submitted, in_flight, finished>>
    BY <1>4 DEF Disconnect, InsertFails, Resolve, End, metrics
  <2>2. PICK t :
          /\ stage' = [stage EXCEPT ![r] = t]
          /\ \/ stage[r] \in {"lookup", "insert", "end"} /\ t = "gone" /\ admission' = admission + 1
             \/ stage[r] = "lookup" /\ t = "insert" /\ admission' = admission
    BY <1>4 DEF Disconnect, InsertFails, Resolve, End, Leave
  <2>3. Moves(r, t)
    BY <1>0, <2>1, <2>2, StagesHold DEF Moves
  <2> QED
    BY <1>0, <1>1, <2>3, MoveKeepsCounts
<1>5. CASE OnAccepted(r)
  <2>1. /\ UNCHANGED <<admission, build_slots, finished>>
        /\ submitted' = submitted + 1 /\ in_flight' = in_flight + 1
        /\ stage[r] = "accepted" /\ stage' = [stage EXCEPT ![r] = "spawn"]
    BY <1>5 DEF OnAccepted, permits
  <2>2. Moves(r, "spawn")
    BY <1>0, <2>1, StagesHold DEF Moves
  <2> QED
    BY <1>0, <1>1, <2>2, MoveKeepsCounts
<1>6. CASE TakeSlot(r) \/ ReleaseSlot(r)
  <2>1. UNCHANGED <<admission, submitted, in_flight, finished>>
    BY <1>6 DEF TakeSlot, ReleaseSlot, metrics
  <2>2. PICK t :
          /\ stage' = [stage EXCEPT ![r] = t]
          /\ \/ /\ stage[r] = "queued" /\ t = "building"
                /\ build_slots' = build_slots - 1 /\ build_slots > 0
             \/ /\ stage[r] = "building" /\ t = "record"
                /\ build_slots' = build_slots + 1
    BY <1>6 DEF TakeSlot, ReleaseSlot
  <2>3. Moves(r, t)
    BY <1>0, <2>1, <2>2, StagesHold DEF Moves
  <2> QED
    BY <1>0, <1>1, <2>3, MoveKeepsCounts
<1>7. CASE OnFinished(r)
  <2>1. /\ UNCHANGED <<admission, build_slots, submitted>>
        /\ in_flight' = in_flight - 1 /\ finished' = [finished EXCEPT ![result[r]] = @ + 1]
        /\ stage[r] = "finish" /\ stage' = [stage EXCEPT ![r] = "end"]
    BY <1>7 DEF OnFinished, permits
  <2>2. result[r] \in Outcome
    BY <2>1 DEF StageInv, ResultsFollow, Recording
  <2>3. finished' \in [Outcome -> Nat] /\ Sum(finished') = Sum(finished) + 1
    BY <1>0, <2>1, <2>2 DEF Sum, Outcome, Terminal
  <2>4. Moves(r, "end")
    BY <1>0, <2>1, <2>3, StagesHold DEF Moves
  <2> QED
    BY <1>0, <1>1, <2>4, MoveKeepsCounts
<1> QED
  BY <1>2, <1>3, <1>4, <1>5, <1>6, <1>7

LEMMA ProcessKeepsCounts ==
  ASSUME StageInv, CountInv,
         \/ \E b \in Builds : Boot(b)
         \/ Migrate \/ Sweep \/ Listen \/ StartFails
         \/ Term \/ Stop \/ Exit \/ Kill \/ UNCHANGED vars
  PROVE  CountInv'
<1>1. CASE StartFails \/ Exit \/ Kill
  <2>1. /\ phase' = "down" /\ admission' = 0 /\ build_slots' = 0 /\ submitted' = 0
        /\ in_flight' = 0 /\ finished' = [o \in Outcome |-> 0]
    BY <1>1 DEF StartFails, Exit, Kill, GoDown
  <2>2. Sum(finished') = 0 /\ finished' \in [Outcome -> Nat]
    BY <2>1 DEF Sum, Outcome, Terminal
  <2> QED
    BY <2>1, <2>2 DEF CountInv, Polled, Running
<1>2. CASE Listen
  <2>1. /\ UNCHANGED <<submitted, in_flight, finished, stage>>
        /\ phase = "swept" /\ phase' = "serving"
        /\ admission' = MAX_OUTSTANDING_JOBS /\ build_slots' = MAX_CONCURRENT_BUILDS
    BY <1>2 DEF Listen, metrics, jobVars
  <2>2. \A r \in Request : stage'[r] \in {"new", "gone"}
    BY <2>1 DEF StageInv, NoneOutlives
  <2>3. /\ \A r \in Request : stage'[r] \notin Admitted
        /\ \A r \in Request : stage'[r] \notin Slotted
        /\ \A r \in Request : stage'[r] \notin Gauged
    BY <2>2 DEF Admitted, Slotted, Gauged, Handling, Recording
  <2>4. Count(Admitted)' = 0 /\ Count(Slotted)' = 0 /\ Count(Gauged)' = 0
    <3>1. ASSUME NEW S, \A r \in Request : stage'[r] \notin S PROVE Count(S)' = 0
      <4>1. In(S)' = {}
        BY <3>1 DEF In
      <4> QED
        BY <4>1, FS_EmptySet DEF Count
    <3> QED
      BY <2>3, <3>1
  <2> QED
    BY <2>1, <2>4, ServiceAssumption DEF CountInv, Polled, Running
<1>3. CASE Stop
  <2>1. /\ UNCHANGED <<admission, build_slots, submitted, in_flight, finished>>
        /\ phase = "draining" /\ phase' = "stopping"
        /\ \A r \in Request : stage'[r] \in {stage[r], "gone"}
    BY <1>3 DEF Stop, metrics, permits
  <2>2. /\ Count(Admitted) \in Nat /\ Count(Admitted)' \in Nat
        /\ Count(Admitted)' <= Count(Admitted)
    BY <2>1, CountShrinks DEF Admitted, Handling, Recording
  <2>3. /\ Count(Slotted) \in Nat /\ Count(Slotted)' \in Nat
        /\ Count(Slotted)' <= Count(Slotted)
    BY <2>1, CountShrinks DEF Slotted
  <2>4. Count(Gauged) \in Nat /\ Count(Gauged)' \in Nat /\ Count(Gauged)' <= Count(Gauged)
    BY <2>1, CountShrinks DEF Gauged
  <2> QED
    BY <2>1, <2>2, <2>3, <2>4, ServiceAssumption DEF CountInv, Polled, Running
<1>4. CASE (\E b \in Builds : Boot(b)) \/ Migrate \/ Sweep \/ Term \/ UNCHANGED vars
  <2>1. /\ UNCHANGED <<admission, build_slots, submitted, in_flight, finished, stage>>
        /\ \/ UNCHANGED phase
           \/ phase \in {"down", "migrate"} /\ phase' \in {"migrate", "swept"}
           \/ phase = "serving" /\ phase' = "draining"
    BY <1>4 DEF Boot, Migrate, Sweep, Term, vars, metrics, permits, jobVars
  <2>2. \A S : Count(S)' = Count(S)
    BY <2>1 DEF Count, In
  <2> QED
    BY <2>1, <2>2 DEF CountInv, Polled, Running
<1> QED
  BY <1>1, <1>2, <1>3, <1>4

LEMMA StepKeepsCounts ==
  ASSUME StageInv, CountInv, [Next]_vars
  PROVE  CountInv'
<1>1. ASSUME NEW r \in Request, Blocking(r) PROVE CountInv'
  <2>1. UNCHANGED <<admission, build_slots, submitted, in_flight, finished, stage, phase>>
    BY <1>1 DEF Blocking, LookupEnds, BuildEnds, metrics, permits
  <2>2. \A S : Count(S)' = Count(S)
    BY <2>1 DEF Count, In
  <2> QED
    BY <2>1, <2>2 DEF CountInv, Polled, Running
<1> QED
  BY <1>1, ProcessKeepsCounts, RequestKeepsCounts DEF Next, Starting, Handler, Job
-----------------------------------------------------------------------------
(* The theorems. *)

ServiceInv == StageInv /\ SchemaInv /\ CacheInv /\ CountInv

LEMMA ServiceStarts == Init => ServiceInv
<1> SUFFICES ASSUME Init PROVE ServiceInv
  OBVIOUS
<1>1. StageInv
  BY ServiceAssumption
  DEF Init, StageInv, StageTypes, Phase, Stage, NoneOutlives, IdsFollow, ThreadsFollow,
      ResultsFollow, Owning, Recording
<1>2. SchemaInv
  BY MigrationsAre DEF Init, SchemaInv
<1>3. CacheInv
  <2>1. rows = <<>> /\ rows \in Seq(Row) /\ DOMAIN rows = {} /\ Len(rows) = 0
    BY DEF Init
  <2>2. {r \in Request : id[r] # 0} = {}
    BY DEF Init
  <2>3. \A r \in Request : ~Unwritten(r)
    BY DEF Init, Unwritten
  <2> QED
    BY <2>1, <2>2, <2>3, FS_EmptySet DEF Init, CacheInv, RowsOfJobs, RowsSayTheTruth
<1>4. CountInv
  BY DEF Init, CountInv, Sum, Outcome, Terminal, Polled, Running
<1> QED
  BY <1>1, <1>2, <1>3, <1>4 DEF ServiceInv

LEMMA StepKeepsService == ServiceInv /\ [Next]_vars => ServiceInv'
  BY StepKeepsStages, StepKeepsSchema, StepKeepsCache, StepKeepsCounts DEF ServiceInv

\* The four invariants together.
THEOREM ServiceInvariant == Spec => []ServiceInv
  BY ServiceStarts, StepKeepsService, PTL DEF Spec

LEMMA CountIsNat == ASSUME NEW S PROVE Count(S) \in Nat
<1>1. In(S) \subseteq Request
  BY DEF In
<1> QED
  BY <1>1, FS_Subset, FS_CardinalityType, ServiceAssumption DEF Count

\* The service keeps its types: no semaphore holds more permits than it was made with,
\* the gauge never wraps below zero, and no request gets two rows.
THEOREM ServiceTypeCorrect == Spec => []TypeOK
<1>1. ServiceInv => TypeOK
  <2> SUFFICES ASSUME ServiceInv PROVE TypeOK
    OBVIOUS
  <2>1. Count(Admitted) \in Nat /\ Count(Slotted) \in Nat
    BY CountIsNat
  <2>2. admission \in 0 .. MAX_OUTSTANDING_JOBS /\ build_slots \in 0 .. MAX_CONCURRENT_BUILDS
    BY <2>1, ServiceAssumption
    DEF ServiceInv, CountInv, StageInv, StageTypes, Phase, Polled
  <2>3. id \in [Request -> 0 .. Cardinality(Request)]
    <3> DEFINE S == {r \in Request : id[r] # 0}
    <3>1. Cardinality(S) <= Cardinality(Request) /\ Cardinality(Request) \in Nat
      BY FS_Subset, FS_CardinalityType, ServiceAssumption
    <3>2. rows \in Seq(Row) /\ Len(rows) = Cardinality(S)
      BY DEF ServiceInv, CacheInv, RowsOfJobs
    <3>3. ASSUME NEW r \in Request PROVE id[r] \in 0 .. Cardinality(Request)
      <4>1. id[r] = 0 \/ id[r] \in 1 .. Len(rows)
        BY <3>2 DEF ServiceInv, CacheInv, RowsOfJobs
      <4> QED
        BY <3>1, <3>2, <4>1
    <3> QED
      BY <3>3 DEF ServiceInv, StageInv, StageTypes
  <2>4. rows \in Seq([req : Request, status : JobStatus])
    BY DEF ServiceInv, CacheInv, RowsOfJobs, Row
  <2> QED
    BY <2>2, <2>3, <2>4
    DEF TypeOK, ServiceInv, StageInv, StageTypes, Phase, Stage, SchemaInv, CountInv
<1> QED
  BY <1>1, ServiceInvariant, PTL

\* The permits of both semaphores are out exactly while a handler or a job holds them,
\* and the threads of builds are those of the jobs that hold a slot (start_verification,
\* run_job).
THEOREM PermitsAreAccounted == Spec => []PermitsAccounted
<1>1. ServiceInv => PermitsAccounted
  <2> SUFFICES ASSUME ServiceInv, Running PROVE PermitsAccounted
    BY DEF PermitsAccounted
  <2>1. /\ admission + Count(Admitted) = MAX_OUTSTANDING_JOBS
        /\ build_slots + Count(Slotted) = MAX_CONCURRENT_BUILDS
        /\ admission \in Nat /\ build_slots \in Nat
    BY DEF ServiceInv, CountInv
  <2>2. Count(Admitted) \in Nat /\ Count(Slotted) \in Nat
    BY CountIsNat
  <2>3. /\ admission = MAX_OUTSTANDING_JOBS - Count(Admitted)
        /\ build_slots = MAX_CONCURRENT_BUILDS - Count(Slotted)
    BY <2>1, <2>2, ServiceAssumption
  <2>4. {r \in blocking : id[r] # 0} \subseteq In({"building"})
    BY DEF ServiceInv, StageInv, StageTypes, ThreadsFollow, Running, In
  <2> QED
    BY <2>3, <2>4 DEF PermitsAccounted, Count, Admitted, Slotted
<1> QED
  BY <1>1, ServiceInvariant, PTL

\* The gauge counts the jobs under way, and a job that ends moves from the gauge to one
\* outcome counter (Metrics).
THEOREM GaugeIsBalanced == Spec => []GaugeBalances
<1>1. ServiceInv => GaugeBalances
  <2> SUFFICES ASSUME ServiceInv, Running PROVE GaugeBalances
    BY DEF GaugeBalances
  <2>1. /\ in_flight = Count(Gauged) /\ in_flight \in Nat /\ admission \in Nat
        /\ admission + Count(Admitted) = MAX_OUTSTANDING_JOBS
        /\ submitted \in Nat /\ submitted = in_flight + Sum(finished)
        /\ finished \in [Outcome -> Nat]
    BY DEF ServiceInv, CountInv
  <2>2. In(Gauged) \subseteq In(Admitted) /\ In(Admitted) \subseteq Request
    BY DEF In, Gauged, Admitted, Handling, Recording
  <2>3. Count(Gauged) <= Count(Admitted) /\ Count(Admitted) \in Nat
    BY <2>2, CountIsNat, FS_Subset, ServiceAssumption DEF Count
  <2>4. in_flight \in 0 .. MAX_OUTSTANDING_JOBS
    BY <2>1, <2>3, ServiceAssumption
  <2>5. ASSUME In({"spawn", "queued", "building"} \cup Recording) = {}
        PROVE  /\ in_flight = 0
               /\ submitted = finished["verified"] + finished["mismatch"] + finished["error"]
    <3>1. \A r \in Request : stage[r] \notin Gauged
      BY <2>5 DEF In, Gauged, Recording
    <3>2. Count(Gauged) = 0
      BY <3>1, CountZero
    <3> QED
      BY <2>1, <3>2 DEF Sum, Outcome, Terminal
  <2> QED
    BY <2>4, <2>5 DEF GaugeBalances
<1> QED
  BY <1>1, ServiceInvariant, PTL

\* Nobody who asks sees a row under way that no job of this process is working on,
\* unless the write of its outcome failed (fail_orphaned_pending, main).
THEOREM PendingRowsAreLive == Spec => []PendingIsLive
<1>1. ServiceInv => PendingIsLive
  BY RowsHaveJobs
  DEF ServiceInv, CacheInv, RowsSayTheTruth, PendingIsLive, Running, Unwritten, StageInv,
      ThreadsFollow
<1> QED
  BY <1>1, ServiceInvariant, PTL

\* A job's id names its own row, and a verdict on a row is what that job's build
\* returned (insert_pending, complete, fail).
THEOREM RowsBelongToJobs == Spec => []JobsKeepTheirRows
<1>1. ServiceInv => JobsKeepTheirRows
  BY DEF ServiceInv, CacheInv, RowsOfJobs, RowsSayTheTruth, JobsKeepTheirRows
<1> QED
  BY <1>1, ServiceInvariant, PTL

\* A build serves only a database that has all its migrations and no more (migrate).
THEOREM SchemaIsServed == Spec => []ServesItsSchema
<1>1. ServiceInv => ServesItsSchema
  <2> SUFFICES ASSUME ServiceInv, phase \in {"swept", "serving", "draining", "stopping"}
               PROVE  /\ version = build
                      /\ ToSet(SubSeq(MIGRATIONS, 1, build)) \subseteq tables
    BY DEF ServesItsSchema
  <2>1. version = build /\ build \in 1 .. 2 /\ \A n \in 1 .. build : MIGRATIONS[n] \in tables
    BY ServiceAssumption, MigrationsAre DEF ServiceInv, SchemaInv
  <2>2. ToSet(SubSeq(MIGRATIONS, 1, build)) \subseteq {MIGRATIONS[n] : n \in 1 .. build}
    BY <2>1, MigrationsAre DEF ToSet
  <2> QED
    BY <2>1, <2>2
<1> QED
  BY <1>1, ServiceInvariant, PTL

\* What a GET has shown of a row stays true: rows keep their place and their job, and an
\* outcome never changes (complete, fail, the sweep).
THEOREM AnswersAreFinal == Spec => AnswersStand
<1> DEFINE Stand == /\ Len(rows') >= Len(rows)
                    /\ \A i \in DOMAIN rows :
                         /\ rows'[i].req = rows[i].req
                         /\ rows[i].status \in Terminal => rows'[i].status = rows[i].status
<1>1. ServiceInv /\ [Next]_vars => [Stand]_rows
  <2> SUFFICES ASSUME ServiceInv, [Next]_vars PROVE Stand \/ UNCHANGED rows
    OBVIOUS
  <2>0. /\ StageInv /\ CacheInv /\ rows \in Seq(Row) /\ Len(rows) \in Nat
        /\ DOMAIN rows = 1 .. Len(rows)
    BY DEF ServiceInv, CacheInv, RowsOfJobs
  <2>1. CASE Sweep
    <3>1. rows' = fail_orphaned_pending(rows)
      BY <2>1 DEF Sweep
    <3> QED
      BY <2>0, <3>1, SweepRows DEF Terminal
  <2>2. ASSUME NEW r \in Request, Insert(r) PROVE Stand
    <3> DEFINE new == [req |-> r, status |-> "pending"]
    <3>1. rows' = Append(rows, new)
      BY <2>2 DEF Insert, insert_pending
    <3>2. new \in Row
      BY DEF Row, JobStatus
    <3> HIDE DEF new
    <3>3. Len(rows') = Len(rows) + 1 /\ \A i \in DOMAIN rows : rows'[i] = rows[i]
      BY <2>0, <3>1, <3>2
    <3> QED
      BY <2>0, <3>3
  <2>3. ASSUME NEW r \in Request, Record(r), rows' # rows PROVE Stand
    <3> DEFINE k == id[r]
    <3>1. stage[r] = "record" /\ k # 0
      BY <2>0, <2>3 DEF Record, StageInv, IdsFollow, Owning, Recording
    <3>2. k \in DOMAIN rows /\ rows[k].status = "pending"
      BY <2>0, <3>1 DEF CacheInv, RowsOfJobs, RowsSayTheTruth, Unwritten
    <3>3. PICK status \in JobStatus : rows' = [rows EXCEPT ![k].status = status]
      BY <2>0, <2>3, <3>1
      DEF Record, fail, complete, JobStatus, Outcome, Terminal, StageInv, ResultsFollow, Recording
    <3> HIDE DEF k
    <3>4. /\ Len(rows') = Len(rows) /\ rows'[k].req = rows[k].req
          /\ \A i \in DOMAIN rows : i # k => rows'[i] = rows[i]
      BY <2>0, <3>2, <3>3, UpdateRow
    <3> QED
      BY <2>0, <3>2, <3>4 DEF Terminal
  <2> QED
    BY <2>1, <2>2, <2>3
    DEF Next, Starting, Handler, Job, Blocking, vars, dbVars, Boot, Migrate, Listen, StartFails,
        Refuse, Admit, Disconnect, InsertFails, Resolve, OnAccepted, Spawn, TakeSlot,
        ReleaseSlot, OnFinished, End, LookupEnds, BuildEnds, Term, Stop, Exit, Kill
<1> QED
  BY <1>1, ServiceInvariant, PTL DEF Spec, AnswersStand
=============================================================================
