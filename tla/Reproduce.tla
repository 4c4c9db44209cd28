------------------------------ MODULE Reproduce ------------------------------
(***************************************************************************)
(* The reproduction engine (crates/verifier-core: reproduce.rs, docker.rs, *)
(* source.rs): jobs of one process fetch their source, then run a          *)
(* dependency fetch and a build in two containers that share a volume, and *)
(* compare hashes.  The docker daemon outlives the process: what a killed  *)
(* process leaves, containers still running included, is there when the    *)
(* next one starts.                                                        *)
(*                                                                         *)
(* Every docker call is an action of its own and may fail.  A job that     *)
(* fails unwinds through the guards it holds: the container, the volume,   *)
(* the scratch directory.  What VerifyError says is left out: a job ends   *)
(* verified, as a mismatch or in error.                                    *)
(***************************************************************************)
EXTENDS Naturals, FiniteSets

CONSTANTS
    Job,
    None,                   \* no name, no container
    MAX_CONCURRENT_BUILDS,
    MAX_REDIRECTS,
    PidReused,              \* the next process has the pid of the last: PID 1 of a container
    MaxFaults,              \* bound: docker calls that fail
    MaxKills                \* bound: kills of the process

Container == [role : {"fetch", "build"}, state : {"created", "running", "ok", "failed"},
              mount : Nat \X Nat]

ASSUME EngineAssumption ==
    /\ MAX_CONCURRENT_BUILDS \in Nat \ {0} /\ MAX_REDIRECTS \in Nat
    /\ PidReused \in BOOLEAN
    /\ MaxFaults \in Nat /\ MaxKills \in Nat

ASSUME NoneAssumption == None \notin Nat \X Nat /\ None \notin Container

VARIABLES
    \* the process
    up, pid, counter,
    pc,         \* the step a job is at
    hops,       \* URLs an archive fetch has dialled
    scratch,    \* the clone directory a job's DirGuard holds, or None
    volume,     \* the name its Volume guard holds, or None
    result,     \* what reproduce returns, once it unwinds
    \* the host: directories and the docker daemon
    dirs,       \* scratch directories on disk
    volumes,    \* names of the volumes there are
    users,      \* users[n]: jobs whose containers wrote to volume n
    container,  \* the container a job has: [role, state, mount], or None
    stale,      \* containers docker failed to remove: [job, mount]
    \* history and bounds
    exits,      \* the roles of a job whose container exited with 0, as its CLI reported
    leaked,     \* jobs one of whose removals failed
    faults, kills

hostVars == <<dirs, volumes, users, container, stale>>
procVars == <<up, pid, counter>>
jobVars  == <<pc, hops, scratch, volume, result>>
history  == <<exits, leaked, faults, kills>>
vars     == <<procVars, jobVars, hostVars, history>>

Ended  == {"idle", "done", "killed"}
Active == {j \in Job : pc[j] \notin Ended}

Goto(j, step) == pc' = [pc EXCEPT ![j] = step]

\* A docker call may fail.
Fails == faults < MaxFaults /\ faults' = faults + 1

\* An early return: the guards held are dropped, container before volume.
Unwind(j, r) ==
    /\ result' = [result EXCEPT ![j] = r]
    /\ Goto(j, "drop_container")

Error(j) == Unwind(j, "error")

\* Mutant: the pid alone.
TokenOfPid == <<pid, 0>>

\* unique_token: the pid and a counter of this process.
unique_token == <<pid, counter>>

Init ==
    /\ up = TRUE /\ pid = 1 /\ counter = 0
    /\ pc = [j \in Job |-> "idle"] /\ hops = [j \in Job |-> 0]
    /\ scratch = [j \in Job |-> None] /\ volume = [j \in Job |-> None]
    /\ result = [j \in Job |-> "none"]
    /\ dirs = {} /\ volumes = {} /\ users = [n \in {} |-> {}]
    /\ container = [j \in Job |-> None] /\ stale = {}
    /\ exits = [j \in Job |-> {}] /\ leaked = {} /\ faults = 0 /\ kills = 0
-----------------------------------------------------------------------------
(* The checks and the source. *)

\* A URL as the guard sees it: its scheme, and what its host resolves to.
Url == [scheme : {"http", "other"}, addrs : SUBSET {"public", "internal"}]

guard_public_url(url) ==
    url.scheme = "http" /\ url.addrs # {} /\ "internal" \notin url.addrs

\* The image is pinned or may be a tag; otherwise nothing was started.
Start(j) ==
    /\ up /\ pc[j] = "idle" /\ Cardinality(Active) < MAX_CONCURRENT_BUILDS
    /\ \/ Goto(j, "preflight") /\ UNCHANGED result
       \/ Error(j)
    /\ UNCHANGED <<procVars, hops, scratch, volume, hostVars, history>>

\* docker.preflight, then one of the two source shapes.
Preflight(j) ==
    /\ pc[j] = "preflight"
    /\ \/ /\ \/ Goto(j, "archive")
             \/ Goto(j, "git")
          /\ UNCHANGED <<result, faults>>
       \/ Fails /\ Error(j)
    /\ UNCHANGED <<procVars, hops, scratch, volume, hostVars, exits, leaked, kills>>

\* Mutant: one hop too many is followed.
FetchArchiveOneMore(j) ==
    /\ pc[j] = "archive"
    /\ \/ Error(j) /\ UNCHANGED hops
       \/ /\ \E url \in Url : guard_public_url(url)
          /\ Goto(j, "create_volume")
          /\ UNCHANGED <<hops, result>>
       \/ /\ \E url \in Url : guard_public_url(url)
          /\ hops' = [hops EXCEPT ![j] = @ + 1]
          /\ IF hops[j] > MAX_REDIRECTS THEN Error(j)
             ELSE Goto(j, "archive") /\ UNCHANGED result
    /\ UNCHANGED <<procVars, scratch, volume, hostVars, history>>

\* Mutant: at the limit the count starts over.
FetchArchiveForever(j) ==
    /\ pc[j] = "archive"
    /\ \/ Error(j) /\ UNCHANGED hops
       \/ /\ \E url \in Url : guard_public_url(url)
          /\ \/ Goto(j, "create_volume") /\ UNCHANGED hops
             \/ hops' = [hops EXCEPT ![j] = (@ + 1) % (MAX_REDIRECTS + 1)] /\ UNCHANGED pc
          /\ UNCHANGED result
    /\ UNCHANGED <<procVars, scratch, volume, hostVars, history>>

\* One pass of the redirect loop: the guard or the GET refuses, or the response is the
\* archive, which is then within the size, of the declared digest and of one directory
\* or refused, or it redirects.
FetchArchive(j) ==
    /\ pc[j] = "archive"
    /\ \/ Error(j) /\ UNCHANGED hops
       \/ /\ \E url \in Url : guard_public_url(url)
          /\ Goto(j, "create_volume")
          /\ UNCHANGED <<hops, result>>
       \/ /\ \E url \in Url : guard_public_url(url)
          /\ hops' = [hops EXCEPT ![j] = @ + 1]
          /\ IF hops[j] = MAX_REDIRECTS THEN Error(j)
             ELSE Goto(j, "archive") /\ UNCHANGED result
    /\ UNCHANGED <<procVars, scratch, volume, hostVars, history>>

\* A repo that is a URL is guarded; the scratch directory is emptied and created.
MakeScratch(j) ==
    /\ pc[j] = "git"
    /\ \/ /\ \E url \in Url : url.scheme = "http" /\ ~guard_public_url(url)
          /\ Error(j)
          /\ UNCHANGED <<scratch, dirs, counter>>
       \/ /\ Goto(j, "clone")
          /\ scratch' = [scratch EXCEPT ![j] = unique_token]
          /\ dirs' = dirs \cup {unique_token}
          /\ counter' = counter + 1
          /\ UNCHANGED result
    /\ UNCHANGED <<up, pid, hops, volume, volumes, users, container, stale, history>>

\* git clone and git archive; the guard removes the directory on either way out.
Clone(j) ==
    /\ pc[j] = "clone"
    /\ scratch' = [scratch EXCEPT ![j] = None]
    /\ dirs' = dirs \ {scratch[j]}
    /\ \/ Goto(j, "create_volume") /\ UNCHANGED result
       \/ Error(j)
    /\ UNCHANGED <<procVars, hops, volume, volumes, users, container, stale, history>>
-----------------------------------------------------------------------------
(* The volume and the two containers. *)

\* docker volume create succeeds on a name that exists, and leaves its contents.
CreateVolume(j) ==
    /\ pc[j] = "create_volume"
    /\ counter' = counter + 1
    /\ \/ /\ Goto(j, "create_fetch")
          /\ volume' = [volume EXCEPT ![j] = unique_token]
          /\ volumes' = volumes \cup {unique_token}
          /\ users' = [n \in DOMAIN users \cup {unique_token} |->
                         IF n \in volumes THEN users[n] ELSE {}]
          /\ UNCHANGED <<result, faults>>
       \/ Fails /\ Error(j) /\ UNCHANGED <<volume, volumes, users>>
    /\ UNCHANGED <<up, pid, hops, scratch, dirs, container, stale, exits, leaked, kills>>

\* docker.create.
Create(j, role) ==
    /\ pc[j] = IF role = "fetch" THEN "create_fetch" ELSE "create_build"
    /\ \/ /\ Goto(j, "put")
          /\ container' = [container EXCEPT ![j] =
                             [role |-> role, state |-> "created", mount |-> volume[j]]]
          /\ UNCHANGED <<result, faults>>
       \/ Fails /\ Error(j) /\ UNCHANGED container
    /\ UNCHANGED <<procVars, hops, scratch, volume, dirs, volumes, users, stale, exits, leaked, kills>>

\* put_archive.
Put(j) ==
    /\ pc[j] = "put"
    /\ \/ Goto(j, "start") /\ UNCHANGED <<result, faults>>
       \/ Fails /\ Error(j)
    /\ UNCHANGED <<procVars, hops, scratch, volume, hostVars, exits, leaked, kills>>

SetState(j, s) == container' = [container EXCEPT ![j].state = s]

\* run_to_completion: docker start --attach, if the CLI can be spawned; what runs
\* writes to the volume.
Run(j) ==
    /\ pc[j] = "start"
    /\ \/ /\ Goto(j, "wait")
          /\ SetState(j, "running")
          /\ users' = [users EXCEPT ![volume[j]] = @ \cup {j}]
          /\ UNCHANGED <<result, faults>>
       \/ Fails /\ Error(j) /\ UNCHANGED <<container, users>>
    /\ UNCHANGED <<procVars, hops, scratch, volume, dirs, volumes, stale, exits, leaked, kills>>

\* A container ends by itself, with the process that started it alive or not.
ContainerExits(j) ==
    /\ container[j] # None /\ container[j].state = "running"
    /\ \E s \in {"ok", "failed"} : SetState(j, s)
    /\ UNCHANGED <<procVars, jobVars, dirs, volumes, users, stale, history>>

\* Mutant: the exit code of the dependency fetch is not looked at.
CliReturnsUnchecked(j) ==
    /\ pc[j] = "wait" /\ container[j].state \in {"ok", "failed"}
    /\ IF container[j].role = "fetch" \/ container[j].state = "ok"
       THEN /\ Goto(j, IF container[j].role = "fetch" THEN "drop_fetch" ELSE "extract")
            /\ exits' = [exits EXCEPT ![j] =
                            IF container[j].state = "ok" THEN @ \cup {container[j].role} ELSE @]
            /\ UNCHANGED result
       ELSE Error(j) /\ UNCHANGED exits
    /\ UNCHANGED <<procVars, hops, scratch, volume, hostVars, leaked, faults, kills>>

\* The attached CLI returns with the container's exit code.
CliReturns(j) ==
    /\ pc[j] = "wait" /\ container[j].state \in {"ok", "failed"}
    /\ IF container[j].state = "ok"
       THEN /\ Goto(j, IF container[j].role = "fetch" THEN "drop_fetch" ELSE "extract")
            /\ exits' = [exits EXCEPT ![j] = @ \cup {container[j].role}]
            /\ UNCHANGED result
       ELSE Error(j) /\ UNCHANGED exits
    /\ UNCHANGED <<procVars, hops, scratch, volume, hostVars, leaked, faults, kills>>

\* Mutant: the wait has no timeout.
TimesOutNever(j) == pc[j] = "wait" /\ FALSE

\* wait_timeout runs out, whatever the container did meanwhile; the CLI is killed.
TimesOut(j) ==
    /\ pc[j] = "wait"
    /\ Goto(j, "kill")
    /\ UNCHANGED <<procVars, hops, scratch, volume, result, hostVars, history>>

\* docker kill stops the container if it still runs, or fails unnoticed.
KillContainer(j) ==
    /\ pc[j] = "kill"
    /\ \/ /\ IF container[j].state = "running" THEN SetState(j, "failed") ELSE UNCHANGED container
          /\ UNCHANGED faults
       \/ Fails /\ UNCHANGED container
    /\ Error(j)
    /\ UNCHANGED <<procVars, hops, scratch, volume, dirs, volumes, users, stale, exits, leaked, kills>>

\* get_archive, the choice of the artifact and the comparison.  The image digest that
\* follows is best effort and decides nothing.
Extract(j) ==
    /\ pc[j] = "extract"
    /\ \E r \in {"verified", "mismatch", "error"} : Unwind(j, r)
    /\ UNCHANGED <<procVars, hops, scratch, volume, hostVars, history>>
-----------------------------------------------------------------------------
(* The guards. *)

\* docker rm --force --volumes (anonymous ones): a failure goes unnoticed.
Remove(j) ==
    /\ container' = [container EXCEPT ![j] = None]
    /\ \/ UNCHANGED <<stale, leaked, faults>>
       \/ /\ container[j] # None /\ Fails
          /\ leaked' = leaked \cup {j}
          /\ stale' = stale \cup {[job |-> j, mount |-> container[j].mount]}

\* Whether some container, running or not, has the volume mounted.
InUse(n) ==
    \/ \E i \in Job : container[i] # None /\ container[i].mount = n
    \/ \E c \in stale : c.mount = n

\* fetch_dependencies returns: its container goes, the volume stays.
DropFetch(j) ==
    /\ pc[j] = "drop_fetch"
    /\ Remove(j)
    /\ Goto(j, "create_build")
    /\ UNCHANGED <<procVars, hops, scratch, volume, result, dirs, volumes, users, exits, kills>>

\* Mutant: the volume's guard goes before the container's.
DropContainerLast(j) ==
    /\ pc[j] = "drop_container"
    /\ volumes' = IF InUse(volume[j]) THEN volumes ELSE volumes \ {volume[j]}
    /\ Remove(j)
    /\ Goto(j, "done")
    /\ volume' = [volume EXCEPT ![j] = None]
    /\ UNCHANGED <<procVars, hops, scratch, result, dirs, users, exits, kills>>

DropContainer(j) ==
    /\ pc[j] = "drop_container"
    /\ Remove(j)
    /\ Goto(j, "drop_volume")
    /\ UNCHANGED <<procVars, hops, scratch, volume, result, dirs, volumes, users, exits, kills>>

\* docker volume rm --force: the daemon refuses while any container has it mounted.
DropVolume(j) ==
    /\ pc[j] = "drop_volume"
    /\ Goto(j, "done")
    /\ volume' = [volume EXCEPT ![j] = None]
    /\ \/ /\ volumes' = IF InUse(volume[j]) THEN volumes ELSE volumes \ {volume[j]}
          /\ UNCHANGED <<leaked, faults>>
       \/ /\ volume[j] # None /\ Fails
          /\ leaked' = leaked \cup {j}
          /\ UNCHANGED volumes
    /\ UNCHANGED <<procVars, hops, scratch, result, dirs, users, container, stale, exits, kills>>
-----------------------------------------------------------------------------
\* The process is killed: no guard runs.
Kill ==
    /\ up /\ kills < MaxKills
    /\ up' = FALSE /\ kills' = kills + 1
    /\ pc' = [j \in Job |-> IF j \in Active THEN "killed" ELSE pc[j]]
    /\ UNCHANGED <<pid, counter, hops, scratch, volume, result, hostVars, exits, leaked, faults>>

\* The next process: the counter is a static, it starts from 0 again.
Restart ==
    /\ ~up /\ up' = TRUE
    /\ pid' = IF PidReused THEN pid ELSE pid + 1
    /\ counter' = 0
    /\ UNCHANGED <<jobVars, hostVars, history>>

Step(j) ==
    \/ Preflight(j) \/ FetchArchive(j) \/ MakeScratch(j) \/ Clone(j)
    \/ CreateVolume(j) \/ Create(j, "fetch") \/ Create(j, "build")
    \/ Put(j) \/ Run(j) \/ CliReturns(j) \/ TimesOut(j) \/ KillContainer(j)
    \/ Extract(j) \/ DropFetch(j) \/ DropContainer(j) \/ DropVolume(j)

Next ==
    \/ \E j \in Job : Start(j) \/ Step(j) \/ ContainerExits(j)
    \/ Kill \/ Restart

\* wait_timeout fires.  Nothing else has a limit of its own: a build need never end, a
\* server may never answer a GET or a git clone, and a docker call may hang.
Fairness == \A j \in Job : WF_vars(TimesOut(j))

Spec == Init /\ [][Next]_vars /\ Fairness
-----------------------------------------------------------------------------
TypeOK ==
    /\ up \in BOOLEAN /\ pid \in Nat /\ counter \in Nat
    /\ hops \in [Job -> 0 .. MAX_REDIRECTS + 1]
    /\ scratch \in [Job -> (Nat \X Nat) \cup {None}]
    /\ volume \in [Job -> (Nat \X Nat) \cup {None}]
    /\ result \in [Job -> {"none", "verified", "mismatch", "error"}]
    /\ dirs \subseteq Nat \X Nat /\ volumes \subseteq DOMAIN users
    /\ users \in [DOMAIN users -> SUBSET Job]
    /\ container \in [Job -> Container \cup {None}]
    /\ stale \subseteq [job : Job, mount : Nat \X Nat]
    /\ exits \in [Job -> SUBSET {"fetch", "build"}]
    /\ leaked \subseteq Job /\ faults \in 0 .. MaxFaults /\ kills \in 0 .. MaxKills

\* A verdict comes only from a job whose dependency fetch and whose build both exited
\* with 0, in that order and before their timeouts (reproduce, fetch_dependencies).
VerdictsAreOfWholeBuilds ==
    \A j \in Job : result[j] \in {"verified", "mismatch"} => exits[j] = {"fetch", "build"}

\* However a job ends, it leaves no container, volume or scratch directory of its own,
\* unless docker failed to remove one or the process was killed under it: the guards
\* are dropped in the order the daemon needs (Drop for Container, Volume, DirGuard).
NothingIsLeftBehind ==
    /\ \A j \in Job : pc[j] = "done" => container[j] = None
    /\ (leaked = {} /\ kills = 0) =>
        /\ volumes = {volume[j] : j \in Job} \ {None}
        /\ dirs = {scratch[j] : j \in Job} \ {None}

\* No container runs on a volume that another job's container has written to or still
\* has mounted (source.rs: "two jobs sharing a scratch directory or a CARGO_HOME volume
\* would corrupt each other's build").
VolumesArePerJob ==
    \A j \in Job : (container[j] # None /\ container[j].state = "running") =>
        /\ container[j].mount \in volumes => users[container[j].mount] \subseteq {j}
        /\ \A i \in Job \ {j} : container[i] # None => container[i].mount # container[j].mount
        /\ \A c \in stale : c.mount = container[j].mount => c.job = j

\* What the code bounds ends.  The wait for a container does, whether or not it exits
\* and the CLI returns; a redirect loop does, if its GETs are answered, because the hops
\* are counted, though the answers redirect for ever (run_to_completion,
\* get_with_guarded_redirects).
WaitsAndRedirectsEnd ==
    \A j \in Job :
        /\ pc[j] = "wait" ~> pc[j] # "wait"
        /\ WF_vars(FetchArchive(j)) => (pc[j] = "archive" ~> pc[j] # "archive")
=============================================================================
