-------------------------- MODULE ReproduceProofs ---------------------------
(***************************************************************************)
(* What the reproduction engine promises for any number of jobs, builds at *)
(* once, redirects, failed docker calls and kills.                         *)
(*                                                                         *)
(* EngineInv says of every job what it holds at each step (At).  TokenInv  *)
(* is about names: none is given twice while no pid comes back, so no two  *)
(* jobs share a volume or a directory.  TidyInv compares the guards with   *)
(* the host.                                                               *)
(***************************************************************************)
EXTENDS Reproduce, TLAPS

Sourcing  == {"idle", "preflight", "archive", "git", "clone", "create_volume"}
Contained == {"put", "start", "wait", "kill", "extract", "drop_fetch"}
Building  == Contained \cup {"create_fetch", "create_build"}
Unwinding == {"drop_container", "drop_volume", "done", "killed"}

\* The containers of job j that have exited with 0 by the step it is at.
Passed(j) ==
    IF pc[j] \in {"put", "start", "wait", "kill"}
    THEN IF container[j].role = "fetch" THEN {} ELSE {"fetch"}
    ELSE IF pc[j] \in {"drop_fetch", "create_build"} THEN {"fetch"}
    ELSE IF pc[j] = "extract" THEN {"fetch", "build"}
    ELSE {}

\* What job j holds and has done at the step it is at.
At(j) ==
    /\ pc[j] \in {"idle", "preflight", "archive"} => hops[j] <= MAX_REDIRECTS
    /\ pc[j] \in Sourcing \cup {"done"} => volume[j] = None
    /\ pc[j] \in Building => volume[j] # None
    /\ pc[j] \in Contained => container[j] # None
    /\ pc[j] \notin Contained \cup {"drop_container", "killed"} => container[j] = None
    /\ container[j] # None => volume[j] = container[j].mount
    /\ pc[j] \notin {"clone", "killed"} => scratch[j] = None
    /\ pc[j] \notin Unwinding => result[j] = "none" /\ exits[j] = Passed(j)
    /\ result[j] \in {"verified", "mismatch"} => exits[j] = {"fetch", "build"}

\* Names that are mounted or held were created.
NamesExist ==
    /\ \A j \in Job : volume[j] # None => volume[j] \in DOMAIN users
    /\ \A c \in stale : c.mount \in DOMAIN users
    /\ DOMAIN users \subseteq Nat \X Nat

EngineInv ==
    /\ TypeOK
    /\ pc \in [Job -> Sourcing \cup Building \cup Unwinding]
    /\ NamesExist
    /\ \A j \in Job : At(j)
    /\ kills = 0 => up

\* A name that this process or one before it has given.
Old(n) == n[1] < pid \/ (n[1] = pid /\ n[2] < counter)

\* A new name is new: jobs share no volume or directory, and what is on a job's volume
\* is its own.
Fresh ==
    /\ \A n \in DOMAIN users \cup dirs : Old(n)
    /\ \A j \in Job : scratch[j] # None => Old(scratch[j])
    /\ \A i, j \in Job : i # j /\ volume[i] # None => volume[i] # volume[j]
    /\ \A i, j \in Job : i # j /\ scratch[i] # None => scratch[i] # scratch[j]
    /\ \A j \in Job : volume[j] # None => users[volume[j]] \subseteq {j}
    /\ \A j \in Job : \A c \in stale : c.mount = volume[j] => c.job = j

\* That holds while no pid comes back.
TokenInv == (~PidReused \/ kills = 0) => Fresh

\* Unless docker failed or the process was killed, what is on the host is what the
\* guards hold.
TidyInv ==
    (leaked = {} /\ kills = 0) =>
        /\ stale = {}
        /\ volumes = {volume[j] : j \in Job} \ {None}
        /\ dirs = {scratch[j] : j \in Job} \ {None}
-----------------------------------------------------------------------------
(* What a job holds at each step. *)

SameFor(i) ==
    /\ pc'[i] = pc[i] /\ hops'[i] = hops[i] /\ scratch'[i] = scratch[i]
    /\ volume'[i] = volume[i] /\ result'[i] = result[i]
    /\ container'[i] = container[i] /\ exits'[i] = exits[i]

LEMMA SameKeepsAt ==
  ASSUME NEW i \in Job, At(i), SameFor(i)
  PROVE  At(i)'
  BY DEF SameFor, At, Passed

Step0 == Sourcing \cup Building \cup Unwinding

\* A step of job j leaves the others as they are.
LEMMA OneJobMoves ==
  ASSUME EngineInv, NEW j \in Job,
         TypeOK', pc' \in [Job -> Step0], NamesExist', At(j)',
         \A i \in Job : i # j => SameFor(i),
         UNCHANGED <<up, kills>>
  PROVE  EngineInv'
  BY SameKeepsAt DEF EngineInv, Step0

LEMMA FaultsCount == ASSUME TypeOK, Fails PROVE faults' \in 0 .. MaxFaults
  BY EngineAssumption DEF TypeOK, Fails

LEMMA StartKeepsEngine ==
  ASSUME EngineInv, NEW j \in Job, Start(j)
  PROVE  EngineInv'
<1>0. TypeOK /\ pc \in [Job -> Step0] /\ At(j)
  BY DEF EngineInv, Step0
<1>1. /\ pc' \in [Job -> Step0] /\ \A i \in Job : i # j => SameFor(i)
  BY <1>0 DEF Start, Error, Unwind, Goto, SameFor, TypeOK, Step0, Sourcing, Unwinding, hostVars, history
<1>2. TypeOK'
  BY <1>0 DEF Start, Error, Unwind, Goto, TypeOK, procVars, hostVars, history
<1>3. At(j)'
  BY <1>0 DEF Start, Error, Unwind, Goto, TypeOK, procVars, hostVars, history,
              At, Passed, Sourcing, Building, Contained, Unwinding
<1>4. NamesExist'
  BY DEF EngineInv, NamesExist, Start, hostVars
<1> QED
  BY <1>1, <1>2, <1>3, <1>4, OneJobMoves DEF Start, procVars, history

LEMMA PreflightKeepsEngine ==
  ASSUME EngineInv, NEW j \in Job, Preflight(j)
  PROVE  EngineInv'
<1>0. TypeOK /\ pc \in [Job -> Step0] /\ At(j)
  BY DEF EngineInv, Step0
<1>1. /\ pc' \in [Job -> Step0] /\ \A i \in Job : i # j => SameFor(i)
  BY <1>0 DEF Preflight, Error, Unwind, Goto, SameFor, TypeOK, Step0, Sourcing, Unwinding, hostVars
<1>2. TypeOK'
  BY <1>0, FaultsCount DEF Preflight, Error, Unwind, Goto, TypeOK, procVars, hostVars
<1>3. At(j)'
  BY <1>0 DEF Preflight, Error, Unwind, Goto, TypeOK, hostVars,
              At, Passed, Sourcing, Building, Contained, Unwinding
<1>4. NamesExist'
  BY DEF EngineInv, NamesExist, Preflight, hostVars
<1> QED
  BY <1>1, <1>2, <1>3, <1>4, OneJobMoves DEF Preflight, procVars

LEMMA FetchArchiveKeepsEngine ==
  ASSUME EngineInv, NEW j \in Job, FetchArchive(j)
  PROVE  EngineInv'
<1>0. TypeOK /\ pc \in [Job -> Step0] /\ At(j)
  BY DEF EngineInv, Step0
<1>1. /\ pc' \in [Job -> Step0] /\ \A i \in Job : i # j => SameFor(i)
  BY <1>0 DEF FetchArchive, Error, Unwind, Goto, SameFor, TypeOK, Step0, Sourcing, Unwinding,
              hostVars, history
<1>2. hops[j] <= MAX_REDIRECTS /\ hops[j] + 1 \in 0 .. MAX_REDIRECTS + 1
  BY <1>0, EngineAssumption DEF FetchArchive, At, TypeOK
<1>3. hops' \in [Job -> 0 .. MAX_REDIRECTS + 1] /\ (pc'[j] = "archive" => hops'[j] <= MAX_REDIRECTS)
  BY <1>0, <1>2, EngineAssumption DEF FetchArchive, Error, Unwind, Goto, TypeOK
<1>4. TypeOK'
  BY <1>0, <1>3 DEF FetchArchive, Error, Unwind, Goto, TypeOK, procVars, hostVars, history
<1>5. At(j)'
  BY <1>0, <1>3 DEF FetchArchive, Error, Unwind, Goto, TypeOK, hostVars, history,
              At, Passed, Sourcing, Building, Contained, Unwinding
<1>6. NamesExist'
  BY DEF EngineInv, NamesExist, FetchArchive, hostVars
<1> QED
  BY <1>1, <1>4, <1>5, <1>6, OneJobMoves DEF FetchArchive, procVars, history

LEMMA MakeScratchKeepsEngine ==
  ASSUME EngineInv, NEW j \in Job, MakeScratch(j)
  PROVE  EngineInv'
<1>0. TypeOK /\ pc \in [Job -> Step0] /\ At(j)
  BY DEF EngineInv, Step0
<1>1. /\ pc' \in [Job -> Step0] /\ \A i \in Job : i # j => SameFor(i)
  BY <1>0 DEF MakeScratch, Error, Unwind, Goto, SameFor, TypeOK, Step0, Sourcing, Unwinding, history
<1>2. unique_token \in Nat \X Nat /\ counter + 1 \in Nat
  BY <1>0 DEF TypeOK, unique_token
<1>3. TypeOK'
  BY <1>0, <1>2 DEF MakeScratch, Error, Unwind, Goto, TypeOK, history
<1>4. At(j)'
  BY <1>0 DEF MakeScratch, Error, Unwind, Goto, TypeOK, history,
              At, Passed, Sourcing, Building, Contained, Unwinding
<1>5. NamesExist'
  BY DEF EngineInv, NamesExist, MakeScratch
<1> QED
  BY <1>1, <1>3, <1>4, <1>5, OneJobMoves DEF MakeScratch, history

LEMMA CloneKeepsEngine ==
  ASSUME EngineInv, NEW j \in Job, Clone(j)
  PROVE  EngineInv'
<1>0. TypeOK /\ pc \in [Job -> Step0] /\ At(j)
  BY DEF EngineInv, Step0
<1>1. /\ pc' \in [Job -> Step0] /\ \A i \in Job : i # j => SameFor(i)
  BY <1>0 DEF Clone, Error, Unwind, Goto, SameFor, TypeOK, Step0, Sourcing, Unwinding, history
<1>2. TypeOK'
  BY <1>0 DEF Clone, Error, Unwind, Goto, TypeOK, procVars, history
<1>3. At(j)'
  BY <1>0 DEF Clone, Error, Unwind, Goto, TypeOK, history,
              At, Passed, Sourcing, Building, Contained, Unwinding
<1>4. NamesExist'
  BY DEF EngineInv, NamesExist, Clone
<1> QED
  BY <1>1, <1>2, <1>3, <1>4, OneJobMoves DEF Clone, procVars, history

LEMMA CreateVolumeKeepsEngine ==
  ASSUME EngineInv, NEW j \in Job, CreateVolume(j)
  PROVE  EngineInv'
<1>0. TypeOK /\ pc \in [Job -> Step0] /\ At(j) /\ NamesExist
  BY DEF EngineInv, Step0
<1>1. /\ pc' \in [Job -> Step0] /\ \A i \in Job : i # j => SameFor(i)
  BY <1>0 DEF CreateVolume, Error, Unwind, Goto, SameFor, TypeOK, Step0, Building, Unwinding
<1>2. unique_token \in Nat \X Nat /\ counter + 1 \in Nat /\ unique_token # None
  BY <1>0, NoneAssumption DEF TypeOK, unique_token
<1>3. /\ users' \in [DOMAIN users' -> SUBSET Job] /\ volumes' \subseteq DOMAIN users'
      /\ DOMAIN users \subseteq DOMAIN users' /\ DOMAIN users' \subseteq Nat \X Nat
      /\ volume'[j] # None => volume'[j] \in DOMAIN users'
  BY <1>0, <1>2 DEF CreateVolume, TypeOK, NamesExist
<1>4. TypeOK'
  BY <1>0, <1>2, <1>3, FaultsCount DEF CreateVolume, Error, Unwind, Goto, TypeOK
<1>5. At(j)'
  BY <1>0, <1>2 DEF CreateVolume, Error, Unwind, Goto, TypeOK,
              At, Passed, Sourcing, Building, Contained, Unwinding
<1>6. NamesExist'
  BY <1>0, <1>1, <1>3 DEF NamesExist, CreateVolume, SameFor
<1> QED
  BY <1>1, <1>4, <1>5, <1>6, OneJobMoves DEF CreateVolume

LEMMA CreateKeepsEngine ==
  ASSUME EngineInv, NEW j \in Job, NEW role \in {"fetch", "build"}, Create(j, role)
  PROVE  EngineInv'
<1>0. TypeOK /\ pc \in [Job -> Step0] /\ At(j)
  BY DEF EngineInv, Step0
<1>1. /\ pc' \in [Job -> Step0] /\ \A i \in Job : i # j => SameFor(i)
  BY <1>0 DEF Create, Error, Unwind, Goto, SameFor, TypeOK, Step0, Building, Contained, Unwinding
<1> DEFINE new == [role |-> role, state |-> "created", mount |-> volume[j]]
<1>2. volume[j] \in Nat \X Nat
  BY <1>0 DEF Create, TypeOK, At, Building
<1>3. new \in Container /\ new # None /\ new.role = role /\ new.mount = volume[j]
  BY <1>2, NoneAssumption DEF Container
<1> HIDE DEF new
<1>4. TypeOK'
  BY <1>0, <1>3, FaultsCount DEF Create, Error, Unwind, Goto, TypeOK, procVars, new
<1>5. At(j)'
  <2>1. CASE pc' = [pc EXCEPT ![j] = "put"] /\ container' = [container EXCEPT ![j] = new]
             /\ result' = result
    BY <1>0, <1>3, <2>1 DEF Create, TypeOK, At, Passed, Sourcing, Building, Contained, Unwinding
  <2>2. CASE Error(j) /\ UNCHANGED container
    BY <1>0, <2>2 DEF Create, Error, Unwind, Goto, TypeOK,
              At, Passed, Sourcing, Building, Contained, Unwinding
  <2> QED
    BY <2>1, <2>2 DEF Create, Goto, new
<1>6. NamesExist'
  BY DEF EngineInv, NamesExist, Create
<1> QED
  BY <1>1, <1>4, <1>5, <1>6, OneJobMoves DEF Create, procVars

LEMMA PutKeepsEngine ==
  ASSUME EngineInv, NEW j \in Job, Put(j)
  PROVE  EngineInv'
<1>0. TypeOK /\ pc \in [Job -> Step0] /\ At(j)
  BY DEF EngineInv, Step0
<1>1. /\ pc' \in [Job -> Step0] /\ \A i \in Job : i # j => SameFor(i)
  BY <1>0 DEF Put, Error, Unwind, Goto, SameFor, TypeOK, Step0, Building, Contained, Unwinding, hostVars
<1>2. TypeOK'
  BY <1>0, FaultsCount DEF Put, Error, Unwind, Goto, TypeOK, procVars, hostVars
<1>3. At(j)'
  BY <1>0 DEF Put, Error, Unwind, Goto, TypeOK, hostVars,
              At, Passed, Sourcing, Building, Contained, Unwinding
<1>4. NamesExist'
  BY DEF EngineInv, NamesExist, Put, hostVars
<1> QED
  BY <1>1, <1>2, <1>3, <1>4, OneJobMoves DEF Put, procVars

\* A container's state changes, its role and its mount stay.
LEMMA SetStateWrites ==
  ASSUME TypeOK, NEW j \in Job, container[j] # None,
         NEW s \in {"running", "ok", "failed"}, SetState(j, s)
  PROVE  /\ container' \in [Job -> Container \cup {None}]
         /\ container'[j] # None /\ container'[j].state = s
         /\ container'[j].role = container[j].role /\ container'[j].mount = container[j].mount
         /\ \A i \in Job : i # j => container'[i] = container[i]
<1>1. container[j] \in Container
  BY DEF TypeOK
<1> DEFINE new == [container[j] EXCEPT !.state = s]
<1>2. new \in Container /\ new.state = s /\ new.role = container[j].role /\ new.mount = container[j].mount
  BY <1>1 DEF Container
<1>3. container' = [container EXCEPT ![j] = new]
  BY DEF SetState
<1> HIDE DEF new
<1> QED
  BY <1>2, <1>3, NoneAssumption DEF TypeOK

LEMMA RunKeepsEngine ==
  ASSUME EngineInv, NEW j \in Job, Run(j)
  PROVE  EngineInv'
<1>0. TypeOK /\ pc \in [Job -> Step0] /\ At(j) /\ NamesExist
  BY DEF EngineInv, Step0
<1>1. pc[j] = "start" /\ container[j] # None /\ volume[j] # None
  BY <1>0 DEF Run, At, Contained, Building
<1>2. CASE Goto(j, "wait") /\ SetState(j, "running")
           /\ users' = [users EXCEPT ![volume[j]] = @ \cup {j}] /\ UNCHANGED <<result, faults>>
  <2>1. /\ container' \in [Job -> Container \cup {None}]
        /\ container'[j] # None
        /\ container'[j].role = container[j].role /\ container'[j].mount = container[j].mount
        /\ \A i \in Job : i # j => container'[i] = container[i]
    BY <1>0, <1>1, <1>2, SetStateWrites
  <2>2. /\ pc' \in [Job -> Step0] /\ pc'[j] = "wait" /\ \A i \in Job : i # j => SameFor(i)
    BY <1>0, <1>2, <2>1 DEF Run, Goto, SameFor, Step0, Building, Contained
  <2>3. DOMAIN users' = DOMAIN users /\ users' \in [DOMAIN users -> SUBSET Job]
    BY <1>0, <1>2 DEF TypeOK
  <2>4. TypeOK'
    BY <1>0, <1>2, <2>1, <2>3 DEF Run, TypeOK, procVars
  <2>5. At(j)'
    BY <1>0, <1>1, <1>2, <2>1, <2>2 DEF Run, At, Passed, Sourcing, Building, Contained, Unwinding
  <2>6. NamesExist'
    BY <1>0, <2>3 DEF NamesExist, Run
  <2> QED
    BY <2>2, <2>4, <2>5, <2>6, OneJobMoves DEF Run, procVars
<1>3. CASE Fails /\ Error(j) /\ UNCHANGED <<container, users>>
  <2>1. /\ pc' \in [Job -> Step0] /\ \A i \in Job : i # j => SameFor(i)
    BY <1>0, <1>3 DEF Run, Error, Unwind, Goto, SameFor, TypeOK, Step0, Unwinding
  <2>2. TypeOK'
    BY <1>0, <1>3, FaultsCount DEF Run, Error, Unwind, TypeOK, procVars
  <2>3. At(j)'
    BY <1>0, <1>3 DEF Run, Error, Unwind, Goto, TypeOK,
                      At, Passed, Sourcing, Building, Contained, Unwinding
  <2>4. NamesExist'
    BY <1>0, <1>3 DEF NamesExist, Run
  <2> QED
    BY <2>1, <2>2, <2>3, <2>4, OneJobMoves DEF Run, procVars
<1> QED
  BY <1>2, <1>3 DEF Run

LEMMA ContainerExitsKeepsEngine ==
  ASSUME EngineInv, NEW j \in Job, ContainerExits(j)
  PROVE  EngineInv'
<1>0. TypeOK /\ pc \in [Job -> Step0] /\ At(j) /\ NamesExist
  BY DEF EngineInv, Step0
<1>1. /\ container' \in [Job -> Container \cup {None}]
      /\ container[j] # None /\ container'[j] # None
      /\ container'[j].role = container[j].role /\ container'[j].mount = container[j].mount
      /\ \A i \in Job : i # j => container'[i] = container[i]
  BY <1>0, SetStateWrites DEF ContainerExits
<1>2. /\ pc' \in [Job -> Step0] /\ \A i \in Job : i # j => SameFor(i)
  BY <1>0, <1>1 DEF ContainerExits, SameFor, jobVars, history
<1>3. TypeOK'
  BY <1>0, <1>1 DEF ContainerExits, TypeOK, procVars, jobVars, history
<1>4. At(j)'
  BY <1>0, <1>1 DEF ContainerExits, At, Passed, jobVars, history
<1>5. NamesExist'
  BY <1>0 DEF NamesExist, ContainerExits, jobVars
<1> QED
  BY <1>2, <1>3, <1>4, <1>5, OneJobMoves DEF ContainerExits, procVars, history

LEMMA CliReturnsKeepsEngine ==
  ASSUME EngineInv, NEW j \in Job, CliReturns(j)
  PROVE  EngineInv'
<1>0. TypeOK /\ pc \in [Job -> Step0] /\ At(j) /\ NamesExist
  BY DEF EngineInv, Step0
<1>1. /\ pc' \in [Job -> Step0] /\ \A i \in Job : i # j => SameFor(i)
  BY <1>0 DEF CliReturns, Error, Unwind, Goto, SameFor, TypeOK, Step0, Building, Contained, Unwinding,
              hostVars
<1>2. pc[j] = "wait" /\ container[j] \in Container /\ container[j].role \in {"fetch", "build"}
  BY <1>0 DEF CliReturns, TypeOK, At, Contained, Container
<1>3. exits' \in [Job -> SUBSET {"fetch", "build"}]
  BY <1>0, <1>2 DEF CliReturns, Error, Unwind, TypeOK
<1>4. TypeOK'
  BY <1>0, <1>3 DEF CliReturns, Error, Unwind, Goto, TypeOK, procVars, hostVars
<1>5. At(j)'
  <2>1. CASE container[j].state = "ok"
    <3>1. exits[j] = IF container[j].role = "fetch" THEN {} ELSE {"fetch"}
      BY <1>0, <1>2 DEF At, Passed, Unwinding
    <3>2. exits'[j] = exits[j] \cup {container[j].role}
      BY <1>0, <2>1 DEF CliReturns, TypeOK
    <3>3. pc'[j] = IF container[j].role = "fetch" THEN "drop_fetch" ELSE "extract"
      BY <1>0, <2>1 DEF CliReturns, Goto
    <3>4. container[j].role = "fetch" \/ container[j].role = "build"
      BY <1>2
    <3>5. /\ result'[j] = "none" /\ hops' = hops /\ volume' = volume /\ scratch' = scratch
          /\ container' = container /\ volume[j] # None /\ container[j] # None
          /\ scratch[j] = None /\ volume[j] = container[j].mount
      BY <1>0, <1>2, <2>1 DEF CliReturns, TypeOK, hostVars, At, Building, Contained, Unwinding
    <3>6. \/ pc'[j] = "drop_fetch" /\ exits'[j] = {"fetch"}
          \/ pc'[j] = "extract" /\ exits'[j] = {"fetch", "build"}
      <4>1. CASE container[j].role = "fetch"
        BY <3>1, <3>2, <3>3, <4>1
      <4>2. CASE container[j].role = "build"
        <5>1. exits[j] = {"fetch"} /\ pc'[j] = "extract"
          BY <3>1, <3>3, <4>2
        <5>2. exits'[j] = {"fetch"} \cup {"build"}
          BY <3>2, <4>2, <5>1
        <5> QED
          BY <5>1, <5>2
      <4> QED
        BY <3>4, <4>1, <4>2
    <3> QED
      BY <3>5, <3>6 DEF At, Passed, Sourcing, Building, Contained, Unwinding
  <2>2. CASE container[j].state # "ok"
    BY <1>0, <1>2, <2>2 DEF CliReturns, Error, Unwind, Goto, TypeOK, hostVars,
                            At, Passed, Sourcing, Building, Contained, Unwinding
  <2> QED
    BY <2>1, <2>2
<1>6. NamesExist'
  BY <1>0 DEF NamesExist, CliReturns, hostVars
<1> QED
  BY <1>1, <1>4, <1>5, <1>6, OneJobMoves DEF CliReturns, procVars

LEMMA TimesOutKeepsEngine ==
  ASSUME EngineInv, NEW j \in Job, TimesOut(j)
  PROVE  EngineInv'
<1>0. TypeOK /\ pc \in [Job -> Step0] /\ At(j)
  BY DEF EngineInv, Step0
<1>1. /\ pc' \in [Job -> Step0] /\ \A i \in Job : i # j => SameFor(i)
  BY <1>0 DEF TimesOut, Goto, SameFor, Step0, Building, Contained, hostVars, history
<1>2. TypeOK'
  BY <1>0 DEF TimesOut, Goto, TypeOK, procVars, hostVars, history
<1>3. At(j)'
  BY <1>0 DEF TimesOut, Goto, At, Passed, Sourcing, Building, Contained, Unwinding, hostVars, history
<1>4. NamesExist'
  BY DEF EngineInv, NamesExist, TimesOut, hostVars
<1> QED
  BY <1>1, <1>2, <1>3, <1>4, OneJobMoves DEF TimesOut, procVars, history

LEMMA KillContainerKeepsEngine ==
  ASSUME EngineInv, NEW j \in Job, KillContainer(j)
  PROVE  EngineInv'
<1>0. TypeOK /\ pc \in [Job -> Step0] /\ At(j) /\ NamesExist
  BY DEF EngineInv, Step0
<1>1. pc[j] = "kill" /\ container[j] # None
  BY <1>0 DEF KillContainer, At, Contained
<1>2. /\ container' \in [Job -> Container \cup {None}]
      /\ container'[j] # None
      /\ container'[j].mount = container[j].mount
      /\ \A i \in Job : i # j => container'[i] = container[i]
  <2>1. CASE UNCHANGED container
    BY <1>0, <1>1, <2>1 DEF TypeOK
  <2>2. CASE SetState(j, "failed")
    BY <1>0, <1>1, <2>2, SetStateWrites
  <2> QED
    BY <2>1, <2>2 DEF KillContainer
<1>3. /\ pc' \in [Job -> Step0] /\ \A i \in Job : i # j => SameFor(i)
  BY <1>0, <1>2 DEF KillContainer, Error, Unwind, Goto, SameFor, TypeOK, Step0, Unwinding
<1>4. TypeOK'
  BY <1>0, <1>2, FaultsCount DEF KillContainer, Error, Unwind, TypeOK, procVars
<1>5. At(j)'
  BY <1>0, <1>1, <1>2 DEF KillContainer, Error, Unwind, Goto, TypeOK,
              At, Passed, Sourcing, Building, Contained, Unwinding
<1>6. NamesExist'
  BY <1>0 DEF NamesExist, KillContainer
<1> QED
  BY <1>3, <1>4, <1>5, <1>6, OneJobMoves DEF KillContainer, procVars

LEMMA ExtractKeepsEngine ==
  ASSUME EngineInv, NEW j \in Job, Extract(j)
  PROVE  EngineInv'
<1>0. TypeOK /\ pc \in [Job -> Step0] /\ At(j)
  BY DEF EngineInv, Step0
<1>1. /\ pc' \in [Job -> Step0] /\ \A i \in Job : i # j => SameFor(i)
  BY <1>0 DEF Extract, Unwind, Goto, SameFor, TypeOK, Step0, Unwinding, hostVars, history
<1>2. TypeOK'
  BY <1>0 DEF Extract, Unwind, TypeOK, procVars, hostVars, history
<1>3. At(j)'
  BY <1>0 DEF Extract, Unwind, Goto, TypeOK, hostVars, history,
              At, Passed, Sourcing, Building, Contained, Unwinding
<1>4. NamesExist'
  BY DEF EngineInv, NamesExist, Extract, hostVars
<1> QED
  BY <1>1, <1>2, <1>3, <1>4, OneJobMoves DEF Extract, procVars, history

\* docker rm takes the container away or leaves it stale, on a volume that exists.
LEMMA RemoveWrites ==
  ASSUME TypeOK, NamesExist, NEW j \in Job, At(j), Remove(j), UNCHANGED users
  PROVE  /\ container' \in [Job -> Container \cup {None}] /\ container'[j] = None
         /\ \A i \in Job : i # j => container'[i] = container[i]
         /\ stale' \subseteq [job : Job, mount : Nat \X Nat]
         /\ \A c \in stale' : c.mount \in DOMAIN users'
         /\ leaked' \subseteq Job /\ faults' \in 0 .. MaxFaults
<1>1. container' = [container EXCEPT ![j] = None]
  BY DEF Remove
<1>2. faults' \in 0 .. MaxFaults /\ leaked' \subseteq Job
  BY FaultsCount DEF Remove, TypeOK
<1>3. CASE UNCHANGED stale
  BY <1>1, <1>2, <1>3 DEF TypeOK, NamesExist
<1>4. CASE container[j] # None /\ stale' = stale \cup {[job |-> j, mount |-> container[j].mount]}
  <2>1. container[j].mount \in DOMAIN users /\ container[j].mount \in Nat \X Nat
    BY <1>4, NoneAssumption DEF NamesExist, At, TypeOK, Container
  <2> QED
    BY <1>1, <1>2, <1>4, <2>1 DEF TypeOK, NamesExist
<1> QED
  BY <1>3, <1>4 DEF Remove

LEMMA DropFetchKeepsEngine ==
  ASSUME EngineInv, NEW j \in Job, DropFetch(j) \/ DropContainer(j)
  PROVE  EngineInv'
<1>0. TypeOK /\ pc \in [Job -> Step0] /\ At(j) /\ NamesExist
  BY DEF EngineInv, Step0
<1>1. /\ container' \in [Job -> Container \cup {None}] /\ container'[j] = None
      /\ \A i \in Job : i # j => container'[i] = container[i]
      /\ stale' \subseteq [job : Job, mount : Nat \X Nat]
      /\ \A c \in stale' : c.mount \in DOMAIN users'
      /\ leaked' \subseteq Job /\ faults' \in 0 .. MaxFaults
  BY <1>0, RemoveWrites DEF DropFetch, DropContainer
<1>2. /\ pc' \in [Job -> Step0] /\ \A i \in Job : i # j => SameFor(i)
  BY <1>0, <1>1 DEF DropFetch, DropContainer, Goto, SameFor, Step0, Building, Unwinding
<1>3. TypeOK'
  BY <1>0, <1>1 DEF DropFetch, DropContainer, TypeOK, procVars
<1>4. At(j)'
  BY <1>0, <1>1 DEF DropFetch, DropContainer, Goto, At, Passed, Sourcing, Building, Contained, Unwinding
<1>5. NamesExist'
  BY <1>0, <1>1 DEF NamesExist, DropFetch, DropContainer
<1> QED
  BY <1>2, <1>3, <1>4, <1>5, OneJobMoves DEF DropFetch, DropContainer, procVars

LEMMA DropVolumeKeepsEngine ==
  ASSUME EngineInv, NEW j \in Job, DropVolume(j)
  PROVE  EngineInv'
<1>0. TypeOK /\ pc \in [Job -> Step0] /\ At(j) /\ NamesExist
  BY DEF EngineInv, Step0
<1>1. /\ pc' \in [Job -> Step0] /\ \A i \in Job : i # j => SameFor(i)
  BY <1>0 DEF DropVolume, Goto, SameFor, TypeOK, Step0, Unwinding
<1>2. leaked' \subseteq Job /\ faults' \in 0 .. MaxFaults
  BY <1>0, FaultsCount DEF DropVolume, TypeOK
<1>3. TypeOK'
  BY <1>0, <1>2 DEF DropVolume, TypeOK, procVars
<1>4. At(j)'
  BY <1>0 DEF DropVolume, Goto, TypeOK, At, Passed, Sourcing, Building, Contained, Unwinding
<1>5. NamesExist'
  BY <1>0 DEF NamesExist, DropVolume, TypeOK
<1> QED
  BY <1>1, <1>3, <1>4, <1>5, OneJobMoves DEF DropVolume, procVars

LEMMA KillKeepsEngine == ASSUME EngineInv, Kill PROVE EngineInv'
<1>0. TypeOK /\ pc \in [Job -> Step0] /\ NamesExist
  BY DEF EngineInv, Step0
<1>1. kills' \in 0 .. MaxKills /\ kills' # 0 /\ up' = FALSE
  BY <1>0, EngineAssumption DEF Kill, TypeOK
<1>2. TypeOK'
  BY <1>0, <1>1 DEF Kill, TypeOK, hostVars
<1>3. \A j \in Job : pc'[j] = pc[j] \/ pc'[j] = "killed"
  BY DEF Kill
<1>4. pc' \in [Job -> Step0]
  BY <1>0 DEF Kill, Step0, Unwinding
<1>5. ASSUME NEW j \in Job PROVE At(j)'
  <2>1. CASE pc'[j] = pc[j]
    BY <2>1 DEF EngineInv, Kill, hostVars, At, Passed
  <2>2. CASE pc'[j] = "killed"
    BY <2>2 DEF EngineInv, Kill, hostVars, At, Sourcing, Building, Contained, Unwinding
  <2> QED
    BY <1>3, <2>1, <2>2
<1>6. NamesExist'
  BY <1>0 DEF NamesExist, Kill, hostVars
<1> QED
  BY <1>1, <1>2, <1>4, <1>5, <1>6 DEF EngineInv, Step0

LEMMA RestartKeepsEngine == ASSUME EngineInv, Restart PROVE EngineInv'
<1>1. TypeOK'
  BY DEF EngineInv, Restart, TypeOK, jobVars, hostVars, history
<1>2. \A j \in Job : At(j)'
  BY DEF EngineInv, Restart, At, Passed, jobVars, hostVars, history
<1> QED
  BY <1>1, <1>2 DEF EngineInv, Restart, NamesExist, jobVars, hostVars, history

LEMMA StutterKeepsEngine == ASSUME EngineInv, UNCHANGED vars PROVE EngineInv'
  BY DEF EngineInv, TypeOK, NamesExist, At, Passed, vars, procVars, jobVars, hostVars, history

\* The engine's invariant: what each job holds at each step of it (reproduce, the three
\* guards and their drops), whatever fails and whenever the process is killed.
THEOREM EngineInvariant == Spec => []EngineInv
<1>1. Init => EngineInv
  <2> SUFFICES ASSUME Init PROVE EngineInv
    OBVIOUS
  <2>1. TypeOK
    BY EngineAssumption DEF Init, TypeOK
  <2>2. \A j \in Job : At(j)
    BY EngineAssumption DEF Init, At, Passed, Sourcing, Building, Contained, Unwinding
  <2> QED
    BY <2>1, <2>2 DEF Init, EngineInv, NamesExist, Sourcing
<1>2. EngineInv /\ [Next]_vars => EngineInv'
  BY StartKeepsEngine, PreflightKeepsEngine, FetchArchiveKeepsEngine, MakeScratchKeepsEngine,
     CloneKeepsEngine, CreateVolumeKeepsEngine, CreateKeepsEngine, PutKeepsEngine, RunKeepsEngine,
     ContainerExitsKeepsEngine, CliReturnsKeepsEngine, TimesOutKeepsEngine, KillContainerKeepsEngine,
     ExtractKeepsEngine,
     DropFetchKeepsEngine, DropVolumeKeepsEngine, KillKeepsEngine, RestartKeepsEngine,
     StutterKeepsEngine
  DEF Next, Step
<1> QED
  BY <1>1, <1>2, PTL DEF Spec

\* Every variable of the engine keeps its type, the hops of an archive fetch within one
\* of MAX_REDIRECTS (get_with_guarded_redirects).
THEOREM EngineTypeCorrect == Spec => []TypeOK
<1>1. EngineInv => TypeOK
  BY DEF EngineInv
<1> QED
  BY <1>1, EngineInvariant, PTL

\* A verdict is of a fetch and of a build that both exited with 0, as reproduce returns
\* early from everything else.
THEOREM VerdictsComeFromWholeBuilds == Spec => []VerdictsAreOfWholeBuilds
<1>1. EngineInv => VerdictsAreOfWholeBuilds
  BY DEF EngineInv, At, VerdictsAreOfWholeBuilds
<1> QED
  BY <1>1, EngineInvariant, PTL
-----------------------------------------------------------------------------
(* Names. *)

LEMMA OldStaysOld ==
  ASSUME NEW n \in Nat \X Nat, Old(n), pid \in Nat, counter \in Nat,
         \/ pid' = pid /\ counter' \in {counter, counter + 1}
         \/ pid' = pid + 1
  PROVE  Old(n)'
<1>1. n[1] \in Nat /\ n[2] \in Nat
  OBVIOUS
<1> QED
  BY <1>1 DEF Old

\* unique_token is a name nobody was given, and is given now.
LEMMA TokenIsNew ==
  ASSUME pid \in Nat, counter \in Nat
  PROVE  /\ unique_token \in Nat \X Nat /\ unique_token # None /\ ~Old(unique_token)
         /\ (pid' = pid /\ counter' = counter + 1) => \A n : n = unique_token => Old(n)'
<1>1. unique_token \in Nat \X Nat /\ unique_token[1] = pid /\ unique_token[2] = counter
  BY DEF unique_token
<1> QED
  BY <1>1, NoneAssumption DEF Old

LEMMA QuietKeepsFresh ==
  ASSUME Fresh, UNCHANGED <<pid, counter, scratch, volume, dirs, users, stale>>
  PROVE  Fresh'
  BY DEF Fresh, Old

LEMMA MakeScratchKeepsFresh ==
  ASSUME EngineInv, Fresh, NEW j \in Job, MakeScratch(j)
  PROVE  Fresh'
<1>0. TypeOK /\ NamesExist
  BY DEF EngineInv
<1>1. CASE UNCHANGED <<scratch, dirs, counter>>
  BY <1>1, QuietKeepsFresh DEF MakeScratch
<1>2. CASE /\ scratch' = [scratch EXCEPT ![j] = unique_token]
           /\ dirs' = dirs \cup {unique_token} /\ counter' = counter + 1
  <2>1. /\ unique_token \in Nat \X Nat /\ unique_token # None /\ ~Old(unique_token)
        /\ \A n : n = unique_token => Old(n)'
    BY <1>0, <1>2, TokenIsNew DEF TypeOK, MakeScratch
  <2>2. \A n \in Nat \X Nat : Old(n) => Old(n)'
    BY <1>0, <1>2, OldStaysOld DEF TypeOK, MakeScratch
  <2>3. UNCHANGED <<volume, users, stale>>
    BY DEF MakeScratch
  <2>4. \A n \in DOMAIN users' \cup dirs' : Old(n)'
    BY <1>0, <1>2, <2>1, <2>2, <2>3 DEF Fresh, TypeOK, NamesExist
  <2>5. \A i \in Job : /\ scratch[i] # unique_token
                       /\ i # j => scratch'[i] = scratch[i]
                       /\ scratch'[j] = unique_token
    BY <1>0, <1>2, <2>1 DEF Fresh, TypeOK
  <2>6. (\A i \in Job : scratch[i] # None => Old(scratch[i]))'
    <3>1. SUFFICES ASSUME NEW i \in Job, scratch'[i] # None PROVE Old(scratch[i])'
      OBVIOUS
    <3>2. CASE i = j
      BY <2>1, <2>5, <3>2 DEF Old
    <3>3. CASE i # j
      <4>1. scratch[i] \in Nat \X Nat /\ Old(scratch[i]) /\ scratch'[i] = scratch[i]
        BY <1>0, <2>5, <3>1, <3>3 DEF Fresh, TypeOK
      <4> QED
        BY <2>2, <4>1 DEF Old
    <3> QED
      BY <3>2, <3>3
  <2>7. \A i, k \in Job : i # k /\ scratch'[i] # None => scratch'[i] # scratch'[k]
    BY <2>1, <2>5 DEF Fresh
  <2> QED
    BY <2>3, <2>4, <2>6, <2>7 DEF Fresh
<1> QED
  BY <1>1, <1>2 DEF MakeScratch

LEMMA CloneKeepsFresh ==
  ASSUME EngineInv, Fresh, NEW j \in Job, Clone(j)
  PROVE  Fresh'
<1>1. UNCHANGED <<pid, counter, volume, users, stale>> /\ dirs' \subseteq dirs
  BY DEF Clone, procVars
<1>2. \A i \in Job : scratch'[i] = scratch[i] \/ scratch'[i] = None
  BY DEF EngineInv, TypeOK, Clone
<1> QED
  BY <1>1, <1>2 DEF Fresh, Old

LEMMA CreateVolumeKeepsFresh ==
  ASSUME EngineInv, Fresh, NEW j \in Job, CreateVolume(j)
  PROVE  Fresh'
<1>0. TypeOK /\ NamesExist /\ volume[j] = None
  BY DEF EngineInv, At, CreateVolume, Sourcing
<1>1. UNCHANGED <<pid, scratch, dirs, stale>> /\ counter' = counter + 1
  BY DEF CreateVolume
<1>2. /\ unique_token \in Nat \X Nat /\ unique_token # None /\ ~Old(unique_token)
      /\ \A n : n = unique_token => Old(n)'
  BY <1>0, <1>1, TokenIsNew DEF TypeOK
<1>3. \A n \in Nat \X Nat : Old(n) => Old(n)'
  BY <1>0, <1>1, OldStaysOld DEF TypeOK
<1>4. (\A i \in Job : scratch[i] # None => Old(scratch[i]))'
  BY <1>0, <1>1, <1>3 DEF Fresh, TypeOK, Old
<1>5. CASE UNCHANGED <<volume, users>>
  <2>1. \A n \in DOMAIN users' \cup dirs' : Old(n)'
    BY <1>0, <1>1, <1>3, <1>5 DEF Fresh, TypeOK, NamesExist
  <2> QED
    BY <1>1, <1>4, <1>5, <2>1 DEF Fresh
<1>6. CASE /\ volume' = [volume EXCEPT ![j] = unique_token]
           /\ users' = [n \in DOMAIN users \cup {unique_token} |->
                          IF n \in volumes THEN users[n] ELSE {}]
  <2>1. \A n \in DOMAIN users' \cup dirs' : Old(n)'
    BY <1>0, <1>1, <1>2, <1>3, <1>6 DEF Fresh, TypeOK, NamesExist
  <2>2. unique_token \notin DOMAIN users /\ unique_token \notin volumes
    BY <1>0, <1>2 DEF Fresh, TypeOK
  <2>3. /\ volume'[j] = unique_token
        /\ \A i \in Job : i # j => volume'[i] = volume[i]
        /\ \A i \in Job : volume[i] # unique_token
    BY <1>0, <1>2, <1>6, <2>2 DEF TypeOK, NamesExist
  <2>4. \A i, k \in Job : i # k /\ volume'[i] # None => volume'[i] # volume'[k]
    BY <1>2, <2>3 DEF Fresh
  <2>5. \A i \in Job : volume'[i] # None => users'[volume'[i]] \subseteq {i}
    <3>1. SUFFICES ASSUME NEW i \in Job, volume'[i] # None PROVE users'[volume'[i]] \subseteq {i}
      OBVIOUS
    <3>2. CASE i = j
      BY <1>6, <2>2, <2>3, <3>2
    <3>3. CASE i # j
      <4>1. volume'[i] = volume[i] /\ volume[i] \in DOMAIN users /\ users[volume[i]] \subseteq {i}
        BY <1>0, <2>3, <3>1, <3>3 DEF Fresh, NamesExist
      <4> QED
        BY <1>6, <4>1
    <3> QED
      BY <3>2, <3>3
  <2>6. \A i \in Job : \A c \in stale' : c.mount = volume'[i] => c.job = i
    BY <1>0, <1>1, <2>2, <2>3 DEF Fresh, NamesExist
  <2> QED
    BY <1>1, <1>4, <2>1, <2>4, <2>5, <2>6 DEF Fresh
<1> QED
  BY <1>5, <1>6 DEF CreateVolume

LEMMA RunKeepsFresh ==
  ASSUME EngineInv, Fresh, NEW j \in Job, Run(j)
  PROVE  Fresh'
<1>0. TypeOK /\ NamesExist /\ volume[j] # None /\ volume[j] \in DOMAIN users
  BY DEF EngineInv, At, NamesExist, Run, Building, Contained
<1>1. UNCHANGED <<pid, counter, scratch, volume, dirs, stale>>
  BY DEF Run, procVars
<1>2. CASE UNCHANGED users
  BY <1>1, <1>2, QuietKeepsFresh
<1>3. CASE users' = [users EXCEPT ![volume[j]] = @ \cup {j}]
  <2>1. DOMAIN users' = DOMAIN users
    BY <1>3
  <2>2. \A i \in Job : volume'[i] # None => users'[volume'[i]] \subseteq {i}
    <3>1. SUFFICES ASSUME NEW i \in Job, volume[i] # None PROVE users'[volume[i]] \subseteq {i}
      BY <1>1
    <3>2. users[volume[i]] \subseteq {i} /\ volume[i] \in DOMAIN users
      BY <1>0, <3>1 DEF Fresh, NamesExist
    <3>3. CASE i = j
      BY <1>0, <1>3, <3>2, <3>3
    <3>4. CASE i # j
      <4>1. volume[i] # volume[j]
        BY <3>1, <3>4 DEF Fresh
      <4> QED
        BY <1>0, <1>3, <3>2, <4>1
    <3> QED
      BY <3>3, <3>4
  <2> QED
    BY <1>1, <2>1, <2>2 DEF Fresh, Old
<1> QED
  BY <1>2, <1>3 DEF Run

LEMMA RemoveKeepsFresh ==
  ASSUME EngineInv, Fresh, NEW j \in Job, DropFetch(j) \/ DropContainer(j)
  PROVE  Fresh'
<1>0. TypeOK /\ At(j)
  BY DEF EngineInv
<1>1. UNCHANGED <<pid, counter, scratch, volume, dirs, users>>
  BY DEF DropFetch, DropContainer, procVars
<1>2. CASE UNCHANGED stale
  BY <1>1, <1>2, QuietKeepsFresh
<1>3. CASE container[j] # None /\ stale' = stale \cup {[job |-> j, mount |-> container[j].mount]}
  <2>1. container[j].mount = volume[j] /\ volume[j] # None
    BY <1>0, <1>3, NoneAssumption DEF At, TypeOK, Container
  <2>2. \A i \in Job : \A c \in stale' : c.mount = volume'[i] => c.job = i
    BY <1>1, <1>3, <2>1 DEF Fresh
  <2> QED
    BY <1>1, <2>2 DEF Fresh, Old
<1> QED
  BY <1>2, <1>3 DEF DropFetch, DropContainer, Remove

LEMMA DropVolumeKeepsFresh ==
  ASSUME EngineInv, Fresh, NEW j \in Job, DropVolume(j)
  PROVE  Fresh'
<1>1. UNCHANGED <<pid, counter, scratch, dirs, users, stale>>
  BY DEF DropVolume, procVars
<1>2. \A i \in Job : volume'[i] = volume[i] \/ volume'[i] = None
  BY DEF EngineInv, TypeOK, DropVolume
<1>3. \A c \in stale : c.mount # None
  BY NoneAssumption DEF EngineInv, TypeOK
<1> QED
  BY <1>1, <1>2, <1>3 DEF Fresh, Old

LEMMA RestartKeepsFresh ==
  ASSUME EngineInv, Fresh, ~PidReused, Restart
  PROVE  Fresh'
<1>0. TypeOK /\ NamesExist
  BY DEF EngineInv
<1>1. UNCHANGED <<scratch, volume, dirs, users, stale>> /\ pid' = pid + 1
  BY DEF Restart, jobVars, hostVars
<1>2. \A n \in Nat \X Nat : Old(n) => Old(n)'
  BY <1>0, <1>1, OldStaysOld DEF TypeOK
<1>3. (\A i \in Job : scratch[i] # None => Old(scratch[i]))'
  BY <1>0, <1>1, <1>2 DEF Fresh, TypeOK, Old
<1>4. \A n \in DOMAIN users' \cup dirs' : Old(n)'
  BY <1>0, <1>1, <1>2 DEF Fresh, TypeOK, NamesExist
<1> QED
  BY <1>1, <1>3, <1>4 DEF Fresh

\* Once a process has been killed it stays killed in the count.
LEMMA KillsGrow == ASSUME TypeOK, [Next]_vars PROVE kills' = 0 => kills = 0
  BY DEF TypeOK, Next, Step, Start, Preflight, FetchArchive, MakeScratch, Clone, CreateVolume,
         Create, Put, Run, ContainerExits, CliReturns, TimesOut, KillContainer,
         Extract, DropFetch, DropContainer, DropVolume, Kill, Restart, vars, history

LEMMA TokenStep ==
  ASSUME EngineInv, TokenInv, [Next]_vars
  PROVE  TokenInv'
<1>1. SUFFICES ASSUME ~PidReused \/ kills' = 0 PROVE Fresh'
  BY DEF TokenInv
<1>2. Fresh
  BY <1>1, KillsGrow DEF EngineInv, TokenInv
<1>3. ASSUME NEW j \in Job,
             \/ Start(j) \/ Preflight(j) \/ FetchArchive(j) \/ Create(j, "fetch") \/ Create(j, "build")
             \/ Put(j) \/ ContainerExits(j) \/ CliReturns(j) \/ TimesOut(j)
             \/ KillContainer(j) \/ Extract(j)
      PROVE  Fresh'
  <2>1. UNCHANGED <<pid, counter, scratch, volume, dirs, users, stale>>
    BY <1>3 DEF Start, Preflight, FetchArchive, Create, Put, ContainerExits, CliReturns, TimesOut,
                KillContainer, Extract, procVars, jobVars, hostVars
  <2> QED
    BY <1>2, <2>1, QuietKeepsFresh
<1>4. CASE Kill
  BY <1>2, <1>4, QuietKeepsFresh DEF Kill, hostVars
<1>5. CASE Restart
  <2>1. ~PidReused
    BY <1>1, <1>5, KillsGrow DEF EngineInv, Restart
  <2> QED
    BY <1>2, <1>5, <2>1, RestartKeepsFresh
<1>6. CASE UNCHANGED vars
  BY <1>2, <1>6, QuietKeepsFresh DEF vars, procVars, jobVars, hostVars
<1> QED
  BY <1>2, <1>3, <1>4, <1>5, <1>6, MakeScratchKeepsFresh, CloneKeepsFresh, CreateVolumeKeepsFresh,
     RunKeepsFresh, RemoveKeepsFresh, DropVolumeKeepsFresh
  DEF Next, Step
-----------------------------------------------------------------------------
(* What is on the host. *)

\* The names the guards hold.
Held(f) == {f[j] : j \in Job} \ {None}

\* A guard that held nothing takes a name.
LEMMA HoldOneMore ==
  ASSUME NEW f, NEW j \in Job, f \in [Job -> (Nat \X Nat) \cup {None}], f[j] = None,
         NEW n, n # None
  PROVE  Held([f EXCEPT ![j] = n]) = Held(f) \cup {n}
<1> DEFINE g == [f EXCEPT ![j] = n]
<1>1. g[j] = n /\ \A i \in Job : i # j => g[i] = f[i]
  OBVIOUS
<1> HIDE DEF g
<1>2. Held(g) = Held(f) \cup {n}
  BY <1>1 DEF Held
<1> QED
  BY <1>2 DEF g

\* A guard lets go of a name no other guard holds.
LEMMA HoldOneLess ==
  ASSUME NEW f, NEW j \in Job, f \in [Job -> (Nat \X Nat) \cup {None}],
         \A i \in Job : i # j /\ f[i] # None => f[i] # f[j]
  PROVE  Held([f EXCEPT ![j] = None]) = Held(f) \ {f[j]}
<1> DEFINE g == [f EXCEPT ![j] = None]
<1>1. g[j] = None /\ \A i \in Job : i # j => g[i] = f[i]
  OBVIOUS
<1> HIDE DEF g
<1>2. Held(g) = Held(f) \ {f[j]}
  BY <1>1 DEF Held
<1> QED
  BY <1>2 DEF g

Tidy == stale = {} /\ volumes = Held(volume) /\ dirs = Held(scratch)

\* No removal that failed is forgotten.
LEMMA LeaksGrow == ASSUME TypeOK, [Next]_vars PROVE leaked' = {} => leaked = {}
  BY DEF TypeOK, Next, Step, Start, Preflight, FetchArchive, MakeScratch, Clone, CreateVolume,
         Create, Put, Run, ContainerExits, CliReturns, TimesOut, KillContainer,
         Extract, DropFetch, DropContainer, DropVolume, Remove, Kill, Restart, vars, history

LEMMA SourceKeepsTidy ==
  ASSUME EngineInv, Fresh, Tidy, NEW j \in Job,
         MakeScratch(j) \/ Clone(j) \/ CreateVolume(j)
  PROVE  Tidy'
<1>0. TypeOK /\ At(j) /\ unique_token # None
  BY TokenIsNew DEF EngineInv, TypeOK
<1>1. CASE MakeScratch(j)
  <2>1. UNCHANGED <<stale, volumes, volume>> /\ scratch[j] = None
    BY <1>0, <1>1 DEF MakeScratch, At
  <2>2. CASE UNCHANGED <<scratch, dirs>>
    BY <2>1, <2>2 DEF Tidy
  <2>3. CASE scratch' = [scratch EXCEPT ![j] = unique_token] /\ dirs' = dirs \cup {unique_token}
    <3>1. Held([scratch EXCEPT ![j] = unique_token]) = Held(scratch) \cup {unique_token}
      BY <1>0, <2>1, HoldOneMore DEF TypeOK
    <3> QED
      BY <2>1, <2>3, <3>1 DEF Tidy
  <2> QED
    BY <1>1, <2>2, <2>3 DEF MakeScratch
<1>2. CASE Clone(j)
  <2>1. UNCHANGED <<stale, volumes, volume>>
        /\ scratch' = [scratch EXCEPT ![j] = None] /\ dirs' = dirs \ {scratch[j]}
    BY <1>2 DEF Clone
  <2>2. Held([scratch EXCEPT ![j] = None]) = Held(scratch) \ {scratch[j]}
    BY <1>0, HoldOneLess DEF TypeOK, Fresh
  <2> QED
    BY <2>1, <2>2 DEF Tidy
<1>3. CASE CreateVolume(j)
  <2>1. UNCHANGED <<stale, dirs, scratch>> /\ volume[j] = None
    BY <1>0, <1>3 DEF CreateVolume, At, Sourcing
  <2>2. CASE UNCHANGED <<volume, volumes>>
    BY <2>1, <2>2 DEF Tidy
  <2>3. CASE volume' = [volume EXCEPT ![j] = unique_token] /\ volumes' = volumes \cup {unique_token}
    <3>1. Held([volume EXCEPT ![j] = unique_token]) = Held(volume) \cup {unique_token}
      BY <1>0, <2>1, HoldOneMore DEF TypeOK
    <3> QED
      BY <2>1, <2>3, <3>1 DEF Tidy
  <2> QED
    BY <1>3, <2>2, <2>3 DEF CreateVolume
<1> QED
  BY <1>1, <1>2, <1>3

\* The daemon does not refuse: the job's own container is gone, and no other job's has
\* this volume.
LEMMA DropVolumeKeepsTidy ==
  ASSUME EngineInv, Fresh, Tidy, NEW j \in Job, DropVolume(j), leaked' = leaked, leaked = {}
  PROVE  Tidy'
<1>0. TypeOK /\ At(j) /\ pc[j] = "drop_volume"
  BY DEF EngineInv, DropVolume
<1>1. UNCHANGED <<stale, dirs, scratch>> /\ volume' = [volume EXCEPT ![j] = None]
  BY DEF DropVolume
<1>2. \A i \in Job : container[i] # None => container[i].mount # volume[j]
  <2>1. SUFFICES ASSUME NEW i \in Job, container[i] # None PROVE container[i].mount # volume[j]
    OBVIOUS
  <2>2. i # j
    BY <1>0, <2>1 DEF At, Contained
  <2>3. volume[i] = container[i].mount /\ volume[i] # None
    BY <1>0, <2>1, NoneAssumption DEF EngineInv, At, TypeOK, Container
  <2> QED
    BY <2>2, <2>3 DEF Fresh
<1>3. ~InUse(volume[j])
  BY <1>2 DEF InUse, Tidy
<1>4. volumes' = volumes \ {volume[j]}
  BY <1>3 DEF DropVolume
<1>5. Held([volume EXCEPT ![j] = None]) = Held(volume) \ {volume[j]}
  BY <1>0, HoldOneLess DEF TypeOK, Fresh
<1> QED
  BY <1>1, <1>4, <1>5 DEF Tidy

LEMMA TidyStep ==
  ASSUME EngineInv, TokenInv, TidyInv, [Next]_vars
  PROVE  TidyInv'
<1>1. SUFFICES ASSUME leaked' = {}, kills' = 0 PROVE Tidy'
  BY DEF TidyInv, Tidy, Held
<1>2. leaked = {} /\ kills = 0 /\ Tidy /\ Fresh
  BY <1>1, KillsGrow, LeaksGrow DEF EngineInv, TokenInv, TidyInv, Tidy, Held
<1>3. ASSUME NEW j \in Job,
             \/ Start(j) \/ Preflight(j) \/ FetchArchive(j) \/ Create(j, "fetch") \/ Create(j, "build")
             \/ Put(j) \/ Run(j) \/ ContainerExits(j) \/ CliReturns(j) \/ TimesOut(j)
             \/ KillContainer(j) \/ Extract(j)
             \/ DropFetch(j) \/ DropContainer(j)
      PROVE  Tidy'
  <2>1. UNCHANGED <<scratch, volume, dirs, volumes>>
    BY <1>3 DEF Start, Preflight, FetchArchive, Create, Put, Run, ContainerExits, CliReturns,
                TimesOut, KillContainer, Extract, DropFetch, DropContainer, jobVars, hostVars
  <2>2. stale' = stale
    BY <1>1, <1>2, <1>3
    DEF Start, Preflight, FetchArchive, Create, Put, Run, ContainerExits, CliReturns,
        TimesOut, KillContainer, Extract, DropFetch, DropContainer, Remove, hostVars
  <2> QED
    BY <1>2, <2>1, <2>2 DEF Tidy, Held
<1>4. CASE \E j \in Job : DropVolume(j)
  BY <1>1, <1>2, <1>4, DropVolumeKeepsTidy
<1>5. CASE Kill \/ Restart
  BY <1>2, <1>5 DEF Kill, Restart, jobVars, hostVars, Tidy, Held
<1>6. CASE UNCHANGED vars
  BY <1>2, <1>6 DEF vars, jobVars, hostVars, Tidy, Held
<1> QED
  BY <1>2, <1>3, <1>4, <1>5, <1>6, SourceKeepsTidy DEF Next, Step

LEMMA NamesAndHost == Spec => [](EngineInv /\ TokenInv /\ TidyInv)
<1>1. Init => TokenInv /\ TidyInv
  BY DEF Init, TokenInv, Fresh, TidyInv
<1>2. EngineInv /\ TokenInv /\ TidyInv /\ [Next]_vars => TokenInv' /\ TidyInv'
  BY TokenStep, TidyStep
<1> QED
  BY <1>1, <1>2, EngineInvariant, PTL DEF Spec

\* A job that ends leaves no container, volume or directory behind, unless docker failed
\* to remove one or the process was killed (the drops of Container, Volume and DirGuard,
\* in this order).
THEOREM NothingStays == Spec => []NothingIsLeftBehind
<1>1. EngineInv /\ TidyInv => NothingIsLeftBehind
  BY DEF EngineInv, At, TidyInv, NothingIsLeftBehind, Contained
<1> QED
  BY <1>1, NamesAndHost, PTL

\* While a restarted process has a pid of its own, no container runs on a volume another
\* job's container has written to or has mounted (unique_token).  The hypothesis is
\* needed: with a pid that comes back a run of the model breaks the property.
THEOREM VolumesAreOfOneJob == ~PidReused => (Spec => []VolumesArePerJob)
<1>1. ~PidReused /\ EngineInv /\ TokenInv => VolumesArePerJob
  <2> SUFFICES ASSUME EngineInv, Fresh PROVE VolumesArePerJob
    BY DEF TokenInv
  <2>1. \A j \in Job : container[j] # None => volume[j] = container[j].mount /\ volume[j] # None
    BY NoneAssumption DEF EngineInv, At, TypeOK, Container
  <2> QED
    BY <2>1 DEF Fresh, VolumesArePerJob
<1>2. ASSUME ~PidReused PROVE Spec => []VolumesArePerJob
  <2>1. EngineInv /\ TokenInv => VolumesArePerJob
    BY <1>1, <1>2
  <2> QED
    BY <2>1, NamesAndHost, PTL
<1> QED
  BY <1>2
=============================================================================
