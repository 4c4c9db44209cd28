---------------------------- MODULE MCAlgorithms ----------------------------
(***************************************************************************)
(* The pure algorithms on growing inputs, and the two browser pages, the   *)
(* explorer and the gate.  They share nothing, so one of them moves while  *)
(* the others are at rest.                                                 *)
(***************************************************************************)
EXTENDS TallyLoop, ClaimDigest, Artifact, Staging, Paging, Gate

MCPath ==
    {<<"a">>, <<"a", "x">>, <<"a", "d", "y">>, <<"b", "x">>, <<"a", "..", "x">>, <<"/", "x">>}

MCSymTarget == {<<"x">>, <<"..", "x">>, <<"..", "..", "a", "x">>}

CONSTANTS w1, w2

\* All claims are about one of the two binaries; nobody attests the other.
MCClaimHash == [c \in Claim |-> w1]

\* The gate starts on any target and any code; the others move while it is in one of these.
GateIdle == GateInit /\ target \in Pool /\ \A x \in Contract : code[x] = w1

AtRest == [tally |-> TallyInit, claim |-> ClaimInit, artifact |-> ArtifactInit,
           staging |-> StagingInit, paging |-> PagingInit, gate |-> GateIdle]

OnlyMover(m) == \A n \in DOMAIN AtRest : n # m => AtRest[n]

Init == TallyInit /\ ClaimInit /\ ArtifactInit /\ StagingInit /\ PagingInit /\ GateInit

Next ==
    \/ /\ OnlyMover("tally") /\ TallyNext
       /\ UNCHANGED <<claimVars, artifactVars, archive, pagingVars, gateVars>>
    \/ /\ OnlyMover("claim") /\ ClaimNext
       /\ UNCHANGED <<atts, artifactVars, archive, pagingVars, gateVars>>
    \/ /\ OnlyMover("artifact") /\ ArtifactNext
       /\ UNCHANGED <<atts, claimVars, archive, pagingVars, gateVars>>
    \/ /\ OnlyMover("staging") /\ StagingNext
       /\ UNCHANGED <<atts, claimVars, artifactVars, pagingVars, gateVars>>
    \/ /\ OnlyMover("paging") /\ PagingNext
       /\ UNCHANGED <<atts, claimVars, artifactVars, archive, gateVars>>
    \/ /\ OnlyMover("gate") /\ GateNext
       /\ UNCHANGED <<atts, claimVars, artifactVars, archive, pagingVars>>

Spec == Init /\ [][Next]_<<atts, claimVars, artifactVars, archive, pagingVars, gateVars>>
=============================================================================
