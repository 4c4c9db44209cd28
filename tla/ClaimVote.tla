------------------------------ MODULE ClaimVote ------------------------------
(***************************************************************************)
(* What the registry promises a consumer about claims, without stakes,     *)
(* ledgers, attester lists or slashing: verifiers cast at most one vote on *)
(* a claim while it is open, open claims are concluded, and a conclusion   *)
(* is drawn once, from all the votes cast, and stands (the table of        *)
(* consensus() and attest()'s refusals, contracts/registry/src/lib.rs).    *)
(***************************************************************************)
EXTENDS Integers, FiniteSets

CONSTANTS Verifier, Claim, Hash, NoHash, WasmHash, Quorum

VARIABLES votes,   \* the hash each verifier voted for on each claim, or NoHash
          status   \* what consensus() answers for each claim

vars == <<votes, status>>

Init ==
    /\ votes = [c \in Claim |-> [v \in Verifier |-> NoHash]]
    /\ status = [c \in Claim |-> "NoClaim"]

Cast(c, v, h) ==
    /\ status[c] \in {"NoClaim", "Open"}
    /\ votes[c][v] = NoHash
    /\ votes' = [votes EXCEPT ![c][v] = h]
    /\ status' = [status EXCEPT ![c] = "Open"]

CastOn(c) == {v \in Verifier : votes[c][v] # NoHash}

Unanimous(c, h) == \A v \in CastOn(c) : votes[c][v] = h

Judgement(c) ==
    IF Cardinality(CastOn(c)) < Quorum THEN "Insufficient"
    ELSE IF Unanimous(c, WasmHash[c]) THEN "Verified"
    ELSE IF \E h \in Hash : Unanimous(c, h) THEN "Mismatch"
    ELSE "Disputed"

\* Several windows may close with the same ledger.
Conclude(S) ==
    /\ S # {}
    /\ \A c \in S : status[c] = "Open"
    /\ status' = [c \in Claim |-> IF c \in S THEN Judgement(c) ELSE status[c]]
    /\ UNCHANGED votes

Next ==
    \/ \E c \in Claim, v \in Verifier, h \in Hash : Cast(c, v, h)
    \/ \E S \in SUBSET Claim : Conclude(S)

Spec == Init /\ [][Next]_vars
=============================================================================
