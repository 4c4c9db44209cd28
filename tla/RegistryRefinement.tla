------------------------- MODULE RegistryRefinement -------------------------
(***************************************************************************)
(* The registry implements ClaimVote: its attestation records are the      *)
(* votes, and what consensus() computes from the ledger number and the     *)
(* attester list is the status.                                            *)
(***************************************************************************)
EXTENDS Registry

Promise == INSTANCE ClaimVote
              WITH votes <- att, status <- [c \in Claim |-> consensus(c)]

\* Every step of the registry is a vote, the conclusion of the claims whose
\* window closes with the ledger, or invisible to a consumer: staking,
\* unstaking and slashing never show in a verdict (attest, consensus, slash).
ImplementsClaimVote == Promise!Spec
=============================================================================
