----------------------------- MODULE MCRegistry -----------------------------
(* Small instances of Registry for TLC. *)
EXTENDS Registry, TLC

CONSTANTS FundPer,      \* tokens every verifier starts with
          FundTreasury  \* tokens the rest of the world starts with

MCFunds == [a \in Holder |-> IF a = Treasury THEN FundTreasury ELSE FundPer]

\* Every claim is about the same on-chain hash, under different input digests.
MCWasmHash == [c \in Claim |-> CHOOSE h \in Hash : TRUE]

\* -1 is an amount a caller may pass and the contract must refuse.
MCAmount == {-1, 1, 2}

MCWholeStake == {-1, FundPer}

MCSymmetry == Permutations(Verifier) \cup Permutations(Claim)
=============================================================================
