---------------------------- MODULE MCRateLimiter ----------------------------
(* A small instance of RateLimiter for TLC. *)
EXTENDS RateLimiter, TLC

MCSymmetry == Permutations(Key) \cup Permutations(Caller)
=============================================================================
