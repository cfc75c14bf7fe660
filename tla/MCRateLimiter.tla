---------------------------- MODULE MCRateLimiter ----------------------------
(* Small instances of RateLimiter for TLC. *)
EXTENDS RateLimiterProofs, TLC

Symmetric == Permutations(Caller) \cup Permutations(RateKeys)

=============================================================================
