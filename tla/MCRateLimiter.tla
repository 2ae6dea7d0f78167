---------------------------- MODULE MCRateLimiter ----------------------------
(* RateLimiter with users that nothing tells apart. *)
EXTENDS RateLimiter, TLC

Symmetry == Permutations(Keys) \cup Permutations(Callers)
=============================================================================
