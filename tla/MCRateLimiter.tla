---------------------------- MODULE MCRateLimiter ----------------------------
(* RateLimiter on small sets, for TLC. *)
EXTENDS RateLimiter, TLC

Symmetry == Permutations(Threads)

=============================================================================
