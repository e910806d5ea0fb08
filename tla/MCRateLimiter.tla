---------------------------- MODULE MCRateLimiter ----------------------------
(***************************************************************************)
(* A small instance of RateLimiter.                                        *)
(***************************************************************************)
EXTENDS RateLimiter, TLC

CONSTANTS u1, u2, t1, t2

Symmetry == Permutations({t1, t2})
=============================================================================
