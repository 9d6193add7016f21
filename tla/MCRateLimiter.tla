----------------------------- MODULE MCRateLimiter -----------------------------
(* A finite instance of RateLimiter: two clients that are alike. *)
EXTENDS RateLimiter, TLC

CONSTANTS k1, k2

MCSymmetry == Permutations(Keys)
===============================================================================
