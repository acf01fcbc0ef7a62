---------------------------- MODULE MCRateLimiter ----------------------------
(***************************************************************************)
(* An instance of RateLimiter for TLC: one client more than the map holds. *)
(***************************************************************************)
EXTENDS RateLimiter, TLC

LimiterSymmetry == Permutations(Clients) \cup Permutations(Requests)
=============================================================================
