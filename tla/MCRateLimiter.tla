--------------------------- MODULE MCRateLimiter ---------------------------
(***************************************************************************)
(* Instances of RateLimiter for TLC.                                        *)
(***************************************************************************)
EXTENDS RateLimiter, TLC

Symmetry == Permutations(Keys) \cup Permutations(Handlers)
=============================================================================
