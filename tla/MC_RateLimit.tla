---------------------------- MODULE MC_RateLimit ----------------------------
(* One limited pair with two settings.                                      *)
EXTENDS RateLimit, TLC

CONSTANTS ann, calls

MCSlugOf == ann :> ann
MCLimits == {[limit |-> 1, per |-> 2, burst |-> 1], [limit |-> 2, per |-> 1, burst |-> 3]}
=============================================================================
