---------------------------- MODULE MC_LeasePool ----------------------------
(* A pool of one fixed name: a caller that stays with it, an elastic caller *)
(* that may add one more, and a caller that leases the name the pool would  *)
(* synthesize first directly, so that synthesis may collide.                *)
EXTENDS LeasePool, TLC

CONSTANTS a, o, oo, elastic, plain, direct

MCResource == {a, o, oo}
MCCandidates == <<a>>
MCOverflow == <<o, oo>>
MCHolder == {elastic, plain, direct}
MCNamed == direct :> o
MCCap == (elastic :> 2) @@ (plain :> Fixed)
=============================================================================
