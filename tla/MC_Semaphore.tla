---------------------------- MODULE MC_Semaphore ----------------------------
(* Semaphore on three holders, limits 1 and 2, one TTL and a short clock.   *)
EXTENDS Semaphore, TLC

CONSTANTS h1, h2, h3

MCHolder == {h1, h2, h3}
MCSymmetry == Permutations(MCHolder)
=============================================================================
