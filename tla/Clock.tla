-------------------------------- MODULE Clock --------------------------------
(***************************************************************************)
(* The system clock as the agent handlers read it: each call is stamped    *)
(* with a now_ms of its own, and the clock may be set back by up to MaxLag *)
(* between two calls.                                                      *)
(***************************************************************************)
EXTENDS Integers

CONSTANTS MaxLag, MaxTime

ASSUME ClockAssumption == MaxLag \in Nat /\ MaxTime \in Nat

VARIABLE now

\* What a call may carry as its now_ms.
Stamp == {t \in 0..now : now - t <= MaxLag}

Advance == now < MaxTime /\ now' = now + 1
=============================================================================
