----------------------------- MODULE MC_Barrier -----------------------------
(* Barriers of one to three signals, with and without a short timeout.      *)
EXTENDS Barrier
=============================================================================
