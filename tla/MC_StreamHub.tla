---------------------------- MODULE MC_StreamHub ----------------------------
(***************************************************************************)
(* StreamHub with a channel of two frames, a limit of three losses in a    *)
(* row and six pushes.                                                     *)
(***************************************************************************)
EXTENDS StreamHub
=============================================================================
