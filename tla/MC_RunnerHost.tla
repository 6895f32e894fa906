---------------------------- MODULE MC_RunnerHost ----------------------------
(* One or two tasks, which then share one permit, with a retry and a fault: *)
(* an unanswered call, a stop, a panic or a crash.                          *)
EXTENDS RunnerHost
=============================================================================
