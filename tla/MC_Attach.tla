------------------------------ MODULE MC_Attach ------------------------------
(***************************************************************************)
(* Two connections, and one workspace with two terminals and a surface of  *)
(* a plugin.  Nobody asks for the second terminal by itself, as that would *)
(* only repeat what is asked of the first; one surface is closed.          *)
(***************************************************************************)
EXTENDS Attach

CONSTANTS t1, t2, mesh, ws

MCMembers == [w \in {ws} |-> {t1, t2, mesh}]
=============================================================================
