---------------------------- MODULE MC_BatchWriter ----------------------------
(***************************************************************************)
(* BatchWriter with three requests or flushes and the final flush, and a   *)
(* batch that can hold all three.  Snapshots are larger than other         *)
(* requests, and results of reads larger than reads.                       *)
(***************************************************************************)
EXTENDS BatchWriter

MCReqBytes == [k \in Kinds |-> IF k = "snapshot" THEN 2 ELSE IF k = "flush" THEN 0 ELSE 1]
MCOutBytes == [k \in Kinds |-> IF k = "read" THEN 3 ELSE IF k = "put" THEN 1 ELSE 0]
=============================================================================
