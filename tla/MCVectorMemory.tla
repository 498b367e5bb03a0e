--------------------------- MODULE MCVectorMemory ---------------------------
(* Small instances of VectorMemory for TLC. *)
EXTENDS VectorMemory
=============================================================================
