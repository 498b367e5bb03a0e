------------------------- MODULE MCCheckpointStore -------------------------
(* Small instances of CheckpointStore for TLC. *)
EXTENDS CheckpointStore
=============================================================================
