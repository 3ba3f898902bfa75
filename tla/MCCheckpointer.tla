--------------------------- MODULE MCCheckpointer ---------------------------
(* Checkpointer: one thread, two runs on it and the cleanup task.          *)
EXTENDS Checkpointer, TLC
=============================================================================
