----------------------------- MODULE MCRecords -----------------------------
(* Records with two documents, one of them empty, and two overlapping jobs. *)
EXTENDS Records, TLC

MCPatches ==
  {[status |-> "in_progress", phase |-> "processing"],
   [status |-> "completed", phase |-> Absent]}

WorkerSymmetry == Permutations(Workers)
=============================================================================
