---------------------------- MODULE ApplicantFlow ----------------------------
(***************************************************************************)
(* What the orchestrator promises of one application, seen in three stages *)
(* of the phase table: collecting (authentication, intake and document     *)
(* collection), reviewing (processing, review and the decision being made) *)
(* and decided (enablement).  An application is reviewed only with its     *)
(* required documents, decided only out of review and with no discrepancy  *)
(* open, and its decision changes nowhere else.                            *)
(***************************************************************************)
CONSTANT Decisions

VARIABLES
  stage,
  complete,   (* the documents the category requires are on record          *)
  open,       (* some discrepancy is open                                   *)
  decision    (* the decision on record, or "none"                          *)

vars == <<stage, complete, open, decision>>

Init ==
  /\ stage = "collecting"
  /\ complete \in BOOLEAN
  /\ open = FALSE
  /\ decision = "none"

(* Naming the category or adding documents may complete the file, or ask    *)
(* for more.                                                               *)
Collect ==
  /\ stage = "collecting"
  /\ complete' \in BOOLEAN
  /\ UNCHANGED <<stage, open, decision>>

Submit ==
  /\ stage = "collecting"
  /\ complete'
  /\ stage' = "reviewing"
  /\ UNCHANGED <<open, decision>>

(* Processing may open a discrepancy; nothing closes one. *)
FindDiscrepancy ==
  /\ stage = "reviewing"
  /\ open' = TRUE
  /\ UNCHANGED <<stage, complete, decision>>

Decide ==
  /\ stage = "reviewing"
  /\ complete
  /\ ~open
  /\ decision' \in Decisions
  /\ stage' = "decided"
  /\ UNCHANGED <<complete, open>>

(* New documents send the review back; and a client that never heard of    *)
(* the later stages starts over.                                           *)
GoBack ==
  /\ stage' = "collecting"
  /\ UNCHANGED <<complete, open, decision>>

Next == Collect \/ Submit \/ FindDiscrepancy \/ Decide \/ GoBack

Spec == Init /\ [][Next]_vars
=============================================================================
