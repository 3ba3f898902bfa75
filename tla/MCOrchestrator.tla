--------------------------- MODULE MCOrchestrator ---------------------------
(* Orchestrator with a few documents, two categories, one of which requires *)
(* more than the other, and a document type nothing requires.              *)
EXTENDS Orchestrator

MCTypeOf ==
  [p \in Paths |-> CASE p = "id.png" -> "emirates_id"
                     [] p = "bank.pdf" -> "bank_statement"
                     [] OTHER -> "assets_liabilities"]

MCRequired ==
  [c \in Categories \cup {"none"} |->
     IF c = "unknown_parentage" THEN {"emirates_id"}
     ELSE {"emirates_id", "bank_statement"}]
=============================================================================
