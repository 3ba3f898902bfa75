--------------------------- MODULE MCChatService ---------------------------
(* ChatService with two categories: one document is enough for the first, *)
(* the other requires a second.                                            *)
EXTENDS ChatService, TLC

MCTypeOf ==
  [p \in Paths |-> IF p = "id.png" THEN "emirates_id" ELSE "resume"]

MCRequired ==
  [c \in Categories \cup {"none"} |->
     IF c = "health_disability" THEN {"emirates_id", "resume"} ELSE {"emirates_id"}]

RequestSymmetry == Permutations(Requests)
=============================================================================
