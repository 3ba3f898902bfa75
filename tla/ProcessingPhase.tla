--------------------------- MODULE ProcessingPhase ---------------------------
(***************************************************************************)
(* processing_node (src/agents/orchestrator/phases/processing.py) for one  *)
(* application: the extraction subgraph over the uploaded documents, each  *)
(* with its attempts and Gate 1; the mapping of documents to their types;  *)
(* the validation graph with its reflexion nodes and Gate 2; and what the  *)
(* node hands back when one of the two fails.                              *)
(*                                                                         *)
(* The two agents' models may answer anything the sets below offer.  The   *)
(* validation graph runs with the application's thread and a checkpointer, *)
(* and retry_transient runs it again after a transient error: what it then *)
(* finds in its thread is up to where the error came and to the library.   *)
(***************************************************************************)
EXTENDS DocumentRules, Sequences, SequencesExt

CONSTANTS
  Uploads,        (* sequences of uploaded documents, each an id and a type  *)
  Readings,       (* documents the extraction agent may read in a file       *)
  MaxAttempts,    (* MAX_EXTRACTION_RETRIES + 1                              *)
  MaxReruns,      (* max_retries of retry_transient around the validation    *)
  Answers,        (* final messages of the validation agent's model          *)
  Priors,         (* discrepancies the application may have from before      *)
  Required        (* documents its support category requires                 *)

ASSUME LimitsAssumption == MaxAttempts \in Nat \ {0} /\ MaxReruns \in Nat

(* Documents get a UUID each (document_collection.py, Document.id), but a  *)
(* list may have one several times: its reducer adds the list a node or a  *)
(* client hands back to the one it came from.  The entries are copies.     *)
ASSUME UploadsAssumption ==
  \A u \in Uploads :
    /\ u \in Seq(Range(u))
    /\ \A i, j \in DOMAIN u : u[i].id = u[j].id => u[i] = u[j]

(* Fields Gate 1 requires, of those the later gates read, are missing only *)
(* in documents it counts a missing field in.                              *)
ASSUME ReadingsAssumption ==
  \A d \in Readings :
    /\ d.missing \in Nat
    /\ d.missing = 0 =>
         /\ d.type \in IdentityDocuments => d.id # Absent
         /\ d.type = "credit_report" => d.score # Absent

(* Confidences are shares, as the agent's instructions ask for them.       *)
ASSUME AnswersAssumption ==
  \A a \in Answers : a.kind = "json" => a.base \in {Absent} \cup 0..100

(* The discrepancies from before are entries (see Entry).                  *)
ASSUME PriorsAssumption ==
  \A p \in Priors :
    /\ p \in Seq(Range(p))
    /\ \A i \in DOMAIN p :
         p[i] = [type |-> p[i].type, measure |-> p[i].measure, key |-> p[i].key,
                 class |-> p[i].class, status |-> p[i].status, question |-> p[i].question]

(* Absent is None: no question, and no document as Gate 3 reads it.        *)
ASSUME AbsentAssumption ==
  /\ Absent \notin [template : {"name_mismatch", "income_mismatch", "identity_mismatch",
                                "address_mismatch", "default"},
                    priority : {"critical", "high", "medium", "low"}]
  /\ \A d \in Readings : d.type \in IdentityDocuments /\ d.id # Absent =>
       Absent \notin {[id |-> d.id.number]}
                     \cup [id : {d.id.number}, state : {"valid", "invalid"}]

VARIABLES
  pc,         (* the node that runs, or "done"                               *)
  uploads,    (* uploaded_documents                                          *)
  index,      (* the document being extracted                                *)
  attempt,    (* attempts made at it                                         *)
  byId,       (* extracted_data of the subgraph, by document id              *)
  passedAll,  (* gate_passed_all                                             *)
  data,       (* extracted_data of the application, by document type         *)
  prior,      (* discrepancies of the application when the node starts       *)
  list,       (* discrepancies of the validation graph                       *)
  results,    (* validation_results                                          *)
  retries,    (* runs of the validation graph that failed                    *)
  gate,       (* gate_status as the validation graph leaves it               *)
  open        (* discrepancies of the application when the node has ended    *)

extraction == <<index, attempt, byId, passedAll>>
validating == <<list, results, retries, gate>>
vars == <<pc, uploads, extraction, data, prior, validating, open>>

Rules == INSTANCE DecisionRules WITH Missing <- Absent
Gate3 == INSTANCE EligibilityRules

NoData == [t \in {} |-> Absent]

(* validation_results: its confidence and recommendation, the types its    *)
(* model reported on and the confidence it gave them.                      *)
NoResults == [status |-> "none", confidence |-> Absent, recommendation |-> Absent,
              base |-> 0, types |-> {}]

Init ==
  /\ pc = "extract"
  /\ uploads \in Uploads
  /\ index = 1 /\ attempt = 0
  /\ byId = NoData
  /\ passedAll = TRUE
  /\ data = NoData
  /\ prior \in Priors
  /\ list = <<>>
  /\ results = NoResults
  /\ retries = 0
  /\ gate = "unknown"
  /\ open = prior

Current == uploads[index]

Put(f, key, value) == [k \in DOMAIN f \cup {key} |-> IF k = key THEN value ELSE f[k]]

-----------------------------------------------------------------------------
ReadDocument ==
  /\ pc = "extract" /\ index <= Len(uploads)
  /\ \E d \in Readings :
       /\ d.type = Current.type
       /\ DocumentIntegrity(d)
       /\ byId' = Put(byId, Current.id, d)
  /\ index' = index + 1 /\ attempt' = 0
  /\ UNCHANGED <<pc, uploads, passedAll, data, prior, validating, open>>

AttemptFails_StartsOver ==
  /\ pc = "extract" /\ index <= Len(uploads)
  /\ IF attempt + 1 < MaxAttempts
     THEN attempt' = attempt + 1 /\ UNCHANGED <<index, passedAll>>
     ELSE attempt' = 0 /\ passedAll' = FALSE /\ UNCHANGED index
  /\ UNCHANGED <<pc, uploads, byId, data, prior, validating, open>>

(* Gate 1 rejects what was read, nothing was read, or the agent raised:    *)
(* the document is tried again, and given up after the last attempt.       *)
AttemptFails ==
  /\ pc = "extract" /\ index <= Len(uploads)
  /\ IF attempt + 1 < MaxAttempts
     THEN attempt' = attempt + 1 /\ UNCHANGED <<index, passedAll>>
     ELSE attempt' = 0 /\ index' = index + 1 /\ passedAll' = FALSE
  /\ UNCHANGED <<pc, uploads, byId, data, prior, validating, open>>

(* What the node returns when extraction gave nothing it can use.          *)
Unprocessed ==
  /\ pc' = "done"
  /\ data' = NoData
  /\ results' = [NoResults EXCEPT !.status = "unprocessed", !.confidence = 0]

(* No client for the model, an agent that cannot be built, an exception,   *)
(* or the breaker's fallback that raises.                                  *)
ExtractionUnavailable ==
  /\ pc = "extract" /\ index = 1 /\ attempt = 0
  /\ Unprocessed
  /\ UNCHANGED <<uploads, extraction, prior, list, retries, gate, open>>

(* The subgraph's gate failed: the node drops what was extracted.          *)
ExtractionFails ==
  /\ pc = "extract" /\ index > Len(uploads) /\ ~passedAll
  /\ Unprocessed
  /\ UNCHANGED <<uploads, extraction, prior, list, retries, gate, open>>

(* The types of the documents, by the last entry that carries the id; of   *)
(* two documents of one type stays the one extracted later, for the first  *)
(* time: a dict keeps a key where it was first put.                        *)
LastOf(id) == CHOOSE i \in DOMAIN uploads :
  uploads[i].id = id /\ \A j \in DOMAIN uploads : uploads[j].id = id => j <= i

TypeOfId(id) == uploads[LastOf(id)].type

FirstOf(id) == CHOOSE i \in DOMAIN uploads :
  uploads[i].id = id /\ \A j \in DOMAIN uploads : uploads[j].id = id => i <= j

ByType_InListOrder ==
  [t \in { TypeOfId(id) : id \in DOMAIN byId } |->
     byId[CHOOSE id \in DOMAIN byId :
            /\ TypeOfId(id) = t
            /\ \A other \in DOMAIN byId : TypeOfId(other) = t => LastOf(other) <= LastOf(id)]]

ByType ==
  [t \in { TypeOfId(id) : id \in DOMAIN byId } |->
     byId[CHOOSE id \in DOMAIN byId :
            /\ TypeOfId(id) = t
            /\ \A other \in DOMAIN byId : TypeOfId(other) = t => FirstOf(other) <= FirstOf(id)]]

(* The validation graph starts with the application's discrepancies, which *)
(* its reducer adds to those its thread has.                               *)
StartValidation(thread) ==
  /\ pc' = "attempt_validation"
  /\ list' = thread \o prior
  /\ results' = NoResults

ExtractionPasses ==
  /\ pc = "extract" /\ index > Len(uploads) /\ passedAll
  /\ data' = ByType
  /\ \E thread \in {<<>>, prior} : StartValidation(thread)
  /\ UNCHANGED <<uploads, extraction, prior, retries, gate, open>>

-----------------------------------------------------------------------------
(* The validation graph.  A discrepancy is an entry of the list: its type  *)
(* and measure, the key its model wrote the type under, its class, its     *)
(* resolution, and the question the applicant is to answer.                *)
Entry(d, answer) ==
  [type |-> d.type, measure |-> d.measure, key |-> answer.key, class |-> answer.class,
   status |-> answer.status, question |-> Absent]

(* discrepancy.get("type") and discrepancy.get("discrepancy_type")         *)
TypeKey(e) == IF e.key \in {"type", "both"} THEN e.type ELSE "unknown"
KindKey(e) == IF e.key \in {"discrepancy_type", "both"} THEN e.type ELSE "unknown"

IsUnresolved(e) == e.status = "unresolved"
IsUnresolvedReal(e) == e.class = "real_discrepancy" /\ IsUnresolved(e)
IsCritical(e) == IsUnresolved(e) /\ KindKey(e) \in {"identity_mismatch", "income_mismatch"}

Count(Test(_)) == Cardinality({ i \in DOMAIN list : Test(list[i]) })

Report(answer) ==
  LET found == SetToSeq(CrossDocumentCompare(data))
  IN  [i \in DOMAIN found |-> Entry(found[i], answer)]

(* What the model reports as its documents' average confidence: its own    *)
(* number, or what the tool said of each (no more is told of the average   *)
(* than that it is not below all of them and not above all of them).       *)
Bases(answer) ==
  IF answer.base # Absent THEN {answer.base}
  ELSE LET said == { PerDocumentValidation(data[t]).confidence : t \in DOMAIN data }
       IN  { c \in 0..100 : \E low, high \in said : low <= c /\ c <= high }

(* attempt_validation_node: without data, without JSON in the answer and   *)
(* when the agent raises, nothing is reported.                             *)
AttemptValidation ==
  /\ pc = "attempt_validation"
  /\ \E answer \in Answers :
       IF data = NoData \/ answer.kind # "json"
       THEN UNCHANGED <<list, results>>
       ELSE /\ list' = list \o Report(answer)
            /\ \E base \in Bases(answer) :
                 results' = [results EXCEPT !.base = base, !.types = answer.types \cap DOMAIN data]
  /\ pc' = "evaluate_validation"
  /\ UNCHANGED <<uploads, extraction, data, prior, retries, gate, open>>

(* discrepancy_classify_tool: processing hands on no extraction confidence,*)
(* so its average is 0.                                                    *)
Classified(e) ==
  IF e.class = "unclassified"
  THEN [e EXCEPT !.class = ClassifyDiscrepancy(TypeKey(e), e.measure, 0)]
  ELSE e

EvaluateValidation_Replace ==
  /\ pc = "evaluate_validation"
  /\ list' = [i \in DOMAIN list |-> Classified(list[i])]
  /\ prior' = [i \in DOMAIN prior |-> Classified(prior[i])]
  /\ pc' = "critique_validation"
  /\ UNCHANGED <<uploads, extraction, data, results, retries, gate, open>>

(* The entries are classified in place, the application's own among them,  *)
(* and all of them are returned; the reducer appends what a node returns:  *)
(* every entry is there twice.                                             *)
EvaluateValidation ==
  /\ pc = "evaluate_validation"
  /\ LET classified == [i \in DOMAIN list |-> Classified(list[i])]
     IN  list' = classified \o classified
  /\ prior' = [i \in DOMAIN prior |-> Classified(prior[i])]
  /\ pc' = "critique_validation"
  /\ UNCHANGED <<uploads, extraction, data, results, retries, gate, open>>

NextAction_ConfidenceFirst(confidence, real) ==
  IF confidence >= 80 THEN "proceed"
  ELSE IF real > 0 THEN "request_clarification" ELSE "manual_review"

(* critique_validation_node and route_after_critique: retry_count is set   *)
(* by no node, so nothing is ever escalated.                               *)
NextAction(confidence, real) ==
  IF real > 0 THEN "request_clarification"
  ELSE IF confidence >= 80 THEN "proceed" ELSE "manual_review"

CritiqueValidation ==
  /\ pc = "critique_validation"
  /\ LET confidence == ValidationConfidence(results.base, Count(IsUnresolved), Count(IsCritical))
     IN  /\ results' = [results EXCEPT !.status = "validated", !.confidence = confidence,
             !.recommendation = ValidationRecommendation(confidence, Count(IsUnresolved))]
         /\ pc' = IF NextAction(confidence, Count(IsUnresolvedReal)) = "request_clarification"
                  THEN "generate_clarification" ELSE "finalize_validation"
  /\ UNCHANGED <<uploads, extraction, data, prior, list, retries, gate, open>>

Asked(e) ==
  IF IsUnresolvedReal(e) THEN [e EXCEPT !.question = ClarificationQuestion(TypeKey(e))] ELSE e

(* generate_clarification_node: again in place, again all returned.        *)
GenerateClarification ==
  /\ pc = "generate_clarification"
  /\ LET asked == [i \in DOMAIN list |-> Asked(list[i])]
     IN  list' = asked \o asked
  /\ prior' = [i \in DOMAIN prior |-> Asked(prior[i])]
  /\ pc' = "finalize_validation"
  /\ UNCHANGED <<uploads, extraction, data, results, retries, gate, open>>

(* finalize_validation_node: an unresolved discrepancy below 0.80 only     *)
(* makes the confidence borderline.                                        *)
FinalizeValidation ==
  /\ pc = "finalize_validation"
  /\ gate' = IF results.confidence >= 70 THEN "passed" ELSE "failed"
  /\ pc' = "gate_2_completeness"
  /\ UNCHANGED <<uploads, extraction, data, prior, list, results, retries, open>>

(* gate_2_completeness_node, and the end of the graph: processing_node     *)
(* takes its results and appends its discrepancies to the application's.   *)
Gate2Completeness ==
  /\ pc = "gate_2_completeness"
  /\ gate' = IF MissingItems(results.types, data, Required) = {} THEN gate ELSE "failed"
  /\ open' = prior \o list
  /\ pc' = "done"
  /\ UNCHANGED <<uploads, extraction, data, prior, list, results, retries>>

ValidationNodes == {"attempt_validation", "evaluate_validation", "critique_validation",
                    "generate_clarification", "finalize_validation", "gate_2_completeness"}

(* A transient error: retry_transient runs the graph again, with the same  *)
(* input, on what its thread has kept.                                     *)
ValidationRetries ==
  /\ pc \in ValidationNodes /\ retries < MaxReruns
  /\ retries' = retries + 1
  /\ \E kept \in {<<>>, list} : StartValidation(kept)
  /\ UNCHANGED <<uploads, extraction, data, prior, gate, open>>

(* Another error, or the last transient one: no confidence and nothing     *)
(* found, but the documents stay.  An open circuit skips validation with   *)
(* the same outcome.                                                       *)
ValidationFails ==
  /\ pc \in ValidationNodes
  /\ results' = [NoResults EXCEPT !.status = "failed", !.confidence = 0]
  /\ open' = prior
  /\ pc' = "done"
  /\ UNCHANGED <<uploads, extraction, data, prior, list, retries, gate>>

Extract == ReadDocument \/ AttemptFails \/ ExtractionUnavailable \/ ExtractionFails \/ ExtractionPasses

Validate == AttemptValidation \/ EvaluateValidation \/ CritiqueValidation
              \/ GenerateClarification \/ FinalizeValidation \/ Gate2Completeness

Next == Extract \/ Validate \/ ValidationRetries \/ ValidationFails

Spec == Init /\ [][Next]_vars

-----------------------------------------------------------------------------
Ended == pc = "done"

(* A document is uploaded where its id is for the first time.              *)
UploadsOf(t) ==
  { i \in DOMAIN uploads :
      uploads[i].type = t /\ \A j \in DOMAIN uploads : uploads[j].id = uploads[i].id => i <= j }

LastUpload(t) == CHOOSE i \in UploadsOf(t) : \A j \in UploadsOf(t) : j <= i

(* An application is decided on all its documents or on none: if one of    *)
(* them could not be read or failed Gate 1, at whichever of its places in  *)
(* the list, none of the others is handed on.  And when a type was         *)
(* uploaded more than once, what is handed on for it was read in the       *)
(* document uploaded last, however often the list repeats the older ones.  *)
AllOrNothing ==
  /\ Ended => data = NoData \/ DOMAIN data = { uploads[i].type : i \in DOMAIN uploads }
  /\ \A t \in DOMAIN data : data[t] = byId[uploads[LastUpload(t)].id]

(* The nodes of the validation graph from each one on, that one included.  *)
NodesFrom ==
  [extract |-> 7, attempt_validation |-> 6, evaluate_validation |-> 5,
   critique_validation |-> 4, generate_clarification |-> 3, finalize_validation |-> 2,
   gate_2_completeness |-> 1, done |-> 0]

(* How many steps are left at most: attempts at the documents, runs of the *)
(* validation graph, nodes of this one.                                    *)
StepsLeft == (Len(uploads) + 1 - index) * MaxAttempts - attempt
               + 6 * (MaxReruns - retries) + NodesFrom[pc]

(* The applicant, who waits for the answer, waits for no more than the     *)
(* attempts and runs the code allows: a retry of one kind never gives back *)
(* those of another, and after a failure the node always moves on.         *)
StepsRunOut == [][StepsLeft' \in 0..(StepsLeft - 1)]_vars

(* The file as Gate 3 sees it, and what it can read of it.                  *)
GateThreeFile ==
  [eid    |-> IF "emirates_id" \in DOMAIN data
              THEN [id |-> data["emirates_id"].id.number,
                    state |-> IF /\ data["emirates_id"].id.valid
                                 /\ ~Before(Day(data["emirates_id"].expiry), 0)
                              THEN "valid" ELSE "invalid"]
              ELSE Absent,
   credit |-> IF "credit_report" \in DOMAIN data
              THEN [id |-> data["credit_report"].id.number, score |-> data["credit_report"].score]
              ELSE Absent,
   form   |-> IF "application_form" \in DOMAIN data
              THEN [id |-> data["application_form"].id.number] ELSE Absent,
   bank   |-> IF "bank_statement" \in DOMAIN data
              THEN [balances |-> IF Reconciles(data["bank_statement"])
                                 THEN "reconcile" ELSE "off"]
              ELSE Absent]

ReadByGateThree ==
  /\ "emirates_id" \in DOMAIN data => /\ Usable(data["emirates_id"].expiry)
                                      /\ data["emirates_id"].expiry.written = "iso"
  /\ "bank_statement" \in DOMAIN data =>
       LET b == data["bank_statement"]
       IN  Garbled \notin {b.opening, b.closing, b.credits, b.debits}

(* The model's comparison tool finds what Gate 2 calls inconsistent.       *)
ToolsAgree ==
  LET items == { item[1] : item \in MissingItems(results.types, data, Required) }
      found == { d.type : d \in CrossDocumentCompare(data) }
  IN  /\ "identity" \in items => "identity_mismatch" \in found
      /\ "name" \in items => "name_mismatch" \in found

(* The gates and the tool were written apart.  On documents whose dates    *)
(* are written as Gate 3 reads them and whose balances are numbers, Gate 3 *)
(* finds nothing wrong in a document that passed Gate 1; when Gate 2       *)
(* passes a file with the Emirates ID and the form, Gate 3 passes it; and  *)
(* what Gate 2 calls inconsistent between documents, the model could have  *)
(* learnt from its tool and asked the applicant about.                     *)
GatesAgree ==
  /\ ToolsAgree
  /\ Ended /\ "emirates_id" \in DOMAIN data /\ ReadByGateThree =>
    LET verdict == Gate3!CheckHardEligibilityRules(GateThreeFile, {})
    IN  /\ verdict \in {"passed", "identity", "documents"}
        /\ results.status = "validated" /\ gate = "passed"
             /\ {"emirates_id", "application_form"} \subseteq Required
           => verdict = "passed"

SeenByDecision == { [type |-> KindKey(e), status |-> e.status] : e \in Range(open) }

(* A critical mismatch that the model reported as unresolved under         *)
(* discrepancy_type holds an approval back, whatever confidence the model  *)
(* stated, though the decision agent calls other types critical: with the  *)
(* best score the application is not approved.                             *)
CriticalNeverApproved ==
  Ended /\ (\E e \in Range(open) : IsCritical(e)) =>
    Rules!SynthesizeDecision(1000, IF results.confidence = Absent THEN 0
                                   ELSE 10 * results.confidence, SeenByDecision) # "approved"

(* Every real discrepancy that is unresolved when validation has ended has *)
(* its question for the applicant, those from before included, and the     *)
(* agent then never recommends to proceed to the decision.                 *)
RealIsAsked ==
  Ended /\ results.status = "validated" =>
    \A e \in Range(open) : IsUnresolvedReal(e) =>
      /\ e.question # Absent /\ e.question.template \in {TypeKey(e), "default"}
      /\ results.recommendation # "proceed_to_decision"

=============================================================================
