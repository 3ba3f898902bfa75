---------------------------- MODULE DecisionPhase ----------------------------
(***************************************************************************)
(* decision_node (src/agents/orchestrator/phases/decision.py) for one      *)
(* application: the eligibility agent and Gate 3, the decision agent, the  *)
(* services that stand in when an agent raises, the write of the result to *)
(* the application row, and the REST endpoint that may compute a score for *)
(* the same row meanwhile.                                                 *)
(*                                                                         *)
(* The two agents run behind a circuit breaker and a retry (module         *)
(* CircuitBreaker): here a call answers or raises.  The decision agent's   *)
(* model may answer anything (DecisionAnswers).  Each await on the         *)
(* database is the end of an action; a row's writer commits only the       *)
(* columns it changed with respect to what its session had loaded.         *)
(***************************************************************************)
EXTENDS EligibilityRules, DecisionRules

CONSTANTS
  Files,           (* extracted data an application may arrive with          *)
  Validations,     (* what validation may have left in the state             *)
  ModelAnswers,    (* probabilities the trained model may give; {} without   *)
                   (* models/eligibility_model.pkl                           *)
  Unresolved,      (* possible sets of unresolved cross-document validations *)
  DecisionAnswers  (* final messages of the decision agent's model           *)

(* No confidence is left where nothing was validated (processing.py).      *)
ASSUME ValidationsAssumption ==
  \A v \in Validations :
    /\ v.validated \in BOOLEAN
    /\ v.confidence \in {Missing} \cup 0..1000
    /\ ~v.validated => v.confidence = Missing

(* Missing is None: no decision, number or dictionary.                     *)
ASSUME MissingAssumption == Missing \notin Decisions \cup Int

(* The trained model gives a probability, and a family is counted.         *)
ASSUME NumbersAssumption ==
  /\ ModelAnswers \subseteq 0..1000
  /\ \A f \in Files : \A form \in {f.form, f.info} : Present(form) => form.family \in Nat

VARIABLES
  pc,          (* where decision_node is                                     *)
  file,        (* extracted_data and applicant_info                          *)
  validation,  (* validation_results and discrepancies                       *)
  services,    (* services injected into the nodes                           *)
  unresolved,  (* unresolved rows of cross_document_validation               *)
  gate,        (* Gate 3's verdict, "none" before it                         *)
  score,       (* eligibility_score                                          *)
  source,      (* who computed it; read by properties only                   *)
  decision,    (* decision and what its explanation is made of               *)
  row,         (* the application's row                                      *)
  loaded,      (* the row as the chat request's session loaded it            *)
  seen,        (* the score make_decision read                               *)
  endpoint     (* POST /eligibility/{id}/compute                             *)

inputs == <<file, validation, services, unresolved>>
vars == <<pc, inputs, gate, score, source, decision, row, loaded, seen, endpoint>>

NoRow == [score |-> Missing, decision |-> Missing, confidence |-> Missing]

(* A decision as the node holds it: its value, who took it, and its        *)
(* explanation (a plain text, or JSON that states a decision of its own).  *)
Taken(value, by, explanation) == [value |-> value, by |-> by, explanation |-> explanation]

PlainText == [json |-> FALSE, decision |-> Missing]

Explanations ==
  {PlainText}
  \cup { [json |-> TRUE, decision |-> a.decision] : a \in {x \in DecisionAnswers : x.kind = "fenced"} }

Undecided == Taken("manual_review", "default", PlainText)

Init ==
  /\ pc = "eligibility"
  /\ validation \in Validations
  /\ file \in Files
  /\ validation.validated = FALSE => file.form = Absent /\ file.eid = Absent
  /\ services \in SUBSET {"eligibility", "decision"}
  /\ unresolved \in Unresolved
  /\ gate = "none"
  /\ score = 500
  /\ source = "default"
  /\ decision = Undecided
  /\ row \in {NoRow, [NoRow EXCEPT !.score = 500]}
  /\ loaded = row
  /\ seen = Missing
  /\ endpoint = "idle"

(* The keys Gate 3 looks document types up in: validation never puts one   *)
(* there, its results are kept under overall_confidence, status and        *)
(* per_document_validation.                                                *)
ValidationKeys(v) == IF v.validated THEN {"overall_confidence"} ELSE {}

Confidence == IF validation.confidence = Missing THEN 0 ELSE validation.confidence

-----------------------------------------------------------------------------
(* eligibility_finalize_node and decision_node after it: a failed gate is  *)
(* final only below 0.40.                                                  *)
GateDeclines_Late(verdict, s) == verdict # "passed" /\ s < 300

GateDeclines(verdict, s) == verdict # "passed" /\ s < 400

(* eligibility_react_node, then eligibility_gate_node: predict, adjust and *)
(* run Gate 3.  Features that cannot be built make the tools' path raise,  *)
(* and its fallback, which builds them again, raise as well.               *)
EligibilityAnswers ==
  /\ pc = "eligibility"
  /\ ~FeaturesRaise(file)
  /\ LET f == BuildApplicantFeatures(file)
     IN  \E probability \in MlModelPredict(f, ModelAnswers) :
           score' = AdjustFactorWeighting(probability, f)
  /\ gate' = CheckHardEligibilityRules(file, ValidationKeys(validation))
  /\ source' = "agent"
  /\ IF GateDeclines(gate', score')
     THEN /\ decision' = Taken("soft_decline", "gate", PlainText)
          /\ pc' = "persist"
     ELSE pc' = "decision" /\ UNCHANGED decision
  /\ UNCHANGED <<inputs, row, loaded, seen, endpoint>>

(* The agent raises, or its breaker is open.                               *)
EligibilityRaises ==
  /\ pc = "eligibility"
  /\ pc' = IF "eligibility" \in services THEN "eligibilityService" ELSE "decision"
  /\ UNCHANGED <<inputs, gate, score, source, decision, row, loaded, seen, endpoint>>

(* EligibilityService.compute_eligibility: it writes the row's score and   *)
(* hands it to the node.  If it fails the node keeps the score it has.     *)
ServiceComputes ==
  /\ pc = "eligibilityService"
  /\ ~FeaturesRaise(file)
  /\ score' = ComputeScore(ServiceFeatures(file))
  /\ source' = "service"
  /\ row' = [row EXCEPT !.score = score']
  /\ pc' = "decision"
  /\ UNCHANGED <<inputs, gate, decision, loaded, seen, endpoint>>

ServiceComputeFails ==
  /\ pc = "eligibilityService"
  /\ pc' = "decision"
  /\ UNCHANGED <<inputs, gate, score, source, decision, row, loaded, seen, endpoint>>

-----------------------------------------------------------------------------
(* _build_applicant_context looks the applicant up at the top level of     *)
(* extracted_data, where only document types are: the defaults always.     *)
DefaultContext == [status |-> "unknown", credit |-> 0, dependents |-> FALSE,
                   category |-> "unknown", family |-> 1]

ASSUME ExplanationsAssumption == Missing \notin Explanations \cup {DefaultContext}

(* decision_react_node on one answer of the model: JSON whose decision is  *)
(* any text or missing; a text that is not JSON, fenced JSON included,     *)
(* becomes a manual review with that text as explanation; anything else    *)
(* raises inside the node, and _fallback_decision, whose session cannot be *)
(* iterated, ends in a manual review as well.  A model that follows its    *)
(* instructions reports what decision_logic_tool told it.                  *)
ReactDecision(answer) ==
  IF answer.kind = "tool"
  THEN Taken(DecisionLogic(score, Confidence, validation.discrepancies, answer.category),
             "tool", PlainText)
  ELSE IF answer.kind = "json" THEN Taken(answer.decision, "model", PlainText)
  ELSE IF answer.kind = "fenced"
  THEN Taken("manual_review", "model", [json |-> TRUE, decision |-> answer.decision])
  ELSE IF answer.kind = "text" THEN Taken("manual_review", "model", PlainText)
  ELSE Taken("manual_review", "fallback", PlainText)

(* A decision that is not a text makes the node raise when it composes its *)
(* message: the graph run fails and nothing is written.                    *)
Decided(d) ==
  /\ decision' = d
  /\ pc' = IF d.value = Missing THEN "raised" ELSE "persist"

DecisionAgentAnswers ==
  /\ pc = "decision"
  /\ IF ShouldUseReact(score, validation.validated) = "react"
     THEN \E answer \in DecisionAnswers : Decided(ReactDecision(answer))
     ELSE Decided(Taken(SynthesizeDecision(score, Confidence, validation.discrepancies),
                        "rules", PlainText))
  /\ UNCHANGED <<inputs, gate, score, source, row, loaded, seen, endpoint>>

(* The agent's graph raises, or its breaker is open: the service decides   *)
(* if there is one, otherwise the thresholds in the node.                  *)
DecisionAgentRaises ==
  /\ pc = "decision"
  /\ IF "decision" \in services
     THEN pc' = "readRow" /\ UNCHANGED decision
     ELSE Decided(Taken(InlineDecision(score), "inline", PlainText))
  /\ UNCHANGED <<inputs, gate, score, source, row, loaded, seen, endpoint>>

(* DecisionService.make_decision reads the row; without a score it raises  *)
(* and the default manual review stands.                                   *)
MakeDecisionReads ==
  /\ pc = "readRow"
  /\ seen' = row.score
  /\ pc' = IF row.score = Missing THEN "persist" ELSE "decide"
  /\ UNCHANGED <<inputs, gate, score, source, decision, row, loaded, endpoint>>

(* ... then the validations, and commits the decision it reaches.          *)
MakeDecisionWrites ==
  /\ pc = "decide"
  /\ LET d == ApplyDecisionRules(seen, unresolved)
     IN  /\ row' = [row EXCEPT !.decision = d]
         /\ Decided(Taken(d, "service", PlainText))
  /\ UNCHANGED <<inputs, gate, score, source, loaded, seen, endpoint>>

-----------------------------------------------------------------------------
(* An attribute set to the value the session had loaded is not written.    *)
Write(column, value) == IF value = loaded[column] THEN row[column] ELSE value

(* DecisionService.persist_decision, by the chat request the node ran for. *)
(* The gate's early return leaves validation_confidence as processing left *)
(* it in the state.                                                        *)
PersistDecision ==
  /\ pc = "persist"
  /\ row' = [score |-> Write("score", score),
             decision |-> Write("decision", decision.value),
             confidence |-> Write("confidence", Confidence)]
  /\ pc' = "end"
  /\ UNCHANGED <<inputs, gate, score, source, decision, loaded, seen, endpoint>>

(* POST /eligibility/{id}/compute: the row is read, the features are read  *)
(* from six tables, the score is written.                                  *)
EndpointReads ==
  /\ endpoint = "idle"
  /\ endpoint' = "computing"
  /\ UNCHANGED <<pc, inputs, gate, score, source, decision, row, loaded, seen>>

EndpointWrites ==
  /\ endpoint = "computing"
  /\ ~FeaturesRaise(file)
  /\ row' = [row EXCEPT !.score = ComputeScore(ServiceFeatures(file))]
  /\ endpoint' = "done"
  /\ UNCHANGED <<pc, inputs, gate, score, source, decision, loaded, seen>>

NodeStep ==
  \/ EligibilityAnswers \/ EligibilityRaises \/ ServiceComputes \/ ServiceComputeFails
  \/ DecisionAgentAnswers \/ DecisionAgentRaises
  \/ MakeDecisionReads \/ MakeDecisionWrites \/ PersistDecision

Next == NodeStep \/ EndpointReads \/ EndpointWrites

Spec == Init /\ [][Next]_vars
-----------------------------------------------------------------------------
(* An applicant the eligibility agent scored below 0.40 is declined in the *)
(* database, whatever the decision agent's model would have said: no file  *)
(* gets past Gate 3 after validation, and the early return of the node     *)
(* precedes the model.                                                     *)
DeclineIsFirm ==
  pc = "end" /\ source = "agent" /\ score < 400 => row.decision = "soft_decline"

(* An approval is the model's own word, or its tool's, for a score above   *)
(* 0.60 without critical discrepancy, and in both cases of a validated     *)
(* file: a thread whose processing was lost is left to a person while the  *)
(* agents answer.  Or it rests on a score of 0.70: the node's own, or the  *)
(* row's as make_decision read it, with no validation of very low          *)
(* confidence left unresolved.                                             *)
ApprovalIsAccounted ==
  decision.value = "approved" =>
    \/ decision.by = "model" /\ validation.validated
    \/ /\ decision.by \in {"tool", "rules"} /\ validation.validated
       /\ score > 600 /\ Confidence >= 800 /\ Critical(validation.discrepancies) = {}
    \/ decision.by = "inline" /\ score >= 700
    \/ decision.by = "service" /\ seen >= 700 /\ ~HasCriticalIssues(unresolved)

(* The row ends with the decision taken, and the score it was taken from   *)
(* unless a request computed another, although the write skips the columns *)
(* that equal what the session once loaded.  The card shown carries that   *)
(* decision, also when the explanation is JSON that states another one,    *)
(* and refers to a caseworker exactly when its programmes do.              *)
Card ==
  FormatDecisionCard(decision.value, decision.explanation,
                     EnablementRecommendations(DefaultContext, score, decision.value),
                     DefaultContext)

CardShowsTheRow ==
  pc = "end" =>
    /\ row.decision = decision.value
    /\ endpoint = "idle" => row.score = score
    /\ Card.decision = row.decision
    /\ Card.steps = "caseworker" <=>
         \E i \in DOMAIN Card.programs : Card.programs[i] = "caseworker_consultation"

(* The explanations given of a score, the agent's and the service's, do    *)
(* not contradict the decision taken from it, although explanations and    *)
(* decisions compare it with thresholds of their own.                      *)
AdviceIsFollowed ==
  /\ source = "agent" /\ decision.by \in {"tool", "rules", "gate"} =>
       LET advice == EligibilityExplanation(score, RuleFactors(BuildApplicantFeatures(file)))
       IN  /\ decision.value = "approved" => advice.recommendation = "proceed_to_decision"
           /\ decision.value = "soft_decline" => advice.recommendation = "likely_ineligible"
  /\ decision.by = "tool" /\ decision.value = "approved" =>
       LET said == DecisionExplanation(decision.value, score, Confidence, DefaultContext)
       IN  said.profile \in {"strong", "very strong"} /\ said.documents \in {"high", "very high"}
  /\ decision.by = "service" /\ decision.value = "approved" =>
       ServiceExplanation(seen).band = "meets"

(* What the gate's own documentation says of validation_results, a map     *)
(* from document type to result: then a valid, consistent file passes.     *)
ConsistentFilePassesGateThree ==
  gate # "none" /\ EmiratesIdValidity(file) = "valid" /\ CreditScoreInRange(file)
    /\ IdentityConsistent(file) /\ BankStatementReconciles(file) /\ Present(file.form)
    => gate = "passed"
=============================================================================
