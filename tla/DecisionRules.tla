---------------------------- MODULE DecisionRules ----------------------------
(***************************************************************************)
(* The decision agent's four tools and its deterministic node              *)
(* (src/agents/decision/), and the rules of DecisionService                *)
(* (src/services/decision_service.py).                                     *)
(*                                                                         *)
(* Scores and confidences are in thousandths.  Missing stands for an       *)
(* argument the calling model left out or gave the wrong type: every tool  *)
(* answers such a call with an error instead of raising.  A discrepancy is *)
(* a record of its type and its resolution; explanations are reduced to    *)
(* the labels they are made of.                                            *)
(***************************************************************************)
EXTENDS Integers, Sequences

CONSTANT Missing

Decisions == {"approved", "soft_decline", "manual_review"}

(* The discrepancy types the decision agent calls critical.                *)
CriticalTypes == {"identity_match", "income_consistency"}

Critical(discrepancies) ==
  { d \in discrepancies : d.type \in CriticalTypes /\ d.status = "unresolved" }

DecideFrom(score, confidence, discrepancies) ==
  IF confidence < 800 \/ Critical(discrepancies) # {} THEN "manual_review"
  ELSE IF score > 600 THEN "approved"
  ELSE IF score < 400 THEN "soft_decline"
  ELSE "manual_review"

(* decision_logic_tool: the rules behind the checks of its arguments.      *)
DecisionLogic(score, confidence, discrepancies, category) ==
  IF Missing \in {score, confidence, discrepancies, category} THEN "error"
  ELSE DecideFrom(score, confidence, discrepancies)

(* synthesize_decision_node: the same rules on the state, a missing score  *)
(* and a missing confidence counting as zero.                              *)
SynthesizeDecision(score, confidence, discrepancies) ==
  DecideFrom(IF score = Missing THEN 0 ELSE score,
             IF confidence = Missing THEN 0 ELSE confidence,
             discrepancies)

(* should_use_react                                                        *)
ShouldUseReact(score, validated) ==
  IF score # Missing /\ validated THEN "react" ELSE "deterministic"

(* decision_explanation_tool: the labels put on score and confidence, and  *)
(* the text chosen by the decision.                                        *)
ScoreLabel(score) ==
  IF score >= 800 THEN "very strong"
  ELSE IF score >= 600 THEN "strong"
  ELSE IF score >= 400 THEN "moderate"
  ELSE IF score >= 200 THEN "below average" ELSE "low"

ConfidenceLabel(confidence) ==
  IF confidence >= 900 THEN "very high"
  ELSE IF confidence >= 800 THEN "high"
  ELSE IF confidence >= 700 THEN "moderate" ELSE "below the required threshold"

DecisionExplanation(decision, score, confidence, context) ==
  IF Missing \in {decision, score, confidence, context} THEN [text |-> "error"]
  ELSE IF decision = "approved"
  THEN [text |-> "approved", profile |-> ScoreLabel(score),
        documents |-> ConfidenceLabel(confidence)]
  ELSE IF decision = "soft_decline"
  THEN [text |-> "not approved", profile |-> ScoreLabel(score)]
  ELSE [text |-> "additional review", profile |-> ScoreLabel(score),
        documents |-> ConfidenceLabel(confidence)]

(* enablement_recommendation_tool, in the order of its appends.            *)
EnablementRecommendations(context, score, decision) ==
  IF Missing \in {context, score, decision} THEN <<>>
  ELSE IF decision = "approved"
  THEN (IF context.status \in {"unemployed", "part_time"} THEN <<"job_matching">> ELSE <<>>)
       \o (IF context.credit < 650 THEN <<"financial_literacy">> ELSE <<>>)
       \o (IF context.dependents THEN <<"childcare_support">> ELSE <<>>)
       \o <<"upskilling">>
  ELSE IF decision = "manual_review"
  THEN <<"documentation_assistance", "caseworker_consultation">>
  ELSE <<"financial_counseling", "reapplication_guidance">>

(* decision_formatting_tool: the card.  Anything that is neither approved  *)
(* nor declined is shown as under review, but an unknown decision gets the *)
(* next steps of a decline.                                                *)
DecisionFormatting(decision, explanation, recommendations, context) ==
  IF Missing \in {decision, explanation, context}
  THEN [title |-> "Error", decision |-> "error", steps |-> "none", programs |-> <<>>]
  ELSE [title |-> IF decision = "approved" THEN "Application Approved"
                  ELSE IF decision = "soft_decline" THEN "Application Not Approved"
                  ELSE "Application Under Review",
        decision |-> decision,
        steps |-> IF decision = "approved" THEN "disbursement"
                  ELSE IF decision = "manual_review" THEN "caseworker"
                  ELSE "reapply",
        programs |-> recommendations]

(* format_decision_card: when the explanation is itself JSON, its decision *)
(* is used only where the caller gave none.                                *)
FormatDecisionCard_ExplanationWins(decision, explanation, recommendations, context) ==
  DecisionFormatting(
    IF explanation # Missing /\ explanation.json THEN explanation.decision ELSE decision,
    explanation, recommendations, context)

FormatDecisionCard(decision, explanation, recommendations, context) ==
  DecisionFormatting(
    IF decision = Missing /\ explanation # Missing /\ explanation.json
    THEN explanation.decision ELSE decision,
    explanation, recommendations, context)

(* DecisionService._apply_decision_rules on the applicant's unresolved     *)
(* cross-document validations, each with a status and a confidence.        *)
HasCriticalIssues(unresolved) ==
  \E v \in unresolved : v.status = "discrepancies_found" /\ v.confidence < 500

ApplyDecisionRules_ScoreOnly(score, unresolved) ==
  IF score >= 700 THEN "approved"
  ELSE IF score >= 500 THEN "manual_review" ELSE "soft_decline"

ApplyDecisionRules(score, unresolved) ==
  IF score >= 700 /\ ~HasCriticalIssues(unresolved) THEN "approved"
  ELSE IF score >= 500 \/ (unresolved # {} /\ ~HasCriticalIssues(unresolved))
  THEN "manual_review"
  ELSE "soft_decline"

(* The thresholds decision_node falls back on without any service.         *)
InlineDecision(score) ==
  IF score >= 700 THEN "approved"
  ELSE IF score >= 500 THEN "manual_review" ELSE "soft_decline"
=============================================================================
