------------------------ MODULE DecisionPhaseProofs ------------------------
(***************************************************************************)
(* Theorems about DecisionPhase, for any files, answers of the models and  *)
(* unresolved validations.                                                 *)
(***************************************************************************)
EXTENDS DecisionPhase, TLAPS

(* The row keeps its columns, and the session's copy has no decision: what *)
(* the node decides is always written.                                     *)
RowInv ==
  /\ row = [score |-> row.score, decision |-> row.decision, confidence |-> row.confidence]
  /\ loaded.decision = Missing
  /\ validation \in Validations
  /\ validation.validated = FALSE => file.eid = Absent

(* A score of the agent below 0.40 is a decline from the step that sets it *)
(* on, and the node goes straight to the write.                            *)
DeclineInv ==
  source = "agent" /\ score < 400 =>
    /\ decision.value = "soft_decline" /\ pc \in {"persist", "end"}
    /\ pc = "end" => row.decision = "soft_decline"

(* Only the first step takes the eligibility agent's answer.               *)
SourceInv == pc = "eligibility" => source = "default" /\ decision = Undecided

(* A service decides on the score it has read.                             *)
DeciderInv ==
  /\ pc \in {"eligibility", "eligibilityService", "decision", "readRow", "decide"} =>
       decision = Undecided
  /\ ApprovalIsAccounted

(* Every score is one: the rules clamp theirs, and the model's is adjusted *)
(* and clamped.                                                            *)
ScoreInv == file \in Files /\ score \in 0..1000

(* Until the node writes, the row has the score the session loaded or the  *)
(* one its own service computed, unless the endpoint runs.  What it writes *)
(* is a decision, and the session has not seen one.                        *)
WriteInv ==
  /\ decision.explanation \in Explanations
  /\ pc \in {"persist", "end"} => decision.value # Missing
  /\ pc = "end" => row.decision = decision.value
  /\ endpoint = "idle" =>
       /\ row.score \in {loaded.score, score}
       /\ pc \in {"eligibility", "eligibilityService"} => row.score = loaded.score
       /\ pc = "end" => row.score = score

(* Tools, rules and gate decline below 0.40 only, the gate always.         *)
GroundsInv ==
  /\ decision.by \in {"tool", "rules", "gate"} /\ decision.value = "soft_decline" => score < 400
  /\ decision.by = "gate" => decision.value = "soft_decline"

IInv == RowInv /\ SourceInv /\ DeclineInv /\ DeciderInv /\ ScoreInv /\ WriteInv /\ GroundsInv

-----------------------------------------------------------------------------
(* check_hard_eligibility_rules: no file passes Gate 3 in the graph.       *)
LEMMA NobodyPassesGateThree ==
  ASSUME RowInv
  PROVE  CheckHardEligibilityRules(file, ValidationKeys(validation)) # "passed"
<1>1. CASE validation.validated
  <2>1. ~RequiredDocumentsPresent(file, ValidationKeys(validation))
    BY <1>1 DEF RequiredDocumentsPresent, ValidationKeys
  <2> QED BY <2>1 DEF CheckHardEligibilityRules
<1>2. CASE ~validation.validated
  <2>1. EmiratesIdValidity(file) = "not_present"
    BY <1>2, ValidationsAssumption DEF RowInv, EmiratesIdValidity, Present
  <2> QED BY <2>1 DEF CheckHardEligibilityRules
<1> QED BY <1>1, <1>2

LEMMA UndecidedIsReview ==
  Undecided.value = "manual_review" /\ Undecided.by = "default"
BY DEF Undecided, Taken

(* The rules approve a validated file only, above 0.60 and 0.80.           *)
LEMMA RulesApprove ==
  ASSUME RowInv, NEW s,
         DecideFrom(s, Confidence, validation.discrepancies) = "approved"
  PROVE  /\ validation.validated /\ s > 600 /\ Confidence >= 800
         /\ Critical(validation.discrepancies) = {}
<1>1. /\ ~(Confidence < 800) /\ s > 600 /\ Critical(validation.discrepancies) = {}
  BY DEF DecideFrom
<1>2. Confidence \in 0..1000 /\ (~validation.validated => Confidence = 0)
  BY ValidationsAssumption DEF Confidence, RowInv
<1>3. validation.validated \in BOOLEAN
  BY ValidationsAssumption DEF RowInv
<1> QED BY <1>1, <1>2, <1>3

-----------------------------------------------------------------------------
(* The arithmetic: whatever is in a file, points are integers.             *)
LEMMA ClampedScore == ASSUME NEW n \in Int PROVE Clamp(n) \in 0..1000
BY DEF Clamp

LEMMA Points ==
  /\ \A s : CreditPoints(s) \in Int /\ NetWorthPoints(s) \in Int /\ FamilyPoints(s) \in Int
            /\ PaymentPoints(s) \in Int /\ ServiceEmploymentPoints(s) \in Int
  /\ \A s : CategoryAdjustment(s) \in Int
  /\ \A a, b : HousingPoints(a, b) \in Int /\ EmploymentPoints(a, b) \in Int
               /\ SavingsPoints(a, b) \in Int
  /\ \A a, b : \A high \in Int : DebtPoints(a, b, high) \in Int
<1>1. \A s : CreditPoints(s) \in Int /\ NetWorthPoints(s) \in Int /\ FamilyPoints(s) \in Int
            /\ PaymentPoints(s) \in Int /\ ServiceEmploymentPoints(s) \in Int
  BY DEF CreditPoints, NetWorthPoints, FamilyPoints, PaymentPoints, ServiceEmploymentPoints
<1>2. \A s : CategoryAdjustment(s) \in Int
  BY DEF CategoryAdjustment
<1>3. \A a, b : HousingPoints(a, b) \in Int /\ EmploymentPoints(a, b) \in Int
               /\ SavingsPoints(a, b) \in Int
  BY DEF HousingPoints, EmploymentPoints, SavingsPoints
<1>4. \A a, b : \A high \in Int : DebtPoints(a, b, high) \in Int
  BY DEF DebtPoints
<1> QED BY <1>1, <1>2, <1>3, <1>4

LEMMA RuleScore == ASSUME NEW f PROVE RuleBasedPredict(f) \in 0..1000
<1> DEFINE p == RuleFactors(f)
<1>1. /\ p.credit \in Int /\ p.debt \in Int /\ p.employment \in Int /\ p.netWorth \in Int
      /\ p.category \in Int /\ p.family \in Int /\ p.housing \in Int
  BY Points DEF RuleFactors
<1> HIDE DEF p
<1>2. 450 + p.credit + p.debt + p.employment + p.netWorth + p.category + p.family + p.housing \in Int
  BY <1>1
<1> QED BY <1>2, ClampedScore DEF RuleBasedPredict, p

LEMMA ServiceScore == ASSUME NEW f PROVE ComputeScore(f) \in 0..1000
<1> DEFINE valid == IF f.validId THEN 100 ELSE 0
           defaulted == IF f.defaulted > 0 THEN 200 ELSE 0
           credit == CreditPoints(f.credit)
           late == PaymentPoints(f.late)
           savings == SavingsPoints(f.balance, f.income)
           debt == DebtPoints(f.debt, f.base, -50)
           employment == ServiceEmploymentPoints(f.months)
           worth == NetWorthPoints(f.netWorth)
           category == CategoryAdjustment(f.category)
           family == FamilyPoints(f.family)
           housing == HousingPoints(f.housing, f.base)
<1>1. /\ credit \in Int /\ late \in Int /\ savings \in Int /\ debt \in Int
      /\ employment \in Int /\ worth \in Int /\ category \in Int /\ family \in Int
      /\ housing \in Int
  BY Points
<1>2. valid \in Int /\ defaulted \in Int
  OBVIOUS
<1>3. ComputeScore(f) = Clamp(400 + valid + credit + late - defaulted + savings + debt
                                  + employment + worth + category + family + housing)
  BY DEF ComputeScore
<1> HIDE DEF valid, defaulted, credit, late, savings, debt, employment, worth, category, family, housing
<1>4. 400 + valid + credit + late - defaulted + savings + debt + employment + worth + category
        + family + housing \in Int
  BY <1>1, <1>2
<1> QED BY <1>3, <1>4, ClampedScore

LEMMA AdjustedScore ==
  ASSUME NEW s \in 0..1000, NEW f, f.family \in Int
  PROVE  AdjustFactorWeighting(s, f) \in 0..1000
<1>1. CategoryAdjustment(f.category) \in Int
  BY Points
<1>2. CategoryAdjustment(f.category) \div 2 \in Int
  BY <1>1
<1>3. Adjustment(f) \in Int
  BY <1>2 DEF Adjustment
<1> QED BY <1>3, ClampedScore DEF AdjustFactorWeighting

LEMMA BuiltFamily ==
  ASSUME NEW f \in Files PROVE BuildApplicantFeatures(f).family \in Int
<1>1. FormOf(f).family \in Int
  BY NumbersAssumption DEF FormOf, BlankForm
<1> QED BY <1>1 DEF BuildApplicantFeatures

LEMMA AgentScore ==
  ASSUME NEW f \in Files,
         NEW probability \in MlModelPredict(BuildApplicantFeatures(f), ModelAnswers)
  PROVE  AdjustFactorWeighting(probability, BuildApplicantFeatures(f)) \in 0..1000
<1>1. RuleBasedPredict(BuildApplicantFeatures(f)) \in 0..1000
  BY RuleScore
<1>2. probability \in 0..1000
  BY <1>1, NumbersAssumption DEF MlModelPredict
<1>3. BuildApplicantFeatures(f).family \in Int
  BY BuiltFamily
<1> QED BY <1>2, <1>3, AdjustedScore

-----------------------------------------------------------------------------
LEMMA InitIInv == Init => IInv
<1> SUFFICES ASSUME Init PROVE IInv
  OBVIOUS
<1>1. RowInv
  BY DEF Init, RowInv, NoRow
<1>2. SourceInv /\ DeclineInv
  BY DEF Init, SourceInv, DeclineInv
<1>3. DeciderInv
  BY UndecidedIsReview DEF Init, DeciderInv, ApprovalIsAccounted
<1>4. ScoreInv
  BY DEF Init, ScoreInv
<1>5. WriteInv /\ GroundsInv
  BY DEF Init, WriteInv, GroundsInv, Undecided, Taken, Explanations
<1> QED BY <1>1, <1>2, <1>3, <1>4, <1>5 DEF IInv

LEMMA RowInvNext == ASSUME RowInv, [Next]_vars PROVE RowInv'
<1>1. UNCHANGED <<loaded, validation, file>>
  BY DEF Next, NodeStep, EligibilityAnswers, EligibilityRaises, ServiceComputes, ServiceComputeFails,
    DecisionAgentAnswers, DecisionAgentRaises, MakeDecisionReads, MakeDecisionWrites,
    PersistDecision, EndpointReads, EndpointWrites, vars, inputs
<1>2. \/ row' = row
      \/ \E n : row' = [row EXCEPT !.score = n] \/ row' = [row EXCEPT !.decision = n]
      \/ \E a, b, c : row' = [score |-> a, decision |-> b, confidence |-> c]
  BY DEF Next, NodeStep, EligibilityAnswers, EligibilityRaises, ServiceComputes, ServiceComputeFails,
    DecisionAgentAnswers, DecisionAgentRaises, MakeDecisionReads, MakeDecisionWrites,
    PersistDecision, EndpointReads, EndpointWrites, vars, inputs
<1>3. row' = [score |-> row'.score, decision |-> row'.decision, confidence |-> row'.confidence]
  BY <1>2 DEF RowInv
<1> QED BY <1>1, <1>3 DEF RowInv

LEMMA SourceInvNext == ASSUME SourceInv, [Next]_vars PROVE SourceInv'
<1>1. CASE NodeStep
  <2>1. pc' # "eligibility"
    BY <1>1 DEF NodeStep, EligibilityAnswers, EligibilityRaises, ServiceComputes,
      ServiceComputeFails, DecisionAgentAnswers, DecisionAgentRaises, MakeDecisionReads,
      MakeDecisionWrites, PersistDecision, Decided
  <2> QED BY <2>1 DEF SourceInv
<1>2. CASE EndpointReads \/ EndpointWrites \/ UNCHANGED vars
  <2>1. UNCHANGED <<pc, source, decision>>
    BY <1>2 DEF EndpointReads, EndpointWrites, vars
  <2> QED BY <2>1 DEF SourceInv
<1> QED BY <1>1, <1>2 DEF Next

(* Steps of the other places do not touch the score; only the write and    *)
(* the endpoint touch the row once the node has declined.                  *)
LEMMA DeclineInvNext ==
  ASSUME RowInv, SourceInv, DeclineInv, [Next]_vars
  PROVE  DeclineInv'
<1>1. CASE EligibilityAnswers
  <2>1. gate' # "passed" /\ source' = "agent"
    BY <1>1, NobodyPassesGateThree DEF EligibilityAnswers
  <2>2. score' < 400 => decision' = Taken("soft_decline", "gate", PlainText) /\ pc' = "persist"
    BY <1>1, <2>1 DEF EligibilityAnswers, GateDeclines
  <2> QED BY <2>2 DEF DeclineInv, Taken
<1>2. CASE EligibilityRaises
  BY <1>2 DEF EligibilityRaises, SourceInv, DeclineInv
<1>3. CASE ServiceComputes
  BY <1>3 DEF ServiceComputes, DeclineInv
<1>4. CASE \/ ServiceComputeFails \/ DecisionAgentAnswers \/ DecisionAgentRaises
           \/ MakeDecisionReads \/ MakeDecisionWrites
  <2>1. pc \notin {"persist", "end"} /\ score' = score /\ source' = source
    BY <1>4 DEF ServiceComputeFails, DecisionAgentAnswers, DecisionAgentRaises, MakeDecisionReads,
      MakeDecisionWrites
  <2> QED BY <2>1 DEF DeclineInv
<1>5. CASE PersistDecision
  <2>1. UNCHANGED <<score, source, decision>> /\ pc' = "end"
    BY <1>5 DEF PersistDecision
  <2>2. decision.value = "soft_decline" => row'.decision = "soft_decline"
    BY <1>5, MissingAssumption DEF PersistDecision, Write, RowInv, Decisions
  <2> QED BY <2>1, <2>2 DEF DeclineInv
<1>6. CASE EndpointReads \/ EndpointWrites \/ UNCHANGED vars
  <2>1. UNCHANGED <<score, source, decision, pc>>
    BY <1>6 DEF EndpointReads, EndpointWrites, vars
  <2>2. row' = row \/ \E n : row' = [row EXCEPT !.score = n]
    BY <1>6 DEF EndpointReads, EndpointWrites, vars
  <2>3. row'.decision = row.decision
    BY <2>2 DEF RowInv
  <2> QED BY <2>1, <2>3 DEF DeclineInv
<1> QED BY <1>1, <1>2, <1>3, <1>4, <1>5, <1>6 DEF Next, NodeStep

LEMMA DeciderInvNext ==
  ASSUME RowInv, DeciderInv, [Next]_vars
  PROVE  DeciderInv'
<1>0. UNCHANGED <<validation, unresolved>>
  BY DEF Next, NodeStep, EligibilityAnswers, EligibilityRaises, ServiceComputes, ServiceComputeFails,
    DecisionAgentAnswers, DecisionAgentRaises, MakeDecisionReads, MakeDecisionWrites,
    PersistDecision, EndpointReads, EndpointWrites, vars, inputs
<1>1. ASSUME decision' = Undecided PROVE DeciderInv'
  BY <1>1, UndecidedIsReview DEF DeciderInv, ApprovalIsAccounted
<1>2. CASE EligibilityAnswers
  <2>1. CASE GateDeclines(gate', score')
    BY <1>2, <2>1 DEF EligibilityAnswers, DeciderInv, ApprovalIsAccounted, Taken
  <2>2. CASE ~GateDeclines(gate', score')
    BY <1>2, <2>2, <1>1 DEF EligibilityAnswers, DeciderInv
  <2> QED BY <2>1, <2>2
<1>3. CASE EligibilityRaises \/ ServiceComputes \/ ServiceComputeFails \/ MakeDecisionReads
  BY <1>3, <1>1 DEF EligibilityRaises, ServiceComputes, ServiceComputeFails, MakeDecisionReads, DeciderInv
<1>4. CASE DecisionAgentAnswers
  <2>1. pc' \in {"raised", "persist"} /\ UNCHANGED <<score, seen>>
    BY <1>4 DEF DecisionAgentAnswers, Decided
  <2>2. CASE ShouldUseReact(score, validation.validated) = "react"
    <3>1. validation.validated
      BY <2>2 DEF ShouldUseReact
    <3>2. PICK answer \in DecisionAnswers : decision' = ReactDecision(answer)
      BY <1>4, <2>2 DEF DecisionAgentAnswers, Decided
    <3>3. CASE answer.kind = "tool"
      <4>1. /\ decision'.by = "tool"
            /\ decision'.value = DecisionLogic(score, Confidence, validation.discrepancies, answer.category)
        BY <3>2, <3>3 DEF ReactDecision, Taken
      <4>2. decision'.value = "approved" =>
              DecideFrom(score, Confidence, validation.discrepancies) = "approved"
        BY <4>1 DEF DecisionLogic
      <4> QED BY <1>0, <2>1, <4>1, <4>2, RulesApprove DEF DeciderInv, ApprovalIsAccounted, Confidence
    <3>4. CASE answer.kind # "tool"
      <4>1. decision'.by = "model" \/ decision'.value = "manual_review"
        BY <3>2, <3>4 DEF ReactDecision, Taken
      <4> QED BY <1>0, <2>1, <3>1, <4>1 DEF DeciderInv, ApprovalIsAccounted
    <3> QED BY <3>3, <3>4
  <2>3. CASE ShouldUseReact(score, validation.validated) # "react"
    <3>1. decision' = Taken(SynthesizeDecision(score, Confidence, validation.discrepancies),
                            "rules", PlainText)
      BY <1>4, <2>3 DEF DecisionAgentAnswers, Decided
    <3>2. ASSUME decision'.value = "approved"
          PROVE  DecideFrom(score, Confidence, validation.discrepancies) = "approved"
      <4>1. Confidence \in 0..1000
        BY ValidationsAssumption DEF Confidence, RowInv
      <4>2. CASE score = Missing
        BY <3>1, <3>2, <4>2 DEF Taken, SynthesizeDecision, DecideFrom
      <4>3. CASE score # Missing
        BY <3>1, <3>2, <4>1, <4>3 DEF Taken, SynthesizeDecision, DecideFrom
      <4> QED BY <4>2, <4>3
    <3>3. decision'.by = "rules"
      BY <3>1 DEF Taken
    <3> QED BY <1>0, <2>1, <3>2, <3>3, RulesApprove DEF DeciderInv, ApprovalIsAccounted, Confidence
  <2> QED BY <2>2, <2>3
<1>5. CASE DecisionAgentRaises
  <2>1. CASE "decision" \in services
    BY <1>5, <2>1, <1>1 DEF DecisionAgentRaises, DeciderInv
  <2>2. CASE "decision" \notin services
    BY <1>5, <2>2 DEF DecisionAgentRaises, DeciderInv, ApprovalIsAccounted, Decided, Taken, InlineDecision
  <2> QED BY <2>1, <2>2
<1>6. CASE MakeDecisionWrites
  <2>1. /\ decision'.by = "service" /\ decision'.value = ApplyDecisionRules(seen, unresolved)
        /\ pc' \in {"raised", "persist"} /\ seen' = seen
    BY <1>6 DEF MakeDecisionWrites, Decided, Taken
  <2> QED BY <1>0, <2>1 DEF DeciderInv, ApprovalIsAccounted, ApplyDecisionRules, HasCriticalIssues
<1>7. CASE PersistDecision
  BY <1>0, <1>7 DEF PersistDecision, DeciderInv, ApprovalIsAccounted, Confidence
<1>8. CASE EndpointReads \/ EndpointWrites \/ UNCHANGED vars
  <2>1. UNCHANGED <<pc, decision, score, seen>>
    BY <1>8 DEF EndpointReads, EndpointWrites, vars
  <2> QED BY <1>0, <2>1 DEF DeciderInv, ApprovalIsAccounted, Confidence
<1> QED BY <1>2, <1>3, <1>4, <1>5, <1>6, <1>7, <1>8 DEF Next, NodeStep

LEMMA ScoreInvNext == ASSUME ScoreInv, [Next]_vars PROVE ScoreInv'
<1>1. file' = file
  BY DEF Next, NodeStep, EligibilityAnswers, EligibilityRaises, ServiceComputes, ServiceComputeFails,
    DecisionAgentAnswers, DecisionAgentRaises, MakeDecisionReads, MakeDecisionWrites,
    PersistDecision, EndpointReads, EndpointWrites, vars, inputs
<1>2. CASE EligibilityAnswers
  BY <1>1, <1>2, AgentScore DEF EligibilityAnswers, ScoreInv
<1>3. CASE ServiceComputes
  BY <1>1, <1>3, ServiceScore DEF ServiceComputes, ScoreInv
<1>4. CASE ~EligibilityAnswers /\ ~ServiceComputes
  <2>1. score' = score
    BY <1>4 DEF Next, NodeStep, EligibilityRaises, ServiceComputeFails, DecisionAgentAnswers,
      DecisionAgentRaises, MakeDecisionReads, MakeDecisionWrites, PersistDecision, EndpointReads,
      EndpointWrites, vars
  <2> QED BY <1>1, <2>1 DEF ScoreInv
<1> QED BY <1>2, <1>3, <1>4

(* What ReactDecision may explain a decision with.                         *)
LEMMA ReactExplains ==
  ASSUME NEW answer \in DecisionAnswers
  PROVE  ReactDecision(answer).explanation \in Explanations
BY DEF ReactDecision, Taken, Explanations

LEMMA WriteInvNext ==
  ASSUME RowInv, DeciderInv, WriteInv, [Next]_vars
  PROVE  WriteInv'
<1> USE MissingAssumption DEF WriteInv, Decisions
<1>1. loaded' = loaded /\ loaded.decision = Missing
  BY DEF RowInv, Next, NodeStep, EligibilityAnswers, EligibilityRaises, ServiceComputes,
    ServiceComputeFails, DecisionAgentAnswers, DecisionAgentRaises, MakeDecisionReads,
    MakeDecisionWrites, PersistDecision, EndpointReads, EndpointWrites, vars, inputs
<1>2. CASE EligibilityAnswers
  <2>1. /\ UNCHANGED <<row, endpoint>> /\ pc = "eligibility" /\ pc' \in {"persist", "decision"}
        /\ \/ decision' = decision
           \/ decision' = Taken("soft_decline", "gate", PlainText)
        /\ pc' = "persist" => decision' = Taken("soft_decline", "gate", PlainText)
    BY <1>2 DEF EligibilityAnswers
  <2>2. decision'.explanation \in Explanations /\ (pc' = "persist" => decision'.value # Missing)
    BY <2>1 DEF Taken, Explanations
  <2> QED BY <1>1, <2>1, <2>2
<1>3. CASE EligibilityRaises
  BY <1>1, <1>3 DEF EligibilityRaises
<1>4. CASE ServiceComputes
  <2>1. row'.score = score'
    BY <1>4 DEF ServiceComputes, RowInv
  <2> QED BY <1>4, <2>1 DEF ServiceComputes
<1>5. CASE ServiceComputeFails
  BY <1>1, <1>5 DEF ServiceComputeFails
<1>6. CASE DecisionAgentAnswers
  <2>1. /\ UNCHANGED <<row, endpoint, score>> /\ pc' \in {"persist", "raised"}
        /\ pc' = "persist" => decision'.value # Missing
        /\ pc = "decision"
    BY <1>6 DEF DecisionAgentAnswers, Decided
  <2>2. decision'.explanation \in Explanations
    <3>1. CASE ShouldUseReact(score, validation.validated) = "react"
      BY <1>6, <3>1, ReactExplains DEF DecisionAgentAnswers, Decided
    <3>2. CASE ShouldUseReact(score, validation.validated) # "react"
      BY <1>6, <3>2 DEF DecisionAgentAnswers, Decided, Taken, Explanations
    <3> QED BY <3>1, <3>2
  <2> QED BY <1>1, <2>1, <2>2
<1>7. CASE DecisionAgentRaises
  <2>1. /\ UNCHANGED <<row, endpoint, score>> /\ pc' \in {"persist", "raised", "readRow"}
        /\ pc' = "persist" => decision'.value # Missing
        /\ pc = "decision"
    BY <1>7 DEF DecisionAgentRaises, Decided
  <2>2. decision'.explanation \in Explanations
    BY <1>7 DEF DecisionAgentRaises, Decided, Taken, Explanations
  <2> QED BY <1>1, <2>1, <2>2
<1>8. CASE MakeDecisionReads
  <2>1. decision' = Undecided /\ decision = Undecided
    BY <1>8 DEF MakeDecisionReads, DeciderInv
  <2> QED BY <1>1, <1>8, <2>1, UndecidedIsReview DEF MakeDecisionReads
<1>9. CASE MakeDecisionWrites
  <2>1. /\ UNCHANGED <<endpoint, score>> /\ pc' \in {"persist", "raised"}
        /\ pc' = "persist" => decision'.value # Missing
        /\ decision'.explanation \in Explanations /\ pc = "decide"
        /\ row'.score = row.score
    BY <1>9 DEF MakeDecisionWrites, Decided, Taken, Explanations, RowInv
  <2> QED BY <1>1, <2>1
<1>10. CASE PersistDecision
  BY <1>1, <1>10 DEF PersistDecision, Write
<1>11. CASE EndpointReads \/ EndpointWrites
  <2>1. UNCHANGED <<pc, decision, score>> /\ endpoint' # "idle"
    BY <1>11 DEF EndpointReads, EndpointWrites
  <2>2. row'.decision = row.decision
    BY <1>11 DEF EndpointReads, EndpointWrites, RowInv
  <2> QED BY <2>1, <2>2
<1>12. CASE UNCHANGED vars
  BY <1>12 DEF vars
<1> QED BY <1>2, <1>3, <1>4, <1>5, <1>6, <1>7, <1>8, <1>9, <1>10, <1>11, <1>12 DEF Next, NodeStep

(* The rules decline below 0.40 only, whoever applies them.                *)
LEMMA RulesDecline ==
  ASSUME NEW s, NEW confidence, NEW discrepancies,
         DecideFrom(s, confidence, discrepancies) = "soft_decline"
  PROVE  s < 400
BY DEF DecideFrom

LEMMA GroundsInvNext ==
  ASSUME SourceInv, DeciderInv, ScoreInv, GroundsInv, [Next]_vars
  PROVE  GroundsInv'
<1> USE DEF GroundsInv
<1>1. CASE EligibilityAnswers
  <2>1. \/ decision' = Undecided
        \/ score' < 400 /\ decision' = Taken("soft_decline", "gate", PlainText)
    BY <1>1 DEF EligibilityAnswers, SourceInv, GateDeclines
  <2> QED BY <2>1 DEF Undecided, Taken
<1>2. CASE EligibilityRaises \/ ServiceComputes \/ ServiceComputeFails \/ MakeDecisionReads
  <2>1. decision' = Undecided
    BY <1>2 DEF EligibilityRaises, ServiceComputes, ServiceComputeFails, MakeDecisionReads, DeciderInv
  <2> QED BY <2>1, UndecidedIsReview
<1>3. CASE DecisionAgentAnswers
  <2>1. score' = score /\ score # Missing
    BY <1>3, MissingAssumption DEF DecisionAgentAnswers, ScoreInv
  <2>2. CASE ShouldUseReact(score, validation.validated) = "react"
    <3>1. PICK answer \in DecisionAnswers : decision' = ReactDecision(answer)
      BY <1>3, <2>2 DEF DecisionAgentAnswers, Decided
    <3>2. decision'.by = "tool" =>
            \/ decision'.value = "error"
            \/ decision'.value = DecideFrom(score, Confidence, validation.discrepancies)
      BY <3>1 DEF ReactDecision, Taken, DecisionLogic
    <3>3. decision'.by \in {"tool", "model", "fallback"}
      BY <3>1 DEF ReactDecision, Taken
    <3> QED BY <2>1, <3>2, <3>3, RulesDecline
  <2>3. CASE ShouldUseReact(score, validation.validated) # "react"
    <3>1. decision' = Taken(SynthesizeDecision(score, Confidence, validation.discrepancies),
                            "rules", PlainText)
      BY <1>3, <2>3 DEF DecisionAgentAnswers, Decided
    <3>2. decision'.by = "rules" /\ \E c :
            decision'.value = DecideFrom(score, c, validation.discrepancies)
      BY <2>1, <3>1 DEF Taken, SynthesizeDecision
    <3> QED BY <2>1, <3>2, RulesDecline
  <2> QED BY <2>2, <2>3
<1>4. CASE DecisionAgentRaises
  BY <1>4 DEF DecisionAgentRaises, Decided, Taken
<1>5. CASE MakeDecisionWrites
  BY <1>5 DEF MakeDecisionWrites, Decided, Taken
<1>6. CASE PersistDecision \/ EndpointReads \/ EndpointWrites \/ UNCHANGED vars
  BY <1>6 DEF PersistDecision, EndpointReads, EndpointWrites, vars
<1> QED BY <1>1, <1>2, <1>3, <1>4, <1>5, <1>6 DEF Next, NodeStep

LEMMA InductiveInvariant == Spec => []IInv
<1>1. IInv /\ [Next]_vars => IInv'
  BY RowInvNext, SourceInvNext, DeclineInvNext, DeciderInvNext, ScoreInvNext, WriteInvNext,
     GroundsInvNext DEF IInv
<1> QED BY <1>1, InitIInv, PTL DEF Spec

(* Whatever the decision agent's model would answer, and whichever service *)
(* or request writes the row meanwhile, an applicant whom the eligibility  *)
(* agent scored below 0.40 ends declined in the database.                  *)
THEOREM DeclinesAreFirm == Spec => []DeclineIsFirm
<1>1. IInv => DeclineIsFirm
  BY DEF IInv, DeclineInv, DeclineIsFirm
<1> QED BY <1>1, InductiveInvariant, PTL

(* Every approval has its grounds: the model's word on a validated file,   *)
(* the agent's rules on score, confidence and discrepancies, or a score of *)
(* 0.70 where a service or the node itself decides.                        *)
THEOREM ApprovalsAreAccounted == Spec => []ApprovalIsAccounted
<1>1. IInv => ApprovalIsAccounted
  BY DEF IInv, DeciderInv
<1> QED BY <1>1, InductiveInvariant, PTL

(* However the write skips the columns its session has loaded, the row ends *)
(* with the decision taken and, unless the endpoint ran, the score it was  *)
(* taken from; and the card shows that decision, with a caseworker among   *)
(* its steps exactly when there is one among its programmes.               *)
THEOREM CardsShowTheRow == Spec => []CardShowsTheRow
<1>1. ASSUME IInv, pc = "end" PROVE CardShowsTheRow
  <2>1. /\ row.decision = decision.value /\ decision.value # Missing
        /\ endpoint = "idle" => row.score = score
        /\ score # Missing
        /\ decision.explanation # Missing /\ DefaultContext # Missing
    BY <1>1, MissingAssumption, ExplanationsAssumption DEF IInv, WriteInv, ScoreInv
  <2> DEFINE programs == EnablementRecommendations(DefaultContext, score, decision.value)
  <2>2. Card = DecisionFormatting(decision.value, decision.explanation, programs, DefaultContext)
    BY <2>1 DEF Card, FormatDecisionCard
  <2>3. /\ Card.decision = decision.value /\ Card.programs = programs
        /\ Card.steps = "caseworker" <=> decision.value = "manual_review"
    BY <2>1, <2>2 DEF DecisionFormatting
  <2>4. (decision.value = "manual_review") <=>
          \E i \in DOMAIN programs : programs[i] = "caseworker_consultation"
    <3>1. CASE decision.value = "manual_review"
      <4>1. programs = <<"documentation_assistance", "caseworker_consultation">>
        BY <2>1, <3>1 DEF EnablementRecommendations
      <4>2. 2 \in DOMAIN programs /\ programs[2] = "caseworker_consultation"
        BY <4>1
      <4> QED BY <3>1, <4>2
    <3>2. CASE decision.value = "approved"
      <4>1. /\ DefaultContext.status = "unknown" /\ DefaultContext.credit = 0
            /\ DefaultContext.dependents = FALSE
        BY DEF DefaultContext
      <4>2. Missing \notin {DefaultContext, score, decision.value}
        BY <2>1
      <4>3. programs = <<>> \o <<"financial_literacy">> \o <<>> \o <<"upskilling">>
        BY <3>2, <4>1, <4>2 DEF EnablementRecommendations
      <4>4. Len(programs) = 2 /\ programs[1] = "financial_literacy" /\ programs[2] = "upskilling"
        BY <4>3
      <4>5. DOMAIN programs = {1, 2}
        BY <4>3, <4>4
      <4> QED BY <3>2, <4>4, <4>5
    <3>3. CASE decision.value \notin {"manual_review", "approved"}
      <4>1. programs = <<"financial_counseling", "reapplication_guidance">>
        BY <2>1, <3>3 DEF EnablementRecommendations
      <4> QED BY <3>3, <4>1
    <3> QED BY <3>1, <3>2, <3>3
  <2> QED BY <2>1, <2>3, <2>4 DEF CardShowsTheRow
<1>2. IInv => CardShowsTheRow
  BY <1>1 DEF CardShowsTheRow
<1> QED BY <1>2, InductiveInvariant, PTL

(* An explanation never says the opposite of the decision taken from the   *)
(* same score, although both have thresholds of their own.                 *)
THEOREM AdviceAgrees == Spec => []AdviceIsFollowed
<1>1. ASSUME IInv PROVE AdviceIsFollowed
  <2>1. score \in 0..1000 /\ score # Missing
    BY <1>1, MissingAssumption DEF IInv, ScoreInv
  <2>2. Confidence \in 0..1000
    BY <1>1, ValidationsAssumption DEF IInv, RowInv, Confidence
  <2>3. decision.by \in {"tool", "rules"} /\ decision.value = "approved" =>
          score > 600 /\ Confidence >= 800
    BY <1>1 DEF IInv, DeciderInv, ApprovalIsAccounted
  <2>4. decision.by \in {"tool", "rules", "gate"} =>
          LET advice == EligibilityExplanation(score, RuleFactors(BuildApplicantFeatures(file)))
          IN  /\ decision.value = "approved" => advice.recommendation = "proceed_to_decision"
              /\ decision.value = "soft_decline" => advice.recommendation = "likely_ineligible"
    BY <1>1, <2>1, <2>3 DEF IInv, GroundsInv, EligibilityExplanation, Recommendation
  <2>5. ASSUME decision.by = "tool", decision.value = "approved"
        PROVE  LET said == DecisionExplanation(decision.value, score, Confidence, DefaultContext)
               IN  /\ said.profile \in {"strong", "very strong"}
                   /\ said.documents \in {"high", "very high"}
    <3>1. Missing \notin {decision.value, score, Confidence, DefaultContext}
      BY <2>1, <2>2, <2>5, MissingAssumption, ExplanationsAssumption DEF Decisions
    <3> QED BY <2>1, <2>2, <2>3, <2>5, <3>1 DEF DecisionExplanation, ScoreLabel, ConfidenceLabel
  <2>6. ASSUME decision.by = "service", decision.value = "approved"
        PROVE  ServiceExplanation(seen).band = "meets"
    BY <1>1, <2>6 DEF IInv, DeciderInv, ApprovalIsAccounted, ServiceExplanation, ScoreBand
  <2> QED BY <2>4, <2>5, <2>6 DEF AdviceIsFollowed
<1> QED BY <1>1, InductiveInvariant, PTL
=============================================================================
