--------------------------- MODULE EligibilityRules ---------------------------
(***************************************************************************)
(* The arithmetic of eligibility: the two rule engines that score an       *)
(* applicant (src/agents/eligibility/tools.py, used by the eligibility     *)
(* agent, and src/services/eligibility_service.py, used by the REST        *)
(* endpoint), the features each derives from the documents, the agent's    *)
(* adjustment, the explanation bands, and Gate 3.                          *)
(*                                                                         *)
(* Scores are in thousandths (0.45 is 450): every score the code compares  *)
(* has been rounded to four digits and the points are multiples of 0.005.  *)
(* Ratios are kept as numerator and denominator.  An applicant's file is   *)
(* a record with one entry per document type, Absent where there is none;  *)
(* a field that Python's float() or sum() refuses is Garbled.              *)
(***************************************************************************)
EXTENDS Integers, FiniteSets

CONSTANTS Absent, Garbled

Categories == {"divorced", "abandoned", "unknown_parentage", "health_disability"}

CategoryAdjustment(category) ==
  CASE category = "divorced"          -> 100
    [] category = "abandoned"         -> 150
    [] category = "unknown_parentage" -> 120
    [] category = "health_disability" -> 80
    [] OTHER                          -> 0

Clamp(score) == IF score < 0 THEN 0 ELSE IF score > 1000 THEN 1000 ELSE score

Present(document) == document # Absent

(***************************************************************************)
(* Features of the agent, from the state's extracted_data.  The form falls *)
(* back on the applicant_info collected at intake, and an income of zero   *)
(* makes both ratios zero.                                                 *)
(***************************************************************************)
BlankForm == [income |-> 0, salary |-> 0, family |-> 1, category |-> "",
              status |-> "", housing |-> 0, id |-> ""]

FormOf(file) ==
  IF Present(file.form) THEN file.form
  ELSE IF Present(file.info) THEN file.info ELSE BlankForm

IncomeOf(form) == IF form.income # 0 THEN form.income ELSE form.salary

(* float() of a garbled income, or a sum over a missing duration, raises.  *)
FeaturesRaise(file) ==
  \/ FormOf(file).income = Garbled
  \/ Present(file.credit) /\ file.credit.score = Garbled
  \/ Present(file.resume) /\ file.resume.months = Garbled

BuildApplicantFeatures(file) ==
  LET form   == FormOf(file)
      income == IncomeOf(form)
      family == IF form.family = 0 THEN 1 ELSE form.family
  IN  [income |-> income,
       family |-> family,
       dependents |-> family > 1,
       category |-> form.category,
       status |-> form.status,
       credit |-> IF Present(file.credit) /\ file.credit.score \notin {0, Absent}
                  THEN file.credit.score ELSE 600,
       debt |-> IF Present(file.credit) /\ income > 0 THEN file.credit.payments ELSE 0,
       base |-> IF income > 0 THEN income ELSE 1,
       housing |-> IF income > 0 THEN form.housing ELSE 0,
       netWorth |-> IF Present(file.assets) THEN file.assets.netWorth ELSE 0,
       months |-> IF Present(file.resume) THEN file.resume.months ELSE 0]

(* amount / base < hundredths / 100                                        *)
RatioBelow(amount, base, hundredths) == 100 * amount < hundredths * base

-----------------------------------------------------------------------------
(* The agent's rule-based predictor, one operator per factor.              *)
CreditPoints(score) ==
  IF score >= 750 THEN 200
  ELSE IF score >= 700 THEN 150
  ELSE IF score >= 650 THEN 80
  ELSE IF score >= 500 THEN 0 ELSE -100

DebtPoints(debt, base, high) ==
  IF RatioBelow(debt, base, 30) THEN 100
  ELSE IF RatioBelow(debt, base, 50) THEN 50
  ELSE IF RatioBelow(debt, base, 80) THEN high ELSE -150

EmploymentPoints(months, status) ==
  IF months >= 36 THEN 100
  ELSE IF months >= 12 THEN 50
  ELSE IF months = 0 /\ status = "employed" THEN 30 ELSE -50

NetWorthPoints(netWorth) ==
  IF netWorth > 500000 THEN 80
  ELSE IF netWorth > 100000 THEN 40
  ELSE IF netWorth < 0 THEN -100 ELSE 0

FamilyPoints(family) == IF family > 3 THEN 50 ELSE 0

HousingPoints(housing, base) ==
  IF 100 * housing <= 25 * base THEN 50
  ELSE IF 100 * housing > 40 * base THEN -50 ELSE 0

RuleFactors(f) ==
  [credit     |-> CreditPoints(f.credit),
   debt       |-> DebtPoints(f.debt, f.base, 0),
   employment |-> EmploymentPoints(f.months, f.status),
   netWorth   |-> NetWorthPoints(f.netWorth),
   category   |-> CategoryAdjustment(f.category),
   family     |-> FamilyPoints(f.family),
   housing    |-> HousingPoints(f.housing, f.base)]

RuleBasedPredict(f) ==
  LET p == RuleFactors(f)
  IN  Clamp(450 + p.credit + p.debt + p.employment + p.netWorth
                + p.category + p.family + p.housing)

PredictedClass(probability) ==
  IF probability >= 600 THEN "eligible" ELSE "not_eligible"

(* ml_model_predict_tool: the trained model when its file is there, the    *)
(* rules when it is not or when it raises.                                 *)
MlModelPredict(f, modelAnswers) == {RuleBasedPredict(f)} \cup modelAnswers

(* feature_importance_tool without a model: the n factors that weigh most, *)
(* the one computed first winning a tie (the sort is stable).              *)
FactorOrder == [credit |-> 1, debt |-> 2, employment |-> 3, netWorth |-> 4,
                category |-> 5, family |-> 6, housing |-> 7]

Magnitude(points) == IF points < 0 THEN -points ELSE points

Outweighs(p, x, y) ==
  \/ Magnitude(p[x]) > Magnitude(p[y])
  \/ Magnitude(p[x]) = Magnitude(p[y]) /\ FactorOrder[x] < FactorOrder[y]

TopFactors(p, n) ==
  { x \in DOMAIN p : Cardinality({ y \in DOMAIN p : Outweighs(p, y, x) }) < n }

(* adjust_factor_weighting_tool: half the category's points once more, 30  *)
(* per member beyond the third up to 100, 30 for a life transition.        *)
Adjustment(f) ==
  LET perMember == 30 * (f.family - 3)
  IN  CategoryAdjustment(f.category) \div 2
      + (IF f.dependents /\ f.family > 3
         THEN IF perMember < 100 THEN perMember ELSE 100
         ELSE 0)
      + (IF f.status = "unemployed" /\ f.category \in {"divorced", "abandoned"}
         THEN 30 ELSE 0)

AdjustFactorWeighting(score, f) == Clamp(score + Adjustment(f))

(* eligibility_explanation_tool: what it says, what it recommends, and the *)
(* factors it names with the direction it gives them.                      *)
ScoreBand(score) ==
  IF score >= 700 THEN "meets"
  ELSE IF score >= 500 THEN "borderline" ELSE "does_not_meet"

Recommendation_Strict(score) ==
  IF score > 700 THEN "proceed_to_decision"
  ELSE IF score >= 400 THEN "manual_review" ELSE "likely_ineligible"

Recommendation(score) ==
  IF score >= 600 THEN "proceed_to_decision"
  ELSE IF score >= 400 THEN "manual_review" ELSE "likely_ineligible"

EligibilityExplanation(score, p) ==
  [band |-> ScoreBand(score),
   recommendation |-> Recommendation(score),
   keyFactors |-> [x \in TopFactors(p, 3) |-> IF p[x] > 0 THEN "positively"
                                                          ELSE "negatively"]]

-----------------------------------------------------------------------------
(***************************************************************************)
(* EligibilityService: features from the extraction tables, its own score. *)
(* It divides the outstanding balance, not the monthly payments, by the    *)
(* income, and also looks at payment history, savings and identity.        *)
(***************************************************************************)
ServiceFeatures(file) ==
  LET form   == IF Present(file.form) THEN file.form ELSE BlankForm
      income == IF form.income # 0 THEN form.income ELSE form.salary
  IN  [validId |-> Present(file.eid),
       credit |-> IF Present(file.credit) /\ file.credit.score \notin {0, Absent}
                  THEN file.credit.score ELSE 600,
       late |-> IF Present(file.credit) THEN file.credit.late ELSE 0,
       defaulted |-> IF Present(file.credit) THEN file.credit.defaulted ELSE 0,
       income |-> income,
       balance |-> IF Present(file.bank) THEN file.bank.closing ELSE 0,
       debt |-> IF Present(file.credit) /\ income > 0 THEN file.credit.outstanding ELSE 0,
       base |-> IF income > 0 THEN income ELSE 1,
       months |-> IF Present(file.resume) THEN file.resume.months ELSE 0,
       netWorth |-> IF Present(file.assets) THEN file.assets.netWorth ELSE 0,
       category |-> form.category,
       family |-> IF form.family = 0 THEN 1 ELSE form.family,
       housing |-> IF income > 0 THEN form.housing ELSE 0]

PaymentPoints(late) ==
  IF late = 0 THEN 50 ELSE IF late <= 2 THEN -50 ELSE -150

SavingsPoints(balance, income) ==
  IF income > 0 /\ balance >= 3 * income THEN 100
  ELSE IF balance > 5000 THEN 50 ELSE 0

ServiceEmploymentPoints(months) ==
  IF months >= 24 THEN 100 ELSE IF months >= 12 THEN 50 ELSE -50

ComputeScore(f) ==
  Clamp(400 + (IF f.validId THEN 100 ELSE 0)
            + CreditPoints(f.credit)
            + PaymentPoints(f.late)
            - (IF f.defaulted > 0 THEN 200 ELSE 0)
            + SavingsPoints(f.balance, f.income)
            + DebtPoints(f.debt, f.base, -50)
            + ServiceEmploymentPoints(f.months)
            + NetWorthPoints(f.netWorth)
            + CategoryAdjustment(f.category)
            + FamilyPoints(f.family)
            + HousingPoints(f.housing, f.base))

(* get_eligibility_explanation: bands of its own for the stored score and  *)
(* the features, a debt ratio of zero not being mentioned.  It looks the   *)
(* features up by the application's id where the applicant's is expected,  *)
(* and so always describes a file without documents.                       *)
NoDocuments == [eid |-> Absent, form |-> Absent, credit |-> Absent, assets |-> Absent,
                resume |-> Absent, bank |-> Absent, info |-> Absent]

ServiceExplanation(score) ==
  LET f == ServiceFeatures(NoDocuments)
  IN  [band |-> ScoreBand(score),
       category |-> CategoryAdjustment(f.category),
       credit |-> IF f.credit >= 700 THEN "good"
                  ELSE IF f.credit >= 500 THEN "fair" ELSE "below",
       debt |-> IF f.debt = 0 THEN "unmentioned"
                ELSE IF RatioBelow(f.debt, f.base, 50) THEN "healthy"
                ELSE IF RatioBelow(f.debt, f.base, 80) THEN "moderate" ELSE "high",
       employment |-> IF f.months >= 24 THEN "consistent"
                      ELSE IF f.months >= 12 THEN "adequate" ELSE "short",
       housing |-> IF f.housing = 0 THEN "unmentioned"
                   ELSE IF 100 * f.housing <= 30 * f.base THEN "within" ELSE "exceeds"]

-----------------------------------------------------------------------------
(***************************************************************************)
(* Gate 3, check_hard_eligibility_rules: its checks in order; the first    *)
(* that fails gives the reason.  validated is what the gate takes for the  *)
(* set of validated document types, the keys of validation_results.  The   *)
(* sixth check, of a confidence under each such key, finds none there and  *)
(* always passes.                                                          *)
(***************************************************************************)
EmiratesIdValidity(file) ==
  IF Present(file.eid) THEN file.eid.state ELSE "not_present"

CreditScoreInRange(file) ==
  Present(file.credit) => file.credit.score \in 300..900

(* Identity numbers that are there, whatever document they are from.       *)
IdentityNumbers(file) ==
  { doc.id : doc \in { d \in {file.eid, file.credit, file.form} : Present(d) } } \ {""}

IdentityConsistent(file) ==
  \A a, b \in IdentityNumbers(file) : a = b

BankStatementReconciles(file) ==
  Present(file.bank) => file.bank.balances = "reconcile"

RequiredDocumentsPresent(file, validated) ==
  /\ Present(file.eid) /\ Present(file.form)
  /\ validated # {} => {"emirates_id", "application_form"} \subseteq validated

CheckHardEligibilityRules(file, validated) ==
  IF EmiratesIdValidity(file) # "valid" THEN "emirates_id"
  ELSE IF ~CreditScoreInRange(file) THEN "credit_score"
  ELSE IF ~IdentityConsistent(file) THEN "identity"
  ELSE IF ~BankStatementReconciles(file) THEN "bank_statement"
  ELSE IF ~RequiredDocumentsPresent(file, validated) THEN "documents"
  ELSE "passed"
=============================================================================
