---------------------------- MODULE DocumentRules ----------------------------
(***************************************************************************)
(* What the program checks in documents once their fields are extracted:   *)
(* Gate 1 on one document (src/agents/gates/document_integrity.py), Gate 2 *)
(* on all of them (completeness.py), the comparisons, the classification   *)
(* and the scoring of the validation agent's tools (src/domain/), and the  *)
(* questions they lead to.                                                 *)
(*                                                                         *)
(* A document is a record with its type, the number of required fields it  *)
(* lacks, and the fields that are compared: Absent when missing, Garbled   *)
(* when a conversion to a number or a date gives nothing.  A name is its   *)
(* set of words; a day is counted from today, with the way it is written;  *)
(* amounts are integers; shares and confidences are in hundredths.         *)
(***************************************************************************)
EXTENDS Integers, FiniteSets

CONSTANTS Absent, Garbled

Usable(v) == v \notin {Absent, Garbled}

(* _to_date reads three notations, and nothing from any other text.        *)
Day(date) == IF Usable(date) THEN date.day ELSE Garbled

Before(a, b) == Usable(a) /\ Usable(b) /\ a < b

InOrder(a, b) == Usable(a) /\ Usable(b) => a < b

-----------------------------------------------------------------------------
(* Gate 1, one operator per document type: the set of its errors.          *)
EmiratesIdErrors(d) ==
  (IF d.id # Absent /\ ~d.id.valid THEN {"checksum"} ELSE {})
  \cup (IF Before(Day(d.expiry), 0) THEN {"expired"} ELSE {})
  \cup (IF d.mrz = FALSE THEN {"mrz"} ELSE {})

Reconciles(d) ==
  {d.opening, d.credits, d.debits, d.closing} \cap {Absent, Garbled} = {}
    => d.opening + d.credits - d.debits = d.closing

BankStatementErrors(d) ==
  (IF ~Reconciles(d) THEN {"balance"} ELSE {})
  \cup (IF ~InOrder(Day(d.start), Day(d.end)) THEN {"period"} ELSE {})
  \cup (IF \E t \in d.transactions : Before(0, t) THEN {"future"} ELSE {})
  \cup (IF d.currency # "AED" THEN {"currency"} ELSE {})

CreditReportErrors_Wide(d) ==
  (IF d.score # Absent /\ (d.score = Garbled \/ d.score \notin 0..1000)
   THEN {"score"} ELSE {})
  \cup (IF Usable(d.outstanding) /\ d.facilities \notin {Absent, d.outstanding}
        THEN {"facilities"} ELSE {})
  \cup (IF d.future THEN {"future"} ELSE {})

(* facilities is the sum of the facilities' balances, Absent without any.  *)
CreditReportErrors(d) ==
  (IF d.score # Absent /\ (d.score = Garbled \/ d.score \notin 300..900)
   THEN {"score"} ELSE {})
  \cup (IF Usable(d.outstanding) /\ d.facilities \notin {Absent, d.outstanding}
        THEN {"facilities"} ELSE {})
  \cup (IF d.future THEN {"future"} ELSE {})

AssetsLiabilitiesErrors(d) ==
  (IF Usable(d.assets) /\ d.assets < 0 THEN {"assets"} ELSE {})
  \cup (IF Usable(d.liabilities) /\ d.liabilities < 0 THEN {"liabilities"} ELSE {})
  \cup (IF {d.assets, d.liabilities, d.netWorth} \cap {Absent, Garbled} = {}
             /\ d.assets - d.liabilities # d.netWorth
        THEN {"net_worth"} ELSE {})
  \cup (IF Before(Day(d.statement), -180) THEN {"old"} ELSE {})
  \cup (IF Usable(d.assets) /\ d.categories # d.assets THEN {"categories"} ELSE {})

(* A position's end is Absent when it reads "present"; every error counts. *)
ResumeErrors(d) ==
  { x \in d.positions \X {"order", "future_end", "future_start", "current"} :
      LET p == x[1]
      IN  CASE x[2] = "order" -> ~InOrder(Day(p.start), Day(p.end))
            [] x[2] = "future_end"   -> Before(0, Day(p.end))
            [] x[2] = "future_start" -> Before(0, Day(p.start))
            [] x[2] = "current"      -> p.current /\ Usable(p.end) }

ApplicationFormErrors(d) ==
  IF {d.income, d.salary, d.other} \cap {Absent, Garbled} = {}
       /\ d.income # d.salary + d.other
  THEN {"income"} ELSE {}

ContentErrors(d) ==
  CASE d.type = "emirates_id"        -> EmiratesIdErrors(d)
    [] d.type = "bank_statement"     -> BankStatementErrors(d)
    [] d.type = "credit_report"      -> CreditReportErrors(d)
    [] d.type = "assets_liabilities" -> AssetsLiabilitiesErrors(d)
    [] d.type = "resume"             -> ResumeErrors(d)
    [] d.type = "application_form"   -> ApplicationFormErrors(d)
    [] OTHER                         -> {}

(* validate_document_integrity                                             *)
ErrorCount(d) == d.missing + Cardinality(ContentErrors(d))

DocumentIntegrity(d) == ErrorCount(d) = 0

(* per_document_validation_tool: 0.15 off for every error.                 *)
PerDocumentValidation(d) ==
  [type |-> d.type,
   status |-> IF DocumentIntegrity(d) THEN "valid" ELSE "invalid",
   confidence |-> IF ErrorCount(d) > 6 THEN 0 ELSE 100 - 15 * ErrorCount(d)]

-----------------------------------------------------------------------------
(* A collection of documents is a function from their types.  Identity     *)
(* numbers and names that are there, of the documents of given types.      *)
Among(data, types) == DOMAIN data \cap types

Numbers(data, types) ==
  { data[t].id.number : t \in { u \in Among(data, types) : data[u].id # Absent } }

Named(data, types) == { t \in Among(data, types) : data[t].name # {} }

Births(data, types) ==
  { data[t].birth : t \in Among(data, types) } \ {Absent}

(* Jaccard similarity of two names, in hundredths.                         *)
Similarity(a, b) == (100 * Cardinality(a \cap b)) \div Cardinality(a \cup b)

Pairs(S) == { p \in SUBSET S : Cardinality(p) = 2 }

PairSimilarity(data, p) ==
  LET names == { data[t].name : t \in p }
  IN  IF Cardinality(names) = 1 THEN 100
      ELSE CHOOSE s \in 0..100 : \E a, b \in names : a # b /\ s = Similarity(a, b)

AlikeEnough(similarity) == similarity >= 60

NamesDiffer(data, types) ==
  { p \in Pairs(Named(data, types)) : ~AlikeEnough(PairSimilarity(data, p)) }

(* Gate 2, validate_completeness: what is missing or inconsistent.         *)
IdentityDocuments == {"emirates_id", "credit_report", "application_form"}
NamedDocuments == IdentityDocuments \cup {"resume", "assets_liabilities"}
BirthDocuments == {"emirates_id", "application_form", "resume"}

MissingItems(validated, data, required) ==
  { <<"not_processed", t>> : t \in required \ DOMAIN data }
  \cup { <<"not_validated", t>> : t \in (required \cap DOMAIN data) \ validated }
  \cup (IF Cardinality(Numbers(data, IdentityDocuments)) > 1
         THEN {<<"identity", "differs">>} ELSE {})
  \cup { <<"name", p>> : p \in NamesDiffer(data, NamedDocuments) }
  \cup (IF Cardinality(Births(data, BirthDocuments)) > 1 THEN {<<"birth", "differs">>} ELSE {})

-----------------------------------------------------------------------------
(* cross_document_compare_tool: the discrepancies of each comparison, over *)
(* all documents that carry the field.                                     *)
Discrepancy(type, of, measure) == [type |-> type, of |-> of, measure |-> measure]

IdentityMatch(data) ==
  IF Cardinality(Numbers(data, DOMAIN data)) > 1
  THEN {Discrepancy("identity_mismatch", DOMAIN data, 0)} ELSE {}

NameConsistency(data) ==
  { Discrepancy("name_mismatch", p, PairSimilarity(data, p)) :
      p \in NamesDiffer(data, DOMAIN data) }

(* The closing balance is compared with the monthly income, in percent     *)
(* rounded up.  A value that is no number makes the tool answer an error,  *)
(* without discrepancies.                                                  *)
IncomeVariance(a, b) ==
  LET high == IF a > b THEN a ELSE b
      low  == IF a > b THEN b ELSE a
  IN  IF high > 0 THEN (100 * (high - low) + high - 1) \div high ELSE 0

IncomeConsistency(data) ==
  IF {"bank_statement", "application_form"} \subseteq DOMAIN data
       /\ Usable(data["bank_statement"].closing) /\ Usable(data["application_form"].income)
  THEN LET v == IncomeVariance(data["bank_statement"].closing, data["application_form"].income)
       IN  IF v > 20
           THEN {Discrepancy("income_mismatch", {"bank_statement", "application_form"}, v)}
           ELSE {}
  ELSE {}

AddressConsistency(data) ==
  { Discrepancy("address_mismatch", p, 0) :
      p \in { q \in Pairs({ t \in DOMAIN data : data[t].address # Absent }) :
                 \E t, u \in q : data[t].address # data[u].address } }

CrossDocumentCompare(data) ==
  IdentityMatch(data) \cup NameConsistency(data)
    \cup IncomeConsistency(data) \cup AddressConsistency(data)

-----------------------------------------------------------------------------
(* classify_discrepancy, from the average confidence of the extraction.    *)
ClassifyDiscrepancy(type, measure, average) ==
  CASE type = "name_mismatch" ->
         IF measure >= 80 /\ average >= 85 THEN "ocr_error"
         ELSE IF measure < 60 THEN "real_discrepancy" ELSE "ambiguous"
    [] type = "income_mismatch" ->
         IF measure <= 10 /\ average >= 85 THEN "ocr_error"
         ELSE IF measure > 20 THEN "real_discrepancy" ELSE "ambiguous"
    [] type = "identity_mismatch" -> "real_discrepancy"
    [] type = "address_mismatch" ->
         IF average >= 90 THEN "real_discrepancy" ELSE "ambiguous"
    [] OTHER -> "ambiguous"

ValidationConfidence(base, unresolved, critical) ==
  LET c == base - 5 * unresolved - 10 * critical
  IN  IF c < 0 THEN 0 ELSE c

ValidationRecommendation(confidence, unresolved) ==
  IF confidence >= 90 /\ unresolved = 0 THEN "proceed_to_decision"
  ELSE IF confidence >= 80 THEN "proceed_to_review"
  ELSE IF confidence >= 70 THEN "manual_review" ELSE "escalate"

(* applicant_clarify_tool: a question of the discrepancy's type, or the    *)
(* general one, and its priority.                                          *)
ClarificationQuestion(type) ==
  [template |-> IF type \in {"name_mismatch", "income_mismatch", "identity_mismatch",
                             "address_mismatch"} THEN type ELSE "default",
   priority |-> CASE type = "identity_mismatch" -> "critical"
                  [] type = "income_mismatch"   -> "high"
                  [] type = "address_mismatch"  -> "low"
                  [] OTHER                      -> "medium"]

(* compute_confidence of src/domain/scoring: no raw confidence counts as   *)
(* 0.85, every field of low confidence costs 0.05.                         *)
ExtractionRouting(raw, lowFields) ==
  LET c == (IF raw \in {0, Absent} THEN 85 ELSE raw) - 5 * lowFields
  IN  IF c >= 90 THEN "auto_approve"
      ELSE IF c >= 75 THEN "spot_check"
      ELSE IF c >= 60 THEN "full_review" ELSE "re_extract"
=============================================================================
