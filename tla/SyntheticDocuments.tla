------------------------- MODULE SyntheticDocuments -------------------------
(***************************************************************************)
(* The generators of test applicants in src/data_generation: what each of  *)
(* them may draw, as a set of documents in the form Gate 1 reads them      *)
(* (DocumentRules), and the eleven rules of consistency.py over a package. *)
(*                                                                         *)
(* Draws are choices: RandInt(a, b) and Uniform(a, b) are the values a     *)
(* draw of whole numbers, or of amounts, from a..b may give, as many of    *)
(* them as an instance wants.  Days count from today.  Amounts are in      *)
(* thousandths of a dirham, so that a drawn amount has a digit more than   *)
(* an amount rounded to two decimals.                                      *)
(***************************************************************************)
EXTENDS DocumentRules, SequencesExt

CONSTANTS
  WholeDraws(_, _), AmountDraws(_, _),   \* the numbers considered in a range
  MaritalStatuses, HousingStatuses, Nationalities,
  Categories,       \* drawn sequences of transaction categories
  ActiveTypes,      \* drawn sequences of facility types, of active facilities
  ClosedTypes,      \* the same of closed ones
  Positions         \* drawn numbers of positions of a resume

TransactionCategories ==
  {"rent", "utility", "telecom", "grocery", "fuel", "transfer", "atm", "pos", "insurance",
   "education", "refund", "investment"}

FacilityTypes == {"credit_card", "personal_loan", "overdraft", "auto_loan", "mortgage"}

ASSUME DrawnAssumption ==
  /\ Categories \subseteq Seq(TransactionCategories)
  /\ ActiveTypes \cup ClosedTypes \subseteq Seq(FacilityTypes)
  /\ Positions \subseteq 2..5

(* What stands for no value is not an identity number, nor a credit score. *)
ASSUME MarkersAssumption ==
  Absent # [number |-> 1, valid |-> TRUE] /\ Garbled \notin 300..900

AED == 1000
Year == 365

RandInt(a, b) == { x \in WholeDraws(a, b) : x \in a..b }
Uniform(a, b) == { x \in AmountDraws(a, b) : x \in a..b }

(* Rounding to two decimals, a tie to the even one.                        *)
Quantized(x) ==
  LET up == (x + 5) \div 10
  IN  10 * (IF x % 10 = 5 /\ up % 2 = 1 THEN up - 1 ELSE up)

RandomDecimal(low, high) == { Quantized(x) : x \in Uniform(low * AED, high * AED) }

(* The ends of the range are swapped when they are in the wrong order.     *)
RandomDateBetween(start, end) ==
  IF start > end THEN RandInt(end, start) ELSE RandInt(start, end)

(* The sums of the first elements of a sequence, from none to all.         *)
PartialSums(s) ==
  LET sum[i \in 0..Len(s)] == IF i = 0 THEN 0 ELSE sum[i - 1] + s[i]
  IN  sum

Total(s) == PartialSums(s)[Len(s)]

Written(day) == [day |-> day, written |-> "iso"]

-----------------------------------------------------------------------------
(* applicant_generator.py                                                  *)
EmploymentStatuses == {"employed", "self_employed", "unemployed", "retired"}

FamilySize(marital) ==
  CASE marital = "married"  -> RandInt(2, 7)
    [] marital = "divorced" -> RandInt(1, 4)
    [] marital = "widowed"  -> RandInt(1, 5)
    [] OTHER                -> RandInt(1, 2)

Dependents(family) == IF family > 1 THEN family - 1 ELSE 0

Salary(status) ==
  CASE status = "employed"      -> RandomDecimal(3000, 45000)
    [] status = "self_employed" -> RandomDecimal(5000, 60000)
    [] status = "retired"       -> RandomDecimal(2000, 15000)
    [] status = "unemployed"    -> RandomDecimal(0, 1500)

OtherIncome(status, salary) ==
  CASE status = "unemployed" -> RandomDecimal(0, 1000)
    [] status # "unemployed" /\ salary > 20000 * AED -> RandomDecimal(500, 8000)
    [] status # "unemployed" /\ salary \in (10000 * AED + 1)..(20000 * AED) ->
         RandomDecimal(0, 5000)
    [] OTHER -> RandomDecimal(0, 2000)

Rent(housing) == IF housing = "rented" THEN RandomDecimal(2000, 20000) ELSE {0}

Employer(status) ==
  CASE status = "self_employed" -> "Self-Employed"
    [] status = "unemployed"    -> "N/A"
    [] status = "retired"       -> "Retired"
    [] status = "employed"      -> "Company"

(* generate_applicant: seventy to eighteen years old, of 365 days each.    *)
Applicants ==
  UNION { UNION { { [name |-> {"given", "family"}, id |-> [number |-> 1, valid |-> TRUE],
                     address |-> "home", birth |-> birth, nationality |-> nationality,
                     family |-> family, dependents |-> Dependents(family),
                     employer |-> Employer(status), occupation |-> "Occupation",
                     salary |-> salary, other |-> other, total |-> salary + other,
                     housing |-> housing, rent |-> rent] :
                       other \in OtherIncome(status, salary), rent \in Rent(housing) } :
                    salary \in Salary(status), housing \in HousingStatuses } :
          status \in EmploymentStatuses, birth \in RandInt(-70 * Year, -18 * Year),
          nationality \in Nationalities,
          family \in UNION { FamilySize(m) : m \in MaritalStatuses } }

(* generate_test_data.py overrides the draws of three applicants.          *)
Scenario(status, salary, family) ==
  [status |-> status, salary |-> salary * AED, family |-> family]

Scenarios == <<Scenario("employed", 15000, 3), Scenario("unemployed", 800, 5),
               Scenario("self_employed", 6500, 2)>>

BuildProfile(p, s) ==
  [p EXCEPT !.salary = s.salary, !.other = 0, !.total = s.salary,
            !.family = s.family, !.dependents = Dependents(s.family),
            !.employer = Employer(s.status),
            !.occupation = CASE s.status = "unemployed" -> "N/A"
                             [] s.status = "employed"   -> "Administrative Assistant"
                             [] OTHER                   -> p.occupation,
            !.housing = "rented",
            !.rent = IF s.salary > 5000 * AED THEN 3500 * AED ELSE 2000 * AED]

-----------------------------------------------------------------------------
(* emirates_id_generator.py.  Issue dates are in days ago; that a card was *)
(* issued on February 29 is a choice, and then its expiry is a date that   *)
(* does not exist, since neither 5 nor 10 years later is a leap year.      *)
IssueDays ==
  UNION { RandomDateBetween(-(years + 1) * Year, -years * Year) : years \in RandInt(2, 5) }

Validity(nationality) == IF nationality = "Emirati" THEN {10} ELSE {5, 10}

FrontShows == {"full_name_en", "full_name_ar", "identity_number", "nationality",
               "date_of_birth", "gender", "expiry_date"}

BackShows == {"card_number", "issue_date"}

Card(p, issued, validity) ==
  [type |-> "emirates_id", shows |-> FrontShows \cup BackShows,
   name |-> p.name, id |-> p.id, birth |-> p.birth, address |-> p.address,
   mrz |-> TRUE, expiry |-> Written(issued + validity * Year)]

EmiratesIds(p) ==
  { Card(p, issued, validity) : issued \in IssueDays, validity \in Validity(p.nationality) }

-----------------------------------------------------------------------------
(* bank_statement_generator.py                                             *)
Transaction(category, amount) == [category |-> category, amount |-> amount]

(* The most recent one to three months; a salary day outside the statement *)
(* period is skipped, so there may be none.                                *)
WpsTransactions(p) ==
  { [i \in 1..n |-> Transaction("salary", p.salary)] : n \in {0} \cup RandInt(1, 3) }

RentTransactions(p) ==
  IF p.rent > 0 THEN { [i \in 1..n |-> Transaction("rent", -p.rent)] : n \in RandInt(1, 3) }
  ELSE {<<>>}

Debit(low, high) == { -a : a \in RandomDecimal(low, high) }

(* TRANSACTION_CATEGORIES: what a transaction of each adds to the balance. *)
Amount(category) ==
  CASE category = "rent"       -> Debit(2000, 25000)
    [] category = "utility"    -> Debit(150, 2500)
    [] category = "telecom"    -> Debit(50, 800)
    [] category = "grocery"    -> Debit(30, 1500)
    [] category = "fuel"       -> Debit(50, 500)
    [] category = "transfer"   -> Debit(200, 5000)
    [] category = "atm"        -> Debit(200, 3000)
    [] category = "pos"        -> Debit(20, 2000)
    [] category = "insurance"  -> Debit(300, 3000)
    [] category = "education"  -> Debit(500, 8000)
    [] category = "refund"     -> RandomDecimal(20, 500)
    [] category = "investment" -> RandomDecimal(1000, 10000)

RegularTransactions(categories) ==
  { [i \in DOMAIN categories |-> Transaction(categories[i], amounts[categories[i]])] :
      amounts \in { f \in [ToSet(categories) -> UNION { Amount(c) : c \in ToSet(categories) }] :
                      \A c \in DOMAIN f : f[c] \in Amount(c) } }

Transactions(p) ==
  { wps \o rent \o regular :
      wps \in WpsTransactions(p), rent \in RentTransactions(p),
      regular \in UNION { RegularTransactions(c) : c \in Categories } }

Amounts(txns) == [i \in DOMAIN txns |-> txns[i].amount]
Credits(txns) == Total(SelectSeq(Amounts(txns), LAMBDA a : a > 0))
Debits(txns) == -Total(SelectSeq(Amounts(txns), LAMBDA a : a < 0))

(* The closing balance is drawn and the opening one follows; when that is  *)
(* negative it is drawn and the closing one follows; when that is negative *)
(* too, more is added to the closing balance than the statement holds.     *)
Balances(txns) ==
  LET net == Credits(txns) - Debits(txns)
  IN  { [opening |-> c - net, closing |-> c] :
          c \in { x \in RandomDecimal(1000, 50000) : x >= net } }
      \cup
      { [opening |-> o,
         closing |-> IF o + net >= 0 THEN o + net ELSE -(o + net) + more] :
          o \in IF \E x \in RandomDecimal(1000, 50000) : x < net
                THEN RandomDecimal(5000, 20000) ELSE {},
          more \in RandomDecimal(1000, 5000) }

StatementShows == {"bank_name", "account_holder_name", "account_number", "currency",
                   "statement_period_start", "statement_period_end", "opening_balance",
                   "closing_balance", "total_debits", "total_credits", "transactions"}

(* A run of the generator; its assertion fails when the balances differ.   *)
BankStatements(p) ==
  UNION { UNION { { [type |-> "bank_statement", shows |-> StatementShows,
                     name |-> p.name, id |-> Absent, birth |-> Absent, address |-> Absent,
                     currency |-> "AED", opening |-> b.opening, closing |-> b.closing,
                     credits |-> Credits(txns), debits |-> Debits(txns),
                     start |-> Written(end - length), end |-> Written(end),
                     transactions |-> {end - length, end}, running |-> b.opening + Total(Amounts(txns)),
                     wps |-> { txns[i].amount : i \in { j \in DOMAIN txns :
                                                          txns[j].category = "salary" } }] :
                      b \in Balances(txns) } :
                  end \in RandInt(-15, -1), length \in RandInt(90, 180) } :
          txns \in Transactions(p) }

-----------------------------------------------------------------------------
(* credit_report_generator.py                                              *)
ActiveBalance(type) ==
  CASE type = "credit_card"   -> Uniform(0, 68000 * AED)
    [] type = "personal_loan" -> Uniform(2000 * AED, 150000 * AED)
    [] type = "overdraft"     -> Uniform(0, 30000 * AED)
    [] type = "auto_loan"     -> Uniform(10000 * AED, 200000 * AED)
    [] type = "mortgage"      -> Uniform(200000 * AED, 2000000 * AED)  \* 3 million is over 2^31

(* Most closed facilities owe nothing, some still do.                      *)
ClosedBalance(type) ==
  CASE type = "credit_card"   -> {0} \cup Uniform(1 * AED, 10000 * AED)
    [] type = "personal_loan" -> {0} \cup Uniform(1 * AED, 15000 * AED)
    [] type = "overdraft"     -> {0}
    [] type = "auto_loan"     -> {0} \cup Uniform(1 * AED, 20000 * AED)
    [] type = "mortgage"      -> {0} \cup Uniform(1 * AED, 50000 * AED)

Owed(types, balance(_), status) ==
  { [i \in DOMAIN types |-> [type |-> types[i], status |-> status, balance |-> b[types[i]]]] :
      b \in { f \in [ToSet(types) -> UNION { balance(t) : t \in ToSet(types) }] :
                \A t \in DOMAIN f : f[t] \in balance(t) } }

Facilities ==
  { active \o closed :
      active \in UNION { Owed(t, ActiveBalance, "active") : t \in ActiveTypes },
      closed \in UNION { Owed(t, ClosedBalance, "closed") : t \in ClosedTypes } }

Outstanding(facilities, keep(_)) ==
  Total([i \in DOMAIN facilities |-> IF keep(facilities[i]) THEN facilities[i].balance ELSE 0])

ReportShows == {"cb_subject_id", "identity_number", "full_name", "credit_score", "risk_band",
                "total_active_accounts", "total_closed_accounts", "total_outstanding_balance",
                "total_credit_limit", "facilities", "payment_history", "inquiries"}

(* Gate 1 sums the active facilities, the total is over all of them.       *)
CreditReport(p, score, facilities) ==
  [type |-> "credit_report", shows |-> ReportShows,
   name |-> p.name, id |-> p.id, birth |-> Absent, address |-> Absent,
   score |-> score, future |-> FALSE,
   outstanding |-> Outstanding(facilities, LAMBDA f : TRUE),
   facilities |-> Outstanding(facilities, LAMBDA f : f.status = "active"),
   records |-> facilities]

CreditReports(p) ==
  { CreditReport(p, score, facilities) : score \in RandInt(300, 900), facilities \in Facilities }

-----------------------------------------------------------------------------
(* resume_generator.py: each past position ends where the one after it     *)
(* starts, and is to start between the applicant's eighteenth birthday and *)
(* sixty days before that.                                                 *)
Eighteen(p) == p.birth + 18 * Year

Position(p, start, end, employer) ==
  [start |-> Written(start), end |-> end, current |-> end = Absent,
   employer |-> employer, title |-> p.occupation]

(* When positions start, the current one first, of none to n of them.      *)
Starts(adult, n) ==
  LET starts[k \in 0..n] ==
        IF k = 0 THEN {<<>>}
        ELSE UNION { { Append(later, start) :
                         start \in RandomDateBetween(adult, IF k = 1 THEN -30
                                                            ELSE later[k - 1] - 60) } :
                       later \in starts[k - 1] }
  IN  starts

WorkExperience(p) ==
  UNION { { [i \in 1..n |->
               IF i = n
               THEN Position(p, starts[1], Absent, p.employer)
               ELSE Position(p, starts[i + 1], Written(starts[i]), "Elsewhere")] :
              starts \in Starts(Eighteen(p), n)[n] } : n \in Positions }

(* The positions are listed, so they can be counted; there is no birth     *)
(* date on a resume.                                                       *)
ResumeShows == {"full_name", "email", "phone", "location", "summary", "work_experience",
                "total_positions", "education", "skills", "certifications"}

Resumes(p) ==
  { [type |-> "resume", shows |-> ResumeShows,
     name |-> p.name, id |-> Absent, birth |-> Absent, address |-> Absent,
     positions |-> ToSet(work), employer |-> p.employer] :
      work \in WorkExperience(p) }

-----------------------------------------------------------------------------
(* assets_liabilities_generator.py: everybody has some of six categories,  *)
(* owners have real estate and a mortgage; the debts are the facilities'.  *)
Debt_ActiveOnly(facilities, type) ==
  Quantized(Outstanding(facilities, LAMBDA f : f.type = type /\ f.status = "active"))

Debt(facilities, type) == Quantized(Outstanding(facilities, LAMBDA f : f.type = type))

SheetShows == {"applicant_name", "statement_date", "total_assets", "total_liabilities",
               "net_worth", "monthly_income"}

Sheet(p, assets, liabilities, cards, loans, day) ==
  [type |-> "assets_liabilities", shows |-> SheetShows,
   name |-> p.name, id |-> Absent, birth |-> Absent, address |-> Absent,
   assets |-> assets, categories |-> assets, liabilities |-> liabilities + cards + loans,
   netWorth |-> assets - (liabilities + cards + loans), cards |-> cards, loans |-> loans,
   statement |-> Written(day)]

AssetsLiabilities(p, facilities) ==
  LET owner == IF p.housing = "owned" THEN 1 ELSE 0
  IN  { Sheet(p, held + owner * 500000 * AED, owed + owner * 200000 * AED,
              Debt(facilities, "credit_card"), Debt(facilities, "personal_loan"), day) :
          held \in RandomDecimal(26000, 1100000), owed \in RandomDecimal(0, 70000),
          day \in RandInt(-180, 0) }

-----------------------------------------------------------------------------
(* application_form_generator.py                                           *)
FormShows == {"applicant_name", "identity_number", "date_of_birth", "nationality",
              "contact_phone", "contact_email", "address", "marital_status", "family_size",
              "employment_status", "employer_name", "occupation", "monthly_salary",
              "other_income", "total_monthly_income", "housing_status", "support_category",
              "declaration_date"}

ApplicationForm(p) ==
  [type |-> "application_form", shows |-> FormShows,
   name |-> p.name, id |-> p.id, birth |-> p.birth, address |-> p.address,
   salary |-> p.salary, other |-> p.other, income |-> p.salary + p.other,
   employer |-> p.employer, occupation |-> p.occupation,
   family |-> p.family, dependents |-> p.dependents]
=============================================================================
