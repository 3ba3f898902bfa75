--------------------------- MODULE MCDecisionPhase ---------------------------
(* Instances of DecisionPhase: files on both sides of every threshold the  *)
(* scores are compared with, and of every check of Gate 3.                 *)
EXTENDS DecisionPhase

MCForm(income, family, category, status, housing, id) ==
  [income |-> income, salary |-> 3000, family |-> family, category |-> category,
   status |-> status, housing |-> housing, id |-> id]

MCCredit(points, payments, outstanding, late, defaulted, id) ==
  [score |-> points, payments |-> payments, outstanding |-> outstanding,
   late |-> late, defaulted |-> defaulted, id |-> id]

MCEid(state) == [state |-> state, id |-> "784"]
MCBank(balances, closing) == [balances |-> balances, closing |-> closing, id |-> "784"]

MCEmpty == [eid |-> Absent, form |-> Absent, credit |-> Absent, assets |-> Absent,
            resume |-> Absent, bank |-> Absent, info |-> Absent]

(* The strongest and the weakest file, and files that differ from the      *)
(* strongest in one respect.                                               *)
MCStrong == [eid |-> MCEid("valid"),
             form |-> MCForm(10000, 4, "abandoned", "employed", 2500, "784"),
             credit |-> MCCredit(750, 2999, 2999, 0, 0, "784"),
             assets |-> [netWorth |-> 500001], resume |-> [months |-> 36],
             bank |-> MCBank("reconcile", 30000), info |-> Absent]

MCMiddle == [MCStrong EXCEPT !.form = MCForm(10000, 4, "", "employed", 3000, "784"),
                             !.credit.score = 650, !.assets.netWorth = 0, !.resume.months = 11]

MCWeak == [eid |-> MCEid("expired"),
           form |-> MCForm(4000, 3, "", "unemployed", 1601, "784"),
           credit |-> MCCredit(499, 3200, 9000, 3, 1, "784"),
           assets |-> [netWorth |-> -1], resume |-> [months |-> 11],
           bank |-> MCBank("off", 100), info |-> Absent]

MCFiles ==
  {MCEmpty, MCStrong, MCMiddle, MCWeak}
  \cup { [MCStrong EXCEPT !.eid = e] : e \in {Absent, MCEid("expired")} }
  \cup { [MCStrong EXCEPT !.credit.score = c] : c \in {Absent, 499, 901} }
  \cup { [MCStrong EXCEPT !.credit.id = "785"], [MCStrong EXCEPT !.bank = MCBank("off", 100)],
         [MCStrong EXCEPT !.form.income = Garbled],
         [MCStrong EXCEPT !.form = Absent, !.info = MCForm(0, 0, "divorced", "unemployed", 1000, "")] }
  \cup { [MCWeak EXCEPT !.form.category = "abandoned", !.form.family = n, !.credit.score = c] :
           n \in {1, 5}, c \in {500, 650} }
  \cup { [MCWeak EXCEPT !.resume = Absent, !.form.status = "employed", !.credit = Absent],
         [MCWeak EXCEPT !.form.income = 0, !.form.salary = 0] }

MCUnvalidated == [validated |-> FALSE, confidence |-> Missing, discrepancies |-> {}]

MCDiscrepancy(type) == [type |-> type, status |-> "unresolved"]

MCValidated(confidence, discrepancies) ==
  [validated |-> TRUE, confidence |-> confidence, discrepancies |-> discrepancies]

(* The second discrepancy has the type the decision agent calls critical,  *)
(* the first the one the validation agent does.                            *)
MCValidations ==
  {MCUnvalidated, MCValidated(Missing, {}), MCValidated(799, {}), MCValidated(800, {}),
   MCValidated(800, {MCDiscrepancy("identity_mismatch")}),
   MCValidated(800, {MCDiscrepancy("identity_match")})}

MCUnresolved ==
  {{}, {[status |-> "discrepancies_found", confidence |-> 499]},
       {[status |-> "discrepancies_found", confidence |-> 700]}}

MCDecisionAnswers ==
  [kind : {"json"}, decision : {"approved", "soft_decline", "error", Missing}]
  \cup [kind : {"tool"}, category : {"abandoned", Missing}]
  \cup {[kind |-> "fenced", decision |-> "approved"], [kind |-> "text"], [kind |-> "raises"]}
=============================================================================
