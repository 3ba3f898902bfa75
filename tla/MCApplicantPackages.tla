------------------------- MODULE MCApplicantPackages -------------------------
(* Instances of ApplicantPackages.  A draw gives the upper end of its      *)
(* range, 4 thousandths short of it for an amount; spans of time and       *)
(* amounts that may be zero are drawn at either end.  Amounts whose sums   *)
(* would not fit into 32 bits are drawn near the lower end.                *)
EXTENDS ApplicantPackages

MCWholeDraws(a, b) == IF a < 0 /\ b - a >= 100 THEN {a, b} ELSE {b}
MCAmountDraws(a, b) ==
  (IF a = 0 THEN {0} ELSE {}) \cup {IF b > 60000 * AED THEN a + 50000 * AED - 4 ELSE b - 4}

MCSeeds == <<1>>

MCCategories == {<<"education", "refund">>, <<"pos", "investment">>}
MCActiveTypes == {<<"credit_card", "mortgage">>, <<"personal_loan">>}
MCClosedTypes == {<<>>, <<"credit_card">>}
=============================================================================
