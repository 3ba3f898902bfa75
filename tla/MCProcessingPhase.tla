-------------------------- MODULE MCProcessingPhase --------------------------
(* Instances of ProcessingPhase: files of up to three documents whose      *)
(* readings pass or fail each check of Gate 1 or disagree with each other. *)
(* Two lists are as the second processing of an application has them: one  *)
(* was doubled, to one an older state of itself was added again.           *)
EXTENDS ProcessingPhase

MCUpload(id, type) == [id |-> id, type |-> type]

MCIso(day) == [day |-> day, written |-> "iso"]
MCNumber(n) == [number |-> n, valid |-> TRUE]

MCEid(n, valid, expiry) ==
  [type |-> "emirates_id", missing |-> 0, id |-> [number |-> n, valid |-> valid],
   name |-> {"aisha", "omar"}, birth |-> 1, address |-> Absent, expiry |-> expiry, mrz |-> TRUE]

MCForm(n, name, income) ==
  [type |-> "application_form", missing |-> 0, id |-> MCNumber(n), name |-> name, birth |-> 1,
   address |-> "dubai", income |-> income, salary |-> 8, other |-> 2]

MCBank(closing, credits) ==
  [type |-> "bank_statement", missing |-> 0, id |-> Absent, name |-> {"aisha", "omar"},
   birth |-> Absent, address |-> "dubai", opening |-> 5, credits |-> credits, debits |-> 0,
   closing |-> closing, start |-> MCIso(-30), end |-> MCIso(-1), transactions |-> {-10},
   currency |-> "AED"]

MCCredit(n, score) ==
  [type |-> "credit_report", missing |-> 0, id |-> MCNumber(n), name |-> {"aisha", "omar"},
   birth |-> Absent, address |-> "sharjah", score |-> score, outstanding |-> 3,
   facilities |-> 3, future |-> FALSE]

MCAssets ==
  [type |-> "assets_liabilities", missing |-> 0, id |-> Absent, name |-> {"aisha", "salem"},
   birth |-> Absent, address |-> Absent, assets |-> 9, liabilities |-> 2, netWorth |-> 7,
   statement |-> MCIso(-10), categories |-> 9]

MCResume(current) ==
  [type |-> "resume", missing |-> 0, id |-> Absent, name |-> {"aisha", "omar"}, birth |-> 2,
   address |-> Absent,
   positions |-> {[start |-> MCIso(-900), end |-> Absent, current |-> current]}]

MCReadings ==
  {MCEid("784", TRUE, MCIso(100)), MCEid("784", TRUE, [day |-> 100, written |-> "other"]),
   MCForm("784", {"aisha", "omar"}, 10), MCForm("785", {"badr", "omar"}, 10),
   MCBank(10, 5), MCBank(20, 15), MCBank(10, Garbled),
   MCCredit("786", 700), MCCredit("784", 250), MCAssets, MCResume(TRUE)}

MCUploads ==
  { <<>>,
    <<MCUpload(1, "emirates_id"), MCUpload(2, "application_form")>>,
    <<MCUpload(1, "application_form"), MCUpload(2, "bank_statement"), MCUpload(3, "application_form")>>,
    <<MCUpload(1, "emirates_id"), MCUpload(2, "application_form"),
      MCUpload(1, "emirates_id"), MCUpload(2, "application_form")>>,
    <<MCUpload(1, "application_form"), MCUpload(2, "bank_statement"), MCUpload(3, "application_form"),
      MCUpload(1, "application_form"), MCUpload(2, "bank_statement")>>,
    <<MCUpload(1, "emirates_id"), MCUpload(2, "credit_report"), MCUpload(3, "application_form")>>,
    <<MCUpload(1, "resume"), MCUpload(2, "assets_liabilities"), MCUpload(3, "emirates_id")>> }

MCAnswers ==
  [kind : {"json"}, types : {{"emirates_id", "application_form"}}, base : {75, 100},
   key : {"type", "discrepancy_type", "both"}, class : {"unclassified", "real_discrepancy"},
   status : {"unresolved", Absent}]
  \cup {[kind |-> "json", types |-> {"emirates_id"}, base |-> Absent, key |-> "both",
         class |-> "unclassified", status |-> "unresolved"],
        [kind |-> "text"]}

MCPriors ==
  { <<>>,
    <<[type |-> "income_mismatch", measure |-> 50, key |-> "both", class |-> "unclassified",
       status |-> "unresolved", question |-> Absent]>> }
=============================================================================
