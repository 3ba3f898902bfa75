-------------------------- MODULE ApplicantPackages --------------------------
(***************************************************************************)
(* The two programs that write test applicants to disk.  The command       *)
(* python -m src.data_generation (cli.py) goes through its seeds; for each *)
(* it draws a profile, makes six documents, each rendered to a scratch     *)
(* directory named after the seed and copied to the package's own, holds   *)
(* them against the eleven rules of consistency.py, and writes the data    *)
(* and last the report.  scripts/generate_test_data.py makes four of the   *)
(* documents for each of its three applicants.                             *)
(*                                                                         *)
(* Batches of both follow one another on the same disk, on later days with *)
(* other draws for the same seeds, and may be stopped anywhere.            *)
(***************************************************************************)
EXTENDS SyntheticDocuments

CONSTANTS
  Seeds,          \* the sequence of seeds of a batch of the CLI
  OutputDirs,     \* its values of --output-dir
  Scratch,        \* the directory most documents are rendered in
  TestDir,        \* where the script writes
  MaxBatches      \* bound on the batches run

ASSUME SeedsAssumption == Seeds \in Seq(ToSet(Seeds))

VARIABLES
  batch,      \* the number of the batch that runs or ran last
  program,    \* "cli" or "test_data"; "none" between batches
  outputDir,  \* where the batch writes
  left,       \* the seeds or scenarios it has not begun
  seed,       \* the one in hand, or handled last
  next,       \* the steps left for it
  package,    \* the profile and the documents made for it
  disk,       \* the batch that wrote each file of each package directory; 0 if none did
  ok          \* the seeds the batch has printed as OK

packagesVars == <<batch, program, outputDir, left, seed, next, package, disk, ok>>

Directories == (OutputDirs \X ToSet(Seeds)) \cup ({TestDir} \X ToSet(Scenarios))

Documents == <<"emirates_id", "bank_statement", "credit_report", "resume",
               "assets_liabilities", "application_form">>

TestDocuments == <<"emirates_id", "bank_statement", "credit_report", "application_form">>

Files == ToSet(Documents) \cup {"data", "report"}

(* What is done for one applicant, after its profile.                      *)
Steps == [cli |-> Documents \o <<"data", "report">>, test_data |-> TestDocuments \o <<"data">>]

PackagesInit ==
  /\ batch = 0
  /\ program = "none"
  /\ outputDir = Scratch
  /\ left = <<>>
  /\ seed = Seeds[1]
  /\ next = <<>>
  /\ package = <<>>
  /\ disk = [d \in Directories |-> [f \in Files |-> 0]]
  /\ ok = {}

-----------------------------------------------------------------------------
(* The rules of consistency.py over a package.                             *)
Sources(pkg) == {"emirates_id", "credit_report", "application_form"} \cap DOMAIN pkg

IdentityConsistent(pkg) == Cardinality(Numbers(pkg, Sources(pkg))) = 1

NamesReconcilable(pkg) ==
  \A a, b \in { pkg[t].name : t \in Sources(pkg) } \cup {pkg["profile"].name} :
    AlikeEnough(Similarity(a, b))

BirthConsistent(pkg) ==
  Cardinality(Births(pkg, BirthDocuments) \cup {pkg["profile"].birth}) = 1

Distance(a, b) == IF a > b THEN a - b ELSE b - a

SalaryMatchesWps(pkg) ==
  \A amount \in pkg["bank_statement"].wps :
    Distance(amount, pkg["application_form"].salary) <= pkg["application_form"].salary \div 10

EmployerConsistent(pkg) ==
  Cardinality({pkg["application_form"].employer, pkg["resume"].employer,
               pkg["profile"].employer}) < 3

AddressConsistent(pkg) ==
  {pkg["emirates_id"].address, pkg["application_form"].address} = {pkg["profile"].address}

IncomeAddsUp(pkg) ==
  LET form == pkg["application_form"]
  IN  Distance(form.income, form.salary + form.other) <= 1 * AED

(* Credit cards and personal loans of all facilities, the closed included. *)
DebtsMatch(pkg) ==
  LET owed == Outstanding(pkg["credit_report"].records,
                          LAMBDA f : f.type \in {"credit_card", "personal_loan"})
      tolerance == IF owed > 1000 * AED THEN owed \div 100 ELSE 10 * AED
  IN  Distance(pkg["assets_liabilities"].cards + pkg["assets_liabilities"].loans, owed) <= tolerance

DependentsFit(pkg) == pkg["application_form"].dependents < pkg["application_form"].family

CurrentJobMatches(pkg) ==
  LET current == { p \in pkg["resume"].positions : p.current }
  IN  current # {} => \E p \in current : \/ p.employer = pkg["application_form"].employer
                                         \/ p.title = pkg["application_form"].occupation

(* validate_consistency; rule 6 is part of rule 1.                         *)
ValidateConsistency(pkg) ==
  /\ IdentityConsistent(pkg)
  /\ NamesReconcilable(pkg)
  /\ BirthConsistent(pkg)
  /\ SalaryMatchesWps(pkg)
  /\ EmployerConsistent(pkg)
  /\ AddressConsistent(pkg)
  /\ IncomeAddsUp(pkg)
  /\ DebtsMatch(pkg)
  /\ DependentsFit(pkg)
  /\ CurrentJobMatches(pkg)

-----------------------------------------------------------------------------
Doing(step) == program # "none" /\ next # <<>> /\ Head(next) = step

Saved(file) == [disk EXCEPT ![<<outputDir, seed>>][file] = batch]

Stopped ==
  /\ program' = "none"
  /\ left' = <<>> /\ next' = <<>> /\ package' = <<>>
  /\ UNCHANGED <<batch, outputDir, seed, ok>>

(* _main and generate_batch of the CLI, main of the script.                *)
StartBatch ==
  /\ program = "none" /\ batch < MaxBatches
  /\ batch' = batch + 1
  /\ \/ program' = "cli" /\ outputDir' \in OutputDirs /\ left' = Seeds
     \/ program' = "test_data" /\ outputDir' = TestDir /\ left' = Scenarios
  /\ ok' = {}
  /\ UNCHANGED <<seed, next, package, disk>>

StartPackage ==
  /\ program # "none" /\ next = <<>>
  /\ left # <<>> /\ seed' = Head(left) /\ left' = Tail(left)
  /\ next' = Steps[program]
  /\ \E p \in Applicants :
       package' = [t \in {"profile"} |-> IF program = "cli" THEN p ELSE BuildProfile(p, seed')]
  /\ UNCHANGED <<batch, program, outputDir, disk, ok>>

FinishBatch ==
  /\ program # "none" /\ next = <<>> /\ left = <<>>
  /\ Stopped /\ UNCHANGED disk

(* A document is made and its file put into the package directory.  These  *)
(* three are rendered under the same name in the scratch directory, and    *)
(* shutil.copy2 refuses to copy a file onto itself.                        *)
PutFile(type, doc) ==
  /\ disk' = Saved(type)
  /\ IF outputDir = Scratch /\ type \in {"credit_report", "resume", "application_form"}
     THEN Stopped
     ELSE /\ package' = [t \in DOMAIN package \cup {type} |->
                           IF t = type THEN doc ELSE package[t]]
          /\ next' = Tail(next)
          /\ UNCHANGED <<batch, program, outputDir, left, seed, ok>>

MakeEmiratesId ==
  /\ Doing("emirates_id")
  /\ \E doc \in EmiratesIds(package["profile"]) : PutFile("emirates_id", doc)

LeapDay_Swallowed ==
  /\ Doing("emirates_id")
  /\ next' = <<>> /\ package' = <<>>
  /\ ok' = IF disk[<<outputDir, seed>>]["report"] # 0 THEN ok \cup {seed} ELSE ok
  /\ UNCHANGED <<batch, program, outputDir, left, seed, disk>>

(* A card issued on a February 29: replace() raises, and the batch ends.   *)
LeapDay ==
  /\ Doing("emirates_id")
  /\ Stopped /\ UNCHANGED disk

(* The generator's assertion comes before the file is copied.              *)
MakeBankStatement ==
  /\ Doing("bank_statement")
  /\ \E doc \in BankStatements(package["profile"]) :
       IF Reconciles(doc) THEN PutFile("bank_statement", doc) ELSE Stopped /\ UNCHANGED disk

MakeCreditReport ==
  /\ Doing("credit_report")
  /\ \E doc \in CreditReports(package["profile"]) : PutFile("credit_report", doc)

MakeResume ==
  /\ Doing("resume")
  /\ \E doc \in Resumes(package["profile"]) : PutFile("resume", doc)

MakeAssetsLiabilities ==
  /\ Doing("assets_liabilities")
  /\ \E doc \in AssetsLiabilities(package["profile"], package["credit_report"].records) :
       PutFile("assets_liabilities", doc)

MakeApplicationForm ==
  /\ Doing("application_form")
  /\ PutFile("application_form", ApplicationForm(package["profile"]))

(* The profile and the data of every document, as JSON.                    *)
WriteData ==
  /\ Doing("data")
  /\ disk' = Saved("data")
  /\ next' = Tail(next)
  /\ UNCHANGED <<batch, program, outputDir, left, seed, package, ok>>

(* The report is written whatever it says, and OK means that it is there.  *)
WriteReport ==
  /\ Doing("report")
  /\ disk' = Saved("report")
  /\ next' = <<>>
  /\ ok' = ok \cup {seed}
  /\ UNCHANGED <<batch, program, outputDir, left, seed, package>>

(* The process is stopped from outside.                                    *)
Killed ==
  /\ program # "none"
  /\ Stopped /\ UNCHANGED disk

PackagesNext ==
  \/ StartBatch \/ StartPackage \/ FinishBatch
  \/ MakeEmiratesId \/ LeapDay \/ MakeBankStatement \/ MakeCreditReport \/ MakeResume
  \/ MakeAssetsLiabilities \/ MakeApplicationForm
  \/ WriteData \/ WriteReport
  \/ Killed

PackagesSpec == PackagesInit /\ [][PackagesNext]_packagesVars

-----------------------------------------------------------------------------
(* The fields Gate 1 requires of each type of document.                    *)
RequiredFields(type) ==
  CASE type = "emirates_id" ->
         {"identity_number", "full_name_en", "nationality", "date_of_birth", "gender",
          "expiry_date"}
    [] type = "bank_statement" ->
         {"bank_name", "account_holder_name", "account_number", "currency",
          "statement_period_start", "statement_period_end", "opening_balance",
          "closing_balance", "total_debits", "total_credits"}
    [] type = "credit_report" ->
         {"cb_subject_id", "identity_number", "full_name", "credit_score", "risk_band",
          "total_active_accounts", "total_closed_accounts", "total_outstanding_balance"}
    [] type = "assets_liabilities" ->
         {"applicant_name", "statement_date", "total_assets", "total_liabilities", "net_worth"}
    [] type = "resume" -> {"full_name", "work_experience", "total_positions"}
    [] type = "application_form" ->
         {"applicant_name", "identity_number", "date_of_birth", "nationality",
          "contact_phone", "employment_status", "total_monthly_income"}

(* What is known to go wrong with a generated document: a resident's card  *)
(* may have expired, the report's total counts debts of closed facilities  *)
(* that Gate 1 leaves out, and a past position may end before it starts,   *)
(* when the one after it began within sixty days of the age of eighteen.   *)
KnownFaults(type, pkg) ==
  CASE type = "emirates_id" -> IF pkg["profile"].nationality = "Emirati" THEN {} ELSE {"expired"}
    [] type = "credit_report" ->
         IF \E i \in DOMAIN pkg[type].records :
              pkg[type].records[i].status = "closed" /\ pkg[type].records[i].balance > 0
         THEN {"facilities"} ELSE {}
    [] type = "resume" ->
         { <<p, "order">> : p \in { q \in pkg[type].positions :
              ~q.current /\ q.end.day < Eighteen(pkg["profile"]) + 60 } }
    [] OTHER -> {}

(* The generators against the checks they are meant to feed: a package     *)
(* that is complete satisfies all of consistency.py, its report never says *)
(* that it failed; and Gate 1 finds every required field printed on each   *)
(* document and, read back as it was generated, no error but the known     *)
(* ones (src/data_generation, src/agents/gates/document_integrity.py).     *)
PackagesPassTheirChecks ==
  /\ Doing("report") => ValidateConsistency(package)
  /\ \A type \in DOMAIN package \ {"profile"} :
       /\ RequiredFields(type) \subseteq package[type].shows
       /\ ContentErrors(package[type]) \subseteq KnownFaults(type, package)

(* A seed printed as OK has all its files from the batch that printed it,  *)
(* although the directory may hold older ones and a batch may stop half    *)
(* way (cli.py:129 only looks for the report).                             *)
OkPackagesAreWhole ==
  \A s \in ok : \A f \in Files : disk[<<outputDir, s>>][f] = batch

(* A directory with a report has all of it from one batch; it has not when *)
(* a later batch is stopped half way.                                      *)
ReportedPackagesAreWhole ==
  \A d \in OutputDirs \X ToSet(Seeds) : disk[d]["report"] # 0 =>
     \A f \in Files : disk[d][f] = disk[d]["report"]
=============================================================================
