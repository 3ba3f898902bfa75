------------------------------ MODULE Records ------------------------------
(***************************************************************************)
(* The document and application rows and the services that write them:     *)
(* DocumentService, ExtractionService, ValidationService,                  *)
(* ApplicationService, document_collection's _persist_document_to_db and   *)
(* persist_results.  Every job has a session of its own.  A session keeps  *)
(* what it has loaded: a later SELECT of a loaded row does not bring its   *)
(* columns up to date, only the refresh after a commit does; and a commit  *)
(* writes just the columns that differ from what was loaded.               *)
(*                                                                         *)
(* One step is what a job does between two awaits on the database.         *)
(***************************************************************************)
EXTENDS Naturals

CONSTANTS
  Docs,          (* documents that may be uploaded                          *)
  Intact,        (* those whose file is not empty                           *)
  Workers,       (* jobs that run at a time: requests and tasks             *)
  Patches,       (* bodies of PATCH /applications/{id}/status               *)
  MaxJobs,       (* bound: jobs started                                     *)
  MaxLosses,     (* bound: jobs that a database error or a crash ends       *)
  Absent

ASSUME DocsAssumption == Absent \notin Docs
ASSUME BoundsAssumption == {MaxJobs, MaxLosses} \subseteq Nat
ASSUME PatchesAssumption == \A p \in Patches : p = [status |-> p.status, phase |-> p.phase]

VARIABLES
  file,      (* the stored file of a document                               *)
  row,       (* the rows of the documents table                             *)
  app,       (* the row of the applications table                           *)
  cross,     (* the committed rows of cross_document_validations            *)
  job,       (* what each worker does                                       *)
  seen,      (* the documents each worker's session has loaded              *)
  seenApp,   (* the application it has loaded                               *)
  jobs, losses,
  hurt       (* documents a lost job worked on                              *)

session == <<job, seen, seenApp>>
bounds == <<jobs, losses, hurt>>
vars == <<file, row, app, cross, session, bounds>>

NewRow == [processing |-> "uploaded", extraction |-> "pending",
           validation |-> "pending", error |-> "none"]

NewApplication == [status |-> "in_progress", phase |-> "intake", completed |-> {},
                   score |-> FALSE, decision |-> FALSE]

Job(op, pc, doc, todo) ==
  [op |-> op, pc |-> pc, doc |-> doc, todo |-> todo, why |-> "none", ask |-> Absent]

Idle == Job("none", "idle", Absent, {})
NothingSeen == [d \in Docs |-> Absent]

(* Some of the documents, and the application, may be there from before.   *)
Init ==
  /\ \E known \in SUBSET Docs :
       /\ file = [d \in Docs |-> IF d \in known THEN "stored" ELSE "none"]
       /\ row = [d \in Docs |-> IF d \in known THEN NewRow ELSE Absent]
       /\ app \in {NewApplication} \cup (IF known = {} THEN {Absent} ELSE {})
  /\ cross = {}
  /\ job = [w \in Workers |-> Idle]
  /\ seen = [w \in Workers |-> NothingSeen]
  /\ seenApp = [w \in Workers |-> Absent]
  /\ jobs = 0 /\ losses = 0 /\ hurt = {}

-----------------------------------------------------------------------------
(* The steps of a job.                                                     *)
Rows == {d \in Docs : row[d] # Absent}

At(w, ops, pc) == job[w].op \in ops /\ job[w].pc = pc

Begin(w, new) ==
  /\ job[w] = Idle /\ jobs < MaxJobs
  /\ job' = [job EXCEPT ![w] = new]
  /\ jobs' = jobs + 1
  /\ UNCHANGED <<losses, hurt>>

Goto(w, pc) == job' = [job EXCEPT ![w].pc = pc] /\ UNCHANGED bounds

Load(w, docs) == seen' = [seen EXCEPT ![w] = [d \in Docs |-> IF d \in docs THEN row[d] ELSE @[d]]]

Refresh(w) == Load(w, {job[w].doc})

End(w) ==
  /\ job' = [job EXCEPT ![w] = Idle]
  /\ seen' = [seen EXCEPT ![w] = NothingSeen]
  /\ seenApp' = [seenApp EXCEPT ![w] = Absent]
  /\ UNCHANGED bounds

(* What a commit makes of a stored record: the columns that differ from    *)
(* those loaded are written, the others stay as they are stored.           *)
Merged_Whole(stored, loaded, new) == new
Merged(stored, loaded, new) ==
  [c \in DOMAIN stored |-> IF new[c] # loaded[c] THEN new[c] ELSE stored[c]]

CommitRow(w, new) ==
  LET d == job[w].doc
  IN row' = [row EXCEPT ![d] = Merged(@, seen[w][d], new)]

(* update_status sets the columns it is given on the session's object.     *)
Loaded(w) == seen[w][job[w].doc]

-----------------------------------------------------------------------------
(* DocumentService.upload_document writes the file and then the row;       *)
(* _persist_document_to_db makes a row for a path whether or not there is  *)
(* a file.                                                                 *)
UploadFile(w, d) ==
  /\ app # Absent /\ file[d] = "none"
  /\ Begin(w, Job("upload", "create", d, {}))
  /\ file' = [file EXCEPT ![d] = "stored"]
  /\ UNCHANGED <<row, app, cross, seen, seenApp>>

CollectFile(w, d) ==
  /\ file[d] = "none"
  /\ Begin(w, Job("collect", "create", d, {}))
  /\ \E found \in {"stored", "missing"} : file' = [file EXCEPT ![d] = found]
  /\ UNCHANGED <<row, app, cross, seen, seenApp>>

CreateRow(w) ==
  /\ At(w, {"upload", "collect"}, "create")
  /\ row' = [row EXCEPT ![job[w].doc] = NewRow]
  /\ End(w)
  /\ UNCHANGED <<file, app, cross>>

-----------------------------------------------------------------------------
(* ExtractionService.extract_document and extract_all_documents.           *)
StartExtract(w, d) ==
  /\ d \in Rows
  /\ Begin(w, Job("extract", "mark", d, {}))
  /\ Load(w, {d})
  /\ UNCHANGED <<file, row, app, cross, seenApp>>

StartExtractAll(w) ==
  /\ Begin(w, Job("extract_all", "next", Absent, Rows))
  /\ Load(w, Rows)
  /\ UNCHANGED <<file, row, app, cross, seenApp>>

(* The loop tests the status of the object the session has loaded, before  *)
(* or after its own work on it.                                            *)
Extractable(w, d) == seen[w][d].processing \in {"uploaded", "failed"}

NextDocument(w) ==
  /\ At(w, {"extract_all"}, "next")
  /\ \/ \E d \in job[w].todo :
          /\ job' = [job EXCEPT ![w].todo = @ \ {d}, ![w].doc = d,
                                ![w].pc = IF Extractable(w, d) THEN "mark" ELSE "next"]
          /\ UNCHANGED <<seen, seenApp, bounds>>
     \/ job[w].todo = {} /\ End(w)
  /\ UNCHANGED <<file, row, app, cross>>

Extracting == {"extract", "extract_all"}

MarkExtracting(w) ==
  /\ At(w, Extracting, "mark")
  /\ CommitRow(w, [Loaded(w) EXCEPT !.processing = "extracting"])
  /\ Goto(w, "parse")
  /\ UNCHANGED <<file, app, cross, seen, seenApp>>

(* run_extraction_pipeline raises whatever it reads: without a file at     *)
(* once, and with one when compute_confidence, which has three parameters, *)
(* is called with four arguments.  What the parsers found is dropped.      *)
RunPipeline(w) ==
  /\ At(w, Extracting, "parse")
  /\ Refresh(w)
  /\ job' = [job EXCEPT
       ![w].pc = "fail",
       ![w].why = IF file[job[w].doc] = "stored" THEN "raised" ELSE "not_found"]
  /\ UNCHANGED <<file, row, app, cross, seenApp, bounds>>

MarkFailed_ProcessingStays(w) ==
  /\ At(w, Extracting, "fail")
  /\ CommitRow(w, [Loaded(w) EXCEPT !.extraction = "failed"])
  /\ Goto(w, "log")
  /\ UNCHANGED <<file, app, cross, seen, seenApp>>
MarkFailed(w) ==
  /\ At(w, Extracting, "fail")
  /\ CommitRow(w, [Loaded(w) EXCEPT !.processing = "failed", !.extraction = "failed"])
  /\ Goto(w, "log")
  /\ UNCHANGED <<file, app, cross, seen, seenApp>>

(* The refresh after the failure, error_log and its own commit: only that  *)
(* column is written.                                                      *)
LogError(w) ==
  /\ At(w, Extracting, "log")
  /\ row' = [row EXCEPT ![job[w].doc].error = job[w].why]
  /\ \/ job[w].op = "extract" /\ End(w)
     \/ /\ job[w].op = "extract_all"
        /\ seen' = [seen EXCEPT ![w][job[w].doc] = row'[job[w].doc]]
        /\ Goto(w, "next")
        /\ UNCHANGED seenApp
  /\ UNCHANGED <<file, app, cross>>

-----------------------------------------------------------------------------
(* ValidationService.validate_document.  No extraction is ever stored, so  *)
(* the extracted data is empty and only the file itself is judged.         *)
StartValidate(w, d) ==
  /\ d \in Rows
  /\ Begin(w, Job("validate", "mark", d, {}))
  /\ Load(w, {d})
  /\ UNCHANGED <<file, row, app, cross, seenApp>>

MarkValidating(w) ==
  /\ At(w, {"validate"}, "mark")
  /\ CommitRow(w, [Loaded(w) EXCEPT !.processing = "validating"])
  /\ Goto(w, "fetch")
  /\ UNCHANGED <<file, app, cross, seen, seenApp>>

FetchExtracted(w) ==
  /\ At(w, {"validate"}, "fetch")
  /\ Refresh(w)
  /\ Goto(w, "complete")
  /\ UNCHANGED <<file, row, app, cross, seenApp>>

(* A row made for a path without a file has no size and a hash of the path. *)
RunSingleValidation(d) ==
  IF d \in Intact \/ file[d] = "missing" THEN "valid" ELSE "invalid"

MarkCompleted(w) ==
  /\ At(w, {"validate"}, "complete")
  /\ CommitRow(w, [Loaded(w) EXCEPT !.processing = "completed",
                                    !.validation = RunSingleValidation(job[w].doc)])
  /\ End(w)
  /\ UNCHANGED <<file, app, cross>>

-----------------------------------------------------------------------------
(* DocumentService.delete_document: the file goes with the SELECT's        *)
(* answer, the row is archived by a commit.                                *)
UnlinkFile_Later(w, d) ==
  /\ d \in Rows /\ app # Absent
  /\ Begin(w, Job("delete", "archive", d, {}))
  /\ Load(w, {d})
  /\ UNCHANGED <<file, row, app, cross, seenApp>>
UnlinkFile(w, d) ==
  /\ d \in Rows /\ app # Absent
  /\ Begin(w, Job("delete", "archive", d, {}))
  /\ Load(w, {d})
  /\ file' = [file EXCEPT ![d] = IF @ = "stored" THEN "unlinked" ELSE @]
  /\ UNCHANGED <<row, app, cross, seenApp>>

MarkArchived(w) ==
  /\ At(w, {"delete"}, "archive")
  /\ CommitRow(w, [Loaded(w) EXCEPT !.processing = "archived"])
  /\ End(w)
  /\ UNCHANGED <<file, app, cross>>

-----------------------------------------------------------------------------
(* persist_results runs validate_cross_document in a session it closes     *)
(* without a commit: the row it flushed goes with the session.             *)
StartPersist(w) ==
  /\ Begin(w, Job("persist", "close", Absent, {d \in Rows : row[d].processing = "completed"}))
  /\ Load(w, Rows)
  /\ UNCHANGED <<file, row, app, cross, seenApp>>

ClosePersist(w) ==
  /\ At(w, {"persist"}, "close")
  /\ End(w)
  /\ UNCHANGED <<file, row, app, cross>>

-----------------------------------------------------------------------------
(* ApplicationService.  The second commit of a new application writes the  *)
(* values the row has by default: nothing.                                 *)
CreateApplication(w) ==
  /\ app = Absent /\ job[w] = Idle /\ jobs < MaxJobs
  /\ app' = NewApplication
  /\ jobs' = jobs + 1
  /\ UNCHANGED <<file, row, cross, session, losses, hurt>>

Writers == {"patch", "score", "decide"}

StartWrite(w, op) ==
  /\ app # Absent
  /\ \E ask \in IF op = "patch" THEN Patches ELSE {Absent} :
       Begin(w, [Job(op, "write", Absent, {}) EXCEPT !.ask = ask])
  /\ seenApp' = [seenApp EXCEPT ![w] = app]
  /\ UNCHANGED <<file, row, app, cross, seen>>

(* phase_completed is a plain JSONB column.  update_application_status     *)
(* changes the loaded dictionary in place and assigns it back: the session *)
(* sees no difference, unless there was none and it made a new one.        *)
Completed(loaded, phase) == IF loaded = {} THEN {phase} ELSE loaded

Patched_PhaseLost(loaded, ask) ==
  [loaded EXCEPT !.status = ask.status, !.phase = ask.phase,
                 !.completed = Completed(@, loaded.phase)]
Patched(loaded, ask) ==
  LET phase == IF ask.phase = Absent THEN loaded.phase ELSE ask.phase
  IN [loaded EXCEPT !.status = ask.status, !.phase = phase,
                    !.completed = Completed(@, phase)]

Written(w) ==
  LET loaded == seenApp[w]
  IN CASE job[w].op = "patch"  -> Patched(loaded, job[w].ask)
       [] job[w].op = "score"  -> [loaded EXCEPT !.score = TRUE]
       [] job[w].op = "decide" -> [loaded EXCEPT !.decision = TRUE]

WriteApplication(w) ==
  /\ At(w, Writers, "write")
  /\ app' = Merged(app, seenApp[w], Written(w))
  /\ End(w)
  /\ UNCHANGED <<file, row, cross>>

-----------------------------------------------------------------------------
(* A database error, a cancelled request or a crash ends a job where it    *)
(* stands: no handler puts right what it had begun.                        *)
Lose(w) ==
  /\ job[w] # Idle /\ losses < MaxLosses
  /\ losses' = losses + 1
  /\ hurt' = hurt \cup ({job[w].doc} \ {Absent})
  /\ job' = [job EXCEPT ![w] = Idle]
  /\ seen' = [seen EXCEPT ![w] = NothingSeen]
  /\ seenApp' = [seenApp EXCEPT ![w] = Absent]
  /\ UNCHANGED <<file, row, app, cross, jobs>>

Start(w) ==
  \/ \E d \in Docs : UploadFile(w, d) \/ CollectFile(w, d)
  \/ \E d \in Docs : StartExtract(w, d) \/ StartValidate(w, d) \/ UnlinkFile(w, d)
  \/ StartExtractAll(w) \/ StartPersist(w)
  \/ CreateApplication(w)
  \/ \E op \in Writers : StartWrite(w, op)

Step(w) ==
  \/ CreateRow(w)
  \/ NextDocument(w) \/ MarkExtracting(w) \/ RunPipeline(w) \/ MarkFailed(w) \/ LogError(w)
  \/ MarkValidating(w) \/ FetchExtracted(w) \/ MarkCompleted(w)
  \/ MarkArchived(w)
  \/ ClosePersist(w)
  \/ WriteApplication(w)

Next == \E w \in Workers : Start(w) \/ Step(w) \/ Lose(w)

Spec == Init /\ [][Next]_vars

-----------------------------------------------------------------------------
RowTypes ==
  [processing : {"uploaded", "extracting", "failed", "validating", "completed", "archived"},
   extraction : {"pending", "failed"},
   validation : {"pending", "valid", "invalid"},
   error : {"none", "raised", "not_found"}]

Phases == {"intake"} \cup ({p.phase : p \in Patches} \ {Absent})

Applications ==
  [status : {"in_progress"} \cup {p.status : p \in Patches},
   phase : Phases, completed : SUBSET Phases,
   score : BOOLEAN, decision : BOOLEAN]

ASSUME AbsentAssumption == Absent \notin RowTypes /\ Absent \notin Applications

Ops == {"none", "upload", "collect", "delete", "validate", "persist"}
         \cup Extracting \cup Writers
Pcs == {"idle", "create", "mark", "next", "parse", "fail", "log", "fetch", "complete",
        "archive", "close", "write"}

Jobs == [op : Ops, pc : Pcs, doc : Docs \cup {Absent}, todo : SUBSET Docs,
         why : {"none", "raised", "not_found"}, ask : Patches \cup {Absent}]

(* Rows, sessions and jobs have the shapes of their tables and handlers.   *)
TypeOK ==
  /\ file \in [Docs -> {"none", "stored", "missing", "unlinked"}]
  /\ row \in [Docs -> RowTypes \cup {Absent}]
  /\ app \in Applications \cup {Absent}
  /\ cross \subseteq SUBSET Docs
  /\ job \in [Workers -> Jobs]
  /\ seen \in [Workers -> [Docs -> RowTypes \cup {Absent}]]
  /\ seenApp \in [Workers -> Applications \cup {Absent}]
  /\ jobs \in 0..MaxJobs /\ losses \in 0..MaxLosses /\ hurt \subseteq Docs

-----------------------------------------------------------------------------
Busy(d) == \E w \in Workers : job[w].doc = d

(* The API writes a document's file before its row, so a row without a     *)
(* file was made by the chat for a path that leads nowhere, or has been    *)
(* deleted since; and an archived document has no file left: the file goes *)
(* first, and nothing puts one back (document_service.py).                 *)
FilesMatchRows ==
  \A d \in Rows : /\ file[d] # "none"
                  /\ row[d].processing = "archived" => file[d] # "stored"

(* However extractions, validations and deletions of a document overlap,   *)
(* once the last of them has ended it does not stay in extracting or       *)
(* validating, and a failed extraction is explained, unless one of them    *)
(* was cut off: whoever sets these last also settles them, or has seen     *)
(* them settled.  The explanation is true: a file reported as missing is.  *)
(* And no reader finds a completed document without its verdict, even when *)
(* the session skips a column because it has seen the value already.       *)
DocumentsSettle ==
  \A d \in Rows :
    /\ ~Busy(d) /\ d \notin hurt =>
         /\ row[d].processing \notin {"extracting", "validating"}
         /\ row[d].extraction = "failed" => row[d].error # "none"
    /\ row[d].error = "not_found" => file[d] # "stored"
    /\ row[d].processing = "completed" => row[d].validation # "pending"

-----------------------------------------------------------------------------
Owned(op) ==
  CASE op \in Extracting -> {"processing", "extraction", "error"}
    [] op = "validate"   -> {"processing", "validation"}
    [] op = "delete"     -> {"processing"}
    [] op = "patch"      -> {"status", "phase", "completed"}
    [] op = "score"      -> {"score"}
    [] op = "decide"     -> {"decision"}
    [] OTHER             -> {}

Acting(w) == job'[w] # job[w]

(* A job that works from a stale row never undoes what another job has     *)
(* written in a column that is not its own.                                *)
NoColumnIsLost ==
  [][/\ \A d \in Rows : \A c \in DOMAIN row[d] :
          row'[d][c] # row[d][c] => \E w \in Workers : Acting(w) /\ c \in Owned(job[w].op)
     /\ app # Absent => \A c \in DOMAIN app :
          app'[c] # app[c] => \E w \in Workers : Acting(w) /\ c \in Owned(job[w].op)]_vars

(* "Extract data from a single document and store results."                *)
(* (extraction_service.py:64): a document whose file is there does not     *)
(* fail to be extracted.                                                   *)
ReadableFileIsExtracted == \A d \in Rows : row[d].error # "raised"
=============================================================================
