# Verification of the social-support application workflow

TLA+ models of the workflow that takes an applicant from login to a decision:
the LangGraph orchestrator and its seven phase nodes, two of them again from the
inside (processing with the extraction and validation agents and Gates 1 and 2,
decision with the eligibility and decision agents, Gate 3 and the services that
stand in for them); the chat service that runs the graph for concurrent HTTP
requests and keeps three records of its result; the checkpointer and its cleanup;
the services that write document and application rows; the circuit breaker that
guards the four subgraphs; the login that finds or creates the application; and
the programs that generate test applicants. TLC checks the models on small
instances, and TLAPS proves the safety properties of nine of them for every
value of the constants. File names below are relative to the repository;
`phases/` is `src/agents/orchestrator/phases/`.

## 1. The system

### Components

| Component | State it keeps | Operations | Talks to |
|---|---|---|---|
| **Orchestrator graph** (`src/agents/orchestrator/`, `src/agents/state.py`) | `ApplicantState`, checkpointed per `thread_id` = application | seven nodes: authentication, intake, document_collection, processing, review, decision, enablement; one edge function each; list fields are reduced with `operator.add` | LLM, the four subgraphs, database (document rows, decision) |
| **Agent runner** (`src/services/agent_runner.py`) | none | `run` (fresh `ainvoke` or `Command(resume, update)`), `run_streaming` | graph, checkpointer, chat service |
| **Chat service and endpoints** (`src/services/chat_service.py`, `src/api/v1/chat.py`) | one database session per request | `handle_chat`: read row, read snapshot, run graph, save snapshot, persist decision, update phase; streaming endpoint | runner, application records |
| **Application records** (`application_repo.py`, `models/application.py`, `decision_service.py`) | `current_phase`, `decision`, `state_snapshot` of each application | `get_state`, `save_state`, `update`, `persist_decision`; the deterministic decision rules | PostgreSQL |
| **Checkpointer** (`src/agents/checkpointer.py`) | the singleton saver and its one connection, the cleanup task | `get_checkpointer`, TTL cleanup loop | PostgreSQL |
| **Circuit breaker and retry** (`src/utils/circuit_breaker.py`, `src/utils/retry.py`) | state, failure count, time of the last failure; four process-wide instances | `can_attempt`, `record_success`, `record_failure`, `reset`; the decorator; `retry_transient` inside it | the subgraph nodes |
| **Extraction agent** (`src/agents/extraction/`) | documents done and to do, attempts, `gate_passed_all` | extract each document, Gate 1, retry; every document is tried, and one that fails fails the gate for all | parsers, LLM |
| **Validation agent** (`src/agents/validation/`, `src/domain/`) | discrepancies, `validation_results`, `gate_status` | react, evaluate, critique, clarify, finalize, Gate 2 | LLM, comparison tools |
| **Eligibility and decision agents** (`src/agents/eligibility/`, `src/agents/decision/`) | score, gate, decision, explanation | predict, adjust, Gate 3, explain; decide by the model, by a tool or by rules | LLM, trained model |
| **Deterministic gates, eligibility scoring** (`src/agents/gates/`, `eligibility_service.py`, `decision_service.py`) | none | pure functions; the services write `eligibility_score` and `decision` | PostgreSQL |
| **Extraction, validation and document services** (`src/services/`, `document_repo.py`) | `processing_status`, `extraction_status`, `validation_status` of each document, its stored file | upload, extract, extract all, validate, delete: several commits each | PostgreSQL, disk |
| **Result persistence** (`extraction_pipeline.py`, `extraction_persistence.py`) | rows, vectors, graph nodes of one extraction | writes to three stores | PostgreSQL, Qdrant, Neo4j |
| **Authentication and applications** (`auth_service.py`, `application_service.py`) | applicants, applications | find-or-create on login; status, score and decision updates | PostgreSQL |
| **Synthetic data** (`src/data_generation/`, `scripts/generate_test_data.py`) | package directories on disk | draw a profile, make each document, check the package, write data and report | disk |
| Parsers and OCR, LLM/vector/graph clients, HTTP plumbing, UI, evaluations | — | — | — |

### What is hard

* *Interleaving.* One process, one event loop, many requests. Nothing
  serialises requests for the same application, so two of them hold two copies
  of the graph's state and interleave at every `await`; the circuit breakers and
  the checkpointer are shared by all.
* *Three records of one application.* The thread's checkpoint, the row's
  `state_snapshot` and the row's columns are written one after another, in
  separate transactions, and the snapshot and the phase are read back into the
  next fresh run of the graph.
* *Reducers.* Every list in `ApplicantState` is appended to. A node that returns
  a corrected list gets the old entries *and* the corrected ones; feeding a
  returned state back doubles its lists.
* *Interrupts.* `interrupt()` stops a node in its middle; on resume the node runs
  again from its top, with the answer and with files that arrived meanwhile.
* *Partial failure.* A node may have inserted rows when it raises; a subgraph may
  fail and the application goes on; the decision's write may fail and the phase's
  succeed.
* *Sessions that remember.* A database session keeps what it loaded and writes
  only the columns that differ from that: a job may work from a stale row, skip a
  column another job has changed meanwhile, or be cut off between two commits.
* *Thresholds in many places.* Two rule engines score an applicant, three
  functions decide on a score, two explain it, three gates check the same
  documents: each with constants of its own.
* *Crashes and expiry.* A crash leaves the thread ahead of the caller's
  knowledge; the TTL cleanup deletes a thread the row still describes.

### What makes each component correct

* Orchestrator: no phase is reached without what the phases before it had to
  establish; the loops between review and document collection, and of a node to
  itself, end; nothing uploaded is lost; a decision is made out of review only.
* Chat service: the same, for what the database shows, whatever fails between
  the three commits and whatever another request does meanwhile.
* Authentication: only logins that overlap as first logins create more than one
  application, a half-made first login is completed by the next, and a client is
  never sent back to an older application.
* Checkpointer: at most the first callers connect, the cleanup takes nothing that
  is younger than the TTL, what it leaves can still be read, and what is old goes
  although a round may be cut off between its two statements.
* Document and application rows: jobs that overlap do not undo each other's
  columns, statuses settle, failures are explained, files and rows match.
* Processing: an application goes on with all its documents or none; what one
  gate or agent lets pass the next one does not contradict; critical and real
  discrepancies are never lost on the way to the decision and the applicant.
* Decision: a decline for a score below 0.40 is final, an approval has its
  grounds whoever made it, the row, the card and the explanations agree.
* Synthetic data: packages satisfy the checks they are meant to feed, and a seed
  reported as fine has all its files.
* Circuit breaker: its state agrees with its failure count, an OPEN breaker
  stays shut until a new probe, and it neither stays open nor lets calls hang
  forever.

## 2. Modules

| Module | Models | Uses |
|---|---|---|
| `CircuitBreaker` | one breaker object, the retries inside, any number of coroutines through it | — |
| `ApplicantGraph` | the graph as functions: each node maps a state and an answer to the set of its outcomes; reducers; edges | — |
| `ApplicantFlow` | *abstract specification*: what one application is promised, in three stages | — |
| `Orchestrator` | `agent_runner.run` for one client: fresh calls, resumed calls, failures, crashes; refines `ApplicantFlow` | `ApplicantGraph`, `ApplicantFlow` |
| `ChatService` | concurrent POST /chat and streaming requests around the same graph, with the three records, crashes, disconnects and TTL expiry | `ApplicantGraph` |
| `DocumentRules` | Gates 1 and 2, the comparisons of documents, the classification and scoring of discrepancies | — |
| `ProcessingPhase` | the processing node from the inside: extraction, validation, what it hands on | `DocumentRules`; `DecisionRules` and `EligibilityRules` by INSTANCE |
| `EligibilityRules`, `DecisionRules` | scores, features, explanations, Gate 3; decision tools, rules and cards | — |
| `DecisionPhase` | the decision node from the inside, with the services and a request that computes a score meanwhile | `EligibilityRules`, `DecisionRules` |
| `Records` | document and application rows under overlapping jobs, each with its session | — |
| `Checkpointer` | the shared connection, the cleanup task, runs on threads, stops and dropped connections | — |
| `Login` | applicant and application of one Emirates ID, under overlapping logins and `POST /applications` | — |
| `SyntheticDocuments` | what the generators may draw, and the eleven consistency rules | `DocumentRules` |
| `ApplicantPackages` | the two generating programs step by step on one disk | `SyntheticDocuments` |
| `ApplicantGraphProofs` | lemmas about the graph's operators, for the next two | `ApplicantGraph` |
| `OrchestratorProofs`, `ChatServiceProofs`, `LoginProofs`, `CheckpointerProofs`, `RecordsProofs`, `DecisionPhaseProofs` | theorems about the module they are named after | that module |
| `DocumentProofs` | theorems about the two components that make and read documents, and about the breaker in front of the first one's agents | `ProcessingPhase`, `ApplicantPackages`, `CircuitBreaker` |
| `MC*` | the values of constants that a `.cfg` cannot write, symmetry | |

`*_Something` operators next to a definition (`RecordFailure_NoReopen`,
`ReviewNode_DecidesOnAnswer`, ...) are *mutated* forms of it, the way a plausible
bug would write it. No specification uses them; each was put in the place of the
definition to see that the property it belongs to notices.

### Circuit breaker

`state`, `failureCount` are `_state`, `_failure_count`; `elapsed` is the time
since `_last_failure_time`, saturated at `RecoveryTimeout` because the code only
compares the two. `call[c]` is where a coroutine stands: in the wrapped function
(`running`), asleep between two attempts (`backoff`), or outside. `CanAttempt`,
`CannotAttempt`, `RecordSuccess`, `RecordFailure` and `Reset` are the methods, and
`Admit`, `Reject`, `AttemptSucceeds`, `AttemptFailsTransiently`, `BackoffEnds`,
`AttemptRaises`, `Cancelled` the paths of the decorator's wrapper around
`retry_transient`. Its specification is `BreakerSpec` (with fairness `FairSpec`,
`DemandSpec`), as that of `ApplicantPackages` is `PackagesSpec`: both are extended
together with `ProcessingPhase` by `DocumentProofs`. Each action lies between two awaits, so it is atomic on the
event loop. `CancelledError` is not an `Exception`, hence `Cancelled` records
nothing.

### The graph

A record `s` of `ApplicantState` keeps what the control reads: the phase; whether
there is an identity number and whether it validates; the category; files and
documents as the number of list entries per path (nodes and edges only ask
which paths are listed and how long the lists are); the flag
`new_documents_uploaded`; how processing ended; which statuses occur among the
discrepancies (only "is any open" is asked, and the reducer never removes one);
the decision. An outcome of a node is `return`, `interrupt` or `raise` with the
resulting state and the paths for which it inserted document rows. LLM replies,
the subgraphs and single row inserts (which the code catches one by one) choose
among the outcomes; everything else is computed.

Two places deserve a word. `UploadedDocuments` returns the documents on record
*and* the new ones, and `AddEntries` then adds that to the documents on record,
as the reducer does: entries double. And the branch of document collection that
has new but insufficient documents calls `check_state_size`, which
`phases/document_collection.py` does not import: it raises.

### One client: Orchestrator

`checkpoint` is the thread's latest checkpoint and the node it stands before,
`run` the call in progress, `client` what the caller learned from the calls that
returned, `rows` the paths with document rows. `Invoke` is a call without a
pending interrupt: the input (phase, files, identity and, if a call returned
before, the state it returned) goes through the reducers and the graph
starts at the node of the phase. `Resume` is `Command(resume, update)`. `Step`
runs the next node with one of its outcomes, `Finish` returns at END, `Crash`
ends the process.

### Many requests: ChatService

`row`, `snapshot` and `checkpoint` are the three records; `call[r]` is a request
with its own copies: the row as its session loaded it, the snapshot it read, the
graph's state. A request goes through `LoadApplication`, `LoadState`,
`StartGraph` or `ResumeGraph`, `Step`s and `GraphEnds`, then `SaveState`,
`PersistDecision` (or `PersistDecisionFails`: the exception is logged and the
request goes on) and `UpdatePhase`: one action per await at which another
request may run. `Written` is SQLAlchemy's unit of work: a column is updated only
if its new value differs from the one this session loaded. `StartStream` is the
streaming endpoint, which ignores a pending interrupt and saves nothing;
`Disconnect` cancels it. `Crash` ends the process with all requests, `Expire` is
the TTL cleanup.

### Login

`applicant` says whether the applicants row of one Emirates ID exists (logins of
different identities share no rows), `applications` are the committed
applications, named by their `created_at`. That column defaults to `now()`,
in PostgreSQL the start of the transaction, so `Begin` advances `clock` and every
transaction has a start of its own; a returning login without application inserts
with the start of the transaction in which it looked for the applicant, a new
one with that of its second transaction (`BeginAgain`). An insert and its commit
are one action: under READ COMMITTED nobody sees the row before, and a second
insert of the same `identity_number` waits for the first and fails
(`CreateApplicant` with `applicant` true). `late`, `floor` and `answer`
are read by properties only; `newest`, the newest answer any client has, also
guards `Post`: a client can only ask for a further application of an applicant
it knows from an answered login. An Emirates ID with a wrong checksum is
refused before anything is read, and is not a request here.

### Processing from the inside: DocumentRules, ProcessingPhase

`DocumentRules` has one operator per check: `ContentErrors` are the errors of
Gate 1 for a document of each type; the
validation tools compare names (as sets of words), identity numbers, addresses
and incomes and classify what they find. A field is a value, `Absent`, or
`Garbled` where the code's conversion gives nothing; a date keeps the way it is
written, because the gates parse different formats. The positions of a resume and
the transactions of a statement are sets: equal entries fall together, and of
positions and transactions only whether one is in error is asked.

`ProcessingPhase` runs `phases/processing.py`: `ReadDocument`, `AttemptFails` and
`ExtractionFails`/`ExtractionPasses` are the extraction subgraph's loop,
`AttemptValidation` to `Gate2Completeness` the nodes of the validation graph in
their order, `ValidationRetries` a transient error after which `retry_transient`
runs the graph again on the thread it left (what it finds there is a choice),
`ValidationFails` the fallback. Its last properties hand the result to
`DecisionRules` and Gate 3, to see that the agents, which know discrepancies
under different names, do not contradict each other. The confidence the model
states (`Bases`) is its number or, when it gives one for each document instead,
some number between the lowest and the highest of them: the code's average
without its rounding.

### Decision from the inside: EligibilityRules, DecisionRules, DecisionPhase

Scores are in thousandths, ratios are kept as pairs. `BuildApplicantFeatures`
and `RuleBasedPredict` are the agent's engine, `ServiceFeatures` and
`ComputeScore` the REST service's; `CheckHardEligibilityRules` is Gate 3.
`DecisionPhase` is `phases/decision.py`: each agent answers or raises
(`EligibilityAnswers`, `EligibilityRaises`, `DecisionAnswers`, ...), then the
service may compute, the service or the node itself may decide, and
`PersistDecision` writes the row with the columns the session believes changed.
`endpoint` is `POST /eligibility/{id}/compute`, which may write the score at any
moment. The decision agent's model may answer with JSON, with a tool call, with
JSON in a fence (which the code does not parse), with prose, or raise.

### Rows: Records

`row[d]` and `app` are committed rows, `file[d]` the stored file; a job `job[w]`
(upload, collect, extract, extract all, validate, delete, persist, and the three
writers of the application) has a session, whose copies are `seen[w]` and
`seenApp[w]`. `Loaded` is a SELECT in a session that has the row already: it
changes nothing; `CommitRow` merges only the columns that differ from the copy.
`Lose` ends a job anywhere: the client goes away, the process dies or the
database fails. Two steps are errors of the code as it is: `RunPipeline` raises
for every file that exists (`compute_confidence` is called with four arguments
and takes three, `extraction_service.py:122`), and `ClosePersist` closes the
session of `persist_results` without a commit.

### The checkpointer

`saver` is the singleton's connection; `opened` and `alive` count what this
process opened and what still works. `ConnectRun` and the task's `connect` step
are the await between the test of the singleton and its assignment. Runs and rounds
keep the connection they have taken (`conn`), which may be another than the
singleton's by then. A run reads
the last checkpoint of its thread (`ReadThread`), then puts writes for it and a
next one (`PutWrites`, `PutCheckpoint`) until it ends; a cleanup round fixes its cutoff and then deletes writes and
checkpoints in two statements. `Age` makes checkpoints older than the TTL, `Drop`
breaks a connection, `Stop` ends the application anywhere.

### Synthetic data: SyntheticDocuments, ApplicantPackages

Each generator is an operator giving the set of documents it may draw, in the
form Gate 1 reads them. `RandInt(a, b)` and `Uniform(a, b)` stand for
`random.randint` and `random.uniform`: the numbers of `a..b` that the constants
`WholeDraws` and `AmountDraws` consider, a few for TLC, any for the proofs. Amounts
are in thousandths, `Quantized` rounds them to two decimals, a tie to the even one,
as `Decimal` does. `PartialSums` (balances, totals) and `Starts` (the positions of a
resume, each from the end of the one before) are recursive functions.
`DrawnAssumption` says that drawn categories and facility types are those of the
generators' lists, `MarkersAssumption` that `Absent` and `Garbled` are no identity
number and no score. `ApplicantPackages` runs `cli.py` and
`generate_test_data.py`: one action per document, `WriteData` and `WriteReport`
at the end, `Killed` anywhere, batch after batch on the same disk; `disk` tells
which batch wrote each file.

### Assumptions about what is outside the repository

LangGraph's rules are modelled from how the code uses it (entries marked
`external` in `PROJECT.json`):

* a fresh invocation merges its input through the reducers, writes it as a
  checkpoint and starts at START;
* a checkpoint is written after every node that returns; none is written by a
  node that stops at `interrupt()` or raises;
* `Command(resume, update)` runs the pending node again from its top, on the
  checkpoint with the update merged, and only that node receives the answer;
* when a resumed node raises, or the process dies, the update may or may not
  have been kept (both are modelled);
* `Command` on a thread without checkpoint is refused, or its update is taken as
  the input of a new thread (both are modelled).

The applications row is read again after a commit (`expire_on_commit=False`, and
the repository refreshes it); the checkpoint tables have the `created_at` column
that the cleanup selects on (an Alembic migration adds it).

## 3. Runs

`tlc -workers 2 -config <run>.cfg <module>` in this directory; `PROJECT.json`
gives the module of each run.

### Runs that pass

| Run | Properties | What it shows |
|---|---|---|
| `CircuitBreaker` | `TypeOK`, `ClosedIffBelowThreshold`, `HalfOpenWasQuiet`, `LateResultsDoNotUnblock`, `CircuitRecovers` | whatever the order of results, retries, cancellations and resets of three callers: count and state agree, no late result unblocks the breaker, calls end, an open breaker is probed and a healthy one closes |
| `OrchestratorSafety` | `TypeOK`, `PhasesAreEarned`, `ClientNotAhead`, `FollowsTheFlow`, `CallsRunOut` | no phase is reached unearned, the client never knows of a later phase than the thread has, the thread refines `ApplicantFlow`, and every node of a call leaves fewer to run, with failures and a crash anywhere |
| `OrchestratorLive` | `EveryCallEnds`, `ProcessingConcludes` | no call loops forever; once replies of the models make no node raise, an application handed to processing is decided, waits in review for an answer, or has been given a category that requires more |
| `ChatServiceSequential` | `PhasesAreEarned`, `EnablementHasDecision`, `UploadsAreKept`, `AnsweredCallsAgree` | requests one at a time, chat and streaming mixed, with crashes between commits, failed writes, disconnects and a category that may change: no phase runs unearned, a request that is answered makes the three records agree again, and acknowledged uploads survive |
| `ChatServiceConcurrent` | `EnablementHasDecision` | two requests, chat or stream, interleaved at every await, and a TTL expiry: enablement is never shown without a decision. It is what is left of the sequential properties |
| `ProcessingPhase` | `AllOrNothing`, `GatesAgree`, `CriticalNeverApproved`, `RealIsAsked`, `StepsRunOut` | files whose readings pass or fail each check, with failing attempts, failing validations and discrepancies from before, on lists that may have each document twice: all documents are handed on or none, of a type the one uploaded last, a file the first gates pass is not refused by Gate 3 for what they checked, a critical mismatch reported under the key the agents read is never approved, every unresolved real discrepancy has its question, and every step leaves fewer to take |
| `DecisionPhase` | `DeclineIsFirm`, `ApprovalIsAccounted`, `CardShowsTheRow`, `AdviceIsFollowed` | files on both sides of every threshold, agents and services that raise, a request that computes a score meanwhile: a decline for the score is final, an approval has its grounds, row, card and explanations agree |
| `Records` | `TypeOK`, `FilesMatchRows`, `DocumentsSettle`, `NoColumnIsLost` | jobs that overlap, one of them cut off: files and rows match, what was not cut off settles with an explanation, nobody undoes another's column |
| `Checkpointer` | `TypeOK`, `StoreIsSound`, `OnlyFirstCallersConnect`, `FreshIsUntouched`, `OldGoes` | runs, cleanup rounds, stops and drops in any order: checkpoints left can be read, only first callers connect, the young are not touched, the old go |
| `Login` | `LateLoginsCreateNone`, `LoginsLeaveAnApplication`, `LoginsDoNotGoBack` | three requests that overlap, and a crash: only overlapping first logins create more than one application, a crash between the two inserts is healed, no login goes back to an older application |
| `ApplicantPackages` | `PackagesPassTheirChecks`, `OkPackagesAreWhole` | two batches of both programs, stopped anywhere: complete packages satisfy all rules, Gate 1 finds no error in a generated document but the known ones, a seed printed as OK has all its files from that batch |

### The run that ends in a violation

| Run | Sentence | What the code does |
|---|---|---|
| `DecisionGateThree` (`ConsistentFilePassesGateThree`) | "validation_results: Dict mapping document_type -> validation result." (`src/agents/gates/eligibility_rules.py:195`) | the validation agent leaves a map of `overall_confidence`, `status` and `per_document_validation`; Gate 3 looks for document types among its keys, so no validated file passes, however consistent it is |

### Statements TLC refutes without a run of their own

These are defined in the modules, most under "What the repository says and the
code does not do". Put into one of the configurations in place of its properties,
TLC refutes each.

| Definition | Sentence | How |
|---|---|---|
| `CircuitBreaker!OneRequestAllowedThrough` | "HALF_OPEN: Testing recovery, one request allowed through" (`circuit_breaker.py:11`) | every caller is admitted |
| `CircuitBreaker!SuccessEndsTheStreak` | "Number of consecutive failures" (`circuit_breaker.py:92`) | a success in CLOSED does not clear the count |
| `CircuitBreaker!RejectedCallsFallBack` | "opens and skips the subgraph, calling fallback immediately" (`circuit_breaker.py:5`) | `fallback()` is called without arguments, and the fallbacks the graph passes require `state`: a `TypeError` |
| `Orchestrator!MissingDocumentsPause` | "Uses interrupt() to pause when documents are missing." (`phases/document_collection.py:97`) | `NameError` (line 210) when some but not all required documents are uploaded |
| `Orchestrator!AnsweredReviewDecides` | "Transitions to decision when no discrepancies remain. Uses interrupt() to pause for user responses." (`phases/review.py:22`) | answered discrepancies are appended as resolved copies, the originals stay open, and review asks again forever, even with a client that answers everything (under `AnsweredSpec`) |
| `Orchestrator!NewFilesAreCollected` | "Checks if new files were uploaded since last review" (`phases/review.py:20`) | files are compared with documents by the lengths of lists that the reducers doubled |
| `Orchestrator!DecisionFollowsValidation` | "All documents have been cross-checked and validated" (`phases/review.py:53`) | said, and decided, after a failed extraction too |
| `Orchestrator!IntakeFollowsAuthentication` | "Transitions to intake on success" (`phases/authentication.py:21`) | the edge goes to intake always |
| `Orchestrator!DecisionOnRecordIsClear` | as for `AnsweredReviewDecides` | after a crash (`MaxCrashes = 1`) a client starts over; the old decision stays while processing opens new discrepancies |
| `ChatService!DecisionIsFinal` | "Final decision" (`docs/data-dictionary.md:116`) | two requests (`MaxCalls = 2`, two `Decisions`) decide differently |
| `ChatService!SnapshotShowsTheThread` | as for `SnapshotRecovers` | a stream (`Streaming = TRUE`, one request, `MaxCalls = 4`) moves the thread and saves nothing |
| `ChatService!EnablementIsClear` | as for `AnsweredReviewDecides` | with two requests together, a thread reaches enablement with an open discrepancy |
| `ChatService!DecisionsAreOfCompleteFiles` | "We have received all required documents. We will now process them" (`phases/document_collection.py:168`) | a second request that loaded phase intake runs intake again on a decided thread; the category it finds requires more, and the old decision is saved with what is there |
| `ChatService!SnapshotRecovers` | "`state_snapshot` stores the deserialized, application-level state for inspection and recovery" (`README.md:141`) | after the cleanup, an answer to an interrupt starts the graph without anything of the snapshot |
| `Login!RepeatedLoginsAgree` | "Repeated logins with the same Emirates ID return the existing application" (`docs/api-design.md:431`) | two overlapping first logins each create one; the login answered first is followed by one answered with the other |
| `Records!ReadableFileIsExtracted` | "Extract data from a single document and store results." (`extraction_service.py:64`) | `compute_confidence` is called with four arguments and takes three: every file that exists fails |
| `ApplicantPackages!ReportedPackagesAreWhole` | none: a directory with a report has all of it from one batch (the report is written last, and `cli.py:129` takes it for the sign of success) | a second batch over the same directory, stopped half way, leaves the first one's report with newer documents |

With two requests for one application together, `PhasesAreEarned`,
`UploadsAreKept` and `AnsweredCallsAgree` of `ChatService` do not hold:
`ChatServiceConcurrent` checks what is left.

### What else the modelling met

Facts of the code that the modules follow, and that a reader may not expect:

* The validation agent calls `identity_mismatch` and `income_mismatch` critical
  and lowers its confidence for them; the decision agent calls `identity_match`
  and `income_consistency` critical; both read `discrepancy_type`. A mismatch the
  model reports under `type` only is critical to neither. `CriticalNeverApproved`
  is about the entries the validation agent recognises.
* A failed Gate 2 or a failed validation leaves `gate_status` and nothing holds
  the application; Gate 1 accepts dates and balances that Gate 3 rejects; the
  class `ocr_error` and the route to escalation (`retry_count` is never set) are
  out of reach; a validation that is retried adds its discrepancies again.
* A decision the model puts in a code fence becomes `manual_review` while its
  explanation says otherwise; JSON without a decision raises outside the node's
  `try` blocks (`phases/decision.py:169`), as does JSON of the intake's model that
  is `null` or a number (`phases/intake.py:79`): the call fails; without settings
  the inline fallback always ends in `manual_review`; the employment points are
  not monotone in the months (an employed applicant without any gets 30, one
  with six loses 50).
* A deleted document comes back through an extraction or validation that was
  under way; a failed extraction is validated and completed; only the first phase
  ever is recorded as completed (`application_service.py:60`); a failed insert
  leaves the uploaded file; `validate_cross_document`'s rows are flushed and lost.
* A dropped connection is never opened again until a restart; racing first
  callers leave connections open; a run that answers an old checkpoint during a
  round leaves writes without a checkpoint.
* `cli.py`'s documented `--output-dir ./output` is the scratch directory and ends
  in `SameFileError`; a card issued on 29 February ends the batch; the credit
  report's total includes closed facilities, Gate 1's does not; a past position
  may end before it starts; a resident's card may already have expired.

* Review goes back to document collection while the files have more entries than
  the documents of the same paths, and document collection classifies only paths
  it has no document of. A file uploaded twice would send the two round for ever,
  but for the reducer that doubles the documents (`Collected_OnlyNew`, the list
  without the doubling, breaks `CallsRunOut`): mending the one breaks the other.

### Bounds

* **CircuitBreaker**: three callers, so that one may open the breaker, one be a
  straggler and one the probe; `FailureThreshold` 2, the least at which "count"
  and "any failure" differ; `MaxRetries` 1, the least with a back-off;
  `RecoveryTimeout` 2 ticks, so that a failure can fall between two ticks;
  `MaxFailures` 5 caps the recorded failures beyond every value at which
  the code distinguishes counts (it compares with the threshold and clears).
* **Orchestrator**: three paths of three types, two categories of which one
  requires a proper subset of the other, and a type nothing requires, so that a
  file may be complete, incomplete or padded; `MaxFiles` 3 uploads (2 for
  liveness, with two paths), so that the last document can come in any phase and
  the doubled lists of the reducers reach the cap; one crash, anywhere. List
  entries saturate at `MaxFiles`; only comparisons with sums of at most
  `MaxFiles` entries read them.
* **ChatService**: two categories, of which the first requires one document and
  the second one more, so that a change of category makes a complete file
  incomplete. Sequential: five requests are one more than the shortest path from
  a new application to an answered question in enablement with an extra stream;
  two crashes, so that a request that heals one may crash itself. Concurrent: two
  requests at a time out of three, each a chat or a stream, one file, one decision:
  the property relates the records, not the data. The two requests are symmetric. One expiry.
  `WritesFail` is off here because a failed write excuses
  `EnablementHasDecision` (`counts.lost`), and the sequential run covers it; the
  proof covers both for any number of requests.
* **ProcessingPhase**: seven lists of up to three documents, with one type twice
  and with each type once, two of them as the reducer leaves them when review has
  sent the thread back to document collection: one doubled, and one to which an
  older state of itself was added, so that the document uploaded last is not at the
  end; readings that differ in one check each; two attempts
  per document (the code has three, the loop has the same branches) and one retry
  of the validation; answers with either key for the type of a discrepancy, both,
  and neither JSON.
* **DecisionPhase**: a strong, a middle and a weak file and files that differ
  from them in one field, on the two sides of every threshold and check; all six
  shapes of validation results that the code tells apart; every shape of the
  decision model's answer; the trained model absent, or just below 0.40, or just
  above 0.70.
* **Records**: two documents, one of which cannot be read; two jobs at a time,
  three in all, of which one may be cut off: a third job sees what two left.
* **Checkpointer**: one thread (threads share only the connection), two
  checkpoints, of which one may be old, two runs and the task; two faults, so
  that one can strike while another is being healed.
* **ApplicantPackages**: one seed, two output directories of which one is the
  scratch directory, two batches (the second finds what the first left); draws at
  the ends of their ranges where zero or the end matters.
* **Login**: three requests together, two of which can be first logins while the
  third is a late one or a POST, five in all, so that the race can be followed by
  the logins that see its outcome; one crash.

`MaxCalls`, `MaxCrashes`, `MaxExpiries`, `MaxFiles`, `MaxFailures`, `MaxJobs`,
`MaxLosses`, `MaxCheckpoints`, `MaxFaults` and `MaxBatches` are guards of the
actions they bound and appear nowhere else but in types (and `MaxFiles` where the
lists saturate). Models that stop when all calls, jobs or batches are used, or
when the node has ended, do not check deadlock; the others do.

### Fairness

* `CircuitBreaker!Progress`: weak fairness of the end of an attempt (LLM clients
  have timeouts), of the end of a sleep (`asyncio.sleep`), and of time.
  `CircuitRecovers` needs demand: `DemandSpec` adds that callers keep calling,
  for a breaker nobody calls stays open. Its last part has its condition in the
  formula: from some time on no attempt raises and no call is cancelled.
* `Checkpointer!Fairness`: the event loop comes back to the cleanup task and to
  every run that waits, and a stopped application is started again. `OldGoes` has
  its condition in the formula: from some time on the application stays up and
  the shared connection works. Nothing is assumed of faults.
* `ProcessingConcludes` has one condition in the formula: from some time on no reply
  of a model makes the node of intake or of decision raise (`ReplyRaises`: JSON that
  is `null` or a number, JSON without a decision). Nothing in the code makes that true. A
  decision agent that never states a decision keeps an application undecided for
  good, and TLC refutes the formula without the condition; the other nodes that
  raise need none.
* `Orchestrator!AnsweredSpec`: weak fairness of `Step` and `Finish`, the event
  loop running the next superstep once the last is done; and a client that
  always comes back and whose answers name every open discrepancy, the most
  cooperative one there is. It is used to show that a call ends, that a
  cooperative client gets a decision or an open review, and that even this client
  is asked forever. Crashes are not part of it: a system that keeps dying owes
  nothing.
* The other modules state no fairness: their properties are of safety.

## 4. Proofs

`tlapm <Module>.tla` checks them. The assumptions are the `ASSUME`s of the
modules: finitely many paths each with a type, a set of required types for each
category, "none" neither a category nor a decision, natural-number bounds, which
stay arbitrary (at least one upload, one attempt at a document), and that `None`
(`Absent`, `Missing`) is none of the values it stands beside. There is no bound on
callers, documents, calls or crashes other than those symbolic ones. What
`ProcessingPhase` and `DecisionPhase` assume of their inputs is said with their
theorems below.

### OrchestratorProofs

`TypeCorrectness`, `PhasesAreAlwaysEarned` and `ClientIsNeverAhead` are `Spec =>
[]` of `TypeOK`, `PhasesAreEarned`, `ClientNotAhead`; `ImplementsFlow` is
`Spec => FollowsTheFlow`: initial states map to initial states of `ApplicantFlow`
and every step to one of its steps or a stutter.

`PhasesAreEarned` is not inductive: a fresh call starts the graph at the phase
the *client* knows, so one must know that this phase is no later than what the
thread has earned, and the thread may be anywhere after a crash. The inductive
invariant adds that a running graph stands at the node its checkpoint names (with
the checkpoint's state, but for files of a resumed call), that an ended thread is
in phase enablement, and that a client about to invoke afresh either knows of
nothing after intake or talks to a decided thread. The lemmas below it say what
each node may do to the state (one lemma per question: type, documents only
grow, which node can follow and what it then has), and that `Earned` is
monotone under the reducers: documents only grow, the category and the
discrepancies stay.

`CallsDoRunOut` is `Spec => CallsRunOut`: the nodes a call still runs are bounded by
`NodesLeft`, which every node lowers, from at most `8 * MaxFiles + 13`. What can be
repeated is the round of document collection, processing and review, and each node
to itself once, when it was resumed. A round clears `new_documents_uploaded`, or
was begun because some file has more entries than its documents
(`FewerEntries`); then there is `Room` under `MaxFiles` for that document, and
document collection, which counts a new file in full and doubles an old one, lowers
the greatest room there is (`CollectingFillsRoom`). It is the part of
`EveryCallEnds` that needs no fairness, for any number of files.

### LoginProofs

`TypeCorrectness`, `OnlyFirstLoginsCreate` are `Spec => []` of `TypeOK`,
`LateLoginsCreateNone`; `AnsweredMeansApplication` and `AnswersDoNotAge` are
`Spec => LoginsLeaveAnApplication` and `Spec => LoginsDoNotGoBack`. The
inductive invariant ties each request to the rows (`Progresses`): a request past
the applicant's lookup or insert finds the applicant there; a login that creates
came when there was no application, so no answer had been given (`floor` is 0),
and a POST's transaction began after every answer it has to keep up with; and
`newest` is itself a committed application. `AnswersDoNotAge` needs the last
three: the greatest committed application is at least `newest`, hence at least
`floor`, and an inserted one is never below `floor`.

### ChatServiceProofs

`TypeCorrectness` and `DecisionComesFirst` are `Spec => []` of `TypeOK` and
`EnablementHasDecision`, for any number of interleaved requests, streams, crashes,
failed writes and expiries. That the row is right is not inductive: a request may
have loaded the row, or run the graph, long before it writes. `IInv` says of every
copy -- the row, the row a request loaded, the checkpoint, the state and the node
of a running graph -- that where it says enablement, a decision is in the same
state, in the row, or lost (`Backed`), and that a decision once in the row stays
in it. Its lemmas about the nodes are those of `OrchestratorProofs`, kept in
`ApplicantGraphProofs`.

`PhasesStayEarned`, `UploadsStay` and `AnswersAgree` state `PhasesAreEarned`,
`UploadsAreKept` and `AnsweredCallsAgree` under `OneAtATime`: one request slot,
which any number of chats and streams use one after the other, and checkpoints
that do not expire. Two overlapping requests do break the three (the run
`ChatServiceConcurrent` therefore checks only what survives them), so the
hypothesis is the one under which the code is meant to work, and
`ChatServiceSequential` an instance of it. Crashes, failed writes and raising nodes
remain, and they leave the three records apart; `SequentialInv` says how far:

* `ThreadInv`: the checkpoint stands at the node its own phase routes to, and has
  earned to stand there.
* `RecordsInv`: the row is never ahead of the thread, and the snapshot has no
  decision and no open discrepancy that the thread has not. So the input of a
  fresh run, which takes the phase from the row, files and documents from thread
  and snapshot, and the decision from the snapshot, has earned its phase.
* `CallInv`: what the request in progress has read is still so, its graph holds
  the checkpoint's state but for the files of an answer no node has taken, and its
  three commits (snapshot, decision, phase) find what the ones before them wrote.

### CheckpointerProofs

`TypeCorrectness`, `StoreStaysSound`, `FewConnect` are `Spec => []` of `TypeOK`,
`StoreIsSound`, `OnlyFirstCallersConnect`; `FreshStays` is
`Spec => FreshIsUntouched`. The invariant adds where the cleanup stands: what a
round has doomed is old (`OnlyOldIsDoomed`), between its two statements the doomed
have no writes but late ones (`DoomedLostWrites`), the blob of every checkpoint
there ever was is kept (`BlobsStay`), and writes without a checkpoint came late
(`OrphansAreLate`). For connections `NobodyElseConnects` counts: while the
singleton is empty none has been opened, and from then on those opened and the
callers that still wait for one are no more than the runs and the task.

### RecordsProofs

`TypeCorrectness` and `RowsMatchFiles` are `Spec => []` of `TypeOK` and
`FilesMatchRows`; `NoUpdateIsLost` is `Spec => NoColumnIsLost`. `Sound(w)` says
which file and row a job relies on at each of its steps; the action
property needs of it that a session has loaded the rows it writes: then a commit
leaves alone the columns in which its copy agrees with what it writes
(`CommitFrame`, `StepColumns`), and those in which it differs are its own.

`DocumentsDoSettle` is `Spec => []DocumentsSettle`. When two jobs overlap on a
document it is not the last to mark it that settles it, because a commit skips the
columns its session believes unchanged. The invariant (`SettleInv`) therefore counts
only the jobs whose write will not be skipped: a row in extracting or validating,
at which no job was cut off, has a job that is yet to read or whose session has
seen another status than the one it will write (`Settles`), a failure without an
explanation a job about to log one (`Explains`), and a verdict some session has
loaded is in the row still (`ReasonInv`).

### DecisionPhaseProofs

`DeclinesAreFirm`, `ApprovalsAreAccounted`, `CardsShowTheRow` and `AdviceAgrees` are
`Spec => []` of `DeclineIsFirm`, `ApprovalIsAccounted`, `CardShowsTheRow` and
`AdviceIsFollowed`, for any set of files, any validation results, any answers of
the models, given that the trained model answers with a probability, that a
family is counted, and that an application which was not validated has no
confidence. The invariant has seven parts: the session found no decision
in the row, and an application that was not validated has no documents
(`RowInv`); nothing is decided before the eligibility agent answers (`SourceInv`);
a score of the agent below 0.40 is declined already (`DeclineInv`); and before one
decides nothing is decided, afterwards an approval is accounted for
(`DeciderInv`). For the card and the advice it adds that a score is between 0 and 1
(`ScoreInv`); what row and session hold until the node writes, while the endpoint
is idle (`WriteInv`); and that tools, rules and gate decline below 0.40 only
(`GroundsInv`). `AdviceAgrees` then compares thresholds of three functions that
share none. The approvals and declines rest on `NobodyPassesGateThree`: with the
keys validation leaves, Gate 3 passes no file (the run `DecisionGateThree` shows
one it should pass), so every score below 0.40 of the agent is declined.

### DocumentProofs

*ProcessingPhase.* `DocumentsAllOrNone`, `RealAreAsked`, `CriticalsHoldBack` and
`GatesDoAgree` are `Spec => []` of `AllOrNothing`, `RealIsAsked`,
`CriticalNeverApproved` and `GatesAgree`, and `ProcessingRunsOut` is
`Spec => StepsRunOut`, for any uploads, readings, answers and
numbers of attempts and reruns. What they assume of the inputs: entries of
`uploaded_documents` with the same id are copies of each other (documents get a UUID
each, and nothing changes an entry; how often and where the list repeats one is
left open, for the reducer doubles it whenever document collection runs again); a document with no required field missing has the
identity number or score Gate 1 requires of its type; the model states shares
between 0 and 1, as its instructions ask -- the code does not clip them, and a base
of 1.3 would carry a critical discrepancy past the threshold; the discrepancies
from before are entries of the same list. `IInv`, which a run of TLC confirmed
before it was proved, has nine parts:

* `ExtractInv`, `DataInv`: what has been extracted is of the documents before the
  current one, each under its own id, of the type it was uploaded as and past
  Gate 1; while none was given up there is one for each, and only then is anything
  handed on. A document that the list has again is read again and replaces what was
  read of it before. That the last upload of a type counts is the order in which
  `ByType` overwrites: that of the first places of the ids (`IdsAreOnesOwn`,
  `LastIsUploaded`), not that of the list.
* `ListInv`, `ResultsInv`: shapes; the base is between 0 and 100.
* `SharedInv`: the application's own discrepancies are in the graph's list,
  changed as its entries are (the code classifies shared dictionaries in place);
  without it the questions asked about the list would not be those of the state.
* `TwiceInv`: when the list is judged the reducer has every entry twice. The
  property depends on it: one critical entry counted once would leave a
  confidence of up to 0.85, which the decision agent approves; twice, it is at
  most 0.70, which it does not (`JudgedInv`).
* `JudgedInv`, `AskedInv`, `EndInv`: what the judgement, the questions and Gate 2
  have established once the graph is past them.

`GatesDoAgree` needs the first two and `EndInv` only, and one lemma for each thing
Gate 3 looks at: the Emirates ID, the score, the balances, the form, and
that Gate 2 with nothing missing leaves one identity number. `ProcessingRunsOut` needs
that the counters stay below their limits, and that none of a document's attempts is
on the books when there is no document left (`StepsInv`): a document given up, a
retry, a rerun of the graph and a node each take something from `StepsLeft` that
none of the others gives back.

*ApplicantPackages.* `OkMeansWhole` is `PackagesSpec => []OkPackagesAreWhole`. The
invariant says that whatever is not left in `next` for the seed in hand this batch
has written (`DoneIsWritten`) and that the report is the last step and only the
CLI's (`ReportComesLast`); so the report, which `OK` rests on, finds the
other seven files written, and a batch that stops anywhere has printed nothing yet.

`PackagesPass` is `PackagesSpec => []PackagesPassTheirChecks`: whatever the generators
draw, a complete package satisfies the eleven rules, and Gate 1 finds nothing in its
documents but the known faults, with every field it requires shown. The invariant
(`MadeInv`, confirmed by TLC first) says that each document of the package in hand was
made for its profile (`MadeFor`), the sheet of assets and liabilities from the
facilities of the credit report; that what is not left in `next` has been made
(`DoneIsMade`); and that a sheet is made only by the CLI and after the report
(`SheetAfterReport`). The rest is about the generators, one lemma for each document
(`CardFits`, `StatementFits`, `ReportFits`, `ResumeFits`, `SheetFits`, `FormFits`) and
for the rules (`IdentitiesAgree`, `AmountsAgree`, `RulesHold`). Balances, debts and
positions are recursive functions over drawn sequences. Induction with an operator
parameter is out of reach, so what they compute is shown a set of indices at a time:
a set that has 0, and with each number the next, has all of `0..n` (`ReachesAll`, by a
minimal counterexample), and the function that the recursion determines exists
(`RecursionExists`), which the partial functions up to an index show. A sheet
rounds what is owed on cards and on loans each on its own; `DebtsAddUp` bounds what
that makes of their sum.

*CircuitBreaker.* `BreakerTypes`, `ClosedMeansFewFailures`, `HalfOpenFollowsQuiet` are
`BreakerSpec => []` of `TypeOK`, `ClosedIffBelowThreshold`, `HalfOpenWasQuiet`;
`StragglersDoNotUnblock` is `BreakerSpec => LateResultsDoNotUnblock`.
The inductive invariant `BreakerInv` is the conjunction of the invariants and
`BackoffHasRetries`: `BackoffEnds` adds one to the attempt, which stays in range
only because a coroutine sleeps with an attempt left. The action property needs
no invariant: an OPEN breaker is left by `Admit` of a caller that was idle or by
`Reset`, so a call in flight does not change in that step.

### Not proved

Liveness (`EveryCallEnds`, `CircuitRecovers`, `ProcessingConcludes`, `OldGoes`) is out
of TLAPS's reach, and model-checked only; `CallsRunOut` and `StepsRunOut`, which are
proved, bound what fairness then brings to its end. Every other property of the
passing runs is stated by a theorem (the types of `ChatService` and `Login` by a
theorem only), `PhasesAreEarned`, `UploadsAreKept` and
`AnsweredCallsAgree` of `ChatService` under `OneAtATime`.

## 5. What is not modelled, and why

* Parsers and OCR, the UI, the evaluations, the scripts that call the API:
  text, images and clients, no state shared with the workflow.
* LLM replies: any value of the type the code parses.
* In `Orchestrator` and `ChatService` the subgraphs are outcomes of the nodes
  that call them; `ProcessingPhase` and `DecisionPhase` model them from the inside
  but one application at a time. The validation graph is compiled with the
  orchestrator's checkpointer and run with its `thread_id`
  (`validation/graph.py:124`); where the library puts its checkpoints is not in
  the repository: `ProcessingPhase` lets a retried validation find any list it may
  have left, and the orchestrator's thread is kept apart from it.
* `PATCH /applications/{id}/status` sets `current_phase` to any text: an
  operator's override, after which `PhasesAreEarned` cannot be expected.
* The stores behind `persist_results` and `run_extraction_pipeline` (type tables,
  Qdrant, Neo4j): the first gets a list of results that is always empty and closes
  its session without a commit, the second raises before it writes.
* A TTL cleanup in the middle of a chat request, in `ChatService`: it deletes
  threads unused for days. `Checkpointer` has the overlap of the two.
* Connections of `_persist_document_to_db` that are never closed: when the garbage
  collector returns them to the pool is outside the code.
* The rendering of synthetic documents, but for which fields are shown.
* The events of `run_streaming` (what is shown to the client while it runs).

## 6. Plan

Done: every module of section 2, and the proofs of section 4.

Next: `DecisionPhase` under two overlapping chat requests for one application, with
what survives of its four invariants proved.
