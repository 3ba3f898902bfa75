--------------------------- MODULE ApplicantGraph ---------------------------
(***************************************************************************)
(* The orchestrator's graph as functions of its state: the seven phase     *)
(* nodes of src/agents/orchestrator/phases, the reducers of                *)
(* src/agents/state.py and the edges of src/agents/orchestrator/graph.py.  *)
(* It has no variables; Orchestrator and ChatService run it.               *)
(*                                                                         *)
(* A node maps the state and the answer it was resumed with to the set of  *)
(* outcomes it may have: it returns an update and the graph goes on, it    *)
(* stops at interrupt(), or it raises.  LLM replies, the subgraphs and the *)
(* database are the choices among outcomes.                                *)
(***************************************************************************)
EXTENDS Integers, FiniteSets, FiniteSetsExt

CONSTANTS
  Paths,        (* file paths an applicant may upload                       *)
  DocTypes,     (* document types                                           *)
  TypeOf,       (* classify_document: a path's type                         *)
  Categories,   (* support categories                                       *)
  Required,     (* REQUIRED_DOCUMENTS, the default for any other value       *)
  Decisions,    (* what the decision agent may answer                       *)
  MaxFiles      (* bound: uploads in the life of an application             *)

ASSUME PathsAssumption == IsFiniteSet(Paths) /\ TypeOf \in [Paths -> DocTypes]
ASSUME CategoriesAssumption ==
  /\ "none" \notin Categories
  /\ Required \in [Categories \cup {"none"} -> SUBSET DocTypes]
ASSUME DecisionsAssumption == "none" \notin Decisions
ASSUME MaxFilesAssumption  == MaxFiles \in Nat \ {0}

Phases == {"authentication", "intake", "document_collection", "processing",
           "review", "decision", "enablement"}

(* What interrupt() returns in a resumed node: nothing in a node that was   *)
(* not resumed, a text that addresses no discrepancy, or one that names    *)
(* all of them.                                                            *)
Answers == {"none", "vague", "full"}

(* ApplicantState, as far as the control reads it.  The lists of files and  *)
(* documents are kept as the number of entries of each path, counted up to *)
(* MaxFiles; of the discrepancies, which statuses occur in the list.       *)
ApplicantState ==
  [phase : Phases,                                 \* current_phase
   identity : {"none", "bare", "emirates"},        \* identity_number
   category : Categories \cup {"none"},            \* applicant_info
   files : [Paths -> 0..MaxFiles],                 \* uploaded_files
   docs : [Paths -> 0..MaxFiles],                  \* uploaded_documents
   newDocs : BOOLEAN,                              \* new_documents_uploaded
   results : {"none", "extraction_failed", "validation_failed", "validated"},
   discrepancies : SUBSET {"open", "resolved"},
   decision : Decisions \cup {"none"}]

(* A thread without a checkpoint; a missing phase counts as authentication. *)
EmptyState ==
  [phase |-> "authentication", identity |-> "none", category |-> "none",
   files |-> [p \in Paths |-> 0], docs |-> [p \in Paths |-> 0],
   newDocs |-> FALSE, results |-> "none", discrepancies |-> {},
   decision |-> "none"]

-----------------------------------------------------------------------------
(* The reducers: operator.add on lists of entries per path. *)

UpTo(n) == IF n > MaxFiles THEN MaxFiles ELSE n

AddEntries(f, g) == [p \in Paths |-> UpTo(f[p] + g[p])]

AddFiles(s, new) ==
  [s EXCEPT !.files = AddEntries(s.files, [p \in Paths |-> IF p \in new THEN 1 ELSE 0])]

Entries(f, ps) == Cardinality({entry \in ps \X (1..MaxFiles) : entry[2] <= f[entry[1]]})

Listed(f) == {p \in Paths : f[p] > 0}

TypesOf(ps) == {TypeOf[p] : p \in ps}

RequiredFor(s) == Required[s.category]

(* All the documents the applicant's category requires are on record. *)
Complete(s) == RequiredFor(s) \subseteq TypesOf(Listed(s.docs))

Unresolved(s) == "open" \in s.discrepancies

-----------------------------------------------------------------------------
(* Outcomes.  `inserted` are the paths whose new entries got Document rows. *)

Outcome(end, s, inserted) == [end |-> end, state |-> s, inserted |-> inserted]

Return(s)    == Outcome("return", s, {})
Interrupt(s) == Outcome("interrupt", s, {})
Raise(s)     == Outcome("raise", s, {})

-----------------------------------------------------------------------------
(* Phase 0.  Only an identity number written with its dashes validates; the *)
(* 14 digits the node takes from a message have none.                      *)

EmiratesIdValid(id) == id = "emirates"

AuthenticationNode(s) ==
  LET given == IF s.identity = "none" THEN {"none", "bare"} ELSE {s.identity}
  IN {Return(IF EmiratesIdValid(id)
             THEN [s EXCEPT !.phase = "intake", !.identity = id]
             ELSE [s EXCEPT !.phase = "authentication"]) : id \in given}

(* Phase 1.  The LLM or the patterns may find a category in the message;    *)
(* failing that, a resumed node looks for one in the answer and goes round *)
(* again.  JSON of the LLM that is null or a number makes it raise.        *)
IntakeNode(s, answer) ==
  {Return([s EXCEPT !.category = c, !.phase = "document_collection"]) :
      c \in Categories} \cup {Raise(s)} \cup
  (IF s.category # "none" THEN {}
   ELSE IF answer = "none" THEN {Interrupt(s)}
   ELSE {Return([s EXCEPT !.category = c, !.phase = "intake"]) :
            c \in Categories \cup {"none"}})

(* Phase 2.  Files whose path no document has are classified and persisted, *)
(* each insert on its own; then the node advances, fails in                *)
(* check_state_size (a name it does not import) or asks for the rest.  The *)
(* list it returns holds the old entries, and the reducer adds it to them. *)
Unclassified(s) == {p \in Listed(s.files) : s.docs[p] = 0}

UploadedDocuments(s) ==
  [p \in Paths |-> IF p \in Unclassified(s) THEN s.files[p] ELSE s.docs[p]]

Collected_AlwaysNew(s, phase, newDocs) ==
  [s EXCEPT !.phase = phase, !.newDocs = TRUE,
            !.docs = AddEntries(s.docs, UploadedDocuments(s))]

Collected_OnlyNew(s, phase, newDocs) ==
  [s EXCEPT !.phase = phase, !.newDocs = newDocs,
            !.docs = [p \in Paths |-> IF p \in Unclassified(s) THEN s.files[p] ELSE s.docs[p]]]

Collected(s, phase, newDocs) ==
  [s EXCEPT !.phase = phase, !.newDocs = newDocs,
            !.docs = AddEntries(s.docs, UploadedDocuments(s))]

MissingTypes(s) == RequiredFor(s) \ TypesOf(Listed(UploadedDocuments(s)))

DocumentCollectionNode(s, answer) ==
  LET new == Unclassified(s)
  IN IF MissingTypes(s) = {}
     THEN {Outcome("return", Collected(s, "processing", new # {}), rows) :
              rows \in SUBSET new}
     ELSE IF new # {}
     THEN {Outcome("raise", s, rows) : rows \in SUBSET new}
     ELSE IF answer = "none"
     THEN {Interrupt(s)}
     ELSE {Return(Collected(s, "document_collection", s.newDocs))}

(* Phase 3.  Extraction fails (its gate, its circuit, an exception), or     *)
(* validation does, or both answer and discrepancies may have been found.  *)
ProcessingNode(s) ==
  LET reviewed(results, found) ==
        Return([s EXCEPT !.phase = "review", !.results = results,
                         !.discrepancies = @ \cup found])
  IN {reviewed("extraction_failed", {}), reviewed("validation_failed", {})}
     \cup {reviewed("validated", found) : found \in SUBSET {"open", "resolved"}}

(* Phase 4.  New documents go back to phase 2.  An answer resolves copies   *)
(* of the discrepancies, which the reducer appends to the originals.       *)
NewFilesUploaded(s) ==
  s.newDocs \/ Entries(s.files, Paths) > Entries(s.docs, Listed(s.files))

ReviewNode_DecidesOnAnswer(s, answer) ==
  IF NewFilesUploaded(s)
  THEN {Return([s EXCEPT !.phase = "document_collection", !.newDocs = FALSE])}
  ELSE IF Unresolved(s) /\ answer = "none"
  THEN {Interrupt(s)}
  ELSE {Return([s EXCEPT !.phase = "decision"])}

ReviewNode_AnyDiscrepancy(s, answer) ==
  IF NewFilesUploaded(s)
  THEN {Return([s EXCEPT !.phase = "document_collection", !.newDocs = FALSE])}
  ELSE IF s.discrepancies = {}
  THEN {Return([s EXCEPT !.phase = "decision"])}
  ELSE IF answer = "none"
  THEN {Interrupt(s)}
  ELSE {Return([s EXCEPT !.phase = "review"])}

ReviewNode(s, answer) ==
  IF NewFilesUploaded(s)
  THEN {Return([s EXCEPT !.phase = "document_collection", !.newDocs = FALSE])}
  ELSE IF ~Unresolved(s)
  THEN {Return([s EXCEPT !.phase = "decision"])}
  ELSE IF answer = "none"
  THEN {Interrupt(s)}
  ELSE {Return([s EXCEPT !.phase = "review",
          !.discrepancies = @ \cup (IF answer = "full" THEN {"resolved"} ELSE {})])}

(* Phase 5, whichever of the agents, the services and the defaults decides; *)
(* without a decision in the agent's JSON the node raises, outside its try *)
(* blocks, when it words its message.                                      *)
DecisionNode(s) ==
  {Return([s EXCEPT !.phase = "enablement", !.decision = d]) : d \in Decisions}
    \cup {Raise(s)}

(* Phase 6 answers one follow-up question. *)
EnablementNode_Completes(s, answer) ==
  IF answer = "none" THEN {Interrupt(s)}
  ELSE {Return([s EXCEPT !.phase = "complete"])}

EnablementNode(s, answer) ==
  IF answer = "none" THEN {Interrupt(s)}
  ELSE {Return([s EXCEPT !.phase = "enablement"])}

Outcomes(node, s, answer) ==
  CASE node = "authentication"      -> AuthenticationNode(s)
    [] node = "intake"              -> IntakeNode(s, answer)
    [] node = "document_collection" -> DocumentCollectionNode(s, answer)
    [] node = "processing"          -> ProcessingNode(s)
    [] node = "review"              -> ReviewNode(s, answer)
    [] node = "decision"            -> DecisionNode(s)
    [] node = "enablement"          -> EnablementNode(s, answer)

-----------------------------------------------------------------------------
(* The edges.  START goes to the node of the current phase. *)

RouteByPhase(s) == s.phase

Successor(node, s) ==
  CASE node = "authentication" -> "intake"
    [] node = "processing"     -> "review"
    [] node = "decision"       -> "enablement"
    [] node = "enablement"     -> "end"
    [] OTHER                   -> RouteByPhase(s)

-----------------------------------------------------------------------------
(* What has to be on record before a node may run; for the properties.      *)

Collecting == {"start", "authentication", "intake", "document_collection"}
Deciding   == {"decision", "enablement", "end"}
Decided    == {"enablement", "end"}

Earned(node, s) ==
  /\ node \notin Collecting => Complete(s)
  /\ node \in Deciding => ~Unresolved(s)
  /\ node \in Decided => s.decision # "none"

(* How many nodes a call still runs, at most, with `node` as the next.  The  *)
(* review sends it round again, through document collection, processing and*)
(* the review, once for new documents, and while a file has fewer entries  *)
(* in the documents than in the files: each round doubles the entries.  At *)
(* most 8 * MaxFiles + 13.                                                 *)
Room(s) == Max({0} \cup {MaxFiles - s.docs[p] : p \in Listed(s.files)})

Rounds(s) == 2 * Room(s) + (IF s.newDocs THEN 1 ELSE 0)

NodesToRun(node, s) ==
  CASE node = "authentication"      -> 4 * Rounds(s) + 8
    [] node = "intake"              -> 4 * Rounds(s) + 7
    [] node = "document_collection" -> 4 * Rounds(s) + (IF Room(s) = 0 THEN 6 ELSE 3)
    [] node = "processing"          -> 4 * Rounds(s) + 5
    [] node = "review"              -> 4 * Rounds(s) + 4
    [] node = "decision"            -> 2
    [] node = "enablement"          -> 1
    [] OTHER                        -> 0

(* A node that was resumed may come back to itself once more.               *)
NodesLeft(node, s, answer) == NodesToRun(node, s) + (IF answer = "none" THEN 0 ELSE 1)
=============================================================================
