---------------------------- MODULE Orchestrator ----------------------------
(***************************************************************************)
(* agent_runner.run for one application: one client, one call at a time.   *)
(* A call either invokes the graph afresh, with the phase the client knows *)
(* of, or, when the last call stopped at an interrupt(), resumes it with an *)
(* answer and the files that came with it.  The graph then runs node after *)
(* node and writes a checkpoint after each; it stops at an interrupt(), at *)
(* the end, when a node raises or when the process dies.                   *)
(***************************************************************************)
EXTENDS ApplicantGraph

CONSTANT MaxCrashes      (* bound: times the process dies                   *)

ASSUME MaxCrashesAssumption == MaxCrashes \in Nat

VARIABLES
  checkpoint,   (* the thread's latest checkpoint                           *)
  run,          (* the call in progress                                     *)
  client,       (* what the caller knows from the calls that returned       *)
  rows,         (* paths with Document rows                                 *)
  crashes       (* how often the process died                               *)

vars == <<checkpoint, run, client, rows, crashes>>

Nodes == Phases

(* `next` is the node to run next, "start" on a thread without checkpoint. *)
Checkpoint == [state : ApplicantState, next : Nodes \cup {"start", "end"}]

(* The running graph holds the checkpoint's state with the update of the    *)
(* call applied; only the first node it runs sees the answer.              *)
Run == [active : BOOLEAN, state : ApplicantState,
        node : Nodes \cup {"end"}, answer : Answers]

(* The phase of the last response, whether it was an interrupt, and whether *)
(* there was one.                                                          *)
Client == [phase : Phases, pending : BOOLEAN, returned : BOOLEAN]

NoRun == [active |-> FALSE, state |-> EmptyState, node |-> "end", answer |-> "none"]

Init ==
  /\ checkpoint = [state |-> EmptyState, next |-> "start"]
  /\ run = NoRun
  /\ client \in [phase : {"authentication", "intake"}, pending : {FALSE}, returned : {FALSE}]
  /\ rows = {}
  /\ crashes = 0

-----------------------------------------------------------------------------
(* The files of a call; their number is bounded by MaxFiles. *)
Uploads(s) == {new \in SUBSET Paths : Entries(s.files, Paths) + Cardinality(new) <= MaxFiles}

(* The input of a fresh call: the phase, the files, an identity number, and *)
(* the state the last call returned if there is one, which the reducers    *)
(* add to the state they find.                                             *)
Input_FromIntake(s, new, id) ==
  [AddFiles(s, new) EXCEPT
     !.phase = "intake",
     !.identity = IF id = "none" THEN @ ELSE id,
     !.docs = IF client.returned THEN AddEntries(@, s.docs) ELSE @]

Input_WithoutDecision(s, new, id) ==
  [AddFiles(s, new) EXCEPT
     !.phase = client.phase,
     !.decision = "none",
     !.identity = IF id = "none" THEN @ ELSE id,
     !.docs = IF client.returned THEN AddEntries(@, s.docs) ELSE @]

Input(s, new, id) ==
  [AddFiles(s, new) EXCEPT
     !.phase = client.phase,
     !.identity = IF id = "none" THEN @ ELSE id,
     !.docs = IF client.returned THEN AddEntries(@, s.docs) ELSE @]

Invoke(new, id) ==
  /\ ~run.active
  /\ ~client.pending
  /\ new \in Uploads(checkpoint.state)
  /\ LET s == Input(checkpoint.state, new, id)
     IN /\ checkpoint' = [state |-> s, next |-> RouteByPhase(s)]
        /\ run' = [active |-> TRUE, state |-> s, node |-> RouteByPhase(s),
                   answer |-> "none"]
  /\ UNCHANGED <<client, rows, crashes>>

(* Command(resume = answer, update = files): the node the checkpoint stands *)
(* before runs again.                                                      *)
Resume(new, answer) ==
  /\ ~run.active
  /\ client.pending
  /\ new \in Uploads(checkpoint.state)
  /\ run' = [active |-> TRUE, state |-> AddFiles(checkpoint.state, new),
             node |-> checkpoint.next, answer |-> answer]
  /\ UNCHANGED <<checkpoint, client, rows, crashes>>

-----------------------------------------------------------------------------
(* The node that is to run next ends with outcome o. *)

StepReturns(o) ==
  LET next == Successor(run.node, o.state)
  IN /\ o.end = "return"
     /\ checkpoint' = [state |-> o.state, next |-> next]
     /\ run' = [run EXCEPT !.state = o.state, !.node = next, !.answer = "none"]
     /\ UNCHANGED client

StepInterrupts(o) ==
  /\ o.end = "interrupt"
  /\ run' = NoRun
  /\ UNCHANGED checkpoint
  /\ client' = [phase |-> o.state.phase, pending |-> TRUE, returned |-> TRUE]

(* The call raises; the update of a resumed call may or may not have        *)
(* reached the checkpoint.                                                 *)
StepRaises(o) ==
  /\ o.end = "raise"
  /\ \/ checkpoint' = [checkpoint EXCEPT !.state = run.state]
     \/ UNCHANGED checkpoint
  /\ run' = NoRun
  /\ UNCHANGED client

Step ==
  /\ run.active
  /\ run.node # "end"
  /\ \E o \in Outcomes(run.node, run.state, run.answer) :
       /\ rows' = rows \cup o.inserted
       /\ \/ StepReturns(o)
          \/ StepInterrupts(o)
          \/ StepRaises(o)
  /\ UNCHANGED crashes

(* The graph has reached END: the call returns its state. *)
Finish ==
  /\ run.active
  /\ run.node = "end"
  /\ run' = NoRun
  /\ client' = [phase |-> run.state.phase, pending |-> FALSE, returned |-> TRUE]
  /\ UNCHANGED <<checkpoint, rows, crashes>>

(* The process dies in a call: the caller gets no answer, the checkpoint    *)
(* stays, with or without the update of a resumed call.                    *)
Crash ==
  /\ run.active
  /\ crashes < MaxCrashes
  /\ crashes' = crashes + 1
  /\ \/ checkpoint' = [checkpoint EXCEPT !.state = run.state]
     \/ UNCHANGED checkpoint
  /\ run' = NoRun
  /\ UNCHANGED <<client, rows>>

Next ==
  \/ \E new \in SUBSET Paths, id \in {"none", "bare", "emirates"} : Invoke(new, id)
  \/ \E new \in SUBSET Paths, answer \in {"vague", "full"} : Resume(new, answer)
  \/ Step
  \/ Finish
  \/ Crash

Spec == Init /\ [][Next]_vars

-----------------------------------------------------------------------------
(* Fairness.  The event loop runs the graph's next superstep once the last  *)
(* is done; and this client always comes back, with an answer that names   *)
(* every open discrepancy.                                                 *)
ClientCalls ==
  \/ \E new \in SUBSET Paths, id \in {"none", "bare", "emirates"} : Invoke(new, id)
  \/ \E new \in SUBSET Paths : Resume(new, "full")

NextAnswered == ClientCalls \/ Step \/ Finish

AnsweredSpec ==
  /\ Init /\ [][NextAnswered]_vars
  /\ WF_vars(Step) /\ WF_vars(Finish) /\ WF_vars(ClientCalls)

-----------------------------------------------------------------------------
(* Properties. *)

(* The type invariant. *)
TypeOK ==
  /\ checkpoint \in Checkpoint
  /\ run \in Run
  /\ client \in Client
  /\ rows \in SUBSET Paths
  /\ crashes \in 0..MaxCrashes

(* No node past document collection runs, or is left to run by a            *)
(* checkpoint, before every document the category requires is on record;   *)
(* the decision is reached with no discrepancy open, and enablement with a *)
(* decision: whatever failed, was resumed or started over on the way.      *)
PhasesAreEarned ==
  /\ Earned(checkpoint.next, checkpoint.state)
  /\ run.active => Earned(run.node, run.state)

(* A client that was told it is in review or enablement talks to a thread   *)
(* that has earned that phase: no failure leaves the client ahead of the   *)
(* checkpoint its next call will start from.                               *)
ClientNotAhead ==
  /\ client.phase \in {"review", "enablement"} => Complete(checkpoint.state)
  /\ client.phase = "enablement" =>
       checkpoint.next \in Decided /\ checkpoint.state.decision # "none"

(* Every call ends: the loops of the graph (review back to document         *)
(* collection, a node back to itself) do not go round for ever.            *)
EveryCallEnds == run.active ~> ~run.active

(* And none of them runs long: every node of a call leaves fewer to run,    *)
(* from a number the files of the application bound.                       *)
CallsRunOut ==
  [][run.active /\ run'.active =>
       NodesLeft(run'.node, run'.state, run'.answer)
         \in 0..(NodesLeft(run.node, run.state, run.answer) - 1)]_vars

(* Documents handed to processing do not get lost in the graph: with a      *)
(* client that comes back, and once the models' replies no longer make a   *)
(* node raise, the application is decided, or the thread waits in review   *)
(* for a discrepancy, or a call that started over has found a category     *)
(* whose documents are not all there.  A decision agent that never states  *)
(* a decision keeps the application undecided for good.                    *)
PausedInReview ==
  ~run.active /\ client.pending /\ client.phase = "review" /\ Unresolved(checkpoint.state)

ReplyRaises ==
  run.active /\ run.node \in {"intake", "decision"} /\ ~run'.active /\ client' = client

ProcessingConcludes ==
  <>[][~ReplyRaises]_vars =>
    (checkpoint.next = "processing" ~>
       \/ checkpoint.next \in Decided
       \/ PausedInReview
       \/ ~Complete(checkpoint.state))


(* The thread keeps the promise of the phase table: see ApplicantFlow. *)
Flow == INSTANCE ApplicantFlow WITH
  stage <- IF checkpoint.next \in Collecting THEN "collecting"
           ELSE IF checkpoint.next \in Decided THEN "decided" ELSE "reviewing",
  complete <- Complete(checkpoint.state),
  open <- Unresolved(checkpoint.state),
  decision <- checkpoint.state.decision

FollowsTheFlow == Flow!Spec

-----------------------------------------------------------------------------
(* What the repository says and the code does not do. *)

(* "Uses interrupt() to pause when documents are missing."                  *)
(* (phases/document_collection.py:97)                                      *)
MissingDocumentsPause ==
  [][(run.active /\ run.node = "document_collection" /\ ~run'.active /\ crashes' = crashes)
     => client'.pending /\ client'.phase = "document_collection"]_vars

(* "Checks if new files were uploaded since last review. If so, transitions *)
(* back to document_collection." (phases/review.py:20)                     *)
NewFilesAreCollected ==
  PausedInReview => Unclassified(checkpoint.state) = {}

(* "Transitions to decision when no discrepancies remain. Uses interrupt()  *)
(* to pause for user responses." (phases/review.py:22)                     *)
AnsweredReviewDecides == PausedInReview ~> checkpoint.next \in Decided

(* "Review complete. All documents have been cross-checked and validated."  *)
(* (phases/review.py:53)                                                   *)
DecisionFollowsValidation ==
  checkpoint.next \in Deciding => checkpoint.state.results = "validated"

(* "Transitions to intake on success, or escalates on failure."             *)
(* (phases/authentication.py:21)                                           *)
IntakeFollowsAuthentication ==
  [][(run.active /\ run.node = "authentication" /\ run'.node = "intake")
     => EmiratesIdValid(run'.state.identity)]_vars

(* A decision is on record only if no discrepancy is left open              *)
(* (phases/review.py:22, as above).                                        *)
DecisionOnRecordIsClear ==
  checkpoint.state.decision # "none" => ~Unresolved(checkpoint.state)
=============================================================================
