------------------------- MODULE OrchestratorProofs -------------------------
(***************************************************************************)
(* Proofs about Orchestrator.  The inductive invariant adds to TypeOK and  *)
(* PhasesAreEarned what ties the three parties together: a running graph   *)
(* stands at the node its checkpoint names, a thread that has ended is in  *)
(* phase enablement, and a client that will start a call afresh either     *)
(* knows of nothing after intake or talks to a thread that is decided.     *)
(***************************************************************************)
EXTENDS Orchestrator, ApplicantGraphProofs

-----------------------------------------------------------------------------
(* The inductive invariant. *)

(* A running graph stands at the node its checkpoint names; only the files  *)
(* of a resumed call are not in the checkpoint yet.                        *)
RunFollowsCheckpoint ==
  run.active => /\ run.node = checkpoint.next
                /\ run.state = [checkpoint.state EXCEPT !.files = run.state.files]

(* A client waiting at a question resumes a thread that has begun.  One     *)
(* that starts afresh knows of nothing between intake and enablement, and  *)
(* one that was told it is in review is past naming its category.          *)
ClientKnowsThread ==
  /\ client.pending => checkpoint.next # "start"
  /\ ~client.pending => client.phase \in {"authentication", "intake", "enablement"}
  /\ client.phase = "review" =>
       checkpoint.next \notin {"start", "authentication", "intake"}

IInv ==
  /\ TypeOK
  /\ At(checkpoint.next, checkpoint.state)
  /\ RunFollowsCheckpoint
  /\ ClientKnowsThread
  /\ PhasesAreEarned
  /\ ClientNotAhead

LEMMA NoRunType == NoRun \in Run
BY EmptyStateType DEF NoRun, Run, Answers

LEMMA InitIInv == Init => IInv
<1> SUFFICES ASSUME Init PROVE IInv
  OBVIOUS
<1>1. TypeOK
  <2>1. checkpoint \in Checkpoint
    BY EmptyStateType DEF Init, Checkpoint
  <2>2. client \in Client
    BY DEF Init, Client, Phases
  <2> QED
    BY <2>1, <2>2, NoRunType, MaxCrashesAssumption DEF Init, TypeOK
<1>2. At(checkpoint.next, checkpoint.state) /\ PhasesAreEarned
  BY DEF Init, At, PhasesAreEarned, Earned, Collecting, Deciding, Decided, NoRun, Phases
<1>3. RunFollowsCheckpoint /\ ClientKnowsThread /\ ClientNotAhead
  BY DEF Init, RunFollowsCheckpoint, ClientKnowsThread, ClientNotAhead, NoRun
<1> QED
  BY <1>1, <1>2, <1>3 DEF IInv

(* When a call ends without a result, its files may have been kept. *)
LEMMA EndingKeepsIInv ==
  ASSUME IInv, run.active, run' = NoRun,
         \/ checkpoint' = [checkpoint EXCEPT !.state = run.state]
         \/ UNCHANGED checkpoint,
         UNCHANGED client, rows' \in SUBSET Paths, crashes' \in 0..MaxCrashes
  PROVE  IInv'
<1>1. /\ checkpoint'.next = checkpoint.next
      /\ checkpoint'.state \in ApplicantState
      /\ checkpoint'.state.phase = checkpoint.state.phase
      /\ checkpoint'.state.docs = checkpoint.state.docs
      /\ checkpoint'.state.category = checkpoint.state.category
      /\ checkpoint'.state.discrepancies = checkpoint.state.discrepancies
      /\ checkpoint'.state.decision = checkpoint.state.decision
      /\ checkpoint' \in Checkpoint
  BY DEF IInv, TypeOK, RunFollowsCheckpoint, Checkpoint, Run, ApplicantState
<1>2. TypeOK'
  BY <1>1, NoRunType DEF IInv, TypeOK
<1>3. At(checkpoint.next, checkpoint.state)' /\ RunFollowsCheckpoint' /\ ClientKnowsThread'
  BY <1>1 DEF IInv, At, RunFollowsCheckpoint, ClientKnowsThread, NoRun
<1>4. PhasesAreEarned'
  BY <1>1, EarnedIsMonotone DEF IInv, PhasesAreEarned, NoRun
<1>5. ClientNotAhead'
  BY <1>1, CompleteIsMonotone DEF IInv, ClientNotAhead
<1> QED
  BY <1>2, <1>3, <1>4, <1>5 DEF IInv

(* The input of a fresh call. *)
LEMMA InputType ==
  ASSUME IInv, NEW new \in SUBSET Paths, NEW id \in {"none", "bare", "emirates"}
  PROVE  LET s == checkpoint.state
             t == Input(s, new, id)
         IN /\ t \in ApplicantState
            /\ t.phase = client.phase
            /\ Listed(s.docs) \subseteq Listed(t.docs)
            /\ t.category = s.category
            /\ t.discrepancies = s.discrepancies
            /\ t.decision = s.decision
<1> DEFINE s == checkpoint.state
           a == AddFiles(s, new)
           docs == IF client.returned THEN AddEntries(a.docs, s.docs) ELSE a.docs
<1>1. s \in ApplicantState /\ client.phase \in Phases
  BY DEF IInv, TypeOK, Checkpoint, Client
<1>2. s.docs \in [Paths -> 0..MaxFiles] /\ s.docs \in [Paths -> Nat]
  BY <1>1, MaxFilesAssumption DEF ApplicantState
<1>3. /\ a \in ApplicantState
      /\ a.docs = s.docs /\ a.category = s.category
      /\ a.discrepancies = s.discrepancies /\ a.decision = s.decision
  BY <1>1, AddedFiles DEF ApplicantState
<1>4. docs \in [Paths -> 0..MaxFiles] /\ Listed(s.docs) \subseteq Listed(docs)
  BY <1>2, <1>3, AddedEntries
<1>5. Input(s, new, id) = [a EXCEPT !.phase = client.phase,
                             !.identity = IF id = "none" THEN @ ELSE id, !.docs = docs]
  BY DEF Input
<1> HIDE DEF s, a, docs
<1> QED
  BY <1>1, <1>3, <1>4, <1>5 DEF s, ApplicantState

(* Invoke starts at the node of the phase the client knows. *)
LEMMA InvokeKeepsIInv ==
  ASSUME IInv, NEW new \in SUBSET Paths, NEW id \in {"none", "bare", "emirates"},
         Invoke(new, id)
  PROVE  IInv'
<1> DEFINE s == checkpoint.state
           t == Input(s, new, id)
<1>1. /\ t \in ApplicantState /\ t.phase = client.phase
      /\ Listed(s.docs) \subseteq Listed(t.docs) /\ t.category = s.category
      /\ t.discrepancies = s.discrepancies /\ t.decision = s.decision
  BY InputType
<1> HIDE DEF t
<1>2. /\ ~client.pending
      /\ checkpoint' = [state |-> t, next |-> client.phase]
      /\ run' = [active |-> TRUE, state |-> t, node |-> client.phase, answer |-> "none"]
      /\ UNCHANGED <<client, rows, crashes>>
  BY <1>1 DEF Invoke, RouteByPhase, t
<1>3. client.phase \in {"authentication", "intake", "enablement"} /\ client.phase \in Phases
  BY <1>2 DEF IInv, ClientKnowsThread, Phases
<1>4. TypeOK'
  BY <1>1, <1>2, <1>3 DEF IInv, TypeOK, Checkpoint, Run, Answers, Nodes
<1>5. At(checkpoint.next, checkpoint.state)'
  BY <1>1, <1>2, <1>3 DEF At
<1>6. RunFollowsCheckpoint'
  BY <1>1, <1>2 DEF RunFollowsCheckpoint, ApplicantState
<1>7. ClientKnowsThread'
  BY <1>2, <1>3 DEF ClientKnowsThread
<1>8. client.phase = "enablement" =>
        Complete(t) /\ ~Unresolved(t) /\ t.decision # "none"
  BY <1>1, CompleteIsMonotone
     DEF IInv, ClientNotAhead, PhasesAreEarned, Earned, Deciding, Decided, Unresolved
<1>9. Earned(client.phase, t)
  BY <1>3, <1>8 DEF Earned, Collecting, Deciding, Decided
<1>10. PhasesAreEarned'
  BY <1>2, <1>9 DEF PhasesAreEarned
<1>11. ClientNotAhead'
  BY <1>2, <1>3, <1>8 DEF ClientNotAhead, Decided
<1> QED
  BY <1>4, <1>5, <1>6, <1>7, <1>10, <1>11 DEF IInv

LEMMA ResumeKeepsIInv ==
  ASSUME IInv, NEW new \in SUBSET Paths, NEW answer \in {"vague", "full"},
         Resume(new, answer)
  PROVE  IInv'
<1> DEFINE s == checkpoint.state
           t == AddFiles(s, new)
<1>1. s \in ApplicantState /\ checkpoint.next \in Nodes \cup {"end"}
  BY DEF IInv, TypeOK, Checkpoint, ClientKnowsThread, Resume
<1>2. t \in ApplicantState /\ t = [s EXCEPT !.files = t.files]
  BY <1>1, AddedFiles
<1> HIDE DEF t
<1>3. /\ run' = [active |-> TRUE, state |-> t, node |-> checkpoint.next, answer |-> answer]
      /\ UNCHANGED <<checkpoint, client, rows, crashes>>
  BY DEF Resume, t
<1>4. TypeOK'
  BY <1>1, <1>2, <1>3 DEF IInv, TypeOK, Run, Answers
<1>5. RunFollowsCheckpoint'
  BY <1>2, <1>3 DEF RunFollowsCheckpoint
<1>6. Earned(checkpoint.next, t)
  BY <1>1, <1>2, EarnedIsMonotone DEF IInv, PhasesAreEarned, ApplicantState
<1>7. PhasesAreEarned'
  BY <1>3, <1>6 DEF IInv, PhasesAreEarned
<1> QED
  BY <1>3, <1>4, <1>5, <1>7 DEF IInv, ClientKnowsThread, ClientNotAhead

(* What is true of the state the next node runs on. *)
LEMMA RunningState ==
  ASSUME IInv, run.active
  PROVE  /\ run.state \in ApplicantState /\ run.answer \in Answers
         /\ checkpoint.state \in ApplicantState
         /\ run.node = checkpoint.next /\ run.node \in Phases \cup {"end"}
         /\ Earned(run.node, run.state) /\ At(run.node, run.state)
         /\ run.state.phase = checkpoint.state.phase
         /\ run.state.docs = checkpoint.state.docs
         /\ run.state.category = checkpoint.state.category
         /\ run.state.discrepancies = checkpoint.state.discrepancies
         /\ run.state.decision = checkpoint.state.decision
<1>1. /\ run.state \in ApplicantState /\ run.answer \in Answers
      /\ checkpoint.state \in ApplicantState
      /\ run.node = checkpoint.next /\ run.node \in Phases \cup {"end"}
      /\ Earned(run.node, run.state)
  BY DEF IInv, TypeOK, Checkpoint, Run, Nodes, RunFollowsCheckpoint, PhasesAreEarned
<1>2. /\ run.state.phase = checkpoint.state.phase
      /\ run.state.docs = checkpoint.state.docs
      /\ run.state.category = checkpoint.state.category
      /\ run.state.discrepancies = checkpoint.state.discrepancies
      /\ run.state.decision = checkpoint.state.decision
  BY <1>1 DEF IInv, RunFollowsCheckpoint, ApplicantState
<1> QED
  BY <1>1, <1>2 DEF IInv, At

LEMMA StepKeepsIInv ==
  ASSUME IInv, Step
  PROVE  IInv'
<1> DEFINE node == run.node
           s == run.state
<1>1. /\ run.active /\ node \in Phases /\ UNCHANGED crashes
  BY RunningState DEF Step
<1>2. PICK o \in Outcomes(node, s, run.answer) :
        /\ rows' = rows \cup o.inserted
        /\ StepReturns(o) \/ StepInterrupts(o) \/ StepRaises(o)
  BY DEF Step
<1>3. /\ o.state \in ApplicantState
      /\ o.end \in {"return", "interrupt", "raise"}
      /\ o.end # "return" => o.state = s
      /\ o.end = "interrupt" =>
           node \in {"intake", "document_collection", "review", "enablement"}
      /\ o.inserted \in SUBSET Paths
  BY <1>1, RunningState, NodeType
<1>4. rows' \in SUBSET Paths /\ crashes' \in 0..MaxCrashes
  BY <1>1, <1>2, <1>3 DEF IInv, TypeOK
<1>5. CASE StepReturns(o)
  <2> DEFINE next == Successor(node, o.state)
  <2>1. /\ next \in Phases \cup {"end"}
        /\ At(next, o.state) /\ Earned(next, o.state)
        /\ node \notin {"authentication", "intake"} =>
             /\ next \notin {"authentication", "intake"}
             /\ o.state.category = s.category
             /\ Listed(s.docs) \subseteq Listed(o.state.docs)
        /\ node = "enablement" => next = "end" /\ o.state.decision = s.decision
    BY <1>1, <1>5, RunningState, NodeReturns DEF StepReturns
  <2> HIDE DEF next
  <2>2. /\ checkpoint' = [state |-> o.state, next |-> next]
        /\ run' = [run EXCEPT !.state = o.state, !.node = next, !.answer = "none"]
        /\ UNCHANGED client
    BY <1>5 DEF StepReturns, next
  <2>3. run'.state = o.state /\ run'.node = next /\ run' \in Run
    BY <1>3, <2>1, <2>2 DEF IInv, TypeOK, Run, Nodes, Answers
  <2>4. TypeOK'
    BY <1>3, <1>4, <2>1, <2>2, <2>3 DEF IInv, TypeOK, Checkpoint, Nodes
  <2>5. At(checkpoint.next, checkpoint.state)' /\ PhasesAreEarned'
    BY <2>1, <2>2, <2>3 DEF At, PhasesAreEarned
  <2>6. RunFollowsCheckpoint'
    BY <1>3, <2>2, <2>3 DEF RunFollowsCheckpoint, ApplicantState
  <2>7. ClientKnowsThread'
    BY <1>1, <2>1, <2>2, RunningState DEF IInv, ClientKnowsThread, Phases
  <2>8. ClientNotAhead'
    <3>1. client.phase \in {"review", "enablement"} =>
            Complete(s) /\ node \notin {"authentication", "intake"}
      BY <1>1, RunningState, CompleteIsMonotone
         DEF IInv, ClientNotAhead, ClientKnowsThread, Decided
    <3>2. client.phase \in {"review", "enablement"} => Complete(o.state)
      BY <2>1, <3>1, CompleteIsMonotone
    <3>3. client.phase = "enablement" => node = "enablement" /\ s.decision # "none"
      BY <1>1, RunningState DEF IInv, ClientNotAhead, Decided, Phases
    <3> QED
      BY <2>1, <2>2, <3>2, <3>3 DEF ClientNotAhead, Decided
  <2> QED
    BY <2>4, <2>5, <2>6, <2>7, <2>8 DEF IInv
<1>6. CASE StepInterrupts(o)
  <2>1. /\ run' = NoRun /\ UNCHANGED checkpoint
        /\ client' = [phase |-> s.phase, pending |-> TRUE, returned |-> TRUE]
        /\ node \in {"intake", "document_collection", "review", "enablement"}
    BY <1>3, <1>6 DEF StepInterrupts
  <2>2. s.phase \in Phases /\ node = checkpoint.next /\ At(node, s)
    BY <1>1, RunningState DEF ApplicantState
  <2>3. TypeOK'
    BY <1>4, <2>1, <2>2, NoRunType DEF IInv, TypeOK, Client
  <2>4. ClientKnowsThread'
    BY <2>1, <2>2 DEF ClientKnowsThread, At, Phases
  <2>5. s.phase \in {"review", "enablement"} => node = s.phase
    BY <2>1, <2>2 DEF At, Phases
  <2>6. ClientNotAhead'
    BY <2>1, <2>2, <2>5 DEF IInv, PhasesAreEarned, ClientNotAhead, Earned, Collecting, Decided
  <2> QED
    BY <2>1, <2>3, <2>4, <2>6 DEF IInv, RunFollowsCheckpoint, PhasesAreEarned, NoRun, At
<1>7. CASE StepRaises(o)
  BY <1>1, <1>4, <1>7, EndingKeepsIInv DEF StepRaises
<1> QED
  BY <1>2, <1>5, <1>6, <1>7

LEMMA FinishKeepsIInv ==
  ASSUME IInv, Finish
  PROVE  IInv'
<1>1. /\ run.active /\ run.node = "end"
      /\ run' = NoRun /\ UNCHANGED <<checkpoint, rows, crashes>>
      /\ client' = [phase |-> run.state.phase, pending |-> FALSE, returned |-> TRUE]
  BY DEF Finish
<1>2. checkpoint.next = "end" /\ run.state.phase = "enablement"
  BY <1>1, RunningState DEF At
<1>3. TypeOK'
  BY <1>1, <1>2, NoRunType DEF IInv, TypeOK, Client, Phases
<1>4. ClientKnowsThread' /\ ClientNotAhead'
  BY <1>1, <1>2 DEF IInv, PhasesAreEarned, ClientKnowsThread, ClientNotAhead,
                    Earned, Collecting, Decided
<1> QED
  BY <1>1, <1>3, <1>4 DEF IInv, RunFollowsCheckpoint, PhasesAreEarned, NoRun, At

LEMMA StepIInv == IInv /\ [Next]_vars => IInv'
<1> SUFFICES ASSUME IInv, [Next]_vars PROVE IInv'
  OBVIOUS
<1>1. ASSUME NEW new \in SUBSET Paths, NEW id \in {"none", "bare", "emirates"},
             Invoke(new, id)
      PROVE  IInv'
  BY <1>1, InvokeKeepsIInv
<1>2. ASSUME NEW new \in SUBSET Paths, NEW answer \in {"vague", "full"}, Resume(new, answer)
      PROVE  IInv'
  BY <1>2, ResumeKeepsIInv
<1>3. CASE Step
  BY <1>3, StepKeepsIInv
<1>4. CASE Finish
  BY <1>4, FinishKeepsIInv
<1>5. CASE Crash
  <2>1. crashes' \in 0..MaxCrashes /\ rows' \in SUBSET Paths
    BY <1>5, MaxCrashesAssumption DEF Crash, IInv, TypeOK
  <2> QED
    BY <1>5, <2>1, EndingKeepsIInv DEF Crash
<1>6. CASE UNCHANGED vars
  BY <1>6 DEF vars, IInv, TypeOK, At, RunFollowsCheckpoint, ClientKnowsThread,
              PhasesAreEarned, ClientNotAhead
<1> QED
  BY <1>1, <1>2, <1>3, <1>4, <1>5, <1>6 DEF Next

LEMMA InvariantIInv == Spec => []IInv
<1> QED
  BY InitIInv, StepIInv, PTL DEF Spec

-----------------------------------------------------------------------------
(* The theorems. *)

(* Whatever is called, resumed, interrupted, raised or lost in a crash, the *)
(* thread, the call, the client and the rows stay what they should be: in  *)
(* particular every node and edge of the graph (phases/*.py, graph.py)     *)
(* yields a phase that exists.                                             *)
THEOREM TypeCorrectness == Spec => []TypeOK
<1>1. IInv => TypeOK
  BY DEF IInv
<1> QED
  BY <1>1, InvariantIInv, PTL

(* No node past document collection is ever reached without the documents   *)
(* the category requires, the decision with an open discrepancy, or        *)
(* enablement without a decision, for any documents, categories and        *)
(* requirements, and any number of calls and crashes.                      *)
THEOREM PhasesAreAlwaysEarned == Spec => []PhasesAreEarned
<1>1. IInv => PhasesAreEarned
  BY DEF IInv
<1> QED
  BY <1>1, InvariantIInv, PTL

(* The phase a caller of agent_runner.run was told of is one the thread has *)
(* earned, although run hands it back as the input of the next call.       *)
THEOREM ClientIsNeverAhead == Spec => []ClientNotAhead
<1>1. IInv => ClientNotAhead
  BY DEF IInv
<1> QED
  BY <1>1, InvariantIInv, PTL

LEMMA StepRunsOut ==
  ASSUME IInv, Next, run.active, run'.active
  PROVE  NodesLeft(run'.node, run'.state, run'.answer)
           \in 0..(NodesLeft(run.node, run.state, run.answer) - 1)
<1>1. Step
  BY DEF Next, Invoke, Resume, Finish, Crash, NoRun
<1>2. /\ run.state \in ApplicantState /\ run.answer \in Answers /\ run.node \in Phases
      /\ Earned(run.node, run.state) /\ At(run.node, run.state)
  BY <1>1, RunningState DEF Step
<1>3. PICK o \in Outcomes(run.node, run.state, run.answer) : StepReturns(o)
  BY <1>1 DEF Step, StepInterrupts, StepRaises, NoRun
<1>4. /\ o.end = "return"
      /\ run' = [run EXCEPT !.state = o.state, !.node = Successor(run.node, o.state),
                            !.answer = "none"]
  BY <1>3 DEF StepReturns
<1>5. /\ run'.state = o.state /\ run'.node = Successor(run.node, o.state)
      /\ run'.answer = "none"
  BY <1>4 DEF IInv, TypeOK, Run
<1>6. o.state \in ApplicantState /\ Successor(run.node, o.state) \in Phases \cup {"end"}
  BY <1>2, <1>4, NodeType, NodeReturns
<1>7. /\ NodesToRun(run'.node, run'.state) \in Nat
      /\ NodesToRun(run.node, run.state) \in Nat
  BY <1>2, <1>5, <1>6, NodesToRunIs, MaxFilesAssumption
<1>8. NodesLeft(run'.node, run'.state, "none") < NodesLeft(run.node, run.state, run.answer)
  BY <1>2, <1>4, <1>5, NodeLowers
<1>9. /\ NodesLeft(run'.node, run'.state, "none") \in Nat
      /\ NodesLeft(run.node, run.state, run.answer) \in Nat
  BY <1>7 DEF NodesLeft
<1> QED
  BY <1>5, <1>8, <1>9

(* However many files an application has, whatever its nodes answer, a call *)
(* runs no longer than the entries of its documents leave room: every loop *)
(* of the graph (review back to document collection, a node back to itself)*)
(* uses up what it goes round for.                                         *)
THEOREM CallsDoRunOut == Spec => CallsRunOut
<1>1. IInv /\ [Next]_vars =>
        [run.active /\ run'.active =>
           NodesLeft(run'.node, run'.state, run'.answer)
             \in 0..(NodesLeft(run.node, run.state, run.answer) - 1)]_vars
  BY StepRunsOut
<1> QED
  BY <1>1, InvariantIInv, PTL DEF Spec, CallsRunOut

-----------------------------------------------------------------------------
(* The refinement of ApplicantFlow. *)

Stage ==
  IF checkpoint.next \in Collecting THEN "collecting"
  ELSE IF checkpoint.next \in Decided THEN "decided" ELSE "reviewing"

LEMMA CompleteIsBoolean == ASSUME NEW s PROVE Complete(s) \in BOOLEAN
BY Zenon DEF Complete

LEMMA InitImplements == Init => Flow!Init
<1> SUFFICES ASSUME Init PROVE Flow!Init
  OBVIOUS
<1>1. Complete(checkpoint.state) \in BOOLEAN
  BY CompleteIsBoolean
<1> HIDE DEF Complete
<1> QED
  BY <1>1 DEF Init, Flow!Init, Collecting, EmptyState, Unresolved

(* A call that ends without a result moves nothing the flow looks at. *)
LEMMA EndingStutters ==
  ASSUME IInv, run.active,
         \/ checkpoint' = [checkpoint EXCEPT !.state = run.state]
         \/ UNCHANGED checkpoint
  PROVE  UNCHANGED Flow!vars
<1>1. /\ checkpoint'.next = checkpoint.next
      /\ checkpoint'.state.docs = checkpoint.state.docs
      /\ checkpoint'.state.category = checkpoint.state.category
      /\ checkpoint'.state.discrepancies = checkpoint.state.discrepancies
      /\ checkpoint'.state.decision = checkpoint.state.decision
  BY RunningState DEF IInv, TypeOK, Checkpoint
<1> QED
  BY <1>1 DEF Flow!vars, Complete, RequiredFor, Unresolved

(* The steps of the flow, for the state a node is given and the one it      *)
(* returns.                                                                *)
Reviewing == {"processing", "review", "decision"}

NodeFollows(node, s, next, t) ==
  \/ /\ node \in Collecting /\ next \in Collecting
     /\ Unresolved(t) = Unresolved(s) /\ t.decision = s.decision
  \/ /\ node \in Collecting /\ next \in Reviewing
     /\ Complete(t) /\ Unresolved(t) = Unresolved(s) /\ t.decision = s.decision
  \/ /\ node \in Reviewing /\ next \in Reviewing
     /\ Complete(s) /\ Complete(t) /\ t.decision = s.decision
     /\ Unresolved(s) => Unresolved(t)
  \/ /\ node \notin Collecting /\ next \in Collecting
     /\ Complete(s) /\ Complete(t) /\ t.decision = s.decision
     /\ Unresolved(t) = Unresolved(s)
  \/ /\ node \in Reviewing /\ next \in Decided
     /\ Complete(s) /\ Complete(t) /\ t.decision \in Decisions
     /\ ~Unresolved(s) /\ ~Unresolved(t)
  \/ /\ node \in Decided /\ next \in Decided
     /\ Complete(s) /\ Complete(t) /\ t.decision = s.decision
     /\ Unresolved(t) = Unresolved(s)

LEMMA NodesFollow ==
  ASSUME NEW s \in ApplicantState, NEW node \in Phases, NEW answer \in Answers,
         NEW o \in Outcomes(node, s, answer), o.end = "return",
         Earned(node, s), At(node, s)
  PROVE  NodeFollows(node, s, Successor(node, o.state), o.state)
<1> DEFINE next == Successor(node, o.state)
<1> USE DEF Successor, RouteByPhase, Collecting, Reviewing, Decided, Unresolved
<1>1. CASE node = "authentication"
  BY <1>1, OutcomesOfAuthentication DEF Outcomes, NodeFollows
<1>2. CASE node = "intake"
  BY <1>2, OutcomesOfIntake DEF Outcomes, NodeFollows
<1>3. CASE node = "document_collection"
  BY <1>3, OutcomesOfDocumentCollection DEF Outcomes, NodeFollows
<1>4. Earned(next, o.state)
  BY NodeReturns
<1>5. CASE node = "processing"
  BY <1>4, <1>5, OutcomesOfProcessing DEF Outcomes, NodeFollows, Earned
<1>6. CASE node = "review"
  <2>1. Complete(s) /\ Complete(o.state)
    BY <1>6, OutcomesOfReview DEF Outcomes, Earned, Complete, RequiredFor
  <2> QED
    BY <1>6, <2>1, OutcomesOfReview DEF Outcomes, NodeFollows
<1>7. CASE node = "decision"
  <2>1. /\ next = "enablement" /\ Complete(o.state) /\ ~Unresolved(o.state)
        /\ o.state.decision \in Decisions
    BY <1>4, <1>7, OutcomesOfDecision DEF Outcomes, Earned, Deciding
  <2>2. Complete(s) /\ ~Unresolved(s)
    BY <1>7 DEF Earned, Deciding
  <2> QED
    BY <1>7, <2>1, <2>2 DEF NodeFollows
<1>8. CASE node = "enablement"
  <2>1. /\ next = "end" /\ Complete(o.state)
        /\ o.state.discrepancies = s.discrepancies /\ o.state.decision = s.decision
    BY <1>4, <1>8, OutcomesOfEnablement DEF Outcomes, Earned
  <2>2. Complete(s)
    BY <1>8 DEF Earned
  <2> QED
    BY <1>8, <2>1, <2>2 DEF NodeFollows
<1> QED
  BY <1>1, <1>2, <1>3, <1>5, <1>6, <1>7, <1>8 DEF Phases

(* NodeFollows, of two consecutive checkpoints, is a step of the flow. *)
LEMMA FollowingImplements ==
  ASSUME NodeFollows(checkpoint.next, checkpoint.state, checkpoint'.next, checkpoint'.state)
  PROVE  [Flow!Next]_Flow!vars
<1> DEFINE s == checkpoint.state
           t == checkpoint'.state
           node == checkpoint.next
           next == checkpoint'.next
<1>1. Complete(s) \in BOOLEAN /\ Complete(t) \in BOOLEAN
      /\ Unresolved(s) \in BOOLEAN /\ Unresolved(t) \in BOOLEAN
  <2>1. Unresolved(s) \in BOOLEAN /\ Unresolved(t) \in BOOLEAN
    BY DEF Unresolved
  <2> QED
    BY <2>1, CompleteIsBoolean
<1> USE <1>1 DEF Collecting, Reviewing, Decided
<1>2. CASE /\ node \in Collecting /\ next \in Collecting
           /\ Unresolved(t) = Unresolved(s) /\ t.decision = s.decision
  <2>1. Flow!Collect
    BY <1>2 DEF Flow!Collect
  <2> QED
    BY <2>1 DEF Flow!Next
<1>3. CASE /\ node \in Collecting /\ next \in Reviewing /\ Complete(t)
           /\ Unresolved(t) = Unresolved(s) /\ t.decision = s.decision
  <2>1. Flow!Submit
    BY <1>3 DEF Flow!Submit
  <2> QED
    BY <2>1 DEF Flow!Next
<1>4. CASE /\ node \in Reviewing /\ next \in Reviewing
           /\ Complete(s) /\ Complete(t) /\ t.decision = s.decision
           /\ Unresolved(s) => Unresolved(t)
  <2>1. Complete(t) = Complete(s)
    BY <1>4
  <2>2. CASE Unresolved(t)
    <3>1. Flow!FindDiscrepancy
      BY <1>4, <2>1, <2>2 DEF Flow!FindDiscrepancy
    <3> QED
      BY <3>1 DEF Flow!Next
  <2>3. CASE ~Unresolved(t)
    BY <1>4, <2>1, <2>3 DEF Flow!vars
  <2> QED
    BY <2>2, <2>3
<1>5. CASE /\ node \notin Collecting /\ next \in Collecting
           /\ Complete(s) /\ Complete(t) /\ t.decision = s.decision
           /\ Unresolved(t) = Unresolved(s)
  <2>1. Flow!GoBack
    BY <1>5 DEF Flow!GoBack
  <2> QED
    BY <2>1 DEF Flow!Next
<1>6. CASE /\ node \in Reviewing /\ next \in Decided
           /\ Complete(s) /\ Complete(t) /\ t.decision \in Decisions
           /\ ~Unresolved(s) /\ ~Unresolved(t)
  <2>1. Flow!Decide
    BY <1>6 DEF Flow!Decide
  <2> QED
    BY <2>1 DEF Flow!Next
<1>7. CASE /\ node \in Decided /\ next \in Decided
           /\ Complete(s) /\ Complete(t) /\ t.decision = s.decision
           /\ Unresolved(t) = Unresolved(s)
  BY <1>7 DEF Flow!vars
<1> QED
  BY <1>2, <1>3, <1>4, <1>5, <1>6, <1>7 DEF NodeFollows

LEMMA InvokeImplements ==
  ASSUME IInv, NEW new \in SUBSET Paths, NEW id \in {"none", "bare", "emirates"},
         Invoke(new, id)
  PROVE  [Flow!Next]_Flow!vars
<1> DEFINE s == checkpoint.state
           t == Input(s, new, id)
<1>1. /\ t.phase = client.phase
      /\ Listed(s.docs) \subseteq Listed(t.docs) /\ t.category = s.category
      /\ t.discrepancies = s.discrepancies /\ t.decision = s.decision
  BY InputType
<1> HIDE DEF t
<1>2. /\ ~client.pending
      /\ checkpoint' = [state |-> t, next |-> client.phase]
  BY <1>1 DEF Invoke, RouteByPhase, t
<1>3. client.phase \in {"authentication", "intake", "enablement"}
  BY <1>2 DEF IInv, ClientKnowsThread
<1>4. Unresolved(t) = Unresolved(s)
  BY <1>1 DEF Unresolved
<1>5. Complete(s) => Complete(t)
  BY <1>1, CompleteIsMonotone
<1>6. checkpoint.next \notin Collecting => Complete(s)
  BY DEF IInv, PhasesAreEarned, Earned
<1>7. NodeFollows(checkpoint.next, s, client.phase, t)
  <2>1. CASE client.phase = "enablement"
    <3>1. checkpoint.next \in Decided /\ Complete(s)
      BY <2>1, <1>6 DEF IInv, ClientNotAhead
    <3> QED
      BY <2>1, <3>1, <1>1, <1>4, <1>5 DEF NodeFollows, Decided
  <2>2. CASE client.phase \in Collecting /\ checkpoint.next \in Collecting
    BY <2>2, <1>1, <1>4 DEF NodeFollows
  <2>3. CASE client.phase \in Collecting /\ checkpoint.next \notin Collecting
    <3>1. Complete(s) /\ Complete(t)
      BY <2>3, <1>5, <1>6
    <3> QED
      BY <2>3, <3>1, <1>1, <1>4 DEF NodeFollows
  <2> QED
    BY <1>3, <2>1, <2>2, <2>3 DEF Collecting
<1> QED
  BY <1>2, <1>7, FollowingImplements

LEMMA StepImplements == IInv /\ [Next]_vars => [Flow!Next]_Flow!vars
<1> SUFFICES ASSUME IInv, [Next]_vars PROVE [Flow!Next]_Flow!vars
  OBVIOUS
<1>1. ASSUME NEW new \in SUBSET Paths, NEW id \in {"none", "bare", "emirates"},
             Invoke(new, id)
      PROVE  [Flow!Next]_Flow!vars
  BY <1>1, InvokeImplements
<1>2. CASE UNCHANGED checkpoint
  BY <1>2 DEF Flow!vars, Complete, RequiredFor, Unresolved
<1>3. CASE Step
  <2>1. /\ run.active /\ run.node \in Phases
    BY <1>3, RunningState DEF Step
  <2>2. PICK o \in Outcomes(run.node, run.state, run.answer) :
          StepReturns(o) \/ StepInterrupts(o) \/ StepRaises(o)
    BY <1>3 DEF Step
  <2>3. CASE StepReturns(o)
    <3>1. NodeFollows(run.node, run.state, Successor(run.node, o.state), o.state)
      BY <2>1, <2>3, RunningState, NodesFollow DEF StepReturns
    <3>2. checkpoint' = [state |-> o.state, next |-> Successor(run.node, o.state)]
      BY <2>3 DEF StepReturns
    <3>3. /\ run.node = checkpoint.next
          /\ Complete(run.state) = Complete(checkpoint.state)
          /\ Unresolved(run.state) = Unresolved(checkpoint.state)
          /\ run.state.decision = checkpoint.state.decision
      BY <2>1, RunningState DEF Complete, RequiredFor, Unresolved
    <3>4. NodeFollows(checkpoint.next, checkpoint.state, checkpoint'.next, checkpoint'.state)
      BY <3>1, <3>2, <3>3 DEF NodeFollows
    <3> QED
      BY <3>4, FollowingImplements
  <2>4. CASE StepInterrupts(o)
    BY <1>2, <2>4 DEF StepInterrupts
  <2>5. CASE StepRaises(o)
    BY <2>1, <2>5, EndingStutters DEF StepRaises
  <2> QED
    BY <2>2, <2>3, <2>4, <2>5
<1>4. CASE Crash
  BY <1>4, EndingStutters DEF Crash
<1> QED
  BY <1>1, <1>2, <1>3, <1>4 DEF Next, Resume, Finish, vars

(* One thread of the orchestrator keeps the promise of ApplicantFlow: it is *)
(* reviewed only with its documents, decided only out of review with       *)
(* nothing open, and its decision changes nowhere else, however calls,     *)
(* interrupts, failures and crashes follow one another.                    *)
THEOREM ImplementsFlow == Spec => FollowsTheFlow
<1> QED
  BY InitImplements, InvariantIInv, StepImplements, PTL DEF Spec, FollowsTheFlow, Flow!Spec
=============================================================================
