----------------------------- MODULE ChatService -----------------------------
(***************************************************************************)
(* The chat endpoints of one application: ChatService.handle_chat          *)
(* (POST /chat) around agent_runner.run, and the streaming endpoint around *)
(* agent_runner.run_streaming.  Three records of the application are kept  *)
(* apart: the graph's checkpoint, and in the applications row the          *)
(* state_snapshot and the columns current_phase and decision.  Requests    *)
(* for one application are not serialised: each holds its own database     *)
(* session and its own copy of the graph's state, and they interleave at   *)
(* every await.                                                            *)
(***************************************************************************)
EXTENDS ApplicantGraph

CONSTANTS
  Requests,       (* requests that may be in progress together              *)
  Streaming,      (* clients use the streaming endpoint too                 *)
  WritesFail,     (* persist_decision may raise                             *)
  MaxCalls,       (* bound: requests received                               *)
  MaxCrashes,     (* bound: times the process dies                          *)
  MaxExpiries     (* bound: checkpoints the TTL cleanup deletes             *)

ASSUME BoundsAssumption ==
  /\ Streaming \in BOOLEAN /\ WritesFail \in BOOLEAN
  /\ MaxCalls \in Nat /\ MaxCrashes \in Nat /\ MaxExpiries \in Nat

VARIABLES
  checkpoint,   (* the thread's latest checkpoint, as in Orchestrator       *)
  row,          (* current_phase and decision                               *)
  snapshot,     (* state_snapshot with its _pending_interrupt               *)
  rows,         (* paths with Document rows                                 *)
  call,         (* the requests in progress                                 *)
  acknowledged, (* paths uploaded by the requests that were answered        *)
  counts        (* of requests, crashes, expiries; and of lost decisions    *)

vars == <<checkpoint, row, snapshot, rows, call, acknowledged, counts>>

Row == [phase : Phases, decision : Decisions \cup {"none"}]

Snapshot == [taken : BOOLEAN, pending : BOOLEAN, state : ApplicantState]

NoSnapshot == [taken |-> FALSE, pending |-> FALSE, state |-> EmptyState]

Checkpoint == [state : ApplicantState, next : Phases \cup {"start", "end"}]

(* `loaded` is the row as the request's session last read it, `saved` the   *)
(* snapshot it read; `state` and `node` belong to the running graph;       *)
(* `pending` tells whether that ended at an interrupt.                     *)
Call ==
  [pc : {"idle", "load", "start", "graph", "save", "decide", "phase"},
   kind : {"chat", "stream"}, new : SUBSET Paths,
   loaded : Row, saved : Snapshot, state : ApplicantState,
   node : Phases \cup {"end"}, answer : Answers, pending : BOOLEAN]

Idle ==
  [pc |-> "idle", kind |-> "chat", new |-> {},
   loaded |-> [phase |-> "intake", decision |-> "none"], saved |-> NoSnapshot,
   state |-> EmptyState, node |-> "end", answer |-> "none", pending |-> FALSE]

Init ==
  /\ checkpoint = [state |-> EmptyState, next |-> "start"]
  /\ row = [phase |-> "intake", decision |-> "none"]
  /\ snapshot = NoSnapshot
  /\ rows = {}
  /\ call = [r \in Requests |-> Idle]
  /\ acknowledged = {}
  /\ counts = [calls |-> 0, crashes |-> 0, expiries |-> 0, lost |-> FALSE]

-----------------------------------------------------------------------------
(* POST /chat, up to the graph. *)

(* MaxFiles bounds the uploads of all requests together. *)
Uploads(s) ==
  {new \in SUBSET Paths :
     /\ Entries(s.files, Paths) + Cardinality(new) <= MaxFiles
     /\ \A r \in Requests : call[r].pc # "idle" => call[r].new = {}}

LoadApplication(r, new) ==
  /\ call[r].pc = "idle"
  /\ counts.calls < MaxCalls
  /\ new \in Uploads(checkpoint.state)
  /\ call' = [call EXCEPT ![r].pc = "load", ![r].new = new, ![r].loaded = row]
  /\ counts' = [counts EXCEPT !.calls = @ + 1]
  /\ UNCHANGED <<checkpoint, row, snapshot, rows, acknowledged>>

LoadState(r) ==
  /\ call[r].pc = "load"
  /\ call' = [call EXCEPT ![r].pc = "start", ![r].saved = snapshot]
  /\ UNCHANGED <<checkpoint, row, snapshot, rows, acknowledged, counts>>

(* The fresh input is the snapshot with the row's phase and the new files.  *)
(* Its lists are added to the thread's, its other fields replace them.     *)
Input_ReplacesFiles(s, c) ==
  LET old == c.saved.state
      merged ==
        [old EXCEPT !.docs = AddEntries(s.docs, old.docs),
                    !.discrepancies = s.discrepancies \cup old.discrepancies]
  IN [(IF c.saved.taken THEN merged ELSE s)
        EXCEPT !.files = [p \in Paths |-> IF p \in c.new THEN 1 ELSE 0],
               !.phase = c.loaded.phase]

Input(s, c) ==
  LET old == c.saved.state
      merged ==
        [old EXCEPT !.files = s.files,
                    !.docs = AddEntries(s.docs, old.docs),
                    !.discrepancies = s.discrepancies \cup old.discrepancies]
  IN [AddFiles(IF c.saved.taken THEN merged ELSE s, c.new)
        EXCEPT !.phase = c.loaded.phase]

StartGraph(r) ==
  /\ call[r].pc = "start"
  /\ ~call[r].saved.pending
  /\ LET s == Input(checkpoint.state, call[r])
     IN /\ checkpoint' = [state |-> s, next |-> RouteByPhase(s)]
        /\ call' = [call EXCEPT ![r].pc = "graph", ![r].saved = NoSnapshot,
                                ![r].state = s, ![r].node = RouteByPhase(s)]
  /\ UNCHANGED <<row, snapshot, rows, acknowledged, counts>>

(* Command(resume, update).  On a thread that has ended nothing is left to  *)
(* run.  On one without checkpoint the library either refuses the command  *)
(* or takes its update for the input of a new thread.                      *)
ResumeGraph(r, answer) ==
  LET s == AddFiles(checkpoint.state, call[r].new)
      begun(node) ==
        [call EXCEPT ![r].pc = "graph", ![r].saved = NoSnapshot, ![r].state = s,
                     ![r].node = node, ![r].answer = answer]
  IN /\ call[r].pc = "start"
     /\ call[r].saved.pending
     /\ \/ /\ checkpoint.next # "start"
           /\ call' = begun(checkpoint.next)
           /\ UNCHANGED checkpoint
        \/ /\ checkpoint.next = "start"
           /\ call' = begun(RouteByPhase(s))
           /\ checkpoint' = [state |-> s, next |-> RouteByPhase(s)]
        \/ /\ checkpoint.next = "start"
           /\ call' = [call EXCEPT ![r] = Idle]
           /\ UNCHANGED checkpoint
     /\ UNCHANGED <<row, snapshot, rows, acknowledged, counts>>

(* POST /chat/stream: a fresh input of the message and the files only,      *)
(* whatever the thread is waiting for.                                     *)
StartStream(r, new) ==
  /\ Streaming
  /\ call[r].pc = "idle"
  /\ counts.calls < MaxCalls
  /\ new \in Uploads(checkpoint.state)
  /\ LET s == AddFiles(checkpoint.state, new)
     IN /\ checkpoint' = [state |-> s, next |-> RouteByPhase(s)]
        /\ call' = [call EXCEPT ![r].pc = "graph", ![r].kind = "stream",
                      ![r].new = new, ![r].state = s, ![r].node = RouteByPhase(s)]
  /\ counts' = [counts EXCEPT !.calls = @ + 1]
  /\ UNCHANGED <<row, snapshot, rows, acknowledged>>

-----------------------------------------------------------------------------
(* The graph. *)

(* The next node of r's graph returns: its checkpoint becomes the thread's  *)
(* latest, whatever other requests wrote meanwhile.                        *)
StepReturns(r, o) ==
  LET next == Successor(call[r].node, o.state)
  IN /\ o.end = "return"
     /\ checkpoint' = [state |-> o.state, next |-> next]
     /\ call' = [call EXCEPT ![r].state = o.state, ![r].node = next,
                             ![r].answer = "none"]

(* ainvoke returns; a stream just ends. *)
GraphReturned(r, pending) ==
  call' = [call EXCEPT ![r] =
             IF @.kind = "stream" THEN Idle
             ELSE [@ EXCEPT !.pc = "save", !.pending = pending, !.answer = "none"]]

StepInterrupts(r, o) ==
  /\ o.end = "interrupt"
  /\ GraphReturned(r, TRUE)
  /\ UNCHANGED checkpoint

(* The files of a resumed call may have been kept with the checkpoint. *)
UpdateKeptOrNot(r) ==
  \/ /\ call[r].answer # "none"
     /\ call[r].new \in {new \in SUBSET Paths :
          Entries(checkpoint.state.files, Paths) + Cardinality(new) <= MaxFiles}
     /\ checkpoint' = [checkpoint EXCEPT !.state = AddFiles(@, call[r].new)]
  \/ UNCHANGED checkpoint

(* handle_chat answers with the phase it knew and saves nothing. *)
StepRaises(r, o) ==
  /\ o.end = "raise"
  /\ UpdateKeptOrNot(r)
  /\ call' = [call EXCEPT ![r] = Idle]

Step(r) ==
  /\ call[r].pc = "graph"
  /\ call[r].node # "end"
  /\ \E o \in Outcomes(call[r].node, call[r].state, call[r].answer) :
       /\ rows' = rows \cup o.inserted
       /\ \/ StepReturns(r, o)
          \/ StepInterrupts(r, o)
          \/ StepRaises(r, o)
  /\ UNCHANGED <<row, snapshot, acknowledged, counts>>

GraphEnds(r) ==
  /\ call[r].pc = "graph"
  /\ call[r].node = "end"
  /\ GraphReturned(r, FALSE)
  /\ UNCHANGED <<checkpoint, row, snapshot, rows, acknowledged, counts>>

-----------------------------------------------------------------------------
(* POST /chat, after the graph: three commits. *)

SaveState_SkipsDecision(r) ==
  /\ call[r].pc = "save"
  /\ snapshot' = [taken |-> TRUE, pending |-> call[r].pending, state |-> call[r].state]
  /\ call' = [call EXCEPT ![r].pc = "phase"]
  /\ UNCHANGED <<checkpoint, row, rows, acknowledged, counts>>

SaveState_NotWhenInterrupted(r) ==
  /\ call[r].pc = "save"
  /\ snapshot' = IF call[r].pending THEN snapshot
                 ELSE [taken |-> TRUE, pending |-> FALSE, state |-> call[r].state]
  /\ call' = [call EXCEPT ![r].pc =
                IF call[r].state.decision = "none" THEN "phase" ELSE "decide"]
  /\ UNCHANGED <<checkpoint, row, rows, acknowledged, counts>>

SaveState(r) ==
  /\ call[r].pc = "save"
  /\ snapshot' = [taken |-> TRUE, pending |-> call[r].pending, state |-> call[r].state]
  /\ call' = [call EXCEPT ![r].pc =
                IF call[r].state.decision = "none" THEN "phase" ELSE "decide"]
  /\ UNCHANGED <<checkpoint, row, rows, acknowledged, counts>>

(* The session writes a column only if its new value differs from the one   *)
(* it loaded, and reads the row again after its commit.                    *)
Written(column, loaded, new) == IF loaded = new THEN column ELSE new

PersistDecision(r) ==
  /\ call[r].pc = "decide"
  /\ row' = [row EXCEPT !.decision =
               Written(@, call[r].loaded.decision, call[r].state.decision)]
  /\ call' = [call EXCEPT ![r].pc = "phase", ![r].loaded = row']
  /\ UNCHANGED <<checkpoint, snapshot, rows, acknowledged, counts>>

(* The exception is logged and the request goes on. *)
PersistDecisionFails(r) ==
  /\ WritesFail
  /\ call[r].pc = "decide"
  /\ call' = [call EXCEPT ![r].pc = "phase"]
  /\ counts' = [counts EXCEPT !.lost = TRUE]
  /\ UNCHANGED <<checkpoint, row, snapshot, rows, acknowledged>>

UpdatePhase(r) ==
  /\ call[r].pc = "phase"
  /\ row' = [row EXCEPT !.phase = Written(@, call[r].loaded.phase, call[r].state.phase)]
  /\ acknowledged' = acknowledged \cup call[r].new
  /\ call' = [call EXCEPT ![r] = Idle]
  /\ UNCHANGED <<checkpoint, snapshot, rows, counts>>

-----------------------------------------------------------------------------
(* The environment. *)

(* The process dies with all its requests. *)
Crash ==
  /\ counts.crashes < MaxCrashes
  /\ \E r \in Requests : call[r].pc # "idle" /\ UpdateKeptOrNot(r)
  /\ call' = [r \in Requests |-> Idle]
  /\ counts' = [counts EXCEPT !.crashes = @ + 1]
  /\ UNCHANGED <<row, snapshot, rows, acknowledged>>

(* The client of a stream goes away, and its generator is cancelled. *)
Disconnect(r) ==
  /\ call[r].kind = "stream"
  /\ call' = [call EXCEPT ![r] = Idle]
  /\ UNCHANGED <<checkpoint, row, snapshot, rows, acknowledged, counts>>

(* The cleanup task deletes the checkpoints of a thread nobody used for     *)
(* CHECKPOINT_TTL_DAYS.                                                    *)
Expire ==
  /\ counts.expiries < MaxExpiries
  /\ \A r \in Requests : call[r].pc = "idle"
  /\ checkpoint.next # "start"
  /\ checkpoint' = [state |-> EmptyState, next |-> "start"]
  /\ counts' = [counts EXCEPT !.expiries = @ + 1]
  /\ UNCHANGED <<row, snapshot, rows, call, acknowledged>>

Next ==
  \/ \E r \in Requests :
       \/ \E new \in SUBSET Paths : LoadApplication(r, new) \/ StartStream(r, new)
       \/ \E answer \in {"vague", "full"} : ResumeGraph(r, answer)
       \/ LoadState(r) \/ StartGraph(r)
       \/ Step(r) \/ GraphEnds(r)
       \/ SaveState(r) \/ PersistDecision(r) \/ PersistDecisionFails(r) \/ UpdatePhase(r)
       \/ Disconnect(r)
  \/ Crash
  \/ Expire

Spec == Init /\ [][Next]_vars

-----------------------------------------------------------------------------
(* Properties. *)

(* The type invariant. *)
TypeOK ==
  /\ checkpoint \in Checkpoint
  /\ row \in Row
  /\ snapshot \in Snapshot
  /\ rows \in SUBSET Paths
  /\ call \in [Requests -> Call]
  /\ acknowledged \in SUBSET Paths
  /\ counts \in [calls : 0..MaxCalls, crashes : 0..MaxCrashes,
                 expiries : 0..MaxExpiries, lost : BOOLEAN]

(* Of requests one at a time: whatever crashes, streams and failed writes   *)
(* came between, no run of the graph and no checkpoint is at a phase its   *)
(* own state has not earned: documents before processing, no discrepancy   *)
(* open at the decision, a decision at enablement.  (Two requests together *)
(* break it: see EnablementIsClear.)                                       *)
PhasesAreEarned ==
  /\ Earned(checkpoint.next, checkpoint.state)
  /\ \A r \in Requests :
       call[r].pc = "graph" => Earned(call[r].node, call[r].state)

(* An application shown in enablement has its decision in the row, unless   *)
(* the write of a decision failed: the decision is committed before the    *)
(* phase.                                                                  *)
EnablementHasDecision ==
  row.phase = "enablement" => row.decision # "none" \/ counts.lost

Quiet == \A r \in Requests : call[r].pc = "idle"

(* A request that is answered leaves the three records of the application   *)
(* in agreement, whatever failed before it: crashes between the commits of *)
(* an earlier request are made good.  (Files that come with an answer to a *)
(* thread that has ended may reach the snapshot only.)                     *)
Agree ==
  /\ snapshot.state.phase = row.phase
  /\ [snapshot.state EXCEPT !.files = checkpoint.state.files] = checkpoint.state
  /\ row.decision = snapshot.state.decision \/ counts.lost

AnsweredCallsAgree ==
  [][(\E r \in Requests : call[r].pc = "phase" /\ call'[r].pc = "idle" /\ row'.phase = call[r].state.phase)
     => Agree']_vars

(* Until the decision is made, a file uploaded with a request that was      *)
(* answered is never dropped from the thread, whatever the later requests  *)
(* do and however they end.                                                *)
UploadsAreKept ==
  acknowledged \subseteq Listed(checkpoint.state.files) \/ checkpoint.next \in Decided

-----------------------------------------------------------------------------
(* What the repository says and the code does not do. *)

(* "Final decision" (docs/data-dictionary.md:116): a decision in the row     *)
(* is not replaced by another.                                             *)
DecisionIsFinal == [][row.decision # "none" => row'.decision = row.decision]_row

(* "Transitions to decision when no discrepancies remain."                  *)
(* (phases/review.py:22)  A thread that stands at enablement has none open. *)
EnablementIsClear == checkpoint.next = "enablement" => ~Unresolved(checkpoint.state)

(* "We have received all required documents.  We will now process them"      *)
(* (phases/document_collection.py:168): a decision is saved with the       *)
(* documents the applicant's category requires.  (A second request that    *)
(* loaded phase intake runs intake again on a decided thread, and the      *)
(* category it finds may require more.)                                    *)
DecisionsAreOfCompleteFiles ==
  snapshot.state.decision # "none" => Complete(snapshot.state)

(* "`state_snapshot` stores the deserialized, application-level state for    *)
(* inspection and recovery" (README.md:141): when no request is in         *)
(* progress it shows the thread as it is.                                  *)
SnapshotShowsTheThread ==
  Quiet /\ snapshot.taken => snapshot.state.decision = checkpoint.state.decision

(* The same sentence, of a thread whose checkpoints the TTL cleanup has     *)
(* deleted: a request that finds a snapshot runs the graph on no less than *)
(* what the snapshot holds.                                                *)
SnapshotRecovers ==
  [][\A r \in Requests :
       (call[r].pc = "start" /\ call'[r].pc # "start" /\ call[r].saved.taken)
         => /\ call'[r].pc = "graph"
            /\ Listed(call[r].saved.state.docs) \subseteq Listed(call'[r].state.docs)]_vars
=============================================================================
