-------------------------- MODULE ChatServiceProofs --------------------------
(***************************************************************************)
(* Proofs about ChatService.  First, for any number of interleaved         *)
(* requests: that a row in enablement has its decision follows from what   *)
(* every copy of an application's data carries with it: wherever a phase   *)
(* says enablement -- in the row, the copy of the row a request loaded,    *)
(* the checkpoint, the state of a running graph -- a decision is in the    *)
(* same state or in the row already.                                       *)
(*                                                                         *)
(* Then, for requests one at a time: how the row, the snapshot and the     *)
(* thread may lag behind one another when a request is left half done, and *)
(* why a fresh input built out of the three is still sound.                *)
(***************************************************************************)
EXTENDS ChatService, ApplicantGraphProofs

-----------------------------------------------------------------------------
(* The inductive invariant. *)

(* The row has a decision, or the write of one failed. *)
Kept == row.decision # "none" \/ counts.lost

Backed(s) == s.decision # "none" \/ Kept

RowBacked == row.phase = "enablement" => Kept

ThreadBacked ==
  checkpoint.state.phase = "enablement" \/ checkpoint.next = "enablement"
    => Backed(checkpoint.state)

CallBacked(r) ==
  /\ call[r].loaded.phase = "enablement" => Kept
  /\ call[r].loaded.decision # "none" => row.decision # "none"
  /\ call[r].state.phase = "enablement" \/ call[r].node = "enablement"
       => Backed(call[r].state)
  /\ call[r].pc = "decide" => call[r].state.decision # "none"
  /\ call[r].pc = "phase" /\ call[r].state.phase = "enablement" => Kept

IInv ==
  /\ TypeOK
  /\ RowBacked
  /\ ThreadBacked
  /\ \A r \in Requests : CallBacked(r)

-----------------------------------------------------------------------------
(* The building blocks of the state. *)

LEMMA IdleType == Idle \in Call
BY EmptyStateType DEF Idle, Call, Row, Phases, Snapshot, NoSnapshot, Answers

LEMMA InitIInv == Init => IInv
<1> SUFFICES ASSUME Init PROVE IInv
  OBVIOUS
<1>1. Idle \in Call
  BY IdleType
<1>2. TypeOK
  BY <1>1, EmptyStateType, BoundsAssumption
     DEF Init, TypeOK, Checkpoint, Row, Phases, Snapshot, NoSnapshot
<1>3. RowBacked /\ ThreadBacked /\ \A r \in Requests : CallBacked(r)
  BY DEF Init, RowBacked, ThreadBacked, CallBacked, Idle, EmptyState
<1> QED
  BY <1>2, <1>3 DEF IInv

(* The input of a run started afresh is in the phase the request loaded. *)
LEMMA InputType ==
  ASSUME NEW s \in ApplicantState, NEW c \in Call
  PROVE  Input(s, c) \in ApplicantState /\ Input(s, c).phase = c.loaded.phase
<1> DEFINE old == c.saved.state
           merged == [old EXCEPT !.files = s.files,
                        !.docs = AddEntries(s.docs, old.docs),
                        !.discrepancies = s.discrepancies \cup old.discrepancies]
           base == IF c.saved.taken THEN merged ELSE s
           added == AddFiles(base, c.new)
<1>1. old \in ApplicantState /\ c.new \in SUBSET Paths /\ c.loaded.phase \in Phases
  BY DEF Call, Snapshot, Row
<1>2. old.docs \in [Paths -> Nat] /\ s.docs \in [Paths -> 0..MaxFiles]
  BY <1>1, MaxFilesAssumption DEF ApplicantState
<1>3. AddEntries(s.docs, old.docs) \in [Paths -> 0..MaxFiles]
  BY <1>2, AddedEntries
<1>4. merged \in ApplicantState
  BY <1>1, <1>3 DEF ApplicantState
<1>5. base \in ApplicantState
  BY <1>4
<1>6. added \in ApplicantState
  BY <1>1, <1>5, AddedFiles
<1>7. Input(s, c) = [added EXCEPT !.phase = c.loaded.phase]
  BY DEF Input
<1> HIDE DEF added
<1> QED
  BY <1>1, <1>6, <1>7 DEF ApplicantState

LEMMA FilesOnly ==
  ASSUME NEW s \in ApplicantState, NEW new \in SUBSET Paths
  PROVE  /\ AddFiles(s, new) \in ApplicantState
         /\ AddFiles(s, new).phase = s.phase
         /\ AddFiles(s, new).decision = s.decision
<1>1. AddFiles(s, new) \in ApplicantState
  BY AddedFiles
<1> QED
  BY <1>1 DEF AddFiles, ApplicantState

(* A node hands on a state that is backed wherever it says enablement. *)
LEMMA NodeBacked ==
  ASSUME NEW s \in ApplicantState, NEW node \in Phases, NEW answer \in Answers,
         NEW o \in Outcomes(node, s, answer), o.end = "return",
         s.phase = "enablement" \/ node = "enablement" => Backed(s)
  PROVE  /\ Successor(node, o.state) \in Phases \cup {"end"}
         /\ o.state.phase = "enablement" \/ Successor(node, o.state) = "enablement"
              => Backed(o.state)
<1> USE DEF Successor, RouteByPhase, Backed, Phases
<1>1. CASE node = "authentication"
  BY <1>1, OutcomesOfAuthentication DEF Outcomes
<1>2. CASE node = "intake"
  BY <1>2, OutcomesOfIntake DEF Outcomes
<1>3. CASE node = "document_collection"
  BY <1>3, OutcomesOfDocumentCollection DEF Outcomes
<1>4. CASE node = "processing"
  BY <1>4, OutcomesOfProcessing DEF Outcomes
<1>5. CASE node = "review"
  BY <1>5, OutcomesOfReview DEF Outcomes
<1>6. CASE node = "decision"
  BY <1>6, OutcomesOfDecision, DecisionsAssumption DEF Outcomes
<1>7. CASE node = "enablement"
  BY <1>7, OutcomesOfEnablement DEF Outcomes
<1> QED
  BY <1>1, <1>2, <1>3, <1>4, <1>5, <1>6, <1>7

-----------------------------------------------------------------------------
(* What no step takes back. *)

(* Requests a step leaves alone stay backed, for a decision in the row is   *)
(* never taken out of it.                                                  *)
LEMMA OthersStayBacked ==
  ASSUME NEW r, CallBacked(r), call'[r] = call[r], Kept => Kept',
         row.decision # "none" => row'.decision # "none"
  PROVE  CallBacked(r)'
BY DEF CallBacked, Backed, Kept

LEMMA IdleIsBacked ==
  ASSUME NEW r, call'[r] = Idle PROVE CallBacked(r)'
BY DEF CallBacked, Idle, EmptyState

(* One request moves from an invariant state to a typed one in which it is  *)
(* backed itself.                                                          *)
LEMMA OneRequestMoves ==
  ASSUME IInv, NEW r \in Requests, TypeOK', RowBacked', ThreadBacked', CallBacked(r)',
         \A q \in Requests \ {r} : call'[q] = call[q], Kept => Kept',
         row.decision # "none" => row'.decision # "none"
  PROVE  IInv'
<1>1. ASSUME NEW q \in Requests PROVE CallBacked(q)'
  <2>1. CASE q = r
    BY <2>1
  <2>2. CASE q # r
    BY <2>2, OthersStayBacked DEF IInv
  <2> QED
    BY <2>1, <2>2
<1> QED
  BY <1>1 DEF IInv
-----------------------------------------------------------------------------
(* The steps before and after the graph. *)

LEMMA CallFields ==
  ASSUME TypeOK, NEW r \in Requests
  PROVE  /\ call[r] \in Call
         /\ call[r].loaded \in Row /\ call[r].saved \in Snapshot
         /\ call[r].state \in ApplicantState /\ call[r].new \in SUBSET Paths
         /\ call[r].answer \in Answers /\ call[r].node \in Phases \cup {"end"}
         /\ call[r].pending \in BOOLEAN
BY DEF TypeOK, Call

(* A request that reads only: it takes a copy of the row or the snapshot. *)
LEMMA LoadsKeepIInv ==
  ASSUME IInv, NEW r \in Requests, NEW new \in SUBSET Paths,
         LoadApplication(r, new) \/ LoadState(r)
  PROVE  IInv'
<1>1. /\ call[r] \in Call /\ call \in [Requests -> Call] /\ row \in Row
      /\ snapshot \in Snapshot
      /\ counts \in [calls : 0..MaxCalls, crashes : 0..MaxCrashes,
                     expiries : 0..MaxExpiries, lost : BOOLEAN]
  BY CallFields DEF IInv, TypeOK
<1>2. UNCHANGED <<checkpoint, row, snapshot, rows, acknowledged>>
  BY DEF LoadApplication, LoadState
<1>3. /\ counts' \in [calls : 0..MaxCalls, crashes : 0..MaxCrashes,
                      expiries : 0..MaxExpiries, lost : BOOLEAN]
      /\ counts'.lost = counts.lost
  BY <1>1, BoundsAssumption DEF LoadApplication, LoadState
<1>4. PICK c \in Call :
        /\ call' = [call EXCEPT ![r] = c]
        /\ c.pc \in {"load", "start"} /\ c.state = call[r].state /\ c.node = call[r].node
        /\ c.loaded = row \/ c.loaded = call[r].loaded
  <2>1. CASE LoadApplication(r, new)
    <3> DEFINE c == [call[r] EXCEPT !.pc = "load", !.new = new, !.loaded = row]
    <3>1. c \in Call /\ call' = [call EXCEPT ![r] = c]
      BY <1>1, <2>1 DEF LoadApplication, Call
    <3> QED
      BY <1>1, <3>1 DEF Call
  <2>2. CASE LoadState(r)
    <3> DEFINE c == [call[r] EXCEPT !.pc = "start", !.saved = snapshot]
    <3>1. c \in Call /\ call' = [call EXCEPT ![r] = c]
      BY <1>1, <2>2 DEF LoadState, Call
    <3> QED
      BY <1>1, <3>1 DEF Call
  <2> QED
    BY <2>1, <2>2
<1>5. call'[r] = c /\ \A q \in Requests \ {r} : call'[q] = call[q]
  BY <1>1, <1>4
<1>6. TypeOK'
  BY <1>1, <1>2, <1>3, <1>4 DEF IInv, TypeOK
<1>7. RowBacked' /\ ThreadBacked'
  BY <1>2, <1>3 DEF IInv, RowBacked, ThreadBacked, Backed, Kept
<1>8. CallBacked(r)'
  BY <1>2, <1>3, <1>4, <1>5 DEF IInv, CallBacked, RowBacked, Backed, Kept
<1> QED
  BY <1>2, <1>3, <1>5, <1>6, <1>7, <1>8, OneRequestMoves DEF Kept

(* The three commits. *)
LEMMA CommitsKeepIInv ==
  ASSUME IInv, NEW r \in Requests,
         SaveState(r) \/ PersistDecision(r) \/ PersistDecisionFails(r)
  PROVE  IInv'
<1>1. /\ call[r] \in Call /\ call \in [Requests -> Call] /\ row \in Row
      /\ call[r].state \in ApplicantState /\ call[r].pending \in BOOLEAN
      /\ call[r].loaded \in Row
      /\ counts \in [calls : 0..MaxCalls, crashes : 0..MaxCrashes,
                     expiries : 0..MaxExpiries, lost : BOOLEAN]
  BY CallFields DEF IInv, TypeOK
<1>2. UNCHANGED <<checkpoint, rows, acknowledged>>
  BY DEF SaveState, PersistDecision, PersistDecisionFails
<1>3. CASE SaveState(r)
  <2> DEFINE c == [call[r] EXCEPT !.pc = IF call[r].state.decision = "none"
                                          THEN "phase" ELSE "decide"]
  <2>1. /\ c \in Call /\ call' = [call EXCEPT ![r] = c]
        /\ UNCHANGED <<row, counts>> /\ snapshot' \in Snapshot
    BY <1>1, <1>3 DEF SaveState, Call, Snapshot
  <2>2. call'[r] = c /\ \A q \in Requests \ {r} : call'[q] = call[q]
    BY <1>1, <2>1
  <2>3. TypeOK'
    BY <1>1, <1>2, <2>1 DEF IInv, TypeOK
  <2>4. RowBacked' /\ ThreadBacked'
    BY <1>2, <2>1 DEF IInv, RowBacked, ThreadBacked, Backed, Kept
  <2>5. /\ c.state = call[r].state /\ c.loaded = call[r].loaded
        /\ c.node = call[r].node
        /\ c.pc = IF call[r].state.decision = "none" THEN "phase" ELSE "decide"
    BY <1>1 DEF Call
  <2>6. CallBacked(r)'
    BY <2>1, <2>2, <2>5 DEF IInv, CallBacked, Backed, Kept
  <2> QED
    BY <2>1, <2>2, <2>3, <2>4, <2>6, OneRequestMoves DEF Kept
<1>4. CASE PersistDecision(r)
  <2> DEFINE c == [call[r] EXCEPT !.pc = "phase", !.loaded = row']
  <2>1. /\ row' = [row EXCEPT !.decision =
                 Written(@, call[r].loaded.decision, call[r].state.decision)]
        /\ call' = [call EXCEPT ![r] = c] /\ UNCHANGED <<snapshot, counts>>
        /\ call[r].pc = "decide"
    BY <1>4 DEF PersistDecision
  <2>2. row' \in Row /\ row'.phase = row.phase
    BY <1>1, <2>1 DEF Row, Written, ApplicantState
  <2>3. row'.decision # "none"
    BY <1>1, <2>1 DEF IInv, CallBacked, Row, Written
  <2>4. c \in Call
    BY <1>1, <2>2 DEF Call
  <2>5. call'[r] = c /\ \A q \in Requests \ {r} : call'[q] = call[q]
    BY <1>1, <2>1
  <2>6. TypeOK'
    BY <1>1, <1>2, <2>1, <2>2, <2>4 DEF IInv, TypeOK
  <2>7. Kept' /\ RowBacked' /\ ThreadBacked'
    BY <2>3 DEF RowBacked, ThreadBacked, Backed, Kept
  <2>8. CallBacked(r)'
    BY <1>1, <2>3, <2>5 DEF CallBacked, Backed, Kept, Call
  <2> QED
    BY <2>3, <2>5, <2>6, <2>7, <2>8, OneRequestMoves
<1>5. CASE PersistDecisionFails(r)
  <2> DEFINE c == [call[r] EXCEPT !.pc = "phase"]
  <2>1. /\ counts' = [counts EXCEPT !.lost = TRUE] /\ call' = [call EXCEPT ![r] = c]
        /\ UNCHANGED <<row, snapshot>>
    BY <1>5 DEF PersistDecisionFails
  <2>2. c \in Call /\ counts'.lost = TRUE
        /\ counts' \in [calls : 0..MaxCalls, crashes : 0..MaxCrashes,
                        expiries : 0..MaxExpiries, lost : BOOLEAN]
    BY <1>1, <2>1 DEF Call
  <2>3. call'[r] = c /\ \A q \in Requests \ {r} : call'[q] = call[q]
    BY <1>1, <2>1
  <2>4. TypeOK'
    BY <1>1, <1>2, <2>1, <2>2 DEF IInv, TypeOK
  <2>5. Kept' /\ RowBacked' /\ ThreadBacked'
    BY <2>2 DEF RowBacked, ThreadBacked, Backed, Kept
  <2>6. CallBacked(r)'
    BY <1>1, <2>1, <2>2, <2>3 DEF IInv, CallBacked, Backed, Kept, Call
  <2> QED
    BY <2>1, <2>3, <2>4, <2>5, <2>6, OneRequestMoves
<1> QED
  BY <1>3, <1>4, <1>5

LEMMA UpdatePhaseKeepsIInv ==
  ASSUME IInv, NEW r \in Requests, UpdatePhase(r)
  PROVE  IInv'
<1>1. /\ call \in [Requests -> Call] /\ row \in Row /\ call[r].state \in ApplicantState
      /\ call[r].new \in SUBSET Paths /\ acknowledged \in SUBSET Paths
  BY CallFields DEF IInv, TypeOK
<1>2. /\ row' = [row EXCEPT !.phase =
               Written(@, call[r].loaded.phase, call[r].state.phase)]
      /\ call' = [call EXCEPT ![r] = Idle] /\ call[r].pc = "phase"
      /\ UNCHANGED <<checkpoint, snapshot, rows, counts>>
      /\ acknowledged' = acknowledged \cup call[r].new
  BY DEF UpdatePhase
<1>3. row' \in Row /\ row'.decision = row.decision
      /\ row'.phase \in {row.phase, call[r].state.phase}
  BY <1>1, <1>2 DEF Row, Written, ApplicantState
<1>4. call'[r] = Idle /\ \A q \in Requests \ {r} : call'[q] = call[q]
  BY <1>1, <1>2
<1>5. TypeOK'
  BY <1>1, <1>2, <1>3, IdleType DEF IInv, TypeOK
<1>6. RowBacked' /\ ThreadBacked'
  BY <1>2, <1>3 DEF IInv, CallBacked, RowBacked, ThreadBacked, Backed, Kept
<1> QED
  BY <1>2, <1>3, <1>4, <1>5, <1>6, IdleIsBacked, OneRequestMoves DEF Kept
-----------------------------------------------------------------------------
(* The steps of the graph. *)

(* What the graph's steps have in common: the row and the counts' lost flag *)
(* stay, the call moves to c, and checkpoint and call are backed after it.  *)
LEMMA GraphMoves ==
  ASSUME IInv, NEW r \in Requests, NEW c \in Call, call' = [call EXCEPT ![r] = c],
         row' = row, snapshot' = snapshot, acknowledged' = acknowledged,
         rows' \in SUBSET Paths, counts'.lost = counts.lost,
         counts' \in [calls : 0..MaxCalls, crashes : 0..MaxCrashes,
                     expiries : 0..MaxExpiries, lost : BOOLEAN],
         checkpoint' \in Checkpoint,
         checkpoint'.state.phase = "enablement" \/ checkpoint'.next = "enablement"
           => Backed(checkpoint'.state),
         c.loaded \in {call[r].loaded, Idle.loaded}, c.pc \notin {"decide", "phase"},
         c.state.phase = "enablement" \/ c.node = "enablement" => Backed(c.state)
  PROVE  IInv'
<1>1. call \in [Requests -> Call]
  BY DEF IInv, TypeOK
<1>2. call'[r] = c /\ \A q \in Requests \ {r} : call'[q] = call[q]
  BY <1>1
<1>3. TypeOK'
  BY <1>1 DEF IInv, TypeOK
<1>4. RowBacked' /\ ThreadBacked'
  BY DEF IInv, RowBacked, ThreadBacked, Backed, Kept
<1>5. Idle.loaded.phase = "intake" /\ Idle.loaded.decision = "none"
  BY DEF Idle
<1>6. CallBacked(r)'
  BY <1>2, <1>5 DEF IInv, CallBacked, Backed, Kept
<1> QED
  BY <1>2, <1>3, <1>4, <1>6, OneRequestMoves DEF Kept

(* The request's graph ends, and its request with it or not. *)
LEMMA CheckpointFacts ==
  ASSUME IInv
  PROVE  /\ checkpoint \in Checkpoint /\ checkpoint.state \in ApplicantState
         /\ checkpoint.next \in Phases \cup {"start", "end"}
         /\ rows \in SUBSET Paths
         /\ counts \in [calls : 0..MaxCalls, crashes : 0..MaxCrashes,
                        expiries : 0..MaxExpiries, lost : BOOLEAN]
         /\ checkpoint.state.phase = "enablement" \/ checkpoint.next = "enablement"
              => Backed(checkpoint.state)
BY DEF IInv, TypeOK, ThreadBacked, Checkpoint

LEMMA StartGraphKeepsIInv ==
  ASSUME IInv, NEW r \in Requests, StartGraph(r)
  PROVE  IInv'
<1> DEFINE s == Input(checkpoint.state, call[r])
           c == [call[r] EXCEPT !.pc = "graph", !.saved = NoSnapshot,
                                !.state = s, !.node = RouteByPhase(s)]
<1>1. call[r] \in Call /\ checkpoint.state \in ApplicantState
  BY CallFields, CheckpointFacts DEF IInv
<1>2. s \in ApplicantState /\ s.phase = call[r].loaded.phase
  BY <1>1, InputType
<1>3. s.phase \in Phases /\ RouteByPhase(s) = s.phase
  BY <1>2 DEF ApplicantState, RouteByPhase
<1>4. /\ checkpoint' = [state |-> s, next |-> RouteByPhase(s)]
      /\ call' = [call EXCEPT ![r] = c]
      /\ UNCHANGED <<row, snapshot, rows, acknowledged, counts>>
  BY DEF StartGraph
<1>5. s.phase = "enablement" => Backed(s)
  BY <1>2 DEF IInv, CallBacked, Backed
<1> HIDE DEF s
<1>6. NoSnapshot \in Snapshot
  BY EmptyStateType DEF NoSnapshot, Snapshot
<1>7. /\ c \in Call /\ c.pc = "graph" /\ c.state = s /\ c.node = s.phase
      /\ c.loaded = call[r].loaded
  BY <1>1, <1>2, <1>3, <1>6 DEF Call
<1>8. /\ checkpoint' \in Checkpoint
      /\ checkpoint'.state = s /\ checkpoint'.next = s.phase
  BY <1>2, <1>3, <1>4 DEF Checkpoint
<1> HIDE DEF c
<1> QED
  BY <1>4, <1>5, <1>7, <1>8, CheckpointFacts, GraphMoves

LEMMA ResumeGraphKeepsIInv ==
  ASSUME IInv, NEW r \in Requests, NEW answer \in {"vague", "full"}, ResumeGraph(r, answer)
  PROVE  IInv'
<1> DEFINE s == AddFiles(checkpoint.state, call[r].new)
           begun(node) ==
             [call[r] EXCEPT !.pc = "graph", !.saved = NoSnapshot, !.state = s,
                             !.node = node, !.answer = answer]
<1>1. /\ call[r] \in Call /\ call[r].new \in SUBSET Paths
      /\ checkpoint.state \in ApplicantState
      /\ checkpoint.next \in Phases \cup {"start", "end"}
  BY CallFields, CheckpointFacts DEF IInv
<1>2. /\ s \in ApplicantState /\ s.phase = checkpoint.state.phase
      /\ s.decision = checkpoint.state.decision
  BY <1>1, FilesOnly
<1>3. s.phase \in Phases /\ RouteByPhase(s) = s.phase
  BY <1>2 DEF ApplicantState, RouteByPhase
<1>4. s.phase = "enablement" \/ checkpoint.next = "enablement" => Backed(s)
  BY <1>2, CheckpointFacts DEF Backed
<1>5. UNCHANGED <<row, snapshot, rows, acknowledged, counts>>
  BY DEF ResumeGraph
<1>6. \/ /\ checkpoint.next # "start" /\ UNCHANGED checkpoint
         /\ call' = [call EXCEPT ![r] = begun(checkpoint.next)]
      \/ /\ checkpoint' = [state |-> s, next |-> RouteByPhase(s)]
         /\ call' = [call EXCEPT ![r] = begun(RouteByPhase(s))]
      \/ /\ call' = [call EXCEPT ![r] = Idle] /\ UNCHANGED checkpoint
  BY DEF ResumeGraph
<1> HIDE DEF s
<1>7. NoSnapshot \in Snapshot
  BY EmptyStateType DEF NoSnapshot, Snapshot
<1>8. ASSUME NEW node \in Phases \cup {"end"}
      PROVE  /\ begun(node) \in Call /\ begun(node).pc = "graph"
             /\ begun(node).state = s /\ begun(node).node = node
             /\ begun(node).loaded = call[r].loaded
  BY <1>1, <1>2, <1>7 DEF Call, Answers
<1> HIDE DEF begun
<1>9. CASE /\ checkpoint.next # "start" /\ UNCHANGED checkpoint
           /\ call' = [call EXCEPT ![r] = begun(checkpoint.next)]
  <2>1. checkpoint.next \in Phases \cup {"end"}
    BY <1>1, <1>9
  <2> QED
    BY <1>4, <1>5, <1>8, <1>9, <2>1, CheckpointFacts, GraphMoves
<1>10. CASE /\ checkpoint' = [state |-> s, next |-> RouteByPhase(s)]
            /\ call' = [call EXCEPT ![r] = begun(RouteByPhase(s))]
  <2>1. /\ checkpoint' \in Checkpoint
        /\ checkpoint'.state = s /\ checkpoint'.next = s.phase
    BY <1>2, <1>3, <1>10 DEF Checkpoint
  <2>2. call' = [call EXCEPT ![r] = begun(s.phase)] /\ s.phase \in Phases \cup {"end"}
    BY <1>3, <1>10
  <2> QED
    BY <1>4, <1>5, <1>8, <2>1, <2>2, CheckpointFacts, GraphMoves
<1>11. CASE call' = [call EXCEPT ![r] = Idle] /\ UNCHANGED checkpoint
  <2>1. /\ Idle \in Call /\ Idle.pc = "idle" /\ Idle.state.phase = "authentication"
        /\ Idle.node = "end"
    BY IdleType DEF Idle, EmptyState
  <2> QED
    BY <1>5, <1>11, <2>1, CheckpointFacts, GraphMoves
<1> QED
  BY <1>6, <1>9, <1>10, <1>11

LEMMA StartStreamKeepsIInv ==
  ASSUME IInv, NEW r \in Requests, NEW new \in SUBSET Paths, StartStream(r, new)
  PROVE  IInv'
<1> DEFINE s == AddFiles(checkpoint.state, new)
           c == [call[r] EXCEPT !.pc = "graph", !.kind = "stream", !.new = new,
                                !.state = s, !.node = RouteByPhase(s)]
<1>1. call[r] \in Call /\ checkpoint.state \in ApplicantState
  BY CallFields, CheckpointFacts DEF IInv
<1>2. /\ s \in ApplicantState /\ s.phase = checkpoint.state.phase
      /\ s.decision = checkpoint.state.decision
  BY <1>1, FilesOnly
<1>3. s.phase \in Phases /\ RouteByPhase(s) = s.phase
  BY <1>2 DEF ApplicantState, RouteByPhase
<1>4. s.phase = "enablement" => Backed(s)
  BY <1>2, CheckpointFacts DEF Backed
<1>5. /\ checkpoint' = [state |-> s, next |-> RouteByPhase(s)]
      /\ call' = [call EXCEPT ![r] = c]
      /\ UNCHANGED <<row, snapshot, rows, acknowledged>>
      /\ counts' = [counts EXCEPT !.calls = @ + 1] /\ counts.calls < MaxCalls
  BY DEF StartStream
<1>6. /\ counts' \in [calls : 0..MaxCalls, crashes : 0..MaxCrashes,
                      expiries : 0..MaxExpiries, lost : BOOLEAN]
      /\ counts'.lost = counts.lost
  BY <1>5, CheckpointFacts, BoundsAssumption
<1> HIDE DEF s
<1>7. /\ c \in Call /\ c.pc = "graph" /\ c.state = s /\ c.node = s.phase
      /\ c.loaded = call[r].loaded
  BY <1>1, <1>2, <1>3 DEF Call
<1>8. /\ checkpoint' \in Checkpoint
      /\ checkpoint'.state = s /\ checkpoint'.next = s.phase
  BY <1>2, <1>3, <1>5 DEF Checkpoint
<1> HIDE DEF c
<1> QED
  BY <1>4, <1>5, <1>6, <1>7, <1>8, CheckpointFacts, GraphMoves
(* The call of a request whose graph has come to its end or an interrupt. *)
LEMMA ReturnedCall ==
  ASSUME IInv, NEW r \in Requests, NEW pending \in BOOLEAN, GraphReturned(r, pending)
  PROVE  \E c \in Call :
           /\ call' = [call EXCEPT ![r] = c]
           /\ c.loaded \in {call[r].loaded, Idle.loaded}
           /\ c.pc \notin {"decide", "phase"}
           /\ c.state.phase = "enablement" \/ c.node = "enablement" => Backed(c.state)
<1>1. call[r] \in Call
  BY CallFields DEF IInv
<1>2. CASE call[r].kind = "stream"
  <2>1. call' = [call EXCEPT ![r] = Idle]
    BY <1>2 DEF GraphReturned
  <2>2. /\ Idle.pc = "idle" /\ Idle.state.phase = "authentication"
        /\ Idle.node = "end"
    BY DEF Idle, EmptyState
  <2> QED
    BY <2>1, <2>2, IdleType
<1>3. CASE call[r].kind # "stream"
  <2> DEFINE c == [call[r] EXCEPT !.pc = "save", !.pending = pending, !.answer = "none"]
  <2>1. call' = [call EXCEPT ![r] = c]
    BY <1>3 DEF GraphReturned
  <2>2. /\ c \in Call /\ c.pc = "save" /\ c.loaded = call[r].loaded
        /\ c.state = call[r].state /\ c.node = call[r].node
    BY <1>1 DEF Call, Answers
  <2>3. c.state.phase = "enablement" \/ c.node = "enablement" => Backed(c.state)
    BY <2>2 DEF IInv, CallBacked
  <2> HIDE DEF c
  <2> QED
    BY <2>1, <2>2, <2>3
<1> QED
  BY <1>2, <1>3

LEMMA UpdateKeptFacts ==
  ASSUME IInv, NEW r \in Requests, UpdateKeptOrNot(r)
  PROVE  /\ checkpoint' \in Checkpoint
         /\ checkpoint'.state.phase = "enablement" \/ checkpoint'.next = "enablement"
              => Backed(checkpoint'.state)
<1>1. CASE UNCHANGED checkpoint
  BY <1>1, CheckpointFacts
<1>2. CASE checkpoint' = [checkpoint EXCEPT !.state = AddFiles(@, call[r].new)]
  <2> DEFINE s == AddFiles(checkpoint.state, call[r].new)
  <2>1. /\ s \in ApplicantState /\ s.phase = checkpoint.state.phase
        /\ s.decision = checkpoint.state.decision
    BY CallFields, CheckpointFacts, FilesOnly DEF IInv
  <2>2. checkpoint' = [checkpoint EXCEPT !.state = s]
    BY <1>2
  <2> HIDE DEF s
  <2>3. /\ checkpoint' \in Checkpoint /\ checkpoint'.state = s
        /\ checkpoint'.next = checkpoint.next
    BY <2>1, <2>2, CheckpointFacts DEF Checkpoint
  <2> QED
    BY <2>1, <2>3, CheckpointFacts DEF Backed
<1> QED
  BY <1>1, <1>2 DEF UpdateKeptOrNot

LEMMA StepKeepsIInv ==
  ASSUME IInv, NEW r \in Requests, Step(r)
  PROVE  IInv'
<1>1. /\ call[r] \in Call /\ call[r].state \in ApplicantState
      /\ call[r].answer \in Answers /\ call[r].node \in Phases
  BY CallFields DEF IInv, Step
<1>2. PICK o \in Outcomes(call[r].node, call[r].state, call[r].answer) :
        /\ rows' = rows \cup o.inserted
        /\ StepReturns(r, o) \/ StepInterrupts(r, o) \/ StepRaises(r, o)
  BY DEF Step
<1>3. UNCHANGED <<row, snapshot, acknowledged, counts>>
  BY DEF Step
<1>4. o.state \in ApplicantState /\ rows' \in SUBSET Paths
  BY <1>1, <1>2, NodeType, CheckpointFacts
<1>5. CASE StepReturns(r, o)
  <2> DEFINE next == Successor(call[r].node, o.state)
             c == [call[r] EXCEPT !.state = o.state, !.node = next, !.answer = "none"]
  <2>1. call[r].state.phase = "enablement" \/ call[r].node = "enablement"
          => Backed(call[r].state)
    BY DEF IInv, CallBacked
  <2>2. /\ next \in Phases \cup {"end"}
        /\ o.state.phase = "enablement" \/ next = "enablement" => Backed(o.state)
    BY <1>1, <1>5, <2>1, NodeBacked DEF StepReturns
  <2>3. /\ checkpoint' = [state |-> o.state, next |-> next]
        /\ call' = [call EXCEPT ![r] = c]
    BY <1>5 DEF StepReturns
  <2> HIDE DEF next
  <2>4. /\ checkpoint' \in Checkpoint
        /\ checkpoint'.state = o.state /\ checkpoint'.next = next
    BY <1>4, <2>2, <2>3 DEF Checkpoint
  <2>5. /\ c \in Call /\ c.pc = "graph" /\ c.state = o.state /\ c.node = next
        /\ c.loaded = call[r].loaded
    BY <1>1, <1>4, <2>2 DEF Call, Answers, Step
  <2> HIDE DEF c
  <2> QED
    BY <1>3, <1>4, <2>2, <2>3, <2>4, <2>5, CheckpointFacts, GraphMoves
<1>6. CASE StepInterrupts(r, o)
  <2>1. UNCHANGED checkpoint /\ GraphReturned(r, TRUE)
    BY <1>6 DEF StepInterrupts
  <2>2. PICK c \in Call :
           /\ call' = [call EXCEPT ![r] = c]
           /\ c.loaded \in {call[r].loaded, Idle.loaded}
           /\ c.pc \notin {"decide", "phase"}
           /\ c.state.phase = "enablement" \/ c.node = "enablement" => Backed(c.state)
    BY <2>1, ReturnedCall
  <2> QED
    BY <1>3, <1>4, <2>1, <2>2, CheckpointFacts, GraphMoves
<1>7. CASE StepRaises(r, o)
  <2>1. UpdateKeptOrNot(r) /\ call' = [call EXCEPT ![r] = Idle]
    BY <1>7 DEF StepRaises
  <2>2. /\ Idle \in Call /\ Idle.pc = "idle" /\ Idle.state.phase = "authentication"
        /\ Idle.node = "end"
    BY IdleType DEF Idle, EmptyState
  <2> QED
    BY <1>3, <1>4, <2>1, <2>2, UpdateKeptFacts, CheckpointFacts, GraphMoves
<1> QED
  BY <1>2, <1>5, <1>6, <1>7

LEMMA GraphEndsKeepsIInv ==
  ASSUME IInv, NEW r \in Requests, GraphEnds(r)
  PROVE  IInv'
<1>1. /\ GraphReturned(r, FALSE)
      /\ UNCHANGED <<checkpoint, row, snapshot, rows, acknowledged, counts>>
  BY DEF GraphEnds
<1>2. PICK c \in Call :
         /\ call' = [call EXCEPT ![r] = c]
         /\ c.loaded \in {call[r].loaded, Idle.loaded}
         /\ c.pc \notin {"decide", "phase"}
         /\ c.state.phase = "enablement" \/ c.node = "enablement" => Backed(c.state)
  BY <1>1, ReturnedCall
<1> QED
  BY <1>1, <1>2, CheckpointFacts, GraphMoves

LEMMA DisconnectKeepsIInv ==
  ASSUME IInv, NEW r \in Requests, Disconnect(r)
  PROVE  IInv'
<1>1. /\ call' = [call EXCEPT ![r] = Idle]
      /\ UNCHANGED <<checkpoint, row, snapshot, rows, acknowledged, counts>>
  BY DEF Disconnect
<1>2. /\ Idle \in Call /\ Idle.pc = "idle" /\ Idle.state.phase = "authentication"
      /\ Idle.node = "end"
  BY IdleType DEF Idle, EmptyState
<1> QED
  BY <1>1, <1>2, CheckpointFacts, GraphMoves

-----------------------------------------------------------------------------
(* The environment. *)

LEMMA EnvironmentKeepsIInv ==
  ASSUME IInv, Crash \/ Expire
  PROVE  IInv'
<1>1. CASE Crash
  <2>1. /\ call' = [q \in Requests |-> Idle]
        /\ counts' = [counts EXCEPT !.crashes = @ + 1] /\ counts.crashes < MaxCrashes
        /\ UNCHANGED <<row, snapshot, rows, acknowledged>>
    BY <1>1 DEF Crash
  <2>2. PICK r \in Requests : UpdateKeptOrNot(r)
    BY <1>1 DEF Crash
  <2>3. /\ counts' \in [calls : 0..MaxCalls, crashes : 0..MaxCrashes,
                        expiries : 0..MaxExpiries, lost : BOOLEAN]
        /\ counts'.lost = counts.lost
    BY <2>1, CheckpointFacts, BoundsAssumption
  <2>4. TypeOK'
    BY <2>1, <2>2, <2>3, UpdateKeptFacts, IdleType DEF IInv, TypeOK
  <2>5. RowBacked' /\ ThreadBacked'
    BY <2>1, <2>2, <2>3, UpdateKeptFacts DEF IInv, RowBacked, ThreadBacked, Backed, Kept
  <2>6. \A q \in Requests : CallBacked(q)'
    BY <2>1, IdleIsBacked
  <2> QED
    BY <2>4, <2>5, <2>6 DEF IInv
<1>2. CASE Expire
  <2>1. /\ checkpoint' = [state |-> EmptyState, next |-> "start"]
        /\ counts' = [counts EXCEPT !.expiries = @ + 1] /\ counts.expiries < MaxExpiries
        /\ UNCHANGED <<row, snapshot, rows, call, acknowledged>>
    BY <1>2 DEF Expire
  <2>2. /\ counts' \in [calls : 0..MaxCalls, crashes : 0..MaxCrashes,
                        expiries : 0..MaxExpiries, lost : BOOLEAN]
        /\ counts'.lost = counts.lost
    BY <2>1, CheckpointFacts, BoundsAssumption
  <2>3. TypeOK'
    BY <2>1, <2>2, EmptyStateType DEF IInv, TypeOK, Checkpoint
  <2>4. RowBacked' /\ ThreadBacked'
    BY <2>1, <2>2 DEF IInv, RowBacked, ThreadBacked, Backed, Kept, EmptyState
  <2>5. \A q \in Requests : CallBacked(q)'
    BY <2>1, <2>2, OthersStayBacked DEF IInv, Kept
  <2> QED
    BY <2>3, <2>4, <2>5 DEF IInv
<1> QED
  BY <1>1, <1>2

LEMMA StepIInv == IInv /\ [Next]_vars => IInv'
<1> SUFFICES ASSUME IInv, [Next]_vars PROVE IInv'
  OBVIOUS
<1>1. CASE UNCHANGED vars
  BY <1>1 DEF vars, IInv, TypeOK, RowBacked, ThreadBacked, CallBacked, Backed, Kept
<1>2. ASSUME NEW r \in Requests, NEW new \in SUBSET Paths,
             LoadApplication(r, new) \/ StartStream(r, new)
      PROVE  IInv'
  BY <1>2, LoadsKeepIInv, StartStreamKeepsIInv
<1>3. ASSUME NEW r \in Requests, NEW answer \in {"vague", "full"}, ResumeGraph(r, answer)
      PROVE  IInv'
  BY <1>3, ResumeGraphKeepsIInv
<1>4. ASSUME NEW r \in Requests,
             \/ LoadState(r) \/ StartGraph(r)
             \/ Step(r) \/ GraphEnds(r)
             \/ SaveState(r) \/ PersistDecision(r) \/ PersistDecisionFails(r)
             \/ UpdatePhase(r) \/ Disconnect(r)
      PROVE  IInv'
  <2>1. CASE LoadState(r)
    BY <2>1, LoadsKeepIInv, {} \in SUBSET Paths
  <2> QED
    BY <1>4, <2>1, StartGraphKeepsIInv, StepKeepsIInv, GraphEndsKeepsIInv,
       CommitsKeepIInv, UpdatePhaseKeepsIInv, DisconnectKeepsIInv
<1> QED
  BY <1>1, <1>2, <1>3, <1>4, EnvironmentKeepsIInv DEF Next

LEMMA InvariantIInv == Spec => []IInv
BY InitIInv, StepIInv, PTL DEF Spec

-----------------------------------------------------------------------------
(* The theorems about requests that interleave. *)

(* Every copy of the application's data -- checkpoint, snapshot, row and    *)
(* what each request holds -- stays well-typed, for any number of requests *)
(* of agent_runner.run and run_streaming interleaved with crashes and      *)
(* cleanups.                                                               *)
THEOREM TypeCorrectness == Spec => []TypeOK
<1>1. IInv => TypeOK
  BY DEF IInv
<1> QED
  BY <1>1, InvariantIInv, PTL

(* However many requests overlap, a row that shows enablement has its       *)
(* decision, unless the write of a decision failed: chat_service commits   *)
(* the decision before the phase, and no request takes one back.           *)
THEOREM DecisionComesFirst == Spec => []EnablementHasDecision
<1>1. IInv => EnablementHasDecision
  BY DEF IInv, RowBacked, Kept, EnablementHasDecision
<1> QED
  BY <1>1, InvariantIInv, PTL
-----------------------------------------------------------------------------
(* Requests one at a time, on a thread whose checkpoints are not deleted.   *)
(* The other properties hold of these only; streams, crashes and failed    *)
(* writes may still come in between.                                       *)

OneAtATime == MaxExpiries = 0 /\ \A q, r \in Requests : q = r

(* The phases before the documents: none is required yet, and only there   *)
(* the category may still change.                                          *)
Early == {"authentication", "intake"}

SameButFiles(s, t) == s = [t EXCEPT !.files = s.files]

(* The thread stands where its phase says, and has earned to stand there. *)
ThreadInv ==
  /\ At(checkpoint.next, checkpoint.state)
  /\ Earned(checkpoint.next, checkpoint.state)
  /\ checkpoint.next = "start" => checkpoint.state.phase = "authentication"

(* The row is never ahead of the thread, and the snapshot never holds a     *)
(* discrepancy or a decision the thread has not: a fresh input made of the *)
(* three has earned the row's phase.                                       *)
RecordsInv ==
  /\ ~snapshot.taken => snapshot = NoSnapshot
  /\ Earned(row.phase, checkpoint.state)
  /\ row.phase \notin Early =>
       /\ snapshot.taken
       /\ checkpoint.next \notin Early \cup {"start"}
       /\ snapshot.state.category = checkpoint.state.category
  /\ row.phase \in Deciding => checkpoint.next \in Deciding
  /\ row.phase \in Decided => checkpoint.next \in Decided /\ snapshot.state.decision # "none"
  /\ Unresolved(snapshot.state) => Unresolved(checkpoint.state)
  /\ snapshot.state.decision # "none" => checkpoint.state.decision # "none"
  /\ row.decision # "none" => snapshot.state.decision # "none"
  /\ row.phase = "enablement" \/ acknowledged \subseteq Listed(checkpoint.state.files)

(* What the request in progress has read is still so, and its graph and the *)
(* thread have the same state, but for the files of an answer that no node *)
(* has taken yet.                                                          *)
CallInv(r) ==
  LET c == call[r]
  IN  /\ c.kind = "stream" => c.pc = "graph"
      /\ c.kind = "chat" /\ c.pc # "idle" => c.loaded = row
      /\ c.pc = "start" => c.saved = snapshot
      /\ c.pc \in {"graph", "save", "decide", "phase"} => checkpoint.next # "start"
      /\ c.pc = "graph" =>
           /\ c.node = checkpoint.next
           /\ c.new \subseteq Listed(c.state.files)
           /\ \/ c.state = checkpoint.state
              \/ c.answer # "none" /\ c.state = AddFiles(checkpoint.state, c.new)
      /\ c.pc \in {"save", "decide", "phase"} =>
           /\ SameButFiles(c.state, checkpoint.state)
           /\ c.new \subseteq Listed(checkpoint.state.files) \/ checkpoint.next = "end"
      /\ c.pc \in {"decide", "phase"} => snapshot.taken /\ snapshot.state = c.state
      /\ c.pc = "phase" => row.decision = c.state.decision \/ counts.lost

SequentialInv == ThreadInv /\ RecordsInv /\ \A r \in Requests : CallInv(r)

(* It is enough to look at the request that moves. *)
LEMMA TheOneRequest ==
  ASSUME OneAtATime, NEW r \in Requests, ThreadInv', RecordsInv', CallInv(r)'
  PROVE  SequentialInv'
<1>1. ASSUME NEW q \in Requests PROVE CallInv(q)'
  <2>1. q = r
    BY DEF OneAtATime
  <2> QED
    BY <2>1
<1> QED
  BY <1>1 DEF SequentialInv

LEMMA IdleCallInv == ASSUME NEW r, call'[r] = Idle PROVE CallInv(r)'
BY DEF CallInv, Idle

-----------------------------------------------------------------------------
(* States that differ in their files, and the phases of a state. *)

LEMMA SameFields ==
  ASSUME NEW s \in ApplicantState, NEW t \in ApplicantState, SameButFiles(s, t)
  PROVE  /\ s.phase = t.phase /\ s.docs = t.docs /\ s.category = t.category
         /\ s.discrepancies = t.discrepancies /\ s.decision = t.decision
         /\ \A node : /\ At(node, s) <=> At(node, t)
                      /\ Earned(node, s) <=> Earned(node, t)
<1>1. /\ s.phase = t.phase /\ s.docs = t.docs /\ s.category = t.category
      /\ s.discrepancies = t.discrepancies /\ s.decision = t.decision
  BY DEF SameButFiles, ApplicantState
<1> QED
  BY <1>1 DEF At, Earned, Complete, RequiredFor, Unresolved

LEMMA AddedFilesOnly ==
  ASSUME NEW s \in ApplicantState, NEW new \in SUBSET Paths
  PROVE  /\ AddFiles(s, new) \in ApplicantState
         /\ SameButFiles(AddFiles(s, new), s)
         /\ Listed(s.files) \subseteq Listed(AddFiles(s, new).files)
         /\ new \subseteq Listed(AddFiles(s, new).files)
BY AddedFiles DEF SameButFiles

(* A state that stands earned at a node has also earned its own phase, and  *)
(* that is as far as the node.                                             *)
LEMMA PhaseOfNode ==
  ASSUME NEW s \in ApplicantState, NEW node \in Phases \cup {"start", "end"},
         At(node, s), Earned(node, s), node = "start" => s.phase = "authentication"
  PROVE  /\ s.phase \in Phases /\ At(s.phase, s) /\ Earned(s.phase, s)
         /\ s.phase \in Early <=> node \in Early \cup {"start"}
         /\ s.phase \in Deciding <=> node \in Deciding
         /\ s.phase \in Decided <=> node \in Decided
<1>1. s.phase \in Phases
  BY DEF ApplicantState
<1> QED
  BY <1>1 DEF At, Earned, Early, Collecting, Deciding, Decided, Phases

(* The thread moves and the records stay: when they still fit it. *)
LEMMA RecordsFit ==
  ASSUME RecordsInv, UNCHANGED <<row, snapshot, acknowledged>>,
         Earned(row.phase, checkpoint'.state),
         row.phase \notin Early =>
           /\ checkpoint'.next \notin Early \cup {"start"}
           /\ checkpoint'.state.category = snapshot.state.category,
         row.phase \in Deciding => checkpoint'.next \in Deciding,
         row.phase \in Decided => checkpoint'.next \in Decided,
         Unresolved(snapshot.state) => Unresolved(checkpoint'.state),
         snapshot.state.decision # "none" => checkpoint'.state.decision # "none",
         Listed(checkpoint.state.files) \subseteq Listed(checkpoint'.state.files)
  PROVE  RecordsInv'
BY DEF RecordsInv

(* The thread gets more files, and nothing else. *)
LEMMA MoreFilesFit ==
  ASSUME TypeOK, SequentialInv, UNCHANGED <<row, snapshot, acknowledged>>,
         NEW r \in Requests, UpdateKeptOrNot(r)
  PROVE  ThreadInv' /\ RecordsInv'
<1>1. checkpoint.state \in ApplicantState /\ call[r].new \in SUBSET Paths
  BY CallFields DEF TypeOK, Checkpoint
<1>2. CASE UNCHANGED checkpoint
  BY <1>2 DEF SequentialInv, ThreadInv, RecordsInv
<1>3. CASE checkpoint' = [checkpoint EXCEPT !.state = AddFiles(@, call[r].new)]
  <2> DEFINE s == AddFiles(checkpoint.state, call[r].new)
  <2>1. /\ s \in ApplicantState /\ SameButFiles(s, checkpoint.state)
        /\ Listed(checkpoint.state.files) \subseteq Listed(s.files)
    BY <1>1, AddedFilesOnly
  <2>2. checkpoint'.state = s /\ checkpoint'.next = checkpoint.next
    BY <1>3 DEF TypeOK, Checkpoint
  <2> HIDE DEF s
  <2>3. /\ s.phase = checkpoint.state.phase /\ s.category = checkpoint.state.category
        /\ s.discrepancies = checkpoint.state.discrepancies
        /\ s.decision = checkpoint.state.decision
        /\ \A node : /\ At(node, s) <=> At(node, checkpoint.state)
                     /\ Earned(node, s) <=> Earned(node, checkpoint.state)
    BY <1>1, <2>1, SameFields
  <2>4. ThreadInv'
    BY <2>2, <2>3 DEF SequentialInv, ThreadInv
  <2>5. RecordsInv'
    BY <2>1, <2>2, <2>3, RecordsFit DEF SequentialInv, RecordsInv, Unresolved
  <2> QED
    BY <2>4, <2>5
<1> QED
  BY <1>2, <1>3 DEF UpdateKeptOrNot

LEMMA InitSequentialInv == Init => SequentialInv
<1> SUFFICES ASSUME Init PROVE SequentialInv
  OBVIOUS
<1>1. ThreadInv
  BY DEF Init, ThreadInv, EmptyState, At, Earned, Collecting, Deciding, Decided, Phases
<1>2. RecordsInv
  BY DEF Init, RecordsInv, NoSnapshot, EmptyState, Earned, Early, Collecting, Deciding,
         Decided, Unresolved
<1>3. \A r \in Requests : CallInv(r)
  BY DEF Init, CallInv, Idle
<1> QED
  BY <1>1, <1>2, <1>3 DEF SequentialInv

-----------------------------------------------------------------------------
(* The steps before the graph. *)

(* A request reads the row, then the snapshot. *)
LEMMA LoadsKeepSequentialInv ==
  ASSUME OneAtATime, TypeOK, SequentialInv, NEW r \in Requests, NEW new \in SUBSET Paths,
         LoadApplication(r, new) \/ LoadState(r)
  PROVE  SequentialInv'
<1>1. /\ call[r] \in Call /\ call \in [Requests -> Call] /\ CallInv(r)
      /\ UNCHANGED <<checkpoint, row, snapshot, acknowledged>>
  BY CallFields DEF TypeOK, SequentialInv, LoadApplication, LoadState
<1>2. ThreadInv' /\ RecordsInv'
  BY <1>1 DEF SequentialInv, ThreadInv, RecordsInv
<1>3. CASE LoadApplication(r, new)
  <2>1. /\ call'[r] = [call[r] EXCEPT !.pc = "load", !.new = new, !.loaded = row]
        /\ call[r].kind = "chat"
    BY <1>1, <1>3 DEF LoadApplication, CallInv, Call
  <2>2. /\ call'[r].pc = "load" /\ call'[r].loaded = row /\ call'[r].kind = "chat"
    BY <1>1, <2>1 DEF Call
  <2>3. CallInv(r)'
    BY <1>1, <2>2 DEF CallInv
  <2> QED
    BY <1>2, <2>3, TheOneRequest
<1>4. CASE LoadState(r)
  <2>1. /\ call'[r] = [call[r] EXCEPT !.pc = "start", !.saved = snapshot]
        /\ call[r].kind = "chat" /\ call[r].loaded = row
    BY <1>1, <1>4 DEF LoadState, CallInv, Call
  <2>2. /\ call'[r].pc = "start" /\ call'[r].loaded = row /\ call'[r].kind = "chat"
        /\ call'[r].saved = snapshot
    BY <1>1, <2>1 DEF Call
  <2>3. CallInv(r)'
    BY <1>1, <2>2 DEF CallInv
  <2> QED
    BY <1>2, <2>3, TheOneRequest
<1> QED
  BY <1>3, <1>4

(* A fresh input holds what the thread has, and the snapshot on top of it. *)
LEMMA InputHolds ==
  ASSUME NEW s \in ApplicantState, NEW c \in Call
  PROVE  LET t == Input(s, c)  old == c.saved.state
         IN  /\ Listed(s.docs) \subseteq Listed(t.docs)
             /\ Listed(s.files) \cup c.new \subseteq Listed(t.files)
             /\ c.saved.taken => /\ t.category = old.category
                                 /\ t.decision = old.decision
                                 /\ t.discrepancies = s.discrepancies \cup old.discrepancies
             /\ ~c.saved.taken => /\ t.category = s.category
                                  /\ t.decision = s.decision
                                  /\ t.discrepancies = s.discrepancies
<1> DEFINE old == c.saved.state
           merged == [old EXCEPT !.files = s.files,
                        !.docs = AddEntries(s.docs, old.docs),
                        !.discrepancies = s.discrepancies \cup old.discrepancies]
           base == IF c.saved.taken THEN merged ELSE s
           added == AddFiles(base, c.new)
<1>1. old \in ApplicantState /\ c.new \in SUBSET Paths /\ c.loaded.phase \in Phases
  BY DEF Call, Snapshot, Row
<1>2. old.docs \in [Paths -> Nat] /\ s.docs \in [Paths -> 0..MaxFiles]
  BY <1>1, MaxFilesAssumption DEF ApplicantState
<1>3. /\ AddEntries(s.docs, old.docs) \in [Paths -> 0..MaxFiles]
      /\ Listed(s.docs) \subseteq Listed(AddEntries(s.docs, old.docs))
  BY <1>2, AddedEntries
<1>4. merged \in ApplicantState
  BY <1>1, <1>3 DEF ApplicantState
<1>5. /\ base \in ApplicantState /\ base.files = s.files
      /\ Listed(s.docs) \subseteq Listed(base.docs)
      /\ c.saved.taken => /\ base.category = old.category
                          /\ base.decision = old.decision
                          /\ base.discrepancies = s.discrepancies \cup old.discrepancies
      /\ ~c.saved.taken => base = s
  BY <1>1, <1>3, <1>4 DEF ApplicantState
<1> HIDE DEF base
<1>6. /\ added \in ApplicantState /\ SameButFiles(added, base)
      /\ Listed(base.files) \subseteq Listed(added.files)
      /\ c.new \subseteq Listed(added.files)
  BY <1>1, <1>5, AddedFilesOnly
<1> HIDE DEF added
<1>7. /\ added.docs = base.docs /\ added.category = base.category
      /\ added.discrepancies = base.discrepancies /\ added.decision = base.decision
  BY <1>5, <1>6, SameFields
<1>8. Input(s, c) = [added EXCEPT !.phase = c.loaded.phase]
  BY DEF Input, added, base
<1>9. /\ Input(s, c).docs = added.docs /\ Input(s, c).files = added.files
      /\ Input(s, c).category = added.category
      /\ Input(s, c).discrepancies = added.discrepancies
      /\ Input(s, c).decision = added.decision
  BY <1>6, <1>8 DEF ApplicantState
<1> HIDE DEF old
<1>10. CASE c.saved.taken
  BY <1>5, <1>6, <1>7, <1>9, <1>10 DEF old
<1>11. CASE ~c.saved.taken
  BY <1>5, <1>6, <1>7, <1>9, <1>11
<1> QED
  BY <1>10, <1>11

LEMMA StartGraphKeepsSequentialInv ==
  ASSUME OneAtATime, TypeOK, SequentialInv, NEW r \in Requests, StartGraph(r)
  PROVE  SequentialInv'
<1> DEFINE s == Input(checkpoint.state, call[r])
<1>1. /\ call[r] \in Call /\ call \in [Requests -> Call] /\ CallInv(r)
      /\ checkpoint.state \in ApplicantState /\ row.phase \in Phases
      /\ snapshot \in Snapshot /\ ThreadInv /\ RecordsInv
      /\ UNCHANGED <<row, snapshot, acknowledged>>
  BY CallFields DEF TypeOK, SequentialInv, Checkpoint, Row, StartGraph
<1>2. call[r].pc = "start" /\ call[r].kind = "chat" /\ call[r].loaded = row
      /\ call[r].saved = snapshot
  BY <1>1 DEF StartGraph, CallInv, Call
<1>3. s \in ApplicantState /\ s.phase = row.phase /\ RouteByPhase(s) = row.phase
  BY <1>1, <1>2, InputType DEF RouteByPhase
<1>4. /\ checkpoint' = [state |-> s, next |-> row.phase]
      /\ call' = [call EXCEPT ![r].pc = "graph", ![r].saved = NoSnapshot,
                              ![r].state = s, ![r].node = row.phase]
  BY <1>3 DEF StartGraph
<1>5. /\ Listed(checkpoint.state.docs) \subseteq Listed(s.docs)
      /\ Listed(checkpoint.state.files) \cup call[r].new \subseteq Listed(s.files)
      /\ snapshot.taken =>
           /\ s.category = snapshot.state.category
           /\ s.decision = snapshot.state.decision
           /\ s.discrepancies = checkpoint.state.discrepancies \cup snapshot.state.discrepancies
      /\ ~snapshot.taken =>
           /\ s.category = checkpoint.state.category
           /\ s.decision = checkpoint.state.decision
           /\ s.discrepancies = checkpoint.state.discrepancies
  BY <1>1, <1>2, InputHolds
<1> HIDE DEF s
<1>6. checkpoint'.state = s /\ checkpoint'.next = row.phase
  BY <1>4
<1>7. /\ call'[r].pc = "graph" /\ call'[r].kind = "chat" /\ call'[r].loaded = row
      /\ call'[r].state = s /\ call'[r].node = row.phase /\ call'[r].new = call[r].new
  BY <1>1, <1>2, <1>4 DEF Call
<1>8. NoSnapshot.state.decision = "none" /\ ~Unresolved(NoSnapshot.state)
  BY DEF NoSnapshot, EmptyState, Unresolved
<1>9. Unresolved(s) <=> Unresolved(checkpoint.state)
  BY <1>1, <1>5, <1>8 DEF RecordsInv, Unresolved
<1>10. Earned(row.phase, s)
  <2>1. CASE row.phase \in Early
    BY <2>1 DEF Earned, Early, Collecting, Deciding, Decided
  <2>2. CASE row.phase \notin Early
    <3>1. /\ snapshot.taken /\ s.category = checkpoint.state.category
          /\ row.phase \in Decided => s.decision # "none"
      BY <1>1, <1>5, <2>2 DEF RecordsInv
    <3>2. Complete(checkpoint.state) => Complete(s)
      BY <1>5, <3>1, CompleteIsMonotone
    <3> QED
      BY <1>1, <1>9, <3>1, <3>2 DEF RecordsInv, Earned
  <2> QED
    BY <2>1, <2>2
<1>11. ThreadInv'
  BY <1>1, <1>3, <1>6, <1>10 DEF ThreadInv, At, Phases
<1>12. snapshot.state.decision # "none" => s.decision # "none"
  BY <1>1, <1>5, <1>8 DEF RecordsInv
<1>13. row.phase \notin Early => /\ row.phase \notin Early \cup {"start"}
                                 /\ s.category = snapshot.state.category
  BY <1>1, <1>5 DEF RecordsInv, Phases
<1>14. RecordsInv'
  BY <1>1, <1>5, <1>6, <1>9, <1>10, <1>12, <1>13, RecordsFit DEF RecordsInv
<1>15. CallInv(r)'
  BY <1>1, <1>5, <1>6, <1>7 DEF CallInv, Phases
<1> QED
  BY <1>11, <1>14, <1>15, TheOneRequest

LEMMA ResumeGraphKeepsSequentialInv ==
  ASSUME OneAtATime, TypeOK, SequentialInv, NEW r \in Requests,
         NEW answer \in {"vague", "full"}, ResumeGraph(r, answer)
  PROVE  SequentialInv'
<1> DEFINE s == AddFiles(checkpoint.state, call[r].new)
           begun(node) ==
             [call[r] EXCEPT !.pc = "graph", !.saved = NoSnapshot, !.state = s,
                             !.node = node, !.answer = answer]
<1>1. /\ call[r] \in Call /\ call \in [Requests -> Call] /\ CallInv(r)
      /\ checkpoint.state \in ApplicantState /\ call[r].new \in SUBSET Paths
      /\ ThreadInv /\ RecordsInv /\ UNCHANGED <<row, snapshot, acknowledged>>
  BY CallFields DEF TypeOK, SequentialInv, Checkpoint, ResumeGraph
<1>2. call[r].pc = "start" /\ call[r].kind = "chat" /\ call[r].loaded = row
  BY <1>1 DEF ResumeGraph, CallInv, Call
<1>3. /\ s \in ApplicantState /\ SameButFiles(s, checkpoint.state)
      /\ Listed(checkpoint.state.files) \subseteq Listed(s.files)
      /\ call[r].new \subseteq Listed(s.files)
  BY <1>1, AddedFilesOnly
<1>4. /\ s.phase = checkpoint.state.phase
      /\ s.discrepancies = checkpoint.state.discrepancies
      /\ s.decision = checkpoint.state.decision
  BY <1>1, <1>3, SameFields
<1>5. \/ /\ checkpoint.next # "start" /\ UNCHANGED checkpoint
         /\ call' = [call EXCEPT ![r] = begun(checkpoint.next)]
      \/ /\ checkpoint.next = "start"
         /\ checkpoint' = [state |-> s, next |-> s.phase]
         /\ call' = [call EXCEPT ![r] = begun(s.phase)]
      \/ /\ call' = [call EXCEPT ![r] = Idle] /\ UNCHANGED checkpoint
  BY DEF ResumeGraph, RouteByPhase
<1>6. ASSUME NEW node
      PROVE  /\ begun(node).pc = "graph" /\ begun(node).kind = "chat"
             /\ begun(node).loaded = row /\ begun(node).new = call[r].new
             /\ begun(node).state = s /\ begun(node).node = node
             /\ begun(node).answer # "none"
  BY <1>1, <1>2 DEF Call
<1> HIDE DEF begun
<1>7. CASE /\ checkpoint.next # "start" /\ UNCHANGED checkpoint
           /\ call' = [call EXCEPT ![r] = begun(checkpoint.next)]
  <2>1. call'[r] = begun(checkpoint.next)
    BY <1>1, <1>7
  <2>2. CallInv(r)'
    BY <1>1, <1>3, <1>6, <1>7, <2>1 DEF CallInv
  <2>3. ThreadInv' /\ RecordsInv'
    BY <1>1, <1>7 DEF ThreadInv, RecordsInv
  <2> QED
    BY <2>2, <2>3, TheOneRequest
<1> HIDE DEF s
<1>8. CASE /\ checkpoint.next = "start"
           /\ checkpoint' = [state |-> s, next |-> s.phase]
           /\ call' = [call EXCEPT ![r] = begun(s.phase)]
  <2>1. call'[r] = begun(s.phase)
    BY <1>1, <1>8
  <2>2. checkpoint'.state = s /\ checkpoint'.next = "authentication"
        /\ s.phase = "authentication"
    BY <1>1, <1>4, <1>8 DEF ThreadInv
  <2>3. CallInv(r)'
    BY <1>1, <1>3, <1>6, <2>1, <2>2 DEF CallInv
  <2>4. ThreadInv'
    BY <2>2 DEF ThreadInv, At, Earned, Phases, Collecting, Deciding, Decided
  <2>5. row.phase \in Early
    BY <1>1, <1>8 DEF RecordsInv
  <2>6. RecordsInv'
    BY <1>1, <1>3, <1>4, <2>2, <2>5, RecordsFit
       DEF RecordsInv, Earned, Early, Collecting, Deciding, Decided, Unresolved
  <2> QED
    BY <2>3, <2>4, <2>6, TheOneRequest
<1>9. CASE call' = [call EXCEPT ![r] = Idle] /\ UNCHANGED checkpoint
  <2>1. CallInv(r)'
    BY <1>1, <1>9, IdleCallInv
  <2>2. ThreadInv' /\ RecordsInv'
    BY <1>1, <1>9 DEF ThreadInv, RecordsInv
  <2> QED
    BY <2>1, <2>2, TheOneRequest
<1> QED
  BY <1>5, <1>7, <1>8, <1>9

LEMMA StartStreamKeepsSequentialInv ==
  ASSUME OneAtATime, TypeOK, SequentialInv, NEW r \in Requests, NEW new \in SUBSET Paths,
         StartStream(r, new)
  PROVE  SequentialInv'
<1> DEFINE s == AddFiles(checkpoint.state, new)
<1>1. /\ call[r] \in Call /\ call \in [Requests -> Call]
      /\ checkpoint.state \in ApplicantState
      /\ checkpoint.next \in Phases \cup {"start", "end"}
      /\ ThreadInv /\ RecordsInv /\ UNCHANGED <<row, snapshot, acknowledged>>
  BY CallFields DEF TypeOK, SequentialInv, Checkpoint, StartStream
<1>2. /\ s \in ApplicantState /\ SameButFiles(s, checkpoint.state)
      /\ Listed(checkpoint.state.files) \subseteq Listed(s.files)
      /\ new \subseteq Listed(s.files)
  BY <1>1, AddedFilesOnly
<1>3. /\ checkpoint' = [state |-> s, next |-> s.phase]
      /\ call' = [call EXCEPT ![r].pc = "graph", ![r].kind = "stream",
                    ![r].new = new, ![r].state = s, ![r].node = s.phase]
  BY DEF StartStream, RouteByPhase
<1> HIDE DEF s
<1>4. /\ s.phase = checkpoint.state.phase /\ s.category = checkpoint.state.category
      /\ s.discrepancies = checkpoint.state.discrepancies
      /\ s.decision = checkpoint.state.decision
      /\ \A node : /\ At(node, s) <=> At(node, checkpoint.state)
                   /\ Earned(node, s) <=> Earned(node, checkpoint.state)
  BY <1>1, <1>2, SameFields
<1>5. /\ s.phase \in Phases /\ At(s.phase, s) /\ Earned(s.phase, s)
      /\ s.phase \in Early <=> checkpoint.next \in Early \cup {"start"}
      /\ s.phase \in Deciding <=> checkpoint.next \in Deciding
      /\ s.phase \in Decided <=> checkpoint.next \in Decided
  BY <1>1, <1>2, <1>4, PhaseOfNode DEF ThreadInv
<1>6. s.phase # "start"
  BY <1>5 DEF Phases
<1>7. checkpoint'.state = s /\ checkpoint'.next = s.phase
  BY <1>3
<1>8. /\ call'[r].pc = "graph" /\ call'[r].kind = "stream"
      /\ call'[r].state = s /\ call'[r].node = s.phase /\ call'[r].new = new
  BY <1>1, <1>3 DEF Call
<1>9. ThreadInv'
  BY <1>5, <1>6, <1>7 DEF ThreadInv
<1>10. RecordsInv'
  BY <1>1, <1>2, <1>4, <1>5, <1>6, <1>7, RecordsFit DEF RecordsInv, Unresolved
<1>11. CallInv(r)'
  BY <1>2, <1>6, <1>7, <1>8 DEF CallInv
<1> QED
  BY <1>9, <1>10, <1>11, TheOneRequest

-----------------------------------------------------------------------------
(* The steps of the graph. *)

(* The graph is at the thread's node, in a state that differs from the      *)
(* thread's by the files it has more.                                      *)
LEMMA RunningGraph ==
  ASSUME TypeOK, SequentialInv, NEW r \in Requests, call[r].pc = "graph"
  PROVE  /\ call[r].node = checkpoint.next
         /\ call[r].new \subseteq Listed(call[r].state.files)
         /\ SameButFiles(call[r].state, checkpoint.state)
         /\ Listed(checkpoint.state.files) \subseteq Listed(call[r].state.files)
         /\ At(call[r].node, call[r].state) /\ Earned(call[r].node, call[r].state)
<1>1. /\ checkpoint.state \in ApplicantState /\ call[r].state \in ApplicantState
      /\ call[r].new \in SUBSET Paths /\ CallInv(r) /\ ThreadInv
  BY CallFields DEF TypeOK, SequentialInv, Checkpoint
<1>2. /\ call[r].node = checkpoint.next
      /\ call[r].new \subseteq Listed(call[r].state.files)
      /\ \/ call[r].state = checkpoint.state
         \/ call[r].state = AddFiles(checkpoint.state, call[r].new)
  BY <1>1 DEF CallInv
<1>3. /\ SameButFiles(call[r].state, checkpoint.state)
      /\ Listed(checkpoint.state.files) \subseteq Listed(call[r].state.files)
  <2>1. CASE call[r].state = checkpoint.state
    BY <1>1, <2>1 DEF SameButFiles, ApplicantState
  <2>2. CASE call[r].state = AddFiles(checkpoint.state, call[r].new)
    BY <1>1, <2>2, AddedFilesOnly
  <2> QED
    BY <1>2, <2>1, <2>2
<1>4. \A node : /\ At(node, call[r].state) <=> At(node, checkpoint.state)
                /\ Earned(node, call[r].state) <=> Earned(node, checkpoint.state)
  BY <1>1, <1>3, SameFields
<1> QED
  BY <1>1, <1>2, <1>3, <1>4 DEF ThreadInv

LEMMA StepReturnsKeepsSequentialInv ==
  ASSUME OneAtATime, TypeOK, SequentialInv, NEW r \in Requests, call[r].pc = "graph",
         call[r].node # "end", UNCHANGED <<row, snapshot, acknowledged>>,
         NEW o \in Outcomes(call[r].node, call[r].state, call[r].answer), StepReturns(r, o)
  PROVE  SequentialInv'
<1> DEFINE c == call[r]
           t == checkpoint.state
           next == Successor(c.node, o.state)
<1>1. /\ c \in Call /\ call \in [Requests -> Call] /\ c.state \in ApplicantState
      /\ c.answer \in Answers /\ c.node \in Phases /\ t \in ApplicantState
      /\ CallInv(r) /\ RecordsInv
  BY CallFields DEF TypeOK, SequentialInv, Checkpoint
<1>2. /\ c.node = checkpoint.next /\ c.new \subseteq Listed(c.state.files)
      /\ SameButFiles(c.state, t) /\ Listed(t.files) \subseteq Listed(c.state.files)
      /\ At(c.node, c.state) /\ Earned(c.node, c.state)
  BY RunningGraph
<1>3. /\ c.state.docs = t.docs /\ c.state.category = t.category
      /\ c.state.discrepancies = t.discrepancies /\ c.state.decision = t.decision
  BY <1>1, <1>2, SameFields
<1>4. /\ checkpoint' = [state |-> o.state, next |-> next]
      /\ call' = [call EXCEPT ![r].state = o.state, ![r].node = next, ![r].answer = "none"]
      /\ o.end = "return"
  BY DEF StepReturns
<1>5. /\ next \in Phases \cup {"end"} /\ At(next, o.state) /\ Earned(next, o.state)
      /\ c.node \notin {"authentication", "intake"} =>
           /\ next \notin {"authentication", "intake"}
           /\ o.state.category = c.state.category
           /\ Listed(c.state.docs) \subseteq Listed(o.state.docs)
  BY <1>1, <1>2, <1>4, NodeReturns
<1>6. /\ o.state.files = c.state.files
      /\ Unresolved(c.state) => Unresolved(o.state)
      /\ c.node \in {"decision", "enablement"} /\ Unresolved(o.state) => Unresolved(c.state)
      /\ c.state.decision # "none" => o.state.decision # "none"
  BY <1>1, NodeKeeps
<1>7. /\ c.node \in Deciding => next \in Deciding
      /\ c.node \in Decided => next \in Decided
  BY <1>1 DEF Successor, Deciding, Decided, Phases
<1>8. next # "start"
  BY <1>5 DEF Phases
<1> HIDE DEF next
<1>9. checkpoint'.state = o.state /\ checkpoint'.next = next
  BY <1>4
<1>10. /\ call'[r].pc = "graph" /\ call'[r].kind = c.kind /\ call'[r].loaded = c.loaded
       /\ call'[r].state = o.state /\ call'[r].node = next /\ call'[r].new = c.new
  BY <1>1, <1>4 DEF Call
<1> HIDE DEF c, t
<1>11. ThreadInv'
  BY <1>5, <1>8, <1>9 DEF ThreadInv
<1>12. Earned(row.phase, o.state)
  <2>1. CASE row.phase \in Early
    BY <2>1 DEF Earned, Early, Collecting, Deciding, Decided
  <2>2. CASE row.phase \notin Early
    <3>1. c.node \notin {"authentication", "intake"} /\ Earned(row.phase, t)
      BY <1>1, <1>2, <2>2 DEF RecordsInv, Early, t
    <3>2. Complete(t) => Complete(o.state)
      BY <1>3, <1>5, <3>1, CompleteIsMonotone
    <3>3. row.phase \in Deciding => c.node \in {"decision", "enablement"}
      BY <1>1, <1>2 DEF RecordsInv, Deciding, Phases
    <3>4. Unresolved(c.state) <=> Unresolved(t)
      BY <1>3 DEF Unresolved
    <3> QED
      BY <1>3, <1>6, <3>1, <3>2, <3>3, <3>4 DEF Earned
  <2> QED
    BY <2>1, <2>2
<1>13. row.phase \notin Early => /\ next \notin Early \cup {"start"}
                                 /\ o.state.category = snapshot.state.category
  BY <1>1, <1>2, <1>3, <1>5, <1>8 DEF RecordsInv, Early, t
<1>14. /\ Unresolved(snapshot.state) => Unresolved(o.state)
       /\ snapshot.state.decision # "none" => o.state.decision # "none"
  BY <1>1, <1>3, <1>6 DEF RecordsInv, Unresolved, t
<1>15. /\ row.phase \in Deciding => next \in Deciding
       /\ row.phase \in Decided => next \in Decided
  BY <1>1, <1>2, <1>7 DEF RecordsInv
<1>16. Listed(checkpoint.state.files) \subseteq Listed(o.state.files)
  BY <1>2, <1>6 DEF t
<1>17. RecordsInv'
  BY <1>1, <1>9, <1>12, <1>13, <1>14, <1>15, <1>16, RecordsFit
<1>18. CallInv(r)'
  BY <1>1, <1>2, <1>6, <1>8, <1>9, <1>10 DEF CallInv, c
<1> QED
  BY <1>11, <1>17, <1>18, TheOneRequest

(* The graph is over: its request goes on with the state the graph was in. *)
LEMMA GraphReturnedCallInv ==
  ASSUME TypeOK, SequentialInv, NEW r \in Requests, NEW pending \in BOOLEAN,
         call[r].pc = "graph", GraphReturned(r, pending), UNCHANGED <<checkpoint, row>>,
         call[r].state = checkpoint.state \/ checkpoint.next = "end"
  PROVE  CallInv(r)'
<1>1. call[r] \in Call /\ call \in [Requests -> Call] /\ CallInv(r)
  BY CallFields DEF TypeOK, SequentialInv
<1>2. CASE call[r].kind = "stream"
  BY <1>1, <1>2, IdleCallInv DEF GraphReturned
<1>3. CASE call[r].kind # "stream"
  <2>1. call'[r] = [call[r] EXCEPT !.pc = "save", !.pending = pending, !.answer = "none"]
    BY <1>1, <1>3 DEF GraphReturned
  <2>2. /\ call'[r].pc = "save" /\ call'[r].kind = call[r].kind
        /\ call'[r].loaded = call[r].loaded /\ call'[r].state = call[r].state
        /\ call'[r].new = call[r].new
    BY <1>1, <2>1 DEF Call
  <2>3. /\ SameButFiles(call[r].state, checkpoint.state)
        /\ call[r].new \subseteq Listed(call[r].state.files)
    BY RunningGraph
  <2> QED
    BY <1>1, <1>3, <2>2, <2>3 DEF CallInv
<1> QED
  BY <1>2, <1>3

LEMMA StepKeepsSequentialInv ==
  ASSUME OneAtATime, TypeOK, SequentialInv, NEW r \in Requests, Step(r)
  PROVE  SequentialInv'
<1>1. /\ call[r].pc = "graph" /\ call[r].node # "end"
      /\ UNCHANGED <<row, snapshot, acknowledged, counts>>
      /\ call \in [Requests -> Call] /\ CallInv(r) /\ ThreadInv /\ RecordsInv
  BY DEF Step, TypeOK, SequentialInv
<1>2. PICK o \in Outcomes(call[r].node, call[r].state, call[r].answer) :
        StepReturns(r, o) \/ StepInterrupts(r, o) \/ StepRaises(r, o)
  BY DEF Step
<1>3. CASE StepReturns(r, o)
  BY <1>1, <1>3, StepReturnsKeepsSequentialInv
<1>4. CASE StepInterrupts(r, o)
  <2>1. o.end = "interrupt" /\ GraphReturned(r, TRUE) /\ UNCHANGED checkpoint
    BY <1>4 DEF StepInterrupts
  <2>2. call[r].answer = "none"
    <3>1. /\ call[r].state \in ApplicantState /\ call[r].answer \in Answers
          /\ call[r].node \in Phases
      BY <1>1, CallFields
    <3> QED
      BY <2>1, <3>1, NodeKeeps
  <2>3. call[r].state = checkpoint.state
    BY <1>1, <2>2 DEF CallInv
  <2>4. CallInv(r)'
    BY <1>1, <2>1, <2>3, GraphReturnedCallInv
  <2>5. ThreadInv' /\ RecordsInv'
    BY <1>1, <2>1 DEF ThreadInv, RecordsInv
  <2> QED
    BY <2>4, <2>5, TheOneRequest
<1>5. CASE StepRaises(r, o)
  <2>1. UpdateKeptOrNot(r) /\ call' = [call EXCEPT ![r] = Idle]
    BY <1>5 DEF StepRaises
  <2>2. CallInv(r)'
    BY <1>1, <2>1, IdleCallInv
  <2> QED
    BY <1>1, <2>1, <2>2, MoreFilesFit, TheOneRequest
<1> QED
  BY <1>2, <1>3, <1>4, <1>5

LEMMA GraphEndsKeepsSequentialInv ==
  ASSUME OneAtATime, TypeOK, SequentialInv, NEW r \in Requests, GraphEnds(r)
  PROVE  SequentialInv'
<1>1. /\ call[r].pc = "graph" /\ call[r].node = "end" /\ GraphReturned(r, FALSE)
      /\ UNCHANGED <<checkpoint, row, snapshot, acknowledged>>
  BY DEF GraphEnds
<1>2. checkpoint.next = "end"
  BY <1>1, RunningGraph
<1>3. CallInv(r)'
  BY <1>1, <1>2, GraphReturnedCallInv
<1>4. ThreadInv' /\ RecordsInv'
  BY <1>1 DEF SequentialInv, ThreadInv, RecordsInv
<1> QED
  BY <1>3, <1>4, TheOneRequest

-----------------------------------------------------------------------------
(* The three commits. *)

LEMMA SaveStateKeepsSequentialInv ==
  ASSUME OneAtATime, TypeOK, SequentialInv, NEW r \in Requests, SaveState(r)
  PROVE  SequentialInv'
<1> DEFINE c == call[r]
           t == checkpoint.state
<1>1. /\ c \in Call /\ call \in [Requests -> Call] /\ c.state \in ApplicantState
      /\ t \in ApplicantState /\ CallInv(r) /\ RecordsInv /\ ThreadInv /\ c.pc = "save"
      /\ UNCHANGED <<checkpoint, row, acknowledged, counts>>
  BY CallFields DEF TypeOK, SequentialInv, Checkpoint, SaveState
<1>2. /\ snapshot'.taken = TRUE /\ snapshot'.state = c.state
      /\ call'[r] = [c EXCEPT !.pc = IF c.state.decision = "none" THEN "phase" ELSE "decide"]
  BY <1>1 DEF SaveState
<1>3. /\ SameButFiles(c.state, t) /\ checkpoint.next # "start"
      /\ c.new \subseteq Listed(t.files) \/ checkpoint.next = "end"
      /\ c.loaded = row /\ c.kind = "chat"
  BY <1>1 DEF CallInv, Call
<1>4. /\ c.state.category = t.category /\ c.state.discrepancies = t.discrepancies
      /\ c.state.decision = t.decision
  BY <1>1, <1>3, SameFields
<1>5. /\ call'[r].pc = IF c.state.decision = "none" THEN "phase" ELSE "decide"
      /\ call'[r].kind = c.kind /\ call'[r].loaded = c.loaded
      /\ call'[r].state = c.state /\ call'[r].new = c.new
  BY <1>1, <1>2 DEF Call
<1>6. row.decision # "none" => t.decision # "none"
  BY <1>1 DEF RecordsInv
<1>7. row.phase \in Decided => t.decision # "none"
  BY <1>1 DEF RecordsInv, ThreadInv, Earned
<1> HIDE DEF c, t
<1>8. ThreadInv'
  BY <1>1 DEF ThreadInv
<1>9. RecordsInv'
  BY <1>1, <1>2, <1>4, <1>6, <1>7 DEF RecordsInv, Unresolved, t
<1>10. CASE c.state.decision = "none"
  <2>1. call'[r].pc = "phase" /\ row.decision = c.state.decision
    BY <1>4, <1>5, <1>6, <1>10
  <2>2. CallInv(r)'
    BY <1>1, <1>2, <1>3, <1>5, <2>1 DEF CallInv, t
  <2> QED
    BY <1>8, <1>9, <2>2, TheOneRequest
<1>11. CASE c.state.decision # "none"
  <2>1. call'[r].pc = "decide"
    BY <1>5, <1>11
  <2>2. CallInv(r)'
    BY <1>1, <1>2, <1>3, <1>5, <2>1 DEF CallInv, t
  <2> QED
    BY <1>8, <1>9, <2>2, TheOneRequest
<1> QED
  BY <1>10, <1>11

LEMMA PersistDecisionKeepsSequentialInv ==
  ASSUME OneAtATime, TypeOK, SequentialInv, NEW r \in Requests,
         PersistDecision(r) \/ PersistDecisionFails(r)
  PROVE  SequentialInv'
<1>1. /\ call[r] \in Call /\ call \in [Requests -> Call] /\ row \in Row
      /\ CallInv(r) /\ RecordsInv /\ ThreadInv /\ call[r].pc = "decide"
      /\ UNCHANGED <<checkpoint, snapshot, acknowledged>>
  BY CallFields DEF TypeOK, SequentialInv, PersistDecision, PersistDecisionFails
<1>2. call[r].loaded = row /\ call[r].kind = "chat" /\ snapshot.state = call[r].state
  BY <1>1 DEF CallInv, Call
<1>3. ThreadInv'
  BY <1>1 DEF ThreadInv
<1>4. CASE PersistDecision(r)
  <2>1. /\ row' = [row EXCEPT !.decision =
                 Written(@, call[r].loaded.decision, call[r].state.decision)]
        /\ call'[r] = [call[r] EXCEPT !.pc = "phase", !.loaded = row']
    BY <1>1, <1>4 DEF PersistDecision
  <2>2. row'.phase = row.phase /\ row'.decision = call[r].state.decision
    BY <1>1, <1>2, <2>1 DEF Row, Written
  <2>3. /\ call'[r].pc = "phase" /\ call'[r].kind = "chat" /\ call'[r].loaded = row'
        /\ call'[r].state = call[r].state /\ call'[r].new = call[r].new
    BY <1>1, <1>2, <2>1 DEF Call
  <2>4. RecordsInv'
    BY <1>1, <1>2, <2>2 DEF RecordsInv
  <2>5. CallInv(r)'
    BY <1>1, <2>2, <2>3 DEF CallInv
  <2> QED
    BY <1>3, <2>4, <2>5, TheOneRequest
<1>5. CASE PersistDecisionFails(r)
  <2>1. /\ call'[r] = [call[r] EXCEPT !.pc = "phase"] /\ UNCHANGED row
        /\ counts'.lost = TRUE
    BY <1>1, <1>5 DEF PersistDecisionFails, TypeOK
  <2>2. /\ call'[r].pc = "phase" /\ call'[r].kind = "chat"
        /\ call'[r].loaded = call[r].loaded
        /\ call'[r].state = call[r].state /\ call'[r].new = call[r].new
    BY <1>1, <1>2, <2>1 DEF Call
  <2>3. RecordsInv'
    BY <1>1, <2>1 DEF RecordsInv
  <2>4. CallInv(r)'
    BY <1>1, <1>2, <2>1, <2>2 DEF CallInv
  <2> QED
    BY <1>3, <2>3, <2>4, TheOneRequest
<1> QED
  BY <1>4, <1>5

LEMMA UpdatePhaseKeepsSequentialInv ==
  ASSUME OneAtATime, TypeOK, SequentialInv, NEW r \in Requests, UpdatePhase(r)
  PROVE  SequentialInv'
<1> DEFINE c == call[r]
           t == checkpoint.state
<1>1. /\ c \in Call /\ call \in [Requests -> Call] /\ row \in Row
      /\ c.state \in ApplicantState /\ t \in ApplicantState
      /\ checkpoint.next \in Phases \cup {"start", "end"}
      /\ CallInv(r) /\ RecordsInv /\ ThreadInv /\ c.pc = "phase"
      /\ UNCHANGED <<checkpoint, snapshot>>
  BY CallFields DEF TypeOK, SequentialInv, Checkpoint, UpdatePhase
<1>2. /\ SameButFiles(c.state, t) /\ checkpoint.next # "start"
      /\ c.new \subseteq Listed(t.files) \/ checkpoint.next = "end"
      /\ c.loaded = row /\ snapshot.taken /\ snapshot.state = c.state
  BY <1>1 DEF CallInv, Call
<1>3. /\ c.state.phase = t.phase /\ c.state.category = t.category
      /\ c.state.decision = t.decision
  BY <1>1, <1>2, SameFields
<1>4. /\ row' = [row EXCEPT !.phase = Written(@, c.loaded.phase, c.state.phase)]
      /\ acknowledged' = acknowledged \cup c.new /\ call'[r] = Idle
  BY <1>1 DEF UpdatePhase
<1>5. row'.phase = t.phase /\ row'.decision = row.decision
  BY <1>1, <1>2, <1>3, <1>4 DEF Row, Written
<1>6. /\ t.phase \in Phases /\ Earned(t.phase, t)
      /\ t.phase \in Early <=> checkpoint.next \in Early \cup {"start"}
      /\ t.phase \in Deciding <=> checkpoint.next \in Deciding
      /\ t.phase \in Decided <=> checkpoint.next \in Decided
  BY <1>1, PhaseOfNode DEF ThreadInv
<1>7. t.phase \in Decided => t.decision # "none"
  BY <1>6 DEF Earned
<1>8. t.phase = "enablement" \/ acknowledged' \subseteq Listed(t.files)
  <2>1. checkpoint.next \in Decided => t.phase = "enablement"
    BY <1>6 DEF Decided, Phases
  <2>2. row.phase = "enablement" => checkpoint.next \in Decided
    BY <1>1 DEF RecordsInv, Decided
  <2>3. c.new \subseteq Listed(t.files) \/ checkpoint.next \in Decided
    BY <1>2 DEF Decided
  <2> QED
    BY <1>1, <1>4, <2>1, <2>2, <2>3 DEF RecordsInv
<1> HIDE DEF c, t
<1>9. ThreadInv'
  BY <1>1 DEF ThreadInv
<1>10. RecordsInv'
  BY <1>1, <1>2, <1>3, <1>5, <1>6, <1>7, <1>8 DEF RecordsInv, t
<1> QED
  BY <1>4, <1>9, <1>10, IdleCallInv, TheOneRequest

-----------------------------------------------------------------------------
(* The environment, and the invariant. *)

LEMMA EnvironmentKeepsSequentialInv ==
  ASSUME OneAtATime, TypeOK, SequentialInv,
         Crash \/ Expire \/ \E r \in Requests : Disconnect(r)
  PROVE  SequentialInv'
<1>1. CASE Crash
  <2>1. /\ call' = [q \in Requests |-> Idle] /\ UNCHANGED <<row, snapshot, acknowledged>>
    BY <1>1 DEF Crash
  <2>2. PICK r \in Requests : UpdateKeptOrNot(r)
    BY <1>1 DEF Crash
  <2>3. CallInv(r)'
    BY <2>1, IdleCallInv
  <2> QED
    BY <2>1, <2>2, <2>3, MoreFilesFit, TheOneRequest
<1>2. CASE Expire
  BY <1>2 DEF Expire, OneAtATime, TypeOK
<1>3. ASSUME NEW r \in Requests, Disconnect(r) PROVE SequentialInv'
  <2>1. /\ call' = [call EXCEPT ![r] = Idle]
        /\ UNCHANGED <<checkpoint, row, snapshot, acknowledged>>
    BY <1>3 DEF Disconnect
  <2>2. CallInv(r)'
    BY <2>1, IdleCallInv DEF TypeOK
  <2>3. ThreadInv' /\ RecordsInv'
    BY <2>1 DEF SequentialInv, ThreadInv, RecordsInv
  <2> QED
    BY <2>2, <2>3, TheOneRequest
<1> QED
  BY <1>1, <1>2, <1>3

LEMMA StepSequentialInv ==
  OneAtATime => (TypeOK /\ SequentialInv /\ [Next]_vars => SequentialInv')
<1> SUFFICES ASSUME OneAtATime, TypeOK, SequentialInv, [Next]_vars PROVE SequentialInv'
  OBVIOUS
<1>1. CASE UNCHANGED vars
  BY <1>1 DEF vars, SequentialInv, ThreadInv, RecordsInv, CallInv
<1>2. ASSUME NEW r \in Requests, NEW new \in SUBSET Paths,
             LoadApplication(r, new) \/ StartStream(r, new)
      PROVE  SequentialInv'
  BY <1>2, LoadsKeepSequentialInv, StartStreamKeepsSequentialInv
<1>3. ASSUME NEW r \in Requests, NEW answer \in {"vague", "full"}, ResumeGraph(r, answer)
      PROVE  SequentialInv'
  BY <1>3, ResumeGraphKeepsSequentialInv
<1>4. ASSUME NEW r \in Requests,
             \/ LoadState(r) \/ StartGraph(r) \/ Step(r) \/ GraphEnds(r)
             \/ SaveState(r) \/ PersistDecision(r) \/ PersistDecisionFails(r)
             \/ UpdatePhase(r) \/ Disconnect(r)
      PROVE  SequentialInv'
  <2>1. CASE LoadState(r)
    BY <2>1, LoadsKeepSequentialInv, {} \in SUBSET Paths
  <2> QED
    BY <1>4, <2>1, StartGraphKeepsSequentialInv, StepKeepsSequentialInv,
       GraphEndsKeepsSequentialInv, SaveStateKeepsSequentialInv,
       PersistDecisionKeepsSequentialInv, UpdatePhaseKeepsSequentialInv,
       EnvironmentKeepsSequentialInv
<1> QED
  BY <1>1, <1>2, <1>3, <1>4, EnvironmentKeepsSequentialInv DEF Next

LEMMA InvariantSequentialInv ==
  ASSUME OneAtATime PROVE Spec => []SequentialInv
<1>1. TypeOK /\ SequentialInv /\ [Next]_vars => SequentialInv'
  BY StepSequentialInv
<1> QED
  BY <1>1, InitSequentialInv, TypeCorrectness, PTL DEF Spec

-----------------------------------------------------------------------------
(* The theorems of requests one at a time. *)

(* With one request at a time, no run of the graph and no checkpoint is at  *)
(* a phase its own state has not earned, through any sequence of requests, *)
(* answers, streams, crashes and failed writes: agent_runner.run builds a  *)
(* fresh input out of three records, and they never give it the row's      *)
(* phase without what the phase takes.                                     *)
THEOREM PhasesStayEarned == ASSUME OneAtATime PROVE Spec => []PhasesAreEarned
<1>1. TypeOK /\ SequentialInv => PhasesAreEarned
  BY RunningGraph DEF SequentialInv, ThreadInv, PhasesAreEarned
<1> QED
  BY <1>1, InvariantSequentialInv, TypeCorrectness, PTL

(* With one request at a time, a file of an answered request stays in the   *)
(* thread's uploaded_files until the decision: the reducer adds to them on *)
(* every path, and a raise or a crash keeps the checkpoint or adds to it.  *)
THEOREM UploadsStay == ASSUME OneAtATime PROVE Spec => []UploadsAreKept
<1>1. SequentialInv => UploadsAreKept
  BY DEF SequentialInv, RecordsInv, UploadsAreKept, Decided
<1> QED
  BY <1>1, InvariantSequentialInv, PTL

(* With one request at a time, the answer that writes the graph's phase to  *)
(* the row leaves the row, the snapshot and the checkpoint in agreement,   *)
(* whatever commit of an earlier request a crash prevented.                *)
THEOREM AnswersAgree == ASSUME OneAtATime PROVE Spec => AnsweredCallsAgree
<1>1. ASSUME TypeOK, TypeOK', SequentialInv, Next, NEW r \in Requests,
             call[r].pc = "phase", call'[r].pc = "idle", row'.phase = call[r].state.phase
      PROVE  Agree'
  <2> DEFINE c == call[r]
             t == checkpoint.state
  <2>1. /\ c \in Call /\ CallInv(r) /\ t \in ApplicantState /\ c.state \in ApplicantState
        /\ call \in [Requests -> Call]
    BY <1>1, CallFields DEF SequentialInv, TypeOK, Checkpoint
  <2>2. /\ snapshot.state = c.state /\ SameButFiles(c.state, t)
        /\ row.decision = c.state.decision \/ counts.lost
    BY <1>1, <2>1 DEF CallInv
  <2>3. UpdatePhase(r) \/ Crash
    <3>1. \A q \in Requests : q = r
      BY DEF OneAtATime
    <3>2. c.kind # "stream" /\ c.pc = "phase"
      BY <1>1, <2>1 DEF CallInv
    <3>3. ASSUME NEW q \in Requests,
                 \/ \E new \in SUBSET Paths : LoadApplication(q, new) \/ StartStream(q, new)
                 \/ \E answer \in {"vague", "full"} : ResumeGraph(q, answer)
                 \/ LoadState(q) \/ StartGraph(q) \/ Step(q) \/ GraphEnds(q) \/ SaveState(q)
          PROVE  FALSE
      <4>1. call[q].pc \in {"idle", "load", "start", "graph", "save"}
        BY <3>3 DEF LoadApplication, StartStream, ResumeGraph, LoadState, StartGraph,
           Step, GraphEnds, SaveState
      <4> QED
        BY <3>1, <3>2, <4>1
    <3>4. ASSUME NEW q \in Requests,
                 PersistDecision(q) \/ PersistDecisionFails(q) \/ Disconnect(q)
          PROVE  FALSE
      BY <3>1, <3>2, <3>4 DEF PersistDecision, PersistDecisionFails, Disconnect
    <3>5. ~Expire
      BY <1>1 DEF Expire, OneAtATime, TypeOK
    <3>6. ASSUME NEW q \in Requests, UpdatePhase(q) PROVE UpdatePhase(r)
      BY <3>1, <3>6
    <3> QED
      BY <1>1, <3>3, <3>4, <3>5, <3>6 DEF Next
  <2>4. /\ UNCHANGED snapshot /\ row'.decision = row.decision
        /\ counts'.lost = counts.lost /\ SameButFiles(c.state, checkpoint'.state)
    <3>1. CASE UpdatePhase(r)
      BY <1>1, <2>2, <3>1 DEF UpdatePhase, TypeOK, Row
    <3>2. CASE Crash
      <4>1. UNCHANGED <<snapshot, row>> /\ counts'.lost = counts.lost
        BY <1>1, <3>2 DEF Crash, TypeOK
      <4>2. PICK q \in Requests : UpdateKeptOrNot(q)
        BY <3>2 DEF Crash
      <4>3. CASE UNCHANGED checkpoint
        BY <2>2, <4>1, <4>3
      <4>4. CASE checkpoint' = [checkpoint EXCEPT !.state = AddFiles(@, call[q].new)]
        <5>1. checkpoint'.state = AddFiles(t, call[q].new)
          BY <1>1, <4>4 DEF TypeOK, Checkpoint
        <5>2. /\ AddFiles(t, call[q].new) \in ApplicantState
              /\ SameButFiles(AddFiles(t, call[q].new), t)
          BY <1>1, <2>1, CallFields, AddedFilesOnly
        <5> QED
          BY <2>1, <2>2, <4>1, <5>1, <5>2 DEF SameButFiles, ApplicantState
      <4> QED
        BY <4>2, <4>3, <4>4 DEF UpdateKeptOrNot
    <3> QED
      BY <2>3, <3>1, <3>2
  <2>5. checkpoint'.state \in ApplicantState
    BY <1>1 DEF TypeOK, Checkpoint
  <2>6. [c.state EXCEPT !.files = checkpoint'.state.files] = checkpoint'.state
    BY <2>1, <2>4, <2>5 DEF SameButFiles, ApplicantState
  <2> QED
    BY <1>1, <2>2, <2>4, <2>6 DEF Agree
<1>2. TypeOK /\ TypeOK' /\ SequentialInv /\ [Next]_vars =>
        [(\E r \in Requests : call[r].pc = "phase" /\ call'[r].pc = "idle"
                              /\ row'.phase = call[r].state.phase)
         => Agree']_vars
  BY <1>1
<1> QED
  BY <1>2, InvariantSequentialInv, TypeCorrectness, PTL DEF Spec, AnsweredCallsAgree
=============================================================================
