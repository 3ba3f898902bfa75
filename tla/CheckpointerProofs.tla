-------------------------- MODULE CheckpointerProofs --------------------------
(***************************************************************************)
(* Theorems about Checkpointer, for any threads and runs and any bounds.   *)
(***************************************************************************)
EXTENDS Checkpointer, FiniteSetTheorems, TLAPS

USE BoundsAssumption

(* Every checkpoint ever stored has its values still: blobs are never      *)
(* deleted.  A run may start from a checkpoint that is gone, and refer to  *)
(* its values.                                                             *)
BlobsStay ==
  /\ \A t \in Threads : stored[t] \subseteq 1..last[t]
  /\ \A t \in Threads : \A i \in 1..last[t] : blobOf[t][i] \in blobs[t]
  /\ \A r \in Runs : run[r].base <= last[run[r].thread]

(* A round only deletes what is old; and between its two statements the    *)
(* only writes that a doomed checkpoint has are late ones.                 *)
OnlyOldIsDoomed == \A t \in Threads : task.doomed[t] \subseteq old[t]

DoomedLostWrites ==
  Deleting => \A t \in Threads : writes[t] \cap task.doomed[t] \subseteq late[t]

OrphansAreLate == \A t \in Threads : writes[t] \ stored[t] \subseteq late[t]

(* Who connects came while there was no connection; each of them is        *)
(* counted once, waiting or served.                                        *)
Connecting == { r \in Runs : run[r].pc = "connect" }

NobodyElseConnects ==
  IF saver = 0 THEN opened = 0
  ELSE opened + Cardinality(Connecting) + (IF task.pc = "connect" THEN 1 ELSE 0)
         <= Cardinality(Runs) + 1

StoreInv == BlobsStay /\ OnlyOldIsDoomed /\ DoomedLostWrites /\ OrphansAreLate

IInv == TypeOK /\ StoreInv /\ NobodyElseConnects

-----------------------------------------------------------------------------
LEMMA UnusedIsRun ==
  /\ Unused \in Run
  /\ Unused.pc = "idle" /\ Unused.conn = 0 /\ Unused.base = 0 /\ Unused.thread \in Threads
  /\ [t \in Threads |-> {}] \in [Threads -> SUBSET Numbers]
BY ThreadsAssumption DEF Unused, Run, Numbers

LEMMA NoTaskIsTask ==
  /\ NoTask \in Task /\ NoTask.pc = "none" /\ \A t \in Threads : NoTask.doomed[t] = {}
  /\ Wait \in Task /\ Wait.pc = "wait" /\ \A t \in Threads : Wait.doomed[t] = {}
  /\ NoTask.conn = 0 /\ Wait.conn = 0
BY DEF NoTask, Wait, Task, Numbers

LEMMA RoundIsTask ==
  ASSUME TypeOK
  PROVE  /\ Round \in Task /\ Round.pc \in {"count", "connect"}
         /\ Round.pc = "connect" => saver = 0
         /\ Round.conn <= opened
         /\ \A t \in Threads : Round.doomed[t] = old[t] \cap stored[t]
<1>1. Expired \in [Threads -> SUBSET Numbers] /\ \A t \in Threads : Expired[t] = old[t] \cap stored[t]
  BY DEF Expired, TypeOK
<1>2. saver \in Nat /\ saver <= opened
  BY DEF TypeOK
<1> QED BY <1>1, <1>2 DEF Round, Task, Known

LEMMA InitIInv == Init => IInv
<1> SUFFICES ASSUME Init PROVE IInv
  OBVIOUS
<1> USE UnusedIsRun, NoTaskIsTask DEF Init
<1>1. TypeOK
  <2>1. run \in [Runs -> Run] /\ \A r \in Runs : run[r].conn <= opened
    OBVIOUS
  <2>2. blobOf \in [Threads -> [Numbers -> 0..MaxCheckpoints]] /\ last \in [Threads -> 0..MaxCheckpoints]
    OBVIOUS
  <2>3. up \in BOOLEAN
    OBVIOUS
  <2>6. opened \in Nat /\ alive \subseteq 1..opened /\ saver \in 0..opened
    OBVIOUS
  <2>4. /\ stored \in [Threads -> SUBSET Numbers] /\ writes \in [Threads -> SUBSET Numbers]
        /\ blobs \in [Threads -> SUBSET Numbers]
        /\ old \in [Threads -> SUBSET Numbers] /\ late \in [Threads -> SUBSET Numbers]
    OBVIOUS
  <2>5. task \in Task /\ task.conn <= opened /\ faults \in 0..MaxFaults
    OBVIOUS
  <2> QED BY <2>1, <2>2, <2>3, <2>4, <2>5, <2>6 DEF TypeOK
<1>2. StoreInv
  BY DEF StoreInv, BlobsStay, OnlyOldIsDoomed, DoomedLostWrites, OrphansAreLate, Deleting
<1>3. NobodyElseConnects
  BY DEF NobodyElseConnects
<1> QED BY <1>1, <1>2, <1>3 DEF IInv

-----------------------------------------------------------------------------
(* The steps of the connections: opening one, and starting from none.      *)
LEMMA OpenType ==
  ASSUME TypeOK, Open
  PROVE  /\ up' \in BOOLEAN /\ opened' \in Nat /\ alive' \subseteq 1..opened'
         /\ saver' \in 0..opened' /\ opened <= opened'
<1>1. opened \in Nat /\ opened' = opened + 1 /\ saver' = opened'
  BY DEF TypeOK, Open
<1>2. alive \subseteq 1..opened /\ alive' = alive \cup {opened'}
  BY DEF TypeOK, Open
<1>3. up' = up /\ up \in BOOLEAN
  BY DEF TypeOK, Open
<1> QED BY <1>1, <1>2, <1>3

(* Types step by step: who touches what.                                   *)
ConnType == /\ up \in BOOLEAN /\ opened \in Nat /\ alive \subseteq 1..opened
            /\ saver \in 0..opened
RunType == run \in [Runs -> Run] /\ \A r \in Runs : run[r].conn <= opened
TaskType == task \in Task /\ task.conn <= opened
DataType ==
  /\ stored \in [Threads -> SUBSET Numbers] /\ writes \in [Threads -> SUBSET Numbers]
  /\ blobs \in [Threads -> SUBSET Numbers]
  /\ old \in [Threads -> SUBSET Numbers] /\ late \in [Threads -> SUBSET Numbers]
  /\ blobOf \in [Threads -> [Numbers -> 0..MaxCheckpoints]]
  /\ last \in [Threads -> 0..MaxCheckpoints]
FaultType == faults \in 0..MaxFaults

LEMMA TypeParts == TypeOK <=> ConnType /\ RunType /\ TaskType /\ DataType /\ FaultType
BY DEF TypeOK, ConnType, RunType, TaskType, DataType, FaultType

LEMMA TypePartsNext ==
  ConnType' /\ RunType' /\ TaskType' /\ DataType' /\ FaultType' => TypeOK'
BY DEF TypeOK, ConnType, RunType, TaskType, DataType, FaultType

LEMMA FaultKeepsType == ASSUME FaultType, Fault PROVE FaultType'
BY DEF FaultType, Fault

LEMMA SameConnections ==
  ASSUME ConnType, UNCHANGED connections
  PROVE  ConnType' /\ opened' = opened /\ alive' = alive /\ saver' = saver /\ up' = up
BY DEF ConnType, connections

LEMMA SameData ==
  ASSUME DataType, UNCHANGED data
  PROVE  /\ DataType' /\ stored' = stored /\ writes' = writes /\ blobs' = blobs
         /\ blobOf' = blobOf /\ last' = last /\ old' = old /\ late' = late
BY DEF DataType, data

(* A run that gets another record of its type.                             *)
LEMMA RunTyped ==
  ASSUME RunType, opened \in Nat, opened' \in Nat, opened <= opened', NEW r \in Runs,
         run' \in [Runs -> Run], run'[r].conn <= opened',
         \A q \in Runs \ {r} : run'[q] = run[q]
  PROVE  RunType'
<1>1. ASSUME NEW q \in Runs PROVE run'[q].conn <= opened'
  <2>1. run[q].conn \in Nat /\ run[q].conn <= opened
    BY DEF RunType, Run
  <2> QED BY <2>1
<1> QED BY <1>1 DEF RunType

LEMMA RunStepType ==
  ASSUME TypeOK, NEW r \in Runs, RunStep(r) \/ (\E t \in Threads : StartRun(r, t))
  PROVE  TypeOK'
<1>0. /\ ConnType /\ RunType /\ TaskType /\ DataType /\ FaultType
      /\ run \in [Runs -> Run] /\ run[r] \in Run /\ run[r].conn <= opened
      /\ opened \in Nat /\ saver \in 0..opened
  BY TypeParts DEF RunType, ConnType
<1>1. ASSUME NEW t \in Threads, StartRun(r, t) PROVE TypeOK'
  <2>1. ConnType' /\ opened' = opened /\ DataType' /\ TaskType' /\ FaultType'
    BY <1>0, <1>1, SameConnections, SameData DEF StartRun, TaskType, FaultType
  <2>2. /\ run' \in [Runs -> Run] /\ run'[r].conn = saver
        /\ \A q \in Runs \ {r} : run'[q] = run[q]
    <3> DEFINE pc == IF Known THEN "read" ELSE "connect"
    <3>1. pc \in {"read", "connect"} /\ saver \in Nat
      BY <1>0
    <3>2. run' = [run EXCEPT ![r].thread = t, ![r].conn = saver, ![r].pc = pc]
      BY <1>1 DEF StartRun
    <3> HIDE DEF pc
    <3> QED BY <1>0, <3>1, <3>2 DEF Run
  <2>3. RunType'
    BY <2>1, <2>2, <1>0, RunTyped
  <2> QED BY <2>1, <2>3, TypePartsNext
<1>2. CASE ConnectRun(r)
  <2>1. DataType' /\ task' = task
    BY <1>0, <1>2, SameData DEF ConnectRun
  <2>2. CASE Open /\ run' = [run EXCEPT ![r].pc = "read", ![r].conn = opened'] /\ UNCHANGED faults
    <3>1. ConnType' /\ opened' \in Nat /\ opened <= opened'
      BY <2>2, OpenType DEF ConnType
    <3>2. run' \in [Runs -> Run] /\ run'[r].conn = opened' /\ \A q \in Runs \ {r} : run'[q] = run[q]
      BY <1>0, <2>2, <3>1 DEF Run
    <3>3. RunType'
      BY <3>1, <3>2, <1>0, RunTyped
    <3>4. TaskType'
      <4>1. task.conn \in Nat /\ task.conn <= opened
        BY <1>0 DEF TaskType, Task
      <4> QED BY <1>0, <2>1, <3>1, <4>1 DEF TaskType
    <3> QED BY <2>1, <2>2, <3>1, <3>3, <3>4, <1>0, TypePartsNext DEF FaultType
  <2>3. CASE Fault /\ run' = [run EXCEPT ![r] = Unused] /\ UNCHANGED connections
    <3>1. ConnType' /\ opened' = opened /\ FaultType'
      BY <2>3, <1>0, SameConnections, FaultKeepsType
    <3>2. RunType'
      BY <2>3, <3>1, <1>0, UnusedIsRun, RunTyped
    <3> QED BY <1>0, <2>1, <3>1, <3>2, TypePartsNext DEF TaskType
  <2> QED BY <1>2, <2>2, <2>3 DEF ConnectRun
<1>3. CASE ReadThread(r)
  <2>1. ConnType' /\ opened' = opened /\ DataType' /\ TaskType' /\ FaultType'
    BY <1>0, <1>3, SameConnections, SameData DEF ReadThread, TaskType, FaultType
  <2>2. PICK i \in 0..MaxCheckpoints : run' = [run EXCEPT ![r].pc = "write", ![r].base = i]
    BY <1>3 DEF ReadThread
  <2>3. /\ run' \in [Runs -> Run] /\ run'[r].conn = run[r].conn
        /\ \A q \in Runs \ {r} : run'[q] = run[q]
    BY <1>0, <2>2 DEF Run
  <2>4. RunType'
    BY <2>1, <2>3, <1>0, RunTyped
  <2> QED BY <2>1, <2>4, TypePartsNext
<1>4. CASE PutWrites(r)
  <2>1. ConnType' /\ opened' = opened /\ run' = run /\ TaskType' /\ FaultType'
    BY <1>0, <1>4, SameConnections DEF PutWrites, TaskType, FaultType
  <2>2. run[r].base \in Numbers /\ run[r].thread \in Threads
    BY <1>0, <1>4 DEF PutWrites, Run, Numbers
  <2>3. DataType'
    BY <1>0, <1>4, <2>2 DEF PutWrites, DataType
  <2> QED BY <1>0, <2>1, <2>3, TypePartsNext DEF RunType
<1>5. CASE PutCheckpoint(r)
  <2>1. ConnType' /\ opened' = opened /\ TaskType' /\ FaultType'
    BY <1>0, <1>5, SameConnections DEF PutCheckpoint, TaskType, FaultType
  <2> DEFINE t == run[r].thread
             n == last[t] + 1
  <2>2. t \in Threads /\ n \in Numbers
    BY <1>0, <1>5 DEF PutCheckpoint, Run, DataType, Numbers
  <2>3. RunType'
    <3>1. /\ run' \in [Runs -> Run] /\ run'[r].conn = run[r].conn
          /\ \A q \in Runs \ {r} : run'[q] = run[q]
      BY <1>0, <1>5, <2>2 DEF PutCheckpoint, Run, Numbers
    <3> QED BY <2>1, <3>1, <1>0, RunTyped
  <2>4. PICK b \in {n} \cup (IF run[r].base = 0 THEN {} ELSE {blobOf[t][run[r].base]}) :
          /\ blobOf' = [blobOf EXCEPT ![t][n] = b]
          /\ blobs' = [blobs EXCEPT ![t] = IF b = n THEN @ \cup {n} ELSE @]
    BY <1>5 DEF PutCheckpoint
  <2>5. b \in 0..MaxCheckpoints
    BY <1>0, <2>2, <2>4 DEF Run, DataType, Numbers
  <2>6. DataType'
    <3> HIDE DEF t, n
    <3>1. blobOf' \in [Threads -> [Numbers -> 0..MaxCheckpoints]]
      BY <1>0, <2>2, <2>4, <2>5 DEF DataType
    <3>2. blobs' \in [Threads -> SUBSET Numbers]
      BY <1>0, <2>2, <2>4 DEF DataType
    <3>3. last' = [last EXCEPT ![t] = n] /\ stored' = [stored EXCEPT ![t] = @ \cup {n}]
          /\ writes' = writes /\ old' = old /\ late' = late
      BY <1>5 DEF PutCheckpoint, t, n
    <3> QED BY <1>0, <2>2, <3>1, <3>2, <3>3 DEF DataType, Numbers
  <2> QED BY <2>1, <2>3, <2>6, TypePartsNext
<1>6. CASE EndRun(r)
  <2>1. ConnType' /\ opened' = opened /\ DataType' /\ TaskType' /\ FaultType'
    BY <1>0, <1>6, SameConnections, SameData DEF EndRun, TaskType, FaultType
  <2>2. /\ run' \in [Runs -> Run] /\ run'[r].conn = 0
        /\ \A q \in Runs \ {r} : run'[q] = run[q]
    BY <1>6, <1>0, UnusedIsRun DEF EndRun
  <2>3. RunType'
    BY <2>1, <2>2, <1>0, RunTyped
  <2> QED BY <2>1, <2>3, TypePartsNext
<1> QED BY <1>1, <1>2, <1>3, <1>4, <1>5, <1>6 DEF RunStep

LEMMA TaskStepType ==
  ASSUME TypeOK, TaskStep
  PROVE  TypeOK'
<1>0. /\ ConnType /\ RunType /\ TaskType /\ DataType /\ FaultType
      /\ opened \in Nat /\ task \in Task
  BY TypeParts DEF ConnType, TaskType
<1>1. CASE StartRound
  <2>1. ConnType' /\ opened' = opened /\ DataType' /\ RunType' /\ FaultType'
    BY <1>0, <1>1, SameConnections, SameData DEF StartRound, RunType, FaultType
  <2>2. TaskType'
    BY <1>1, <2>1, RoundIsTask DEF StartRound, TaskType
  <2> QED BY <2>1, <2>2, TypePartsNext
<1>2. CASE ConnectTask
  <2>1. DataType' /\ run' = run
    BY <1>0, <1>2, SameData DEF ConnectTask
  <2>2. CASE Open /\ task' = [task EXCEPT !.pc = "count", !.conn = opened'] /\ UNCHANGED faults
    <3>1. ConnType' /\ opened' \in Nat /\ opened <= opened'
      BY <2>2, OpenType DEF ConnType
    <3>2. RunType'
      <4> SUFFICES ASSUME NEW r \in Runs PROVE run[r].conn <= opened'
        BY <1>0, <2>1 DEF RunType
      <4>1. run[r].conn \in Nat /\ run[r].conn <= opened
        BY <1>0 DEF RunType, Run
      <4> QED BY <1>0, <3>1, <4>1
    <3>3. TaskType' /\ FaultType'
      <4>1. task' \in Task /\ task'.conn = opened'
        BY <1>0, <2>2, <3>1 DEF Task
      <4> QED BY <1>0, <2>2, <3>1, <4>1 DEF TaskType, FaultType
    <3> QED BY <2>1, <3>1, <3>2, <3>3, TypePartsNext
  <2>3. CASE Fault /\ task' = Wait /\ UNCHANGED connections
    <3>1. ConnType' /\ opened' = opened /\ FaultType'
      BY <2>3, <1>0, SameConnections, FaultKeepsType
    <3>2. TaskType'
      BY <2>3, <3>1, <1>0, NoTaskIsTask DEF TaskType
    <3> QED BY <2>1, <3>1, <3>2, <1>0, TypePartsNext DEF RunType
  <2> QED BY <1>2, <2>2, <2>3 DEF ConnectTask
<1>3. CASE CountExpired \/ StatementFails
  <2>1. ConnType' /\ opened' = opened /\ DataType' /\ RunType' /\ FaultType'
    BY <1>0, <1>3, SameConnections, SameData DEF CountExpired, StatementFails, RunType, FaultType
  <2>2. TaskType'
    <3>1. /\ [task EXCEPT !.pc = "delete_writes"] \in Task
          /\ [task EXCEPT !.pc = "delete_writes"].conn = task.conn
      BY <1>0 DEF Task
    <3>2. \/ task' = Wait \/ task' = [task EXCEPT !.pc = "delete_writes"]
      BY <1>3 DEF CountExpired, StatementFails
    <3>3. Wait \in Task /\ Wait.conn <= opened
      BY <1>0, NoTaskIsTask
    <3>4. task.conn <= opened
      BY <1>0 DEF TaskType
    <3> QED BY <2>1, <3>1, <3>2, <3>3, <3>4 DEF TaskType
  <2> QED BY <2>1, <2>2, TypePartsNext
<1>4. CASE DeleteWrites
  <2>1. ConnType' /\ opened' = opened /\ RunType' /\ FaultType'
    BY <1>0, <1>4, SameConnections DEF DeleteWrites, RunType, FaultType
  <2>2. TaskType'
    BY <1>0, <1>4, <2>1 DEF DeleteWrites, TaskType, Task
  <2>3. DataType'
    BY <1>0, <1>4 DEF DeleteWrites, DataType
  <2> QED BY <2>1, <2>2, <2>3, TypePartsNext
<1>5. CASE DeleteCheckpoints
  <2>1. ConnType' /\ opened' = opened /\ RunType' /\ FaultType'
    BY <1>0, <1>5, SameConnections DEF DeleteCheckpoints, RunType, FaultType
  <2>2. TaskType'
    BY <1>0, <1>5, <2>1, NoTaskIsTask DEF DeleteCheckpoints, TaskType
  <2>3. DataType'
    BY <1>0, <1>5 DEF DeleteCheckpoints, DataType
  <2> QED BY <2>1, <2>2, <2>3, TypePartsNext
<1> QED BY <1>1, <1>2, <1>3, <1>4, <1>5 DEF TaskStep

LEMMA OtherStepType ==
  ASSUME TypeOK, \/ Startup \/ Stop \/ (\E c \in alive : Drop(c))
                 \/ (\E t \in Threads : \E i \in Numbers : Age(t, i))
  PROVE  TypeOK'
<1>0. /\ ConnType /\ RunType /\ TaskType /\ DataType /\ FaultType /\ opened \in Nat
  BY TypeParts DEF ConnType
<1>1. CASE Startup
  <2>1. ConnType' /\ RunType' /\ FaultType' /\ DataType'
    BY <1>0, <1>1, SameData DEF Startup, ConnType, RunType, FaultType
  <2>2. TaskType'
    BY <1>0, <1>1, RoundIsTask DEF Startup, TaskType
  <2> QED BY <2>1, <2>2, TypePartsNext
<1>2. CASE Stop
  <2>1. FaultType' /\ DataType' /\ TaskType'
    BY <1>0, <1>2, SameData, FaultKeepsType, NoTaskIsTask DEF Stop, TaskType
  <2>2. up' \in BOOLEAN
    BY <1>2 DEF Stop
  <2>3. ConnType' /\ RunType'
    BY <1>2, <2>2, UnusedIsRun DEF Stop, ConnType, RunType
  <2> QED BY <2>1, <2>3, TypePartsNext
<1>3. ASSUME NEW c \in alive, Drop(c) PROVE TypeOK'
  <2>1. FaultType' /\ DataType' /\ TaskType' /\ RunType'
    BY <1>0, <1>3, SameData, FaultKeepsType DEF Drop, RunType, TaskType
  <2>2. ConnType'
    BY <1>0, <1>3 DEF Drop, ConnType
  <2> QED BY <2>1, <2>2, TypePartsNext
<1>4. ASSUME NEW t \in Threads, NEW i \in Numbers, Age(t, i) PROVE TypeOK'
  <2>1. ConnType' /\ opened' = opened /\ RunType' /\ FaultType' /\ TaskType'
    BY <1>0, <1>4, SameConnections DEF Age, RunType, FaultType, TaskType
  <2>2. DataType'
    BY <1>0, <1>4 DEF Age, DataType
  <2> QED BY <2>1, <2>2, TypePartsNext
<1> QED BY <1>1, <1>2, <1>3, <1>4

LEMMA NextType == ASSUME TypeOK, [Next]_vars PROVE TypeOK'
<1>1. CASE UNCHANGED vars
  BY <1>1 DEF vars, connections, data, TypeOK
<1>2. CASE Next
  BY <1>2, RunStepType, TaskStepType, OtherStepType DEF Next
<1> QED BY <1>1, <1>2

-----------------------------------------------------------------------------
(* The store: what each step does to the checkpoints and their writes.     *)
LEMMA BlobsStayNext ==
  ASSUME TypeOK, BlobsStay, Next
  PROVE  BlobsStay'
<1>0. /\ run \in [Runs -> Run] /\ \A r \in Runs : run[r] \in Run
      /\ DataType
  BY TypeParts DEF RunType
<1>1. ASSUME NEW r \in Runs, NEW t \in Threads, StartRun(r, t) PROVE BlobsStay'
  <2>1. \A q \in Runs : run'[q].base = run[q].base /\ (q # r => run'[q] = run[q])
    BY <1>0, <1>1 DEF StartRun
  <2>2. run[r].base = 0 /\ run'[r].thread \in Threads
    BY <1>0, <1>1, UnusedIsRun DEF StartRun, Run
  <2> QED BY <1>0, <1>1, <2>1, <2>2 DEF BlobsStay, StartRun, data, DataType
<1>2. ASSUME NEW r \in Runs, ConnectRun(r) PROVE BlobsStay'
  <2>1. \A q \in Runs : \/ run'[q].base = run[q].base /\ run'[q].thread = run[q].thread
                        \/ run'[q].base = 0 /\ run'[q].thread \in Threads
    <3>1. CASE run' = [run EXCEPT ![r].pc = "read", ![r].conn = opened']
      BY <1>0, <3>1
    <3>2. CASE run' = [run EXCEPT ![r] = Unused]
      BY <1>0, <3>2, UnusedIsRun
    <3> QED BY <1>2, <3>1, <3>2 DEF ConnectRun
  <2>2. UNCHANGED <<stored, blobs, blobOf, last>>
    BY <1>2 DEF ConnectRun, data
  <2>3. ASSUME NEW q \in Runs PROVE run'[q].base <= last'[run'[q].thread]
    <3>1. \A t \in Threads : 0 <= last[t]
      BY <1>0 DEF DataType
    <3> QED BY <2>1, <2>2, <3>1 DEF BlobsStay
  <2> QED BY <2>2, <2>3 DEF BlobsStay
<1>3. ASSUME NEW r \in Runs, ReadThread(r) PROVE BlobsStay'
  <2>1. PICK i \in 0..MaxCheckpoints :
          /\ i \in {0} \cup stored[run[r].thread]
          /\ run' = [run EXCEPT ![r].pc = "write", ![r].base = i]
    BY <1>3 DEF ReadThread, IsNewest
  <2>2. i <= last[run[r].thread]
    BY <1>0, <2>1 DEF BlobsStay, DataType, Run
  <2>3. \A q \in Runs : run'[q].base <= last[run'[q].thread]
    BY <1>0, <2>1, <2>2 DEF BlobsStay
  <2> QED BY <1>3, <2>3 DEF BlobsStay, ReadThread, data
<1>4. ASSUME NEW r \in Runs, PutWrites(r) PROVE BlobsStay'
  BY <1>4 DEF BlobsStay, PutWrites
<1>5. ASSUME NEW r \in Runs, PutCheckpoint(r) PROVE BlobsStay'
  <2> DEFINE t == run[r].thread
             n == last[t] + 1
  <2>1. /\ t \in Threads /\ n \in Numbers /\ last[t] \in Nat /\ n = last[t] + 1
        /\ run[r].base \in 0..last[t]
    BY <1>0, <1>5 DEF PutCheckpoint, Run, DataType, Numbers, BlobsStay
  <2>2. /\ last' = [last EXCEPT ![t] = n] /\ stored' = [stored EXCEPT ![t] = @ \cup {n}]
        /\ run' = [run EXCEPT ![r].base = n]
    BY <1>5 DEF PutCheckpoint
  <2>3. PICK b \in {n} \cup (IF run[r].base = 0 THEN {} ELSE {blobOf[t][run[r].base]}) :
          /\ blobOf' = [blobOf EXCEPT ![t][n] = b]
          /\ blobs' = [blobs EXCEPT ![t] = IF b = n THEN @ \cup {n} ELSE @]
    BY <1>5 DEF PutCheckpoint
  <2>4. b \in blobs'[t] /\ \A u \in Threads : blobs[u] \subseteq blobs'[u]
    <3>1. CASE b = n
      BY <1>0, <2>1, <2>3, <3>1 DEF DataType
    <3>2. CASE b # n
      <4>1. run[r].base \in 1..last[t] /\ b = blobOf[t][run[r].base]
        BY <2>1, <2>3, <3>2
      <4>2. b \in blobs[t]
        BY <2>1, <4>1 DEF BlobsStay
      <4> QED BY <1>0, <2>1, <2>3, <3>2, <4>2 DEF DataType
    <3> QED BY <3>1, <3>2
  <2> HIDE DEF n, t
  <2>5. \A u \in Threads : stored'[u] \subseteq 1..last'[u]
    BY <1>0, <2>1, <2>2 DEF BlobsStay, DataType
  <2>6. ASSUME NEW u \in Threads, NEW i \in 1..last'[u] PROVE blobOf'[u][i] \in blobs'[u]
    <3>1. CASE u = t /\ i = n
      BY <1>0, <2>1, <2>3, <2>4, <3>1 DEF DataType
    <3>2. CASE ~(u = t /\ i = n)
      <4>1. i \in 1..last[u]
        BY <1>0, <2>1, <2>2, <3>2 DEF DataType
      <4>2. blobOf'[u][i] = blobOf[u][i]
        BY <1>0, <2>1, <2>3, <3>2 DEF DataType
      <4> QED BY <2>4, <4>1, <4>2 DEF BlobsStay
    <3> QED BY <3>1, <3>2
  <2>7. ASSUME NEW q \in Runs PROVE run'[q].base <= last'[run'[q].thread]
    <3>1. CASE q = r
      <4>1. run'[r].base = n /\ run'[r].thread = t
        BY <1>0, <2>2 DEF t
      <4>2. last'[t] = n
        BY <1>0, <2>1, <2>2 DEF DataType
      <4> QED BY <3>1, <4>1, <4>2, <2>1
    <3>2. CASE q # r
      <4>1. run'[q] = run[q] /\ run[q].base <= last[run[q].thread]
            /\ run[q].thread \in Threads /\ run[q].base \in Nat
        BY <1>0, <2>2, <3>2 DEF BlobsStay, Run
      <4>2. last[run[q].thread] <= last'[run[q].thread] /\ last[run[q].thread] \in Nat
            /\ last'[run[q].thread] \in Nat
        BY <1>0, <2>1, <2>2, <4>1 DEF DataType
      <4> QED BY <4>1, <4>2
    <3> QED BY <3>1, <3>2
  <2> QED BY <2>5, <2>6, <2>7 DEF BlobsStay
<1>6. ASSUME NEW r \in Runs, EndRun(r) PROVE BlobsStay'
  <2>1. \A q \in Runs : run'[q] = run[q] \/ (run'[q].base = 0 /\ run'[q].thread \in Threads)
    BY <1>0, <1>6, UnusedIsRun DEF EndRun
  <2> QED BY <1>0, <1>6, <2>1 DEF BlobsStay, EndRun, data, DataType
<1>7. CASE TaskStep
  <2>1. UNCHANGED <<run, blobs, blobOf, last>> /\ \A t \in Threads : stored'[t] \subseteq stored[t]
    BY <1>7, <1>0 DEF TaskStep, StartRound, ConnectTask, CountExpired, DeleteWrites,
      DeleteCheckpoints, StatementFails, data
  <2> QED BY <2>1 DEF BlobsStay
<1>8. CASE Startup \/ (\E c \in alive : Drop(c)) \/ (\E t \in Threads : \E i \in Numbers : Age(t, i))
  <2>1. UNCHANGED <<run, blobs, blobOf, last, stored>>
    BY <1>8 DEF Startup, Drop, Age, data
  <2> QED BY <2>1 DEF BlobsStay
<1>9. CASE Stop
  <2>1. \A q \in Runs : run'[q].base = 0 /\ run'[q].thread \in Threads
    BY <1>9, UnusedIsRun DEF Stop
  <2> QED BY <1>0, <1>9, <2>1 DEF Stop, BlobsStay, data, DataType
<1> QED BY <1>1, <1>2, <1>3, <1>4, <1>5, <1>6, <1>7, <1>8, <1>9 DEF Next, RunStep

LEMMA OnlyOldIsDoomedNext ==
  ASSUME TypeOK, OnlyOldIsDoomed, Next
  PROVE  OnlyOldIsDoomed'
<1>0. DataType /\ task \in Task
  BY TypeParts DEF TaskType
<1>1. \A t \in Threads : old[t] \subseteq old'[t]
  <2>1. ASSUME NEW t \in Threads, NEW i \in Numbers, Age(t, i)
        PROVE  \A u \in Threads : old[u] \subseteq old'[u]
    BY <1>0, <2>1 DEF Age, DataType
  <2>2. CASE old' = old
    BY <2>2
  <2> QED BY <2>1, <2>2 DEF Next, RunStep, StartRun, ConnectRun, ReadThread, PutWrites, PutCheckpoint,
        EndRun, TaskStep, StartRound, ConnectTask, CountExpired, DeleteWrites, DeleteCheckpoints,
        StatementFails, Startup, Stop, Drop, data
<1>2. \/ task' = Round \/ task' = Wait \/ task' = NoTask \/ task'.doomed = task.doomed
  BY <1>0 DEF Next, RunStep, StartRun, ConnectRun, ReadThread, PutWrites, PutCheckpoint, EndRun,
    TaskStep, StartRound, ConnectTask, CountExpired, DeleteWrites, DeleteCheckpoints,
    StatementFails, Startup, Stop, Drop, Age, Task
<1> QED BY <1>1, <1>2, RoundIsTask, NoTaskIsTask DEF OnlyOldIsDoomed

(* Writes come only with PutWrites, and late writes are never forgotten.   *)
LEMMA DoomedLostWritesNext ==
  ASSUME TypeOK, DoomedLostWrites, Next
  PROVE  DoomedLostWrites'
<1>0. DataType /\ task \in Task /\ run \in [Runs -> Run]
  BY TypeParts DEF TaskType, RunType
<1>1. ASSUME NEW r \in Runs, PutWrites(r) PROVE DoomedLostWrites'
  <2>1. run[r].thread \in Threads /\ task' = task
    BY <1>0, <1>1 DEF PutWrites, Run
  <2>2. ASSUME NEW t \in Threads, Deleting PROVE writes'[t] \cap task.doomed[t] \subseteq late'[t]
    BY <1>0, <1>1, <2>1, <2>2 DEF PutWrites, DoomedLostWrites, DataType
  <2> QED BY <2>1, <2>2 DEF DoomedLostWrites, Deleting
<1>2. CASE DeleteWrites
  <2>1. /\ \A t \in Threads : writes'[t] \cap task.doomed[t] = {}
        /\ task' = [task EXCEPT !.pc = "delete_checkpoints"]
    BY <1>2 DEF DeleteWrites
  <2>2. task'.doomed = task.doomed
    BY <1>0, <2>1 DEF Task
  <2> QED BY <2>1, <2>2 DEF DoomedLostWrites
<1>3. CASE UNCHANGED <<task, writes, late>>
  BY <1>3 DEF DoomedLostWrites, Deleting
<1>4. CASE task'.pc # "delete_checkpoints"
  BY <1>4 DEF DoomedLostWrites, Deleting
<1>5. CASE TaskStep
  <2>1. CASE StartRound \/ StatementFails \/ DeleteCheckpoints
    <3>1. task'.pc # "delete_checkpoints"
      BY <2>1, RoundIsTask, NoTaskIsTask DEF StartRound, StatementFails, DeleteCheckpoints
    <3> QED BY <3>1, <1>4
  <2>2. CASE ConnectTask \/ CountExpired
    <3>1. task'.pc # "delete_checkpoints"
      BY <2>2, <1>0, NoTaskIsTask DEF ConnectTask, CountExpired, Task
    <3> QED BY <3>1, <1>4
  <2> QED BY <1>5, <1>2, <2>1, <2>2 DEF TaskStep
<1>6. CASE Startup \/ Stop
  <2>1. task'.pc # "delete_checkpoints"
    BY <1>6, RoundIsTask, NoTaskIsTask DEF Startup, Stop
  <2> QED BY <2>1, <1>4
<1>7. CASE \E r \in Runs : ConnectRun(r) \/ ReadThread(r) \/ PutCheckpoint(r) \/ EndRun(r)
  BY <1>7, <1>3 DEF ConnectRun, ReadThread, PutCheckpoint, EndRun, data
<1>8. CASE \/ \E c \in alive : Drop(c)
           \/ \E t \in Threads : (\E r \in Runs : StartRun(r, t)) \/ (\E i \in Numbers : Age(t, i))
  BY <1>8, <1>3 DEF Drop, StartRun, Age, data
<1> QED BY <1>1, <1>5, <1>6, <1>7, <1>8 DEF Next, RunStep

LEMMA OrphansAreLateNext ==
  ASSUME TypeOK, DoomedLostWrites, OrphansAreLate, Next
  PROVE  OrphansAreLate'
<1>0. DataType /\ task \in Task /\ run \in [Runs -> Run]
  BY TypeParts DEF TaskType, RunType
<1>1. ASSUME NEW r \in Runs, PutWrites(r) PROVE OrphansAreLate'
  <2>1. run[r].thread \in Threads /\ stored' = stored
    BY <1>0, <1>1 DEF PutWrites, Run
  <2> QED BY <1>0, <1>1, <2>1 DEF PutWrites, OrphansAreLate, DataType
<1>2. ASSUME NEW r \in Runs, PutCheckpoint(r) PROVE OrphansAreLate'
  <2>1. run[r].thread \in Threads /\ writes' = writes /\ late' = late
    BY <1>0, <1>2 DEF PutCheckpoint, Run
  <2>2. stored' = [stored EXCEPT ![run[r].thread] = @ \cup {last[run[r].thread] + 1}]
    BY <1>2 DEF PutCheckpoint
  <2>3. \A t \in Threads : stored[t] \subseteq stored'[t]
    BY <1>0, <2>1, <2>2 DEF DataType
  <2> QED BY <2>1, <2>3 DEF OrphansAreLate
<1>3. CASE DeleteWrites
  BY <1>3 DEF DeleteWrites, OrphansAreLate
<1>4. CASE DeleteCheckpoints
  BY <1>4 DEF DeleteCheckpoints, OrphansAreLate, DoomedLostWrites, Deleting
<1>5. CASE UNCHANGED <<stored, writes, late>>
  BY <1>5 DEF OrphansAreLate
<1>6. CASE StartRound \/ ConnectTask \/ CountExpired \/ StatementFails \/ Startup \/ Stop
  BY <1>6, <1>5 DEF StartRound, ConnectTask, CountExpired, StatementFails, Startup, Stop, data
<1>7. CASE \E r \in Runs : ConnectRun(r) \/ ReadThread(r) \/ EndRun(r)
  BY <1>7, <1>5 DEF ConnectRun, ReadThread, EndRun, data
<1>8. CASE \/ \E c \in alive : Drop(c)
           \/ \E t \in Threads : (\E r \in Runs : StartRun(r, t)) \/ (\E i \in Numbers : Age(t, i))
  BY <1>8, <1>5 DEF Drop, StartRun, Age, data
<1> QED BY <1>1, <1>2, <1>3, <1>4, <1>6, <1>7, <1>8 DEF Next, RunStep, TaskStep

LEMMA StoreInvNext == ASSUME TypeOK, StoreInv, [Next]_vars PROVE StoreInv'
<1>1. CASE UNCHANGED vars
  BY <1>1 DEF vars, connections, data, StoreInv, BlobsStay, OnlyOldIsDoomed, DoomedLostWrites,
    OrphansAreLate, Deleting
<1>2. CASE Next
  BY <1>2, BlobsStayNext, OnlyOldIsDoomedNext, DoomedLostWritesNext, OrphansAreLateNext DEF StoreInv
<1> QED BY <1>1, <1>2

-----------------------------------------------------------------------------
(* The connections.                                                        *)
LEMMA SomeRuns ==
  /\ Cardinality(Runs) \in Nat
  /\ \A S \in SUBSET Runs :
       /\ Cardinality(S) \in Nat /\ Cardinality(S) <= Cardinality(Runs)
       /\ \A r \in S : Cardinality(S \ {r}) = Cardinality(S) - 1
<1>1. ASSUME NEW S \in SUBSET Runs
      PROVE  IsFiniteSet(S) /\ Cardinality(S) \in Nat /\ Cardinality(S) <= Cardinality(Runs)
  BY RunsAssumption, FS_Subset, FS_CardinalityType
<1>2. ASSUME NEW S \in SUBSET Runs, NEW r \in S PROVE Cardinality(S \ {r}) = Cardinality(S) - 1
  BY <1>1, FS_RemoveElement
<1> QED BY <1>1, <1>2, RunsAssumption, FS_CardinalityType

(* What a caller that opens one leaves, whoever it is.                     *)
LEMMA ServedCaller ==
  ASSUME TypeOK, NobodyElseConnects, Open,
         \/ Cardinality(Connecting') + 1 = Cardinality(Connecting) /\ task' = task
         \/ Connecting' = Connecting /\ task.pc = "connect" /\ task'.pc # "connect",
         Cardinality(Connecting) \in Nat, Cardinality(Connecting') \in Nat,
         Cardinality(Connecting) <= Cardinality(Runs), Cardinality(Runs) \in Nat
  PROVE  NobodyElseConnects'
<1>1. opened \in Nat /\ opened' = opened + 1 /\ saver' = opened + 1
  BY DEF TypeOK, Open
<1> DEFINE w == IF task.pc = "connect" THEN 1 ELSE 0
           v == IF task'.pc = "connect" THEN 1 ELSE 0
<1>2. opened + Cardinality(Connecting) + w <= Cardinality(Runs) + 1
  BY <1>1 DEF NobodyElseConnects
<1>3. w \in 0..1 /\ v \in 0..1 /\ Cardinality(Connecting') + v + 1 = Cardinality(Connecting) + w
  OBVIOUS
<1> HIDE DEF w, v
<1>4. opened' + Cardinality(Connecting') + v <= Cardinality(Runs) + 1
  BY <1>1, <1>2, <1>3
<1> QED BY <1>1, <1>4 DEF NobodyElseConnects, v

(* Nobody comes to wait for a connection once there is one.                *)
LEMMA NobodyComes ==
  ASSUME TypeOK, NobodyElseConnects, saver' = saver, opened' = opened,
         saver # 0 => Connecting' \subseteq Connecting /\ (task'.pc = "connect" => task.pc = "connect")
  PROVE  NobodyElseConnects'
<1>1. CASE saver = 0
  BY <1>1 DEF NobodyElseConnects
<1>2. CASE saver # 0
  <2>1. Connecting \in SUBSET Runs /\ Connecting' \in SUBSET Connecting
    BY <1>2 DEF Connecting
  <2>2. IsFiniteSet(Connecting)
    BY <2>1, RunsAssumption, FS_Subset
  <2>3. /\ Cardinality(Connecting') <= Cardinality(Connecting) /\ Cardinality(Connecting') \in Nat
        /\ Cardinality(Connecting) \in Nat /\ Cardinality(Runs) \in Nat
    BY <2>1, <2>2, FS_Subset, SomeRuns
  <2> DEFINE w == IF task.pc = "connect" THEN 1 ELSE 0
             v == IF task'.pc = "connect" THEN 1 ELSE 0
  <2>4. w \in 0..1 /\ v \in 0..1 /\ v <= w
    BY <1>2
  <2>5. opened + Cardinality(Connecting) + w <= Cardinality(Runs) + 1 /\ opened \in Nat
    BY <1>2 DEF NobodyElseConnects, TypeOK
  <2> HIDE DEF w, v
  <2>6. opened + Cardinality(Connecting') + v <= Cardinality(Runs) + 1
    BY <2>3, <2>4, <2>5
  <2> QED BY <1>2, <2>6 DEF NobodyElseConnects, v
<1> QED BY <1>1, <1>2

LEMMA NobodyElseConnectsNext ==
  ASSUME TypeOK, NobodyElseConnects, [Next]_vars
  PROVE  NobodyElseConnects'
<1>0. task \in Task /\ run \in [Runs -> Run] /\ (\A r \in Runs : run[r] \in Run)
  BY TypeParts DEF TaskType, RunType
<1>1. ASSUME NEW r \in Runs, NEW t \in Threads, StartRun(r, t) PROVE NobodyElseConnects'
  <2>1. saver # 0 => \A q \in Runs : run'[q].pc = "connect" => run[q].pc = "connect"
    BY <1>0, <1>1 DEF StartRun, Known, Run
  <2> QED BY <1>1, <2>1, NobodyComes DEF StartRun, connections, Connecting
<1>2. ASSUME NEW r \in Runs, ConnectRun(r) PROVE NobodyElseConnects'
  <2>1. r \in Connecting /\ task' = task
    BY <1>2 DEF ConnectRun, Connecting
  <2>2. CASE Open /\ run' = [run EXCEPT ![r].pc = "read", ![r].conn = opened']
    <3>1. Connecting' = Connecting \ {r}
      BY <1>0, <2>2 DEF Connecting
    <3>2. Connecting \in SUBSET Runs /\ Connecting' \in SUBSET Runs
      BY <3>1 DEF Connecting
    <3>3. /\ Cardinality(Connecting') = Cardinality(Connecting) - 1
          /\ Cardinality(Connecting) \in Nat /\ Cardinality(Connecting') \in Nat
          /\ Cardinality(Connecting) <= Cardinality(Runs) /\ Cardinality(Runs) \in Nat
      BY <2>1, <3>1, <3>2, SomeRuns
    <3> QED BY <2>1, <2>2, <3>3, ServedCaller
  <2>3. CASE run' = [run EXCEPT ![r] = Unused] /\ UNCHANGED connections
    <3>1. Connecting' \subseteq Connecting
      BY <1>0, <2>3, UnusedIsRun DEF Connecting
    <3> QED BY <2>1, <2>3, <3>1, NobodyComes DEF connections
  <2> QED BY <1>2, <2>2, <2>3 DEF ConnectRun
<1>3. ASSUME NEW r \in Runs, ReadThread(r) \/ PutWrites(r) \/ PutCheckpoint(r) \/ EndRun(r)
      PROVE  NobodyElseConnects'
  <2>1. \A q \in Runs : run'[q].pc = "connect" => run[q].pc = "connect"
    <3>1. CASE ReadThread(r)
      BY <1>0, <3>1 DEF ReadThread
    <3>2. CASE PutWrites(r) \/ EndRun(r)
      BY <1>0, <3>2, UnusedIsRun DEF PutWrites, EndRun
    <3>3. CASE PutCheckpoint(r)
      <4>1. PICK n : run' = [run EXCEPT ![r].base = n]
        BY <3>3 DEF PutCheckpoint
      <4> QED BY <1>0, <4>1
    <3> QED BY <1>3, <3>1, <3>2, <3>3
  <2> QED BY <1>3, <2>1, NobodyComes
        DEF ReadThread, PutWrites, PutCheckpoint, EndRun, connections, Connecting
<1>4. CASE ConnectTask
  <2>1. run' = run /\ task.pc = "connect" /\ Connecting' = Connecting /\ Connecting \in SUBSET Runs
    BY <1>4 DEF ConnectTask, Connecting
  <2>2. CASE Open /\ task' = [task EXCEPT !.pc = "count", !.conn = opened']
    <3>1. task'.pc # "connect"
      BY <1>0, <2>2 DEF Task
    <3> QED BY <2>1, <2>2, <3>1, SomeRuns, ServedCaller
  <2>3. CASE task' = Wait /\ UNCHANGED connections
    BY <2>1, <2>3, NobodyComes DEF connections
  <2> QED BY <1>4, <2>2, <2>3 DEF ConnectTask
<1>5. CASE StartRound \/ CountExpired \/ DeleteWrites \/ DeleteCheckpoints \/ StatementFails \/ Startup
  <2>1. saver # 0 => task'.pc # "connect"
    BY <1>0, <1>5, RoundIsTask, NoTaskIsTask DEF StartRound, CountExpired, DeleteWrites,
      DeleteCheckpoints, StatementFails, Startup, Task
  <2>2. run' = run /\ saver' = saver /\ opened' = opened
    BY <1>5 DEF StartRound, CountExpired, DeleteWrites, DeleteCheckpoints, StatementFails,
      Startup, connections
  <2>3. Connecting' = Connecting
    BY <2>2 DEF Connecting
  <2> QED BY <2>1, <2>2, <2>3, NobodyComes
<1>6. CASE Stop
  BY <1>6 DEF Stop, NobodyElseConnects
<1>7. CASE \/ UNCHANGED vars
           \/ \E c \in alive : Drop(c)
           \/ \E t \in Threads : \E i \in Numbers : Age(t, i)
  <2>1. UNCHANGED <<run, task, saver, opened>>
    BY <1>7 DEF vars, Drop, Age, connections
  <2> QED BY <2>1, NobodyComes DEF Connecting
<1> QED BY <1>1, <1>2, <1>3, <1>4, <1>5, <1>6, <1>7 DEF Next, RunStep, TaskStep

-----------------------------------------------------------------------------
LEMMA Inductive == IInv /\ [Next]_vars => IInv'
BY NextType, StoreInvNext, NobodyElseConnectsNext DEF IInv

LEMMA InductiveInvariant == Spec => []IInv
BY InitIInv, Inductive, PTL DEF Spec

(* Numbers, places and sets keep the kinds of their tables, and no run     *)
(* holds a connection the process has not opened.                          *)
THEOREM TypeCorrectness == Spec => []TypeOK
<1>1. IInv => TypeOK
  BY DEF IInv
<1> QED BY <1>1, InductiveInvariant, PTL

(* However the cleanup overlaps with runs and wherever it is cut off, a    *)
(* checkpoint that is left has its values, and writes are left alone only  *)
(* by runs that answered a checkpoint which was going or gone.             *)
THEOREM StoreStaysSound == Spec => []StoreIsSound
<1>1. IInv => StoreIsSound
  BY DEF IInv, StoreInv, BlobsStay, OrphansAreLate, StoreIsSound
<1> QED BY <1>1, InductiveInvariant, PTL

(* A process never opens more connections than there are callers that can  *)
(* find the singleton empty together: the runs and the cleanup task.       *)
THEOREM FewConnect == Spec => []OnlyFirstCallersConnect
<1>1. ASSUME IInv PROVE OnlyFirstCallersConnect
  <2>1. Connecting \in SUBSET Runs /\ opened \in Nat
    BY <1>1 DEF Connecting, IInv, TypeOK
  <2>2. Cardinality(Connecting) \in Nat /\ Cardinality(Runs) \in Nat
    BY <2>1, SomeRuns
  <2> QED BY <1>1, <2>1, <2>2 DEF IInv, NobodyElseConnects, OnlyFirstCallersConnect
<1> QED BY <1>1, InductiveInvariant, PTL

(* No step, of the cleanup or of a run, takes a checkpoint or its writes   *)
(* from a thread before they are older than the TTL.                       *)
THEOREM FreshStays == Spec => FreshIsUntouched
<1>1. ASSUME IInv, [Next]_vars
      PROVE  [\A t \in Threads : \A i \in stored[t] \ old[t] :
                i \in stored'[t] /\ (i \in writes[t] => i \in writes'[t])]_vars
  <2>0. DataType /\ run \in [Runs -> Run] /\ OnlyOldIsDoomed
    BY <1>1, TypeParts DEF IInv, StoreInv, RunType
  <2> SUFFICES ASSUME Next, NEW t \in Threads, NEW i \in stored[t] \ old[t]
               PROVE  i \in stored'[t] /\ (i \in writes[t] => i \in writes'[t])
    BY <1>1
  <2>1. i \notin task.doomed[t]
    BY <2>0 DEF OnlyOldIsDoomed
  <2>2. CASE UNCHANGED <<stored, writes>>
    BY <2>2
  <2>3. ASSUME NEW r \in Runs, PutWrites(r) \/ PutCheckpoint(r)
        PROVE  i \in stored'[t] /\ (i \in writes[t] => i \in writes'[t])
    <3>1. stored[t] \subseteq stored'[t]
      <4>1. PICK u, n : stored' = [stored EXCEPT ![u] = @ \cup {n}] \/ stored' = stored
        BY <2>3 DEF PutWrites, PutCheckpoint
      <4> QED BY <2>0, <4>1 DEF DataType
    <3>2. writes[t] \subseteq writes'[t]
      <4>1. PICK u, n : writes' = [writes EXCEPT ![u] = @ \cup {n}] \/ writes' = writes
        BY <2>3 DEF PutWrites, PutCheckpoint
      <4> QED BY <2>0, <4>1 DEF DataType
    <3> QED BY <3>1, <3>2
  <2>4. CASE DeleteWrites \/ DeleteCheckpoints
    BY <2>1, <2>4 DEF DeleteWrites, DeleteCheckpoints
  <2> QED BY <2>2, <2>3, <2>4 DEF Next, RunStep, TaskStep, StartRun, ConnectRun, ReadThread, EndRun,
        StartRound, ConnectTask, CountExpired, StatementFails, Startup, Stop, Drop, Age, data
<1> QED BY <1>1, InductiveInvariant, PTL DEF Spec, FreshIsUntouched
=============================================================================
