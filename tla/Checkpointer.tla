---------------------------- MODULE Checkpointer ----------------------------
(***************************************************************************)
(* agents/checkpointer.py with its callers: the connection all graphs are  *)
(* meant to share, which first callers open while others do the same; the  *)
(* task of CheckpointerManager, which deletes the checkpoints that are     *)
(* older than the TTL and their writes in two statements of their own; and *)
(* graph runs that read and write the checkpoints of their threads         *)
(* meanwhile.  The application starts and stops (main.py lifespan), and    *)
(* the database may drop a connection.                                     *)
(*                                                                         *)
(* Checkpoints of a thread are numbered.  One holds its own blob or the    *)
(* blob of an earlier checkpoint, when the step changed nothing.           *)
(***************************************************************************)
EXTENDS Naturals, FiniteSets

CONSTANTS
  Threads, Runs,   (* applications, and graph runs that overlap              *)
  MaxCheckpoints,  (* bound: checkpoints of a thread                         *)
  MaxFaults        (* bound: failed connects, drops and stops                *)

ASSUME BoundsAssumption == {MaxCheckpoints, MaxFaults} \subseteq Nat
ASSUME ThreadsAssumption == Threads # {}
ASSUME RunsAssumption == IsFiniteSet(Runs)

VARIABLES
  up,        (* the application runs                                         *)
  alive,     (* the connections that work                                    *)
  opened,    (* connections this process has opened                          *)
  saver,     (* the connection of _checkpointer; 0: none yet                 *)
  run,       (* the graph runs                                               *)
  task,      (* the cleanup task: where it is, the connection its round has  *)
             (* taken, and the rows before its cutoff                        *)
  stored,    (* checkpoints of each thread                                   *)
  writes,    (* checkpoints with pending writes                              *)
  blobs,     (* blobs of each thread                                         *)
  blobOf,    (* the blob a checkpoint refers to                              *)
  last,      (* number of the last checkpoint                                *)
  old,       (* checkpoints older than the TTL                               *)
  late,      (* writes that came for a checkpoint while it was being deleted, *)
             (* or after                                                     *)
  faults

connections == <<up, alive, opened, saver>>
data == <<stored, writes, blobs, blobOf, last, old, late>>
vars == <<connections, run, task, data, faults>>

Numbers == 1..MaxCheckpoints
Unused == [pc |-> "idle", thread |-> CHOOSE t \in Threads : TRUE, conn |-> 0, base |-> 0]
NoTask == [pc |-> "none", conn |-> 0, doomed |-> [t \in Threads |-> {}]]

Init ==
  /\ up = FALSE /\ alive = {} /\ opened = 0 /\ saver = 0
  /\ run = [r \in Runs |-> Unused]
  /\ task = NoTask
  /\ stored = [t \in Threads |-> {}]
  /\ writes = [t \in Threads |-> {}]
  /\ blobs = [t \in Threads |-> {}]
  /\ blobOf = [t \in Threads |-> [i \in Numbers |-> 0]]
  /\ last = [t \in Threads |-> 0]
  /\ old = [t \in Threads |-> {}]
  /\ late = [t \in Threads |-> {}]
  /\ faults = 0

-----------------------------------------------------------------------------
(* get_checkpointer tests the singleton, and a caller that finds none      *)
(* awaits a connection of its own and then sets it, found or not.          *)
Known_Never == FALSE
Known == saver # 0

Open ==
  /\ opened' = opened + 1
  /\ alive' = alive \cup {opened'}
  /\ saver' = opened'
  /\ UNCHANGED up

Fault == faults < MaxFaults /\ faults' = faults + 1

-----------------------------------------------------------------------------
(* A graph run: the checkpointer, the thread's latest checkpoint, the      *)
(* writes and the checkpoint of each step.                                 *)
StartRun(r, t) ==
  /\ up /\ run[r] = Unused
  /\ run' = [run EXCEPT ![r].thread = t, ![r].conn = saver,
                         ![r].pc = IF Known THEN "read" ELSE "connect"]
  /\ UNCHANGED <<connections, task, data, faults>>

ConnectRun(r) ==
  /\ run[r].pc = "connect"
  /\ \/ Open /\ run' = [run EXCEPT ![r].pc = "read", ![r].conn = opened'] /\ UNCHANGED faults
     \/ Fault /\ run' = [run EXCEPT ![r] = Unused] /\ UNCHANGED connections
  /\ UNCHANGED <<task, data>>

IsNewest(t, i) == i \in {0} \cup stored[t] /\ \A j \in stored[t] : j <= i

ReadThread(r) ==
  /\ run[r].pc = "read" /\ run[r].conn \in alive
  /\ \E i \in 0..MaxCheckpoints :
       /\ IsNewest(run[r].thread, i)
       /\ run' = [run EXCEPT ![r].pc = "write", ![r].base = i]
  /\ UNCHANGED <<connections, task, data, faults>>

Deleting == task.pc = "delete_checkpoints"

(* The writes of a step, or the answer to an interrupt, belong to the      *)
(* checkpoint the step starts from.                                        *)
PutWrites(r) ==
  LET t == run[r].thread
      i == run[r].base
  IN /\ run[r].pc = "write" /\ run[r].conn \in alive /\ i # 0
     /\ i \notin writes[t]
     /\ writes' = [writes EXCEPT ![t] = @ \cup {i}]
     /\ late' = [late EXCEPT ![t] =
          IF i \notin stored[t] \/ (Deleting /\ i \in task.doomed[t]) THEN @ \cup {i} ELSE @]
     /\ UNCHANGED <<connections, run, task, stored, blobs, blobOf, last, old, faults>>

PutCheckpoint(r) ==
  LET t == run[r].thread
      n == last[t] + 1
  IN /\ run[r].pc = "write" /\ run[r].conn \in alive /\ last[t] < MaxCheckpoints
     /\ last' = [last EXCEPT ![t] = n]
     /\ stored' = [stored EXCEPT ![t] = @ \cup {n}]
     /\ \E b \in {n} \cup (IF run[r].base = 0 THEN {} ELSE {blobOf[t][run[r].base]}) :
          /\ blobOf' = [blobOf EXCEPT ![t][n] = b]
          /\ blobs' = [blobs EXCEPT ![t] = IF b = n THEN @ \cup {n} ELSE @]
     /\ run' = [run EXCEPT ![r].base = n]
     /\ UNCHANGED <<connections, task, writes, old, late, faults>>

EndRun(r) ==
  /\ \/ run[r].pc = "write"
     \/ run[r].pc = "read" /\ run[r].conn \notin alive
  /\ run' = [run EXCEPT ![r] = Unused]
  /\ UNCHANGED <<connections, task, data, faults>>

-----------------------------------------------------------------------------
(* CheckpointerManager._cleanup_loop.  An error ends a round, not the      *)
(* task: it waits for the interval and tries again.                        *)
Wait == [NoTask EXCEPT !.pc = "wait"]

(* What lies before the cutoff: the checkpoints older than the TTL when    *)
(* the round begins.                                                       *)
Expired_WholeThreads ==
  [t \in Threads |-> IF old[t] \cap stored[t] = {} THEN {} ELSE stored[t]]
Expired == [t \in Threads |-> old[t] \cap stored[t]]

Round == [pc |-> IF Known THEN "count" ELSE "connect", conn |-> saver, doomed |-> Expired]

StartRound ==
  /\ task.pc = "wait"
  /\ task' = Round
  /\ UNCHANGED <<connections, run, data, faults>>

ConnectTask ==
  /\ task.pc = "connect"
  /\ \/ Open /\ task' = [task EXCEPT !.pc = "count", !.conn = opened'] /\ UNCHANGED faults
     \/ Fault /\ task' = Wait /\ UNCHANGED connections
  /\ UNCHANGED <<run, data>>

CountExpired_OneStays ==
  /\ task.pc = "count" /\ task.conn \in alive
  /\ task' = IF \A t \in Threads : Cardinality(task.doomed[t]) <= 1 THEN Wait
             ELSE [task EXCEPT !.pc = "delete_writes"]
  /\ UNCHANGED <<connections, run, data, faults>>
CountExpired ==
  /\ task.pc = "count" /\ task.conn \in alive
  /\ task' = IF \A t \in Threads : task.doomed[t] = {} THEN Wait
             ELSE [task EXCEPT !.pc = "delete_writes"]
  /\ UNCHANGED <<connections, run, data, faults>>

DeleteWrites ==
  /\ task.pc = "delete_writes" /\ task.conn \in alive
  /\ writes' = [t \in Threads |-> writes[t] \ task.doomed[t]]
  /\ task' = [task EXCEPT !.pc = "delete_checkpoints"]
  /\ UNCHANGED <<connections, run, stored, blobs, blobOf, last, old, late, faults>>

DeleteCheckpoints_WithBlobs ==
  /\ task.pc = "delete_checkpoints" /\ task.conn \in alive
  /\ stored' = [t \in Threads |-> stored[t] \ task.doomed[t]]
  /\ blobs' = [t \in Threads |-> blobs[t] \ task.doomed[t]]
  /\ task' = Wait
  /\ UNCHANGED <<connections, run, writes, blobOf, last, old, late, faults>>
DeleteCheckpoints ==
  /\ task.pc = "delete_checkpoints" /\ task.conn \in alive
  /\ stored' = [t \in Threads |-> stored[t] \ task.doomed[t]]
  /\ task' = Wait
  /\ UNCHANGED <<connections, run, writes, blobs, blobOf, last, old, late, faults>>

(* On a dropped connection each statement raises; the singleton stays.     *)
StatementFails ==
  /\ task.pc \in {"count", "delete_writes", "delete_checkpoints"}
  /\ task.conn \notin alive
  /\ task' = Wait
  /\ UNCHANGED <<connections, run, data, faults>>

-----------------------------------------------------------------------------
Startup ==
  /\ ~up
  /\ up' = TRUE
  /\ task' = Round
  /\ UNCHANGED <<alive, opened, saver, run, data, faults>>

(* A stop cancels the task at whatever it awaits, and a crash leaves the   *)
(* same: the module's globals and the connections go with the process.     *)
Stop_ConnectionsStay ==
  /\ up /\ Fault
  /\ up' = FALSE
  /\ opened' = 0 /\ saver' = 0
  /\ run' = [r \in Runs |-> Unused]
  /\ task' = NoTask
  /\ UNCHANGED <<alive, data>>
Stop ==
  /\ up /\ Fault
  /\ up' = FALSE
  /\ alive' = {} /\ opened' = 0 /\ saver' = 0
  /\ run' = [r \in Runs |-> Unused]
  /\ task' = NoTask
  /\ UNCHANGED data

Drop(c) ==
  /\ c \in alive /\ Fault
  /\ alive' = alive \ {c}
  /\ UNCHANGED <<up, opened, saver, run, task, data>>

Age(t, i) ==
  /\ i \in stored[t] \ old[t]
  /\ \A j \in stored[t] : j < i => j \in old[t]
  /\ old' = [old EXCEPT ![t] = @ \cup {i}]
  /\ UNCHANGED <<connections, run, task, stored, writes, blobs, blobOf, last, late, faults>>

TaskStep ==
  StartRound \/ ConnectTask \/ CountExpired \/ DeleteWrites \/ DeleteCheckpoints \/ StatementFails

RunStep(r) ==
  ConnectRun(r) \/ ReadThread(r) \/ PutWrites(r) \/ PutCheckpoint(r)
    \/ EndRun(r)

Next ==
  \/ Startup \/ Stop \/ TaskStep
  \/ \E c \in alive : Drop(c)
  \/ \E r \in Runs : RunStep(r)
  \/ \E t \in Threads : (\E r \in Runs : StartRun(r, t)) \/ (\E i \in Numbers : Age(t, i))

(* The event loop comes back to every task and run, and the operator       *)
(* starts the application again.                                           *)
Fairness ==
  /\ WF_vars(Startup) /\ WF_vars(TaskStep)
  /\ \A r \in Runs : WF_vars(ConnectRun(r) \/ ReadThread(r) \/ EndRun(r))

Spec == Init /\ [][Next]_vars /\ Fairness

-----------------------------------------------------------------------------
Run == [pc : {"idle", "connect", "read", "write"}, thread : Threads,
        conn : Nat, base : 0..MaxCheckpoints]
Task == [pc : {"none", "wait", "connect", "count", "delete_writes", "delete_checkpoints"},
         conn : Nat, doomed : [Threads -> SUBSET Numbers]]

(* Numbers, places and sets are of the kinds their tables have, and nobody *)
(* holds or keeps alive a connection that this process has not opened.     *)
TypeOK ==
  /\ up \in BOOLEAN /\ opened \in Nat /\ alive \subseteq 1..opened
  /\ saver \in 0..opened
  /\ run \in [Runs -> Run] /\ \A r \in Runs : run[r].conn <= opened
  /\ task \in Task /\ task.conn <= opened
  /\ stored \in [Threads -> SUBSET Numbers] /\ writes \in [Threads -> SUBSET Numbers]
  /\ blobs \in [Threads -> SUBSET Numbers]
  /\ old \in [Threads -> SUBSET Numbers] /\ late \in [Threads -> SUBSET Numbers]
  /\ blobOf \in [Threads -> [Numbers -> 0..MaxCheckpoints]]
  /\ last \in [Threads -> 0..MaxCheckpoints]
  /\ faults \in 0..MaxFaults

(* However the cleanup overlaps with runs, and wherever it is stopped, a   *)
(* checkpoint that is left has its values: those it shares with one that   *)
(* was deleted too (checkpointer.py:166).  And writes are left without     *)
(* their checkpoint only by a run that answered an old checkpoint while    *)
(* the cleanup was deleting it or after.                                   *)
StoreIsSound ==
  \A t \in Threads :
    /\ \A i \in stored[t] : blobOf[t][i] \in blobs[t]
    /\ writes[t] \ stored[t] \subseteq late[t]

(* A process opens at most one connection for each caller that overlaps    *)
(* the first, the cleanup task included, whatever fails or drops later     *)
(* (get_checkpointer).                                                     *)
OnlyFirstCallersConnect == opened <= Cardinality(Runs) + 1

(* A checkpoint and its writes are not touched before they are older than  *)
(* the TTL, also when others of the thread are, or age in the middle of a  *)
(* round.                                                                  *)
FreshIsUntouched ==
  [][\A t \in Threads : \A i \in stored[t] \ old[t] :
       i \in stored'[t] /\ (i \in writes[t] => i \in writes'[t])]_vars

(* With an application that stays up and a shared connection that works,   *)
(* an old checkpoint goes, also one whose writes went in a round that was  *)
(* cut off between its two statements.                                     *)
Healthy == up /\ (saver = 0 \/ saver \in alive)
OldGoes ==
  <>[]Healthy =>
    \A t \in Threads : \A i \in Numbers : i \in old[t] /\ i \in stored[t] ~> i \notin stored[t]
=============================================================================
