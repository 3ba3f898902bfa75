--------------------------- MODULE RecordsProofs ---------------------------
(***************************************************************************)
(* Theorems about Records, for any documents, workers and patches.         *)
(***************************************************************************)
EXTENDS Records, TLAPS

USE DocsAssumption, AbsentAssumption

(* A job that makes a row has put its file there and is the only one to;   *)
(* a job that works on rows has loaded them, and rows stay.                *)
Creators == {"upload", "collect"}

Creating(w) == job[w].op \in Creators /\ job[w].pc = "create"

WorkPcs == {"mark", "parse", "fail", "log", "fetch", "complete", "archive"}

WorksOn(w, d) == d \in job[w].todo \/ (job[w].pc \in WorkPcs /\ job[w].doc = d)

(* And between its two steps a deletion finds the file gone.               *)
Sound(w) ==
  /\ Creating(w) =>
       /\ job[w].doc \in Docs
       /\ row[job[w].doc] = Absent /\ file[job[w].doc] # "none"
       /\ \A v \in Workers : Creating(v) /\ job[v].doc = job[w].doc => v = w
  /\ job[w].pc \in WorkPcs => job[w].doc \in Docs
  /\ \A d \in Docs : WorksOn(w, d) => row[d] # Absent /\ seen[w][d] # Absent
  /\ job[w].pc = "archive" => file[job[w].doc] \in {"missing", "unlinked"}
  /\ job[w].pc = "write" =>
       /\ seenApp[w] # Absent /\ app # Absent
       /\ job[w].op = "patch" => job[w].ask \in Patches

IInv == TypeOK /\ (\A w \in Workers : Sound(w)) /\ FilesMatchRows

(* What a step of w leaves of the other jobs, and how rows and files move. *)
Frame(w) ==
  /\ \A v \in Workers \ {w} : job'[v] = job[v] /\ seen'[v] = seen[v] /\ seenApp'[v] = seenApp[v]
  /\ \A d \in Docs :
       /\ row[d] # Absent => row'[d] # Absent
       /\ row[d] = Absent /\ row'[d] # Absent => Creating(w) /\ job[w].doc = d
       /\ file[d] # "none" => file'[d] # "none"
       /\ file[d] \in {"missing", "unlinked"} => file'[d] = file[d]
       /\ row'[d] # Absent /\ row'[d].processing = "archived" =>
            /\ row[d] # Absent
            /\ row[d].processing = "archived" \/ (job[w].pc = "archive" /\ job[w].doc = d)
  /\ app # Absent => app' # Absent

-----------------------------------------------------------------------------
(* The types, part by part.                                                *)
FileType == file \in [Docs -> {"none", "stored", "missing", "unlinked"}]
RowType == row \in [Docs -> RowTypes \cup {Absent}]
AppType == app \in Applications \cup {Absent} /\ cross \subseteq SUBSET Docs
JobType == job \in [Workers -> Jobs]
SeenType == seen \in [Workers -> [Docs -> RowTypes \cup {Absent}]]
SeenAppType == seenApp \in [Workers -> Applications \cup {Absent}]
BoundsType == jobs \in 0..MaxJobs /\ losses \in 0..MaxLosses /\ hurt \subseteq Docs

LEMMA TypeParts ==
  TypeOK <=> /\ FileType /\ RowType /\ AppType /\ JobType /\ SeenType /\ SeenAppType
             /\ BoundsType
BY DEF TypeOK, FileType, RowType, AppType, JobType, SeenType, SeenAppType, BoundsType

LEMMA TypePartsNext ==
  FileType' /\ RowType' /\ AppType' /\ JobType' /\ SeenType' /\ SeenAppType' /\ BoundsType' => TypeOK'
BY DEF TypeOK, FileType, RowType, AppType, JobType, SeenType, SeenAppType, BoundsType

LEMMA RowsAreRecords ==
  /\ NewRow \in RowTypes /\ NewRow # Absent /\ NewRow.processing = "uploaded"
  /\ \A r \in RowTypes : DOMAIN r = {"processing", "extraction", "validation", "error"}
BY DEF NewRow, RowTypes

LEMMA NewApplicationTyped == NewApplication \in Applications /\ NewApplication # Absent
<1>1. NewApplication \in Applications
  BY DEF NewApplication, Applications, Phases
<1> QED BY <1>1

LEMMA IdleTyped ==
  /\ Idle \in Jobs /\ Idle.op = "none" /\ Idle.pc = "idle" /\ Idle.todo = {}
  /\ Idle.doc = Absent
  /\ NothingSeen \in [Docs -> RowTypes \cup {Absent}]
BY DEF Idle, Job, Jobs, Ops, Pcs, NothingSeen

(* A commit of a record over a stored one, column by column.               *)
LEMMA MergedRow ==
  ASSUME NEW stored \in RowTypes, NEW loaded \in RowTypes, NEW new \in RowTypes
  PROVE  /\ Merged(stored, loaded, new) \in RowTypes
         /\ \A c \in {"processing", "extraction", "validation", "error"} :
              Merged(stored, loaded, new)[c] = IF new[c] # loaded[c] THEN new[c] ELSE stored[c]
<1> DEFINE m == Merged(stored, loaded, new)
<1>1. m = [c \in {"processing", "extraction", "validation", "error"} |->
             IF new[c] # loaded[c] THEN new[c] ELSE stored[c]]
  BY RowsAreRecords DEF Merged
<1>2. m = [processing |-> m.processing, extraction |-> m.extraction,
           validation |-> m.validation, error |-> m.error]
  BY <1>1
<1>3. /\ m.processing \in {stored.processing, new.processing}
      /\ m.extraction \in {stored.extraction, new.extraction}
      /\ m.validation \in {stored.validation, new.validation}
      /\ m.error \in {stored.error, new.error}
  BY <1>1
<1>4. m \in RowTypes
  BY <1>2, <1>3 DEF RowTypes
<1> QED BY <1>1, <1>4

-----------------------------------------------------------------------------
LEMMA FrameKeeps ==
  ASSUME IInv, NEW w \in Workers, Frame(w), TypeOK', Sound(w)'
  PROVE  IInv'
<1>1. ASSUME NEW v \in Workers, v # w PROVE Sound(v)'
  <2>1. job'[v] = job[v] /\ seen'[v] = seen[v] /\ seenApp'[v] = seenApp[v] /\ Sound(v)
    BY <1>1 DEF Frame, IInv
  <2>2. Creating(v)' <=> Creating(v)
    BY <2>1 DEF Creating
  <2>3. ASSUME Creating(v)
        PROVE  /\ job'[v].doc \in Docs
               /\ row'[job'[v].doc] = Absent /\ file'[job'[v].doc] # "none"
    <3>1. job[v].doc \in Docs /\ row[job[v].doc] = Absent /\ file[job[v].doc] # "none"
      BY <2>1, <2>3 DEF Sound
    <3>2. ~(Creating(w) /\ job[w].doc = job[v].doc)
      BY <1>1, <2>1, <2>3 DEF Sound
    <3> QED BY <2>1, <3>1, <3>2 DEF Frame
  <2>4. ASSUME Creating(v), NEW u \in Workers, Creating(u)', job'[u].doc = job'[v].doc PROVE u = v
    <3>1. CASE u = w
      BY <1>1, <2>2, <2>4, <3>1 DEF Sound
    <3>2. CASE u # w
      <4>1. job'[u] = job[u]
        BY <3>2 DEF Frame
      <4>2. Creating(u)
        BY <2>4, <4>1 DEF Creating
      <4> QED BY <2>1, <2>4, <4>1, <4>2 DEF Sound
    <3> QED BY <3>1, <3>2
  <2>5. ASSUME NEW d \in Docs, WorksOn(v, d)' PROVE row'[d] # Absent /\ seen'[v][d] # Absent
    <3>1. WorksOn(v, d)
      BY <2>1, <2>5 DEF WorksOn
    <3> QED BY <2>1, <3>1 DEF Sound, Frame
  <2>6. job'[v].pc \in WorkPcs => job'[v].doc \in Docs
    BY <2>1 DEF Sound
  <2>7. job'[v].pc = "archive" => file'[job'[v].doc] \in {"missing", "unlinked"}
    <3>1. job[v].pc = "archive" => job[v].doc \in Docs /\ file[job[v].doc] \in {"missing", "unlinked"}
      BY <2>1 DEF Sound, WorkPcs
    <3> QED BY <2>1, <3>1 DEF Frame
  <2>8. job'[v].pc = "write" =>
          /\ seenApp'[v] # Absent /\ app' # Absent
          /\ job'[v].op = "patch" => job'[v].ask \in Patches
    BY <2>1 DEF Sound, Frame
  <2> QED BY <2>2, <2>3, <2>4, <2>5, <2>6, <2>7, <2>8 DEF Sound
<1>2. FilesMatchRows'
  <2> SUFFICES ASSUME NEW d \in Docs, row'[d] # Absent
               PROVE  /\ file'[d] # "none"
                      /\ row'[d].processing = "archived" => file'[d] # "stored"
    BY DEF FilesMatchRows, Rows
  <2>1. CASE row[d] # Absent
    <3>1. file[d] # "none" /\ (row[d].processing = "archived" => file[d] # "stored")
      BY <2>1 DEF IInv, FilesMatchRows, Rows
    <3>2. file[d] \in {"none", "stored", "missing", "unlinked"}
      BY DEF IInv, TypeOK
    <3>3. ASSUME row'[d].processing = "archived" PROVE file[d] \in {"missing", "unlinked"}
      <4>1. row[d].processing = "archived" \/ (job[w].pc = "archive" /\ job[w].doc = d)
        BY <3>3 DEF Frame
      <4>2. job[w].pc = "archive" => file[job[w].doc] \in {"missing", "unlinked"}
        BY DEF IInv, Sound
      <4> QED BY <3>1, <3>2, <4>1, <4>2
    <3> QED BY <3>1, <3>3 DEF Frame
  <2>2. CASE row[d] = Absent
    BY <2>2 DEF Frame, IInv, Sound
  <2> QED BY <2>1, <2>2
<1> QED BY <1>1, <1>2 DEF IInv

(* The parts steps are made of.                                            *)
LEMMA BeginTyped ==
  ASSUME TypeOK, NEW w \in Workers, NEW new \in Jobs, Begin(w, new)
  PROVE  /\ JobType' /\ BoundsType' /\ job'[w] = new /\ job[w] = Idle
         /\ \A v \in Workers \ {w} : job'[v] = job[v]
<1>1. JobType' /\ job'[w] = new /\ job[w] = Idle /\ \A v \in Workers \ {w} : job'[v] = job[v]
  BY DEF Begin, TypeOK, JobType
<1>2. BoundsType'
  BY BoundsAssumption DEF Begin, TypeOK, BoundsType
<1> QED BY <1>1, <1>2

LEMMA GotoTyped ==
  ASSUME TypeOK, NEW w \in Workers, NEW pc \in Pcs, Goto(w, pc)
  PROVE  /\ JobType' /\ BoundsType' /\ job'[w].pc = pc /\ job'[w].op = job[w].op
         /\ job'[w].doc = job[w].doc /\ job'[w].todo = job[w].todo /\ job'[w].ask = job[w].ask
         /\ \A v \in Workers \ {w} : job'[v] = job[v]
<1>1. job' = [job EXCEPT ![w].pc = pc] /\ UNCHANGED bounds
  BY DEF Goto
<1>2. JobType /\ BoundsType
  BY TypeParts
<1>3. BoundsType'
  BY <1>1, <1>2 DEF BoundsType, bounds
<1>4. JobType'
  BY <1>1, <1>2 DEF JobType, Jobs
<1>5. job[w] \in Jobs
  BY <1>2 DEF JobType
<1> QED BY <1>1, <1>2, <1>3, <1>4, <1>5 DEF JobType, Jobs

LEMMA EndTyped ==
  ASSUME TypeOK, NEW w \in Workers, End(w)
  PROVE  /\ JobType' /\ SeenType' /\ SeenAppType' /\ BoundsType' /\ job'[w] = Idle
         /\ \A v \in Workers \ {w} : job'[v] = job[v] /\ seen'[v] = seen[v] /\ seenApp'[v] = seenApp[v]
<1>1. JobType /\ SeenType /\ SeenAppType /\ BoundsType
  BY TypeParts
<1>2. BoundsType'
  BY <1>1 DEF End, BoundsType, bounds
<1>3. JobType' /\ job'[w] = Idle /\ \A v \in Workers \ {w} : job'[v] = job[v]
  BY <1>1, IdleTyped DEF End, JobType
<1>4. SeenType' /\ \A v \in Workers \ {w} : seen'[v] = seen[v]
  BY <1>1, IdleTyped DEF End, SeenType
<1>5. SeenAppType' /\ \A v \in Workers \ {w} : seenApp'[v] = seenApp[v]
  BY <1>1 DEF End, SeenAppType
<1> QED BY <1>2, <1>3, <1>4, <1>5

LEMMA LoadTyped ==
  ASSUME TypeOK, NEW w \in Workers, NEW docs, Load(w, docs)
  PROVE  /\ SeenType' /\ \A v \in Workers \ {w} : seen'[v] = seen[v]
         /\ \A d \in Docs : seen'[w][d] = IF d \in docs THEN row[d] ELSE seen[w][d]
<1>1. seen' = [seen EXCEPT ![w] = [d \in Docs |-> IF d \in docs THEN row[d] ELSE seen[w][d]]]
  BY DEF Load
<1>2. SeenType /\ RowType
  BY TypeParts
<1>3. [d \in Docs |-> IF d \in docs THEN row[d] ELSE seen[w][d]] \in [Docs -> RowTypes \cup {Absent}]
  BY <1>2 DEF SeenType, RowType
<1> QED BY <1>1, <1>2, <1>3 DEF SeenType

LEMMA IdleIsSound == ASSUME NEW w \in Workers, job'[w] = Idle PROVE Sound(w)'
BY IdleTyped DEF Sound, Creating, Creators, WorksOn, WorkPcs

Columns == {"processing", "extraction", "validation", "error"}

(* A commit of the row a job works on.                                     *)
LEMMA CommitTyped ==
  ASSUME IInv, NEW w \in Workers, job[w].pc \in WorkPcs, NEW new \in RowTypes, CommitRow(w, new)
  PROVE  LET d == job[w].doc
         IN  /\ d \in Docs /\ row[d] \in RowTypes /\ seen[w][d] \in RowTypes
             /\ row[d] # Absent /\ seen[w][d] # Absent
             /\ RowType' /\ row'[d] \in RowTypes /\ row'[d] # Absent
             /\ \A e \in Docs \ {d} : row'[e] = row[e]
             /\ \A c \in Columns : row'[d][c] = IF new[c] # seen[w][d][c] THEN new[c] ELSE row[d][c]
<1> DEFINE d == job[w].doc
           m == Merged(row[d], seen[w][d], new)
<1>1. d \in Docs /\ row[d] # Absent /\ seen[w][d] # Absent
  BY DEF IInv, Sound, WorksOn
<1>2. row \in [Docs -> RowTypes \cup {Absent}] /\ seen[w] \in [Docs -> RowTypes \cup {Absent}]
  BY DEF IInv, TypeOK
<1>3. row[d] \in RowTypes /\ seen[w][d] \in RowTypes
  BY <1>1, <1>2
<1>4. m \in RowTypes /\ \A c \in Columns : m[c] = IF new[c] # seen[w][d][c] THEN new[c] ELSE row[d][c]
  BY <1>3, MergedRow DEF Columns
<1>5. row' = [row EXCEPT ![d] = m]
  BY DEF CommitRow
<1> HIDE DEF m, d
<1>6. RowType' /\ row'[d] = m /\ \A e \in Docs \ {d} : row'[e] = row[e]
  BY <1>1, <1>2, <1>4, <1>5 DEF RowType
<1> QED BY <1>1, <1>3, <1>4, <1>6 DEF d

(* Steps that touch neither rows nor files nor the application.            *)
LEMMA QuietFrame ==
  ASSUME IInv, NEW w \in Workers, UNCHANGED <<row, file, app>>,
         \A v \in Workers \ {w} : job'[v] = job[v] /\ seen'[v] = seen[v] /\ seenApp'[v] = seenApp[v]
  PROVE  Frame(w)
BY DEF Frame

-----------------------------------------------------------------------------
(* The steps that begin a job.                                             *)
LEMMA StartsKeep ==
  ASSUME IInv, NEW w \in Workers, Start(w)
  PROVE  IInv' /\ Frame(w)
<1>0. /\ TypeOK /\ FileType /\ RowType /\ AppType /\ JobType /\ SeenType /\ SeenAppType /\ BoundsType
      /\ \A d \in Docs : row[d] \in RowTypes \cup {Absent}
  BY TypeParts DEF IInv, RowType
<1> USE DEF Ops, Pcs, Extracting, Writers
<1>1. ASSUME NEW d \in Docs, UploadFile(w, d) \/ CollectFile(w, d) PROVE IInv' /\ Frame(w)
  <2>1. PICK op \in Creators : Begin(w, Job(op, "create", d, {}))
    BY <1>1 DEF UploadFile, CollectFile, Creators
  <2> DEFINE new == [op |-> op, pc |-> "create", doc |-> d, todo |-> {}, why |-> "none", ask |-> Absent]
  <2>2. new \in Jobs /\ Job(op, "create", d, {}) = new
    BY DEF Jobs, Creators, Job
  <2>3. /\ JobType' /\ BoundsType' /\ job'[w] = new
        /\ \A v \in Workers \ {w} : job'[v] = job[v]
    BY <1>0, <2>1, <2>2, BeginTyped
  <2>4. /\ file[d] = "none" /\ UNCHANGED <<row, app, cross, seen, seenApp>>
        /\ \E f \in {"stored", "missing"} : file' = [file EXCEPT ![d] = f]
    BY <1>1 DEF UploadFile, CollectFile
  <2>5. FileType' /\ file'[d] # "none" /\ \A e \in Docs \ {d} : file'[e] = file[e]
    BY <1>0, <2>4 DEF FileType
  <2>6. TypeOK'
    BY <1>0, <2>3, <2>4, <2>5, TypePartsNext DEF RowType, AppType, SeenType, SeenAppType
  <2>7. Frame(w)
    BY <2>3, <2>4, <2>5 DEF Frame
  <2>8. row[d] = Absent
    BY <2>4 DEF IInv, FilesMatchRows, Rows
  <2>9. ASSUME NEW v \in Workers, Creating(v)', job'[v].doc = d PROVE v = w
    <3>1. SUFFICES ASSUME v # w PROVE FALSE
      OBVIOUS
    <3>2. Creating(v) /\ job[v].doc = d
      BY <2>3, <2>9, <3>1 DEF Creating
    <3> QED BY <3>2, <2>4 DEF IInv, Sound
  <2>10. Sound(w)'
    BY <2>3, <2>4, <2>5, <2>8, <2>9 DEF Sound, WorksOn, WorkPcs
  <2> QED BY <2>6, <2>7, <2>10, FrameKeeps
<1>2. ASSUME NEW d \in Docs, StartExtract(w, d) \/ StartValidate(w, d) \/ UnlinkFile(w, d)
      PROVE  IInv' /\ Frame(w)
  <2>1. PICK op \in {"extract", "validate", "delete"}, pc \in {"mark", "archive"} :
          /\ Begin(w, Job(op, pc, d, {}))
          /\ pc = "archive" => file' = [file EXCEPT ![d] = IF @ = "stored" THEN "unlinked" ELSE @]
          /\ pc # "archive" => file' = file
    BY <1>2 DEF StartExtract, StartValidate, UnlinkFile
  <2> DEFINE new == [op |-> op, pc |-> pc, doc |-> d, todo |-> {}, why |-> "none", ask |-> Absent]
  <2>2. new \in Jobs /\ Job(op, pc, d, {}) = new
    BY DEF Jobs, Job
  <2>3. /\ JobType' /\ BoundsType' /\ job'[w] = new
        /\ \A v \in Workers \ {w} : job'[v] = job[v]
    BY <1>0, <2>1, <2>2, BeginTyped
  <2>4. d \in Rows /\ Load(w, {d}) /\ UNCHANGED <<row, app, cross, seenApp>>
    BY <1>2 DEF StartExtract, StartValidate, UnlinkFile
  <2>5. SeenType' /\ (\A v \in Workers \ {w} : seen'[v] = seen[v]) /\ seen'[w][d] = row[d]
    BY <1>0, <2>4, LoadTyped
  <2>6. row[d] # Absent /\ file[d] # "none"
    BY <2>4 DEF IInv, FilesMatchRows, Rows
  <2>7. /\ FileType' /\ \A e \in Docs \ {d} : file'[e] = file[e]
        /\ file'[d] # "none" /\ (file[d] \in {"missing", "unlinked"} => file'[d] = file[d])
        /\ pc = "archive" => file'[d] \in {"missing", "unlinked"}
    BY <1>0, <2>1, <2>6 DEF FileType
  <2>8. TypeOK'
    BY <1>0, <2>3, <2>4, <2>5, <2>7, TypePartsNext DEF RowType, AppType, SeenAppType
  <2>9. Frame(w)
    BY <2>3, <2>4, <2>5, <2>7 DEF Frame
  <2>10. Sound(w)'
    BY <2>3, <2>4, <2>5, <2>6, <2>7 DEF Sound, Creating, Creators, WorksOn, WorkPcs
  <2> QED BY <2>8, <2>9, <2>10, FrameKeeps
<1>3. CASE StartExtractAll(w) \/ StartPersist(w)
  <2>1. PICK op \in {"extract_all", "persist"}, pc \in {"next", "close"}, todo \in SUBSET Rows :
          Begin(w, Job(op, pc, Absent, todo))
    BY <1>3 DEF StartExtractAll, StartPersist
  <2> DEFINE new == [op |-> op, pc |-> pc, doc |-> Absent, todo |-> todo, why |-> "none", ask |-> Absent]
  <2>2. new \in Jobs /\ Job(op, pc, Absent, todo) = new
    BY DEF Jobs, Job, Rows
  <2>3. /\ JobType' /\ BoundsType' /\ job'[w] = new
        /\ \A v \in Workers \ {w} : job'[v] = job[v]
    BY <1>0, <2>1, <2>2, BeginTyped
  <2>4. Load(w, Rows) /\ UNCHANGED <<file, row, app, cross, seenApp>>
    BY <1>3 DEF StartExtractAll, StartPersist
  <2>5. /\ SeenType' /\ (\A v \in Workers \ {w} : seen'[v] = seen[v])
        /\ \A d \in Rows : seen'[w][d] = row[d]
    BY <1>0, <2>4, LoadTyped DEF Rows
  <2>6. TypeOK'
    BY <1>0, <2>3, <2>4, <2>5, TypePartsNext DEF FileType, RowType, AppType, SeenAppType
  <2>7. Frame(w)
    BY <2>3, <2>4, <2>5, QuietFrame
  <2>8. Sound(w)'
    BY <2>3, <2>4, <2>5 DEF Sound, Creating, Creators, WorksOn, WorkPcs, Rows
  <2> QED BY <2>6, <2>7, <2>8, FrameKeeps
<1>4. CASE CreateApplication(w)
  <2>1. job[w] = Idle /\ app' = NewApplication /\ UNCHANGED <<file, row, cross, job, seen, seenApp>>
    BY <1>4 DEF CreateApplication, session
  <2>2. BoundsType'
    BY <1>0, <1>4, BoundsAssumption DEF CreateApplication, BoundsType
  <2>3. TypeOK'
    BY <1>0, <2>1, <2>2, NewApplicationTyped, TypePartsNext
       DEF FileType, RowType, AppType, JobType, SeenType, SeenAppType
  <2>4. Frame(w) /\ Sound(w)'
    BY <2>1, NewApplicationTyped, IdleIsSound DEF Frame
  <2> QED BY <2>3, <2>4, FrameKeeps
<1>5. ASSUME NEW op \in Writers, StartWrite(w, op) PROVE IInv' /\ Frame(w)
  <2>1. PICK ask \in IF op = "patch" THEN Patches ELSE {Absent} :
          Begin(w, [Job(op, "write", Absent, {}) EXCEPT !.ask = ask])
    BY <1>5 DEF StartWrite
  <2> DEFINE new == [op |-> op, pc |-> "write", doc |-> Absent, todo |-> {}, why |-> "none", ask |-> ask]
  <2>2. new \in Jobs /\ [Job(op, "write", Absent, {}) EXCEPT !.ask = ask] = new
    BY DEF Jobs, Job
  <2>3. /\ JobType' /\ BoundsType' /\ job'[w] = new
        /\ \A v \in Workers \ {w} : job'[v] = job[v]
    BY <1>0, <2>1, <2>2, BeginTyped
  <2>4. /\ app # Absent /\ seenApp' = [seenApp EXCEPT ![w] = app]
        /\ UNCHANGED <<file, row, app, cross, seen>>
    BY <1>5 DEF StartWrite
  <2>5. SeenAppType' /\ seenApp'[w] = app /\ \A v \in Workers \ {w} : seenApp'[v] = seenApp[v]
    BY <1>0, <2>4 DEF SeenAppType, AppType
  <2>6. TypeOK'
    BY <1>0, <2>3, <2>4, <2>5, TypePartsNext DEF FileType, RowType, AppType, SeenType
  <2>7. Frame(w)
    BY <2>3, <2>4, <2>5, QuietFrame
  <2>8. Sound(w)'
    BY <2>3, <2>4, <2>5 DEF Sound, Creating, Creators, WorksOn, WorkPcs
  <2> QED BY <2>6, <2>7, <2>8, FrameKeeps
<1> QED BY <1>1, <1>2, <1>3, <1>4, <1>5 DEF Start

-----------------------------------------------------------------------------
(* The steps that commit a row: which columns they may set.                *)
Sets(r, x, set, value) ==
  x \in RowTypes /\ x.processing = value /\ \A c \in Columns \ set : x[c] = r[c]

LEMMA Reset ==
  ASSUME NEW r \in RowTypes
  PROVE  /\ \A p \in {"extracting", "validating", "archived"} :
              Sets(r, [r EXCEPT !.processing = p], {"processing"}, p)
         /\ Sets(r, [r EXCEPT !.processing = "failed", !.extraction = "failed"],
                 {"processing", "extraction"}, "failed")
         /\ \A v \in {"valid", "invalid"} :
              Sets(r, [r EXCEPT !.processing = "completed", !.validation = v],
                   {"processing", "validation"}, "completed")
<1>1. ASSUME NEW p \in {"extracting", "validating", "archived"}
      PROVE  Sets(r, [r EXCEPT !.processing = p], {"processing"}, p)
  BY DEF RowTypes, Sets, Columns
<1>2. Sets(r, [r EXCEPT !.processing = "failed", !.extraction = "failed"],
           {"processing", "extraction"}, "failed")
  BY DEF RowTypes, Sets, Columns
<1>3. ASSUME NEW v \in {"valid", "invalid"}
      PROVE  Sets(r, [r EXCEPT !.processing = "completed", !.validation = v],
                  {"processing", "validation"}, "completed")
  BY DEF RowTypes, Sets, Columns
<1> QED BY <1>1, <1>2, <1>3

CommitStep(w, new, set) ==
  /\ job[w].pc \in WorkPcs
  /\ new \in RowTypes /\ CommitRow(w, new)
  /\ \A c \in Columns \ set : new[c] = seen[w][job[w].doc][c]
  /\ new.processing = "archived" =>
       job[w].pc = "archive" \/ seen[w][job[w].doc].processing = "archived"

LEMMA LoadedTyped ==
  ASSUME IInv, NEW w \in Workers, job[w].pc \in WorkPcs
  PROVE  /\ Loaded(w) \in RowTypes /\ Loaded(w) = seen[w][job[w].doc] /\ job[w].doc \in Docs
         /\ row[job[w].doc] # Absent
<1>1. job[w].doc \in Docs /\ seen[w][job[w].doc] # Absent /\ row[job[w].doc] # Absent
  BY DEF IInv, Sound, WorksOn
<1> QED BY <1>1 DEF IInv, TypeOK, Loaded

(* Every commit through the session, and the columns that are its own.     *)
LEMMA Commits ==
  ASSUME IInv, NEW w \in Workers
  PROVE  /\ MarkExtracting(w) => \E new : CommitStep(w, new, {"processing"})
         /\ MarkFailed(w) => \E new : CommitStep(w, new, {"processing", "extraction"})
         /\ MarkValidating(w) => \E new : CommitStep(w, new, {"processing"})
         /\ MarkCompleted(w) => \E new : CommitStep(w, new, {"processing", "validation"})
         /\ MarkArchived(w) => \E new : CommitStep(w, new, {"processing"})
<1>1. ASSUME MarkExtracting(w) PROVE \E new : CommitStep(w, new, {"processing"})
  <2> DEFINE x == [Loaded(w) EXCEPT !.processing = "extracting"]
  <2>1. job[w].pc \in WorkPcs /\ ("extracting" = "archived" => job[w].pc = "archive") /\ CommitRow(w, x)
    BY <1>1 DEF MarkExtracting, At, WorkPcs
  <2>2. Sets(Loaded(w), x, {"processing"}, "extracting")
    BY <2>1, LoadedTyped, Reset
  <2> HIDE DEF x
  <2>3. CommitStep(w, x, {"processing"})
    BY <2>1, <2>2, LoadedTyped DEF CommitStep, Sets
  <2> QED BY <2>3
<1>2. ASSUME MarkFailed(w) PROVE \E new : CommitStep(w, new, {"processing", "extraction"})
  <2> DEFINE x == [Loaded(w) EXCEPT !.processing = "failed", !.extraction = "failed"]
  <2>1. job[w].pc \in WorkPcs /\ ("failed" = "archived" => job[w].pc = "archive") /\ CommitRow(w, x)
    BY <1>2 DEF MarkFailed, At, WorkPcs
  <2>2. Sets(Loaded(w), x, {"processing", "extraction"}, "failed")
    BY <2>1, LoadedTyped, Reset
  <2> HIDE DEF x
  <2>3. CommitStep(w, x, {"processing", "extraction"})
    BY <2>1, <2>2, LoadedTyped DEF CommitStep, Sets
  <2> QED BY <2>3
<1>3. ASSUME MarkValidating(w) PROVE \E new : CommitStep(w, new, {"processing"})
  <2> DEFINE x == [Loaded(w) EXCEPT !.processing = "validating"]
  <2>1. job[w].pc \in WorkPcs /\ ("validating" = "archived" => job[w].pc = "archive") /\ CommitRow(w, x)
    BY <1>3 DEF MarkValidating, At, WorkPcs
  <2>2. Sets(Loaded(w), x, {"processing"}, "validating")
    BY <2>1, LoadedTyped, Reset
  <2> HIDE DEF x
  <2>3. CommitStep(w, x, {"processing"})
    BY <2>1, <2>2, LoadedTyped DEF CommitStep, Sets
  <2> QED BY <2>3
<1>4. ASSUME MarkCompleted(w) PROVE \E new : CommitStep(w, new, {"processing", "validation"})
  <2> DEFINE x == [Loaded(w) EXCEPT !.processing = "completed",
                              !.validation = RunSingleValidation(job[w].doc)]
  <2>1. job[w].pc \in WorkPcs /\ ("completed" = "archived" => job[w].pc = "archive") /\ CommitRow(w, x)
    BY <1>4 DEF MarkCompleted, At, WorkPcs
  <2>2. Sets(Loaded(w), x, {"processing", "validation"}, "completed")
    BY <2>1, LoadedTyped, Reset DEF RunSingleValidation
  <2> HIDE DEF x
  <2>3. CommitStep(w, x, {"processing", "validation"})
    BY <2>1, <2>2, LoadedTyped DEF CommitStep, Sets
  <2> QED BY <2>3
<1>5. ASSUME MarkArchived(w) PROVE \E new : CommitStep(w, new, {"processing"})
  <2> DEFINE x == [Loaded(w) EXCEPT !.processing = "archived"]
  <2>1. job[w].pc \in WorkPcs /\ ("archived" = "archived" => job[w].pc = "archive") /\ CommitRow(w, x)
    BY <1>5 DEF MarkArchived, At, WorkPcs
  <2>2. Sets(Loaded(w), x, {"processing"}, "archived")
    BY <2>1, LoadedTyped, Reset
  <2> HIDE DEF x
  <2>3. CommitStep(w, x, {"processing"})
    BY <2>1, <2>2, LoadedTyped DEF CommitStep, Sets
  <2> QED BY <2>3
<1> QED BY <1>1, <1>2, <1>3, <1>4, <1>5

LEMMA CommitStepEffect ==
  ASSUME IInv, NEW w \in Workers, NEW new, NEW set, CommitStep(w, new, set)
  PROVE  LET d == job[w].doc
         IN  /\ d \in Docs /\ row[d] \in RowTypes /\ row[d] # Absent
             /\ RowType' /\ row'[d] \in RowTypes /\ row'[d] # Absent
             /\ \A e \in Docs \ {d} : row'[e] = row[e]
             /\ \A c \in Columns \ set : row'[d][c] = row[d][c]
             /\ row'[d].processing = "archived" =>
                  row[d].processing = "archived" \/ job[w].pc = "archive"
<1> DEFINE d == job[w].doc
<1>1. /\ d \in Docs /\ row[d] \in RowTypes /\ row[d] # Absent /\ seen[w][d] \in RowTypes
      /\ RowType' /\ row'[d] \in RowTypes /\ row'[d] # Absent
      /\ \A e \in Docs \ {d} : row'[e] = row[e]
      /\ \A c \in Columns : row'[d][c] = IF new[c] # seen[w][d][c] THEN new[c] ELSE row[d][c]
  BY CommitTyped DEF CommitStep
<1>2. \A c \in Columns \ set : row'[d][c] = row[d][c]
  BY <1>1 DEF CommitStep
<1>3. ASSUME row'[d].processing = "archived"
      PROVE  row[d].processing = "archived" \/ job[w].pc = "archive"
  <2>1. row'[d].processing = IF new.processing # seen[w][d].processing
                             THEN new.processing ELSE row[d].processing
    BY <1>1 DEF Columns
  <2> QED BY <1>3, <2>1 DEF CommitStep
<1> QED BY <1>1, <1>2, <1>3

(* What such a commit is for the other jobs.                               *)
LEMMA CommitFrame ==
  ASSUME IInv, NEW w \in Workers, NEW new, NEW set, CommitStep(w, new, set),
         UNCHANGED <<file, app>>,
         \A v \in Workers \ {w} : job'[v] = job[v] /\ seen'[v] = seen[v] /\ seenApp'[v] = seenApp[v]
  PROVE  Frame(w)
BY CommitStepEffect DEF Frame

(* The application's row, merged as the documents' are.                    *)
Fields == {"status", "phase", "completed", "score", "decision"}

LEMMA WrittenTyped ==
  ASSUME IInv, NEW w \in Workers, At(w, Writers, "write")
  PROVE  /\ seenApp[w] \in Applications /\ app \in Applications /\ Written(w) \in Applications
         /\ \A c \in Fields \ Owned(job[w].op) : Written(w)[c] = seenApp[w][c]
<1> DEFINE l == seenApp[w]
<1>1. l \in Applications /\ app \in Applications /\ (job[w].op = "patch" => job[w].ask \in Patches)
  BY DEF At, IInv, TypeOK, Sound
<1>2. CASE job[w].op = "patch"
  <2> DEFINE ask == job[w].ask
             phase == IF ask.phase = Absent THEN l.phase ELSE ask.phase
  <2>1. ask \in Patches
    BY <1>1, <1>2
  <2>2. phase \in Phases
    BY <1>1, <2>1 DEF Applications, Phases
  <2>3. Written(w) = [l EXCEPT !.status = ask.status, !.phase = phase,
                               !.completed = Completed(l.completed, phase)]
    BY <1>2 DEF Written, Patched
  <2>4. Completed(l.completed, phase) \in SUBSET Phases
    BY <1>1, <2>2 DEF Completed, Applications
  <2>5. ask.status \in {"in_progress"} \cup {p.status : p \in Patches}
    BY <2>1
  <2> HIDE DEF ask, phase
  <2>6. Written(w) \in Applications
    BY <1>1, <2>2, <2>3, <2>4, <2>5 DEF Applications
  <2>7. Written(w).score = l.score /\ Written(w).decision = l.decision
    BY <1>1, <2>3 DEF Applications
  <2> QED BY <1>1, <1>2, <2>6, <2>7 DEF Fields, Owned, Extracting
<1>3. CASE job[w].op = "score"
  BY <1>1, <1>3 DEF Written, Applications, Fields, Owned, Extracting
<1>4. CASE job[w].op = "decide"
  BY <1>1, <1>4 DEF Written, Applications, Fields, Owned, Extracting
<1> QED BY <1>1, <1>2, <1>3, <1>4 DEF At, Writers

LEMMA MergedApplication ==
  ASSUME NEW stored \in Applications, NEW loaded \in Applications, NEW new \in Applications
  PROVE  /\ Merged(stored, loaded, new) \in Applications
         /\ \A c \in Fields :
              Merged(stored, loaded, new)[c] = IF new[c] # loaded[c] THEN new[c] ELSE stored[c]
<1> DEFINE m == Merged(stored, loaded, new)
<1>0. DOMAIN stored = Fields
  BY DEF Applications, Fields
<1>1. m = [c \in Fields |-> IF new[c] # loaded[c] THEN new[c] ELSE stored[c]]
  BY <1>0 DEF Merged
<1>2. m = [status |-> m.status, phase |-> m.phase, completed |-> m.completed,
           score |-> m.score, decision |-> m.decision]
  BY <1>1 DEF Fields
<1>3. m.status \in {stored.status, new.status} /\ m.phase \in {stored.phase, new.phase}
  BY <1>1 DEF Fields
<1>4. m.completed \in {stored.completed, new.completed}
  BY <1>1 DEF Fields
<1>5. m.score = stored.score \/ m.score = new.score
  BY <1>1 DEF Fields
<1>6. m.decision = stored.decision \/ m.decision = new.decision
  BY <1>1 DEF Fields
<1>7. /\ m.score \in BOOLEAN
  BY <1>5 DEF Applications
<1>8. m.decision \in BOOLEAN
  BY <1>6 DEF Applications
<1> HIDE DEF m
<1>9. m \in Applications
  BY <1>2, <1>3, <1>4, <1>7, <1>8 DEF Applications
<1> QED BY <1>1, <1>9 DEF m

LEMMA WriteEffect ==
  ASSUME IInv, NEW w \in Workers, WriteApplication(w)
  PROVE  /\ app \in Applications /\ app' \in Applications
         /\ \A c \in Fields \ Owned(job[w].op) : app'[c] = app[c]
<1>1. At(w, Writers, "write") /\ app' = Merged(app, seenApp[w], Written(w))
  BY DEF WriteApplication
<1>2. /\ seenApp[w] \in Applications /\ app \in Applications /\ Written(w) \in Applications
      /\ \A c \in Fields \ Owned(job[w].op) : Written(w)[c] = seenApp[w][c]
  BY <1>1, WrittenTyped
<1>3. /\ app' \in Applications
      /\ \A c \in Fields : app'[c] = IF Written(w)[c] # seenApp[w][c] THEN Written(w)[c] ELSE app[c]
  BY <1>1, <1>2, MergedApplication
<1> QED BY <1>2, <1>3

-----------------------------------------------------------------------------
(* The other steps of a job.                                               *)
LEMMA StepsKeep ==
  ASSUME IInv, NEW w \in Workers, Step(w)
  PROVE  IInv' /\ Frame(w)
<1>0. /\ TypeOK /\ FileType /\ RowType /\ AppType /\ JobType /\ SeenType /\ SeenAppType /\ BoundsType
      /\ job[w] \in Jobs /\ Sound(w)
  BY TypeParts DEF IInv, JobType
<1> USE DEF At
<1>1. CASE CreateRow(w)
  <2>1. Creating(w) /\ End(w) /\ row' = [row EXCEPT ![job[w].doc] = NewRow]
        /\ UNCHANGED <<file, app, cross>>
    BY <1>1 DEF CreateRow, Creating, Creators
  <2>2. job[w].doc \in Docs /\ row[job[w].doc] = Absent
    BY <1>0, <2>1 DEF Sound
  <2>3. /\ RowType' /\ row'[job[w].doc] = NewRow
        /\ \A d \in Docs \ {job[w].doc} : row'[d] = row[d]
    BY <1>0, <2>1, <2>2, RowsAreRecords DEF RowType
  <2>4. TypeOK'
    BY <1>0, <2>1, <2>3, EndTyped, TypePartsNext DEF FileType, AppType
  <2>5. Frame(w)
    BY <1>0, <2>1, <2>3, EndTyped, RowsAreRecords DEF Frame
  <2> QED BY <1>0, <2>1, <2>4, <2>5, EndTyped, IdleIsSound, FrameKeeps
<1>2. CASE NextDocument(w)
  <2>1. CASE End(w)
    <3>1. UNCHANGED <<file, row, app, cross>>
      BY <1>2 DEF NextDocument
    <3>2. TypeOK'
      BY <1>0, <2>1, <3>1, EndTyped, TypePartsNext DEF FileType, RowType, AppType
    <3> QED BY <1>0, <2>1, <3>1, <3>2, EndTyped, QuietFrame, IdleIsSound, FrameKeeps
  <2>2. ASSUME NEW d \in job[w].todo, NEW pc \in {"mark", "next"},
               job' = [job EXCEPT ![w].todo = @ \ {d}, ![w].doc = d, ![w].pc = pc],
               UNCHANGED <<seen, seenApp, bounds, file, row, app, cross>>
        PROVE  IInv' /\ Frame(w)
    <3>1. d \in Docs
      BY <1>0 DEF Jobs
    <3>2. JobType'
      BY <1>0, <2>2, <3>1 DEF JobType, Jobs, Pcs
    <3>3. /\ job'[w].pc = pc /\ job'[w].doc = d /\ job'[w].todo = job[w].todo \ {d}
          /\ \A v \in Workers \ {w} : job'[v] = job[v]
      BY <1>0, <2>2 DEF JobType, Jobs
    <3>4. TypeOK'
      BY <1>0, <2>2, <3>2, TypePartsNext
         DEF FileType, RowType, AppType, SeenType, SeenAppType, BoundsType, bounds
    <3>5. \A e \in Docs : WorksOn(w, e)' => row'[e] # Absent /\ seen'[w][e] # Absent
      <4>1. ASSUME NEW e \in Docs, WorksOn(w, e)' PROVE WorksOn(w, e)
        BY <2>2, <3>3, <4>1 DEF WorksOn
      <4> QED BY <1>0, <2>2, <4>1 DEF Sound
    <3>6. ~Creating(w)' /\ job'[w].doc \in Docs
      BY <3>1, <3>3 DEF Creating
    <3>7. Sound(w)'
      BY <3>3, <3>5, <3>6 DEF Sound
    <3> QED BY <2>2, <3>3, <3>4, <3>7, QuietFrame, FrameKeeps
  <2>3. ASSUME NEW d \in job[w].todo,
               job' = [job EXCEPT ![w].todo = @ \ {d}, ![w].doc = d,
                                  ![w].pc = IF Extractable(w, d) THEN "mark" ELSE "next"],
               UNCHANGED <<seen, seenApp, bounds, file, row, app, cross>>
        PROVE  IInv' /\ Frame(w)
    <3> DEFINE pc == IF Extractable(w, d) THEN "mark" ELSE "next"
    <3>1. pc \in {"mark", "next"}
      OBVIOUS
    <3>2. job' = [job EXCEPT ![w].todo = @ \ {d}, ![w].doc = d, ![w].pc = pc]
      BY <2>3
    <3> HIDE DEF pc
    <3> QED BY <2>2, <2>3, <3>1, <3>2
  <2> QED BY <1>2, <2>1, <2>3 DEF NextDocument
<1>3. CASE MarkExtracting(w) \/ MarkFailed(w) \/ MarkValidating(w)
  <2>1. PICK new, set : CommitStep(w, new, set)
    BY <1>3, Commits
  <2>2. PICK pc \in {"parse", "log", "fetch"} : Goto(w, pc)
    BY <1>3 DEF MarkExtracting, MarkFailed, MarkValidating
  <2>3. UNCHANGED <<file, app, cross, seen, seenApp>>
    BY <1>3 DEF MarkExtracting, MarkFailed, MarkValidating
  <2>4. /\ JobType' /\ BoundsType' /\ job'[w].pc = pc /\ job'[w].op = job[w].op
        /\ job'[w].doc = job[w].doc /\ job'[w].todo = job[w].todo
        /\ \A v \in Workers \ {w} : job'[v] = job[v]
    BY <1>0, <2>2, GotoTyped DEF Pcs
  <2>5. TypeOK'
    BY <1>0, <2>1, <2>3, <2>4, CommitStepEffect, TypePartsNext
       DEF FileType, AppType, SeenType, SeenAppType
  <2>6. Frame(w)
    BY <2>1, <2>3, <2>4, CommitFrame
  <2>7. Sound(w)'
    <3>1. job[w].pc \in WorkPcs
      BY <2>1 DEF CommitStep
    <3>2. \A d \in Docs : row[d] # Absent => row'[d] # Absent
      BY <2>6 DEF Frame
    <3> QED BY <1>0, <2>3, <2>4, <3>1, <3>2 DEF Sound, Creating, WorksOn, WorkPcs
  <2> QED BY <2>5, <2>6, <2>7, FrameKeeps
<1>4. CASE MarkCompleted(w) \/ MarkArchived(w)
  <2>1. PICK new, set : CommitStep(w, new, set)
    BY <1>4, Commits
  <2>2. End(w) /\ UNCHANGED <<file, app, cross>>
    BY <1>4 DEF MarkCompleted, MarkArchived
  <2>3. TypeOK'
    BY <1>0, <2>1, <2>2, EndTyped, CommitStepEffect, TypePartsNext DEF FileType, AppType
  <2>4. Frame(w)
    BY <1>0, <2>1, <2>2, EndTyped, CommitFrame
  <2> QED BY <1>0, <2>2, <2>3, <2>4, EndTyped, IdleIsSound, FrameKeeps
<1>5. CASE RunPipeline(w) \/ FetchExtracted(w)
  <2>1. /\ job[w].pc \in WorkPcs /\ Load(w, {job[w].doc})
        /\ UNCHANGED <<file, row, app, cross, seenApp>>
    BY <1>5 DEF RunPipeline, FetchExtracted, Refresh, WorkPcs
  <2>2. /\ JobType' /\ BoundsType' /\ job'[w].pc \in {"fail", "complete"}
        /\ job'[w].doc = job[w].doc /\ job'[w].todo = job[w].todo
        /\ \A v \in Workers \ {w} : job'[v] = job[v]
    <3>1. CASE FetchExtracted(w)
      <4>1. Goto(w, "complete") /\ "complete" \in Pcs
        BY <3>1 DEF FetchExtracted, Pcs
      <4> QED BY <1>0, <4>1, GotoTyped
    <3>2. CASE RunPipeline(w)
      <4>1. PICK why \in {"raised", "not_found"} :
              job' = [job EXCEPT ![w].pc = "fail", ![w].why = why]
        BY <3>2 DEF RunPipeline
      <4>2. BoundsType'
        BY <1>0, <3>2 DEF RunPipeline, BoundsType, bounds
      <4> QED BY <1>0, <4>1, <4>2 DEF JobType, Jobs, Pcs
    <3> QED BY <1>5, <3>1, <3>2
  <2>3. /\ SeenType' /\ (\A v \in Workers \ {w} : seen'[v] = seen[v])
        /\ \A d \in Docs : seen'[w][d] = IF d = job[w].doc THEN row[d] ELSE seen[w][d]
    BY <1>0, <2>1, LoadTyped
  <2>4. TypeOK'
    BY <1>0, <2>1, <2>2, <2>3, TypePartsNext DEF FileType, RowType, AppType, SeenAppType
  <2>5. Frame(w)
    BY <2>1, <2>2, <2>3, QuietFrame
  <2>6. Sound(w)'
    BY <1>0, <2>1, <2>2, <2>3 DEF Sound, Creating, WorksOn, WorkPcs
  <2> QED BY <2>4, <2>5, <2>6, FrameKeeps
<1>6. CASE LogError(w)
  <2> DEFINE d == job[w].doc
  <2>1. /\ job[w].pc = "log" /\ row' = [row EXCEPT ![d].error = job[w].why]
        /\ UNCHANGED <<file, app, cross>>
    BY <1>6 DEF LogError
  <2>2. d \in Docs /\ row[d] \in RowTypes /\ row[d] # Absent
    BY <1>0, <2>1, LoadedTyped DEF WorkPcs, RowType
  <2>3. /\ RowType' /\ row'[d] \in RowTypes /\ row'[d] # Absent
        /\ row'[d].processing = row[d].processing
        /\ \A e \in Docs \ {d} : row'[e] = row[e]
    <3>1. [row[d] EXCEPT !.error = job[w].why] \in RowTypes
          /\ [row[d] EXCEPT !.error = job[w].why].processing = row[d].processing
      BY <1>0, <2>2 DEF RowTypes, Jobs
    <3>2. row' = [row EXCEPT ![d] = [row[d] EXCEPT !.error = job[w].why]]
      BY <1>0, <2>1 DEF RowType
    <3> HIDE DEF d
    <3> QED BY <1>0, <2>2, <3>1, <3>2 DEF RowType
  <2> HIDE DEF d
  <2>4. CASE End(w)
    <3>1. TypeOK'
      BY <1>0, <2>1, <2>3, <2>4, EndTyped, TypePartsNext DEF FileType, AppType
    <3>2. Frame(w)
      BY <1>0, <2>1, <2>2, <2>3, <2>4, EndTyped DEF Frame
    <3> QED BY <1>0, <2>4, <3>1, <3>2, EndTyped, IdleIsSound, FrameKeeps
  <2>5. CASE /\ seen' = [seen EXCEPT ![w][job[w].doc] = row'[job[w].doc]]
             /\ Goto(w, "next") /\ UNCHANGED seenApp
    <3>1. /\ JobType' /\ BoundsType' /\ job'[w].pc = "next" /\ job'[w].todo = job[w].todo
          /\ \A v \in Workers \ {w} : job'[v] = job[v]
      BY <1>0, <2>5, GotoTyped DEF Pcs
    <3>2. /\ SeenType' /\ (\A v \in Workers \ {w} : seen'[v] = seen[v])
          /\ \A e \in Docs : seen[w][e] # Absent => seen'[w][e] # Absent
      BY <1>0, <2>2, <2>3, <2>5 DEF SeenType, d
    <3>3. TypeOK'
      BY <1>0, <2>1, <2>3, <2>5, <3>1, <3>2, TypePartsNext DEF FileType, AppType, SeenAppType
    <3>4. Frame(w)
      BY <2>1, <2>2, <2>3, <2>5, <3>1, <3>2 DEF Frame
    <3>5. Sound(w)'
      BY <1>0, <2>2, <2>3, <3>1, <3>2 DEF Sound, Creating, WorksOn, WorkPcs
    <3> QED BY <3>3, <3>4, <3>5, FrameKeeps
  <2> QED BY <1>6, <2>4, <2>5 DEF LogError
<1>7. CASE ClosePersist(w)
  <2>1. End(w) /\ UNCHANGED <<file, row, app, cross>>
    BY <1>7 DEF ClosePersist
  <2>2. TypeOK'
    BY <1>0, <2>1, EndTyped, TypePartsNext DEF FileType, RowType, AppType
  <2> QED BY <1>0, <2>1, <2>2, EndTyped, QuietFrame, IdleIsSound, FrameKeeps
<1>8. CASE WriteApplication(w)
  <2>1. End(w) /\ UNCHANGED <<file, row, cross>>
    BY <1>8 DEF WriteApplication
  <2>2. app' \in Applications
    BY <1>8, WriteEffect
  <2>3. TypeOK'
    BY <1>0, <2>1, <2>2, EndTyped, TypePartsNext DEF FileType, RowType, AppType
  <2>4. Frame(w)
    BY <1>0, <2>1, <2>2, EndTyped DEF Frame
  <2> QED BY <1>0, <2>1, <2>3, <2>4, EndTyped, IdleIsSound, FrameKeeps
<1> QED BY <1>1, <1>2, <1>3, <1>4, <1>5, <1>6, <1>7, <1>8 DEF Step

LEMMA LossesKeep ==
  ASSUME IInv, NEW w \in Workers, Lose(w)
  PROVE  IInv' /\ Frame(w)
<1>0. /\ TypeOK /\ FileType /\ RowType /\ AppType /\ JobType /\ SeenType /\ SeenAppType /\ BoundsType
      /\ job[w] \in Jobs
  BY TypeParts DEF IInv, JobType
<1>1. /\ JobType' /\ SeenType' /\ SeenAppType' /\ job'[w] = Idle
      /\ \A v \in Workers \ {w} : job'[v] = job[v] /\ seen'[v] = seen[v] /\ seenApp'[v] = seenApp[v]
  BY <1>0, IdleTyped DEF Lose, JobType, SeenType, SeenAppType
<1>2. UNCHANGED <<file, row, app, cross>>
  BY DEF Lose
<1>3. BoundsType'
  BY <1>0, BoundsAssumption DEF Lose, BoundsType, Jobs
<1>4. TypeOK'
  BY <1>0, <1>1, <1>2, <1>3, TypePartsNext DEF FileType, RowType, AppType
<1> QED BY <1>1, <1>2, <1>4, QuietFrame, IdleIsSound, FrameKeeps

-----------------------------------------------------------------------------
LEMMA InitIInv == Init => IInv
<1> SUFFICES ASSUME Init PROVE IInv
  OBVIOUS
<1>1. PICK known \in SUBSET Docs :
        /\ file = [d \in Docs |-> IF d \in known THEN "stored" ELSE "none"]
        /\ row = [d \in Docs |-> IF d \in known THEN NewRow ELSE Absent]
        /\ app \in {NewApplication} \cup (IF known = {} THEN {Absent} ELSE {})
  BY DEF Init
<1>2. FileType /\ RowType
  BY <1>1, RowsAreRecords DEF FileType, RowType
<1>3. AppType
  BY <1>1, NewApplicationTyped DEF Init, AppType
<1>4. JobType /\ SeenType /\ SeenAppType /\ \A w \in Workers : job[w] = Idle
  BY IdleTyped DEF Init, JobType, SeenType, SeenAppType
<1>5. BoundsType
  BY BoundsAssumption DEF Init, BoundsType
<1>6. \A w \in Workers : Sound(w)
  BY <1>4, IdleTyped DEF Sound, Creating, Creators, WorksOn, WorkPcs
<1>7. FilesMatchRows
  BY <1>1, RowsAreRecords DEF FilesMatchRows, Rows
<1> QED BY <1>2, <1>3, <1>4, <1>5, <1>6, <1>7, TypeParts DEF IInv

LEMMA Inductive == IInv /\ [Next]_vars => IInv'
<1>1. ASSUME IInv, UNCHANGED vars PROVE IInv'
  BY <1>1 DEF vars, session, bounds, IInv, TypeOK, Sound, Creating, WorksOn, FilesMatchRows, Rows
<1>2. ASSUME IInv, Next PROVE IInv'
  BY <1>2, StartsKeep, StepsKeep, LossesKeep DEF Next
<1> QED BY <1>1, <1>2

LEMMA InductiveInvariant == Spec => []IInv
BY InitIInv, Inductive, PTL DEF Spec

(* Rows, sessions and jobs keep the shapes of their tables and handlers,   *)
(* whichever columns a commit merges.                                      *)
THEOREM TypeCorrectness == Spec => []TypeOK
<1>1. IInv => TypeOK
  BY DEF IInv
<1> QED BY <1>1, InductiveInvariant, PTL

(* Of any number of documents, uploaded, collected, extracted, validated   *)
(* and deleted by any number of jobs that end anywhere: a row has had its  *)
(* file, and an archived document's file is gone.                          *)
THEOREM RowsMatchFiles == Spec => []FilesMatchRows
<1>1. IInv => FilesMatchRows
  BY DEF IInv
<1> QED BY <1>1, InductiveInvariant, PTL

-----------------------------------------------------------------------------
(* What a step of w does to the columns of a row that is there.            *)
OwnColumns(w) ==
  \A d \in Rows : \A c \in DOMAIN row[d] : row'[d][c] # row[d][c] => Acting(w) /\ c \in Owned(job[w].op)

OwnFields(w) ==
  app # Absent => \A c \in DOMAIN app : app'[c] # app[c] => Acting(w) /\ c \in Owned(job[w].op)

LEMMA RowDomain ==
  ASSUME IInv, NEW d \in Rows
  PROVE  d \in Docs /\ row[d] \in RowTypes /\ DOMAIN row[d] = Columns
BY RowsAreRecords DEF IInv, TypeOK, Rows, Columns

LEMMA StepColumns ==
  ASSUME IInv, NEW w \in Workers, Step(w)
  PROVE  OwnColumns(w)
<1>0. job \in [Workers -> Jobs] /\ job[w] \in Jobs
  BY DEF IInv, TypeOK
<1> USE DEF At
<1>1. ASSUME NEW new, NEW set, CommitStep(w, new, set), Acting(w), set \subseteq Owned(job[w].op)
      PROVE  OwnColumns(w)
  <2> SUFFICES ASSUME NEW d \in Rows, NEW c \in Columns, row'[d][c] # row[d][c]
               PROVE  c \in Owned(job[w].op)
    BY <1>1, RowDomain DEF OwnColumns
  <2>1. d = job[w].doc
    BY <1>1, RowDomain, CommitStepEffect
  <2>2. c \in set
    BY <1>1, <2>1, CommitStepEffect
  <2> QED BY <1>1, <2>2
<1>2. CASE MarkExtracting(w) \/ MarkFailed(w)
  <2>1. job[w].op \in Extracting /\ job[w].pc \in {"mark", "fail"}
    BY <1>2 DEF MarkExtracting, MarkFailed
  <2>2. PICK pc \in {"parse", "log"} : Goto(w, pc)
    BY <1>2 DEF MarkExtracting, MarkFailed
  <2>3. Acting(w)
    BY <1>0, <2>1, <2>2 DEF Goto, Acting, Jobs
  <2>4. Owned(job[w].op) = {"processing", "extraction", "error"}
    BY <2>1 DEF Owned, Extracting
  <2> QED BY <1>1, <1>2, <2>3, <2>4, Commits
<1>3. CASE MarkValidating(w) \/ MarkCompleted(w) \/ MarkArchived(w)
  <2>1. job[w].op \in {"validate", "delete"} /\ job[w].pc \in {"mark", "complete", "archive"}
    BY <1>3 DEF MarkValidating, MarkCompleted, MarkArchived
  <2>2. Acting(w)
    <3>1. job'[w].pc \in {"fetch", "idle"}
      BY <1>0, <1>3, IdleTyped, EndTyped
         DEF MarkValidating, MarkCompleted, MarkArchived, Goto, Jobs, IInv
    <3> QED BY <2>1, <3>1 DEF Acting
  <2>3. CASE job[w].op = "validate"
    <3>1. Owned(job[w].op) = {"processing", "validation"}
      BY <2>3 DEF Owned, Extracting
    <3>2. MarkValidating(w) \/ MarkCompleted(w)
      BY <1>3, <2>3 DEF MarkArchived
    <3> QED BY <1>1, <2>2, <3>1, <3>2, Commits
  <2>4. CASE job[w].op = "delete"
    <3>1. Owned(job[w].op) = {"processing"}
      BY <2>4 DEF Owned, Extracting
    <3>2. MarkArchived(w)
      BY <1>3, <2>4 DEF MarkValidating, MarkCompleted
    <3> QED BY <1>1, <2>2, <3>1, <3>2, Commits
  <2> QED BY <2>1, <2>3, <2>4
<1>4. CASE LogError(w)
  <2>1. /\ job[w].op \in Extracting /\ job[w].pc = "log"
        /\ row' = [row EXCEPT ![job[w].doc].error = job[w].why]
    BY <1>4 DEF LogError
  <2>2. job'[w].pc \in {"idle", "next"}
    BY <1>0, <1>4, IdleTyped, EndTyped DEF LogError, Goto, Jobs, IInv
  <2>3. Acting(w) /\ "error" \in Owned(job[w].op)
    BY <2>1, <2>2 DEF Acting, Owned, Extracting
  <2> SUFFICES ASSUME NEW d \in Rows, NEW c \in Columns, row'[d][c] # row[d][c] PROVE c = "error"
    BY <2>3, RowDomain DEF OwnColumns
  <2>4. row[d] \in RowTypes /\ d \in Docs /\ row \in [Docs -> RowTypes \cup {Absent}]
    BY RowDomain DEF IInv, TypeOK
  <2> QED BY <2>1, <2>4 DEF RowTypes, Columns
<1>5. CASE CreateRow(w)
  <2>1. Creating(w) /\ row' = [row EXCEPT ![job[w].doc] = NewRow]
    BY <1>5 DEF CreateRow, Creating, Creators
  <2>2. job[w].doc \in Docs /\ row[job[w].doc] = Absent
    BY <2>1 DEF IInv, Sound
  <2>3. ASSUME NEW d \in Rows PROVE row'[d] = row[d]
    BY <2>1, <2>2 DEF Rows, IInv, TypeOK
  <2> QED BY <2>3 DEF OwnColumns
<1>6. CASE NextDocument(w) \/ RunPipeline(w) \/ FetchExtracted(w) \/ ClosePersist(w) \/ WriteApplication(w)
  BY <1>6 DEF NextDocument, RunPipeline, FetchExtracted, ClosePersist, WriteApplication, OwnColumns
<1> QED BY <1>2, <1>3, <1>4, <1>5, <1>6 DEF Step

LEMMA StepFields ==
  ASSUME IInv, NEW w \in Workers, Step(w)
  PROVE  OwnFields(w)
<1>1. CASE WriteApplication(w)
  <2>1. /\ app \in Applications /\ DOMAIN app = Fields
        /\ \A c \in Fields \ Owned(job[w].op) : app'[c] = app[c]
    BY <1>1, WriteEffect DEF Applications, Fields
  <2>2. job[w].pc = "write" /\ job'[w].pc = "idle"
    BY <1>1, IdleTyped, EndTyped DEF WriteApplication, At, IInv
  <2> QED BY <2>1, <2>2 DEF OwnFields, Acting
<1>2. CASE app' = app
  BY <1>2 DEF OwnFields
<1> QED BY <1>1, <1>2 DEF Step, CreateRow, NextDocument, MarkExtracting, RunPipeline, MarkFailed,
      LogError, MarkValidating, FetchExtracted, MarkCompleted, MarkArchived, ClosePersist

(* A job that works from a stale row never undoes what another has written *)
(* in a column that is not its own, in documents and application alike.    *)
THEOREM NoUpdateIsLost == Spec => NoColumnIsLost
<1> DEFINE A == /\ \A d \in Rows : \A c \in DOMAIN row[d] :
                     row'[d][c] # row[d][c] => \E w \in Workers : Acting(w) /\ c \in Owned(job[w].op)
                /\ app # Absent => \A c \in DOMAIN app :
                     app'[c] # app[c] => \E w \in Workers : Acting(w) /\ c \in Owned(job[w].op)
<1>1. ASSUME IInv, [Next]_vars PROVE [A]_vars
  <2> SUFFICES ASSUME Next PROVE A
    BY <1>1
  <2>1. PICK w \in Workers : Start(w) \/ Step(w) \/ Lose(w)
    BY DEF Next
  <2>2. CASE Step(w)
    <3>1. OwnColumns(w) /\ OwnFields(w)
      BY <1>1, <2>2, StepColumns, StepFields
    <3> QED BY <3>1 DEF OwnColumns, OwnFields
  <2>3. CASE Start(w) \/ Lose(w)
    <3>1. row' = row /\ (app # Absent => app' = app)
      BY <2>3 DEF Start, Lose, UploadFile, CollectFile, StartExtract, StartValidate, UnlinkFile,
        StartExtractAll, StartPersist, CreateApplication, StartWrite
    <3> QED BY <3>1
  <2> QED BY <2>1, <2>2, <2>3
<1> HIDE DEF A
<1>2. Spec => [][A]_vars
  BY <1>1, InductiveInvariant, PTL DEF Spec
<1> QED BY <1>2 DEF NoColumnIsLost, A

-----------------------------------------------------------------------------
(* How documents settle. *)

(* A job that will take the document out of extracting or validating: the   *)
(* status it writes is not the one its session has seen, and so the commit *)
(* writes it.                                                              *)
Settles(w, d) ==
  /\ job[w].doc = d
  /\ \/ job[w].pc \in {"parse", "fetch"}
     \/ job[w].pc = "fail" /\ seen[w][d].processing # "failed"
     \/ job[w].pc = "complete" /\ seen[w][d].processing # "completed"

Explains(w, d) == job[w].pc = "log" /\ job[w].doc = d

Unsettled == {"extracting", "validating"}

(* Whatever is unsettled or unexplained has a job that sees to it. *)
OwedInv(d) ==
  /\ row[d].processing \in Unsettled => d \in hurt \/ \E w \in Workers : Settles(w, d)
  /\ row[d].extraction = "failed" /\ row[d].error = "none" =>
       d \in hurt \/ \E w \in Workers : Explains(w, d)

(* What a row tells is true. *)
TrueInv(d) ==
  /\ row[d].error = "not_found" => file[d] \in {"missing", "unlinked"}
  /\ row[d].processing = "completed" => row[d].validation # "pending"

(* A job that will explain a failure has its reason; and a verdict that a   *)
(* session has loaded is still there, this one or another.                 *)
ReasonInv(w) ==
  /\ job[w].pc \in {"fail", "log"} =>
       /\ job[w].why # "none"
       /\ job[w].why = "not_found" => file[job[w].doc] \in {"missing", "unlinked"}
  /\ \A d \in Docs : seen[w][d] # Absent =>
       /\ row[d] # Absent
       /\ seen[w][d].validation # "pending" => row[d].validation # "pending"

SettleInv ==
  /\ \A d \in Rows : OwedInv(d) /\ TrueInv(d)
  /\ \A w \in Workers : ReasonInv(w)

(* What a step of w has to show: that a verdict stays, that rows stay true, *)
(* and that w leaves nothing behind it owes.                               *)
LEMMA SettleFrame ==
  ASSUME IInv, SettleInv, NEW w \in Workers, Frame(w), hurt \subseteq hurt', ReasonInv(w)',
         \A d \in Docs : row'[d] # Absent =>
           /\ TrueInv(d)'
           /\ row[d] # Absent /\ row[d].validation # "pending" => row'[d].validation # "pending"
           /\ row'[d].processing \in Unsettled =>
                \/ d \in hurt' \/ Settles(w, d)'
                \/ row[d] # Absent /\ row[d].processing \in Unsettled /\ ~Settles(w, d)
           /\ row'[d].extraction = "failed" /\ row'[d].error = "none" =>
                \/ d \in hurt' \/ Explains(w, d)'
                \/ /\ row[d] # Absent /\ row[d].extraction = "failed"
                   /\ row[d].error = "none" /\ ~Explains(w, d)
  PROVE  SettleInv'
<1>1. ASSUME NEW v \in Workers, v # w
      PROVE  /\ job'[v] = job[v] /\ seen'[v] = seen[v]
             /\ \A d \in Docs : (Settles(v, d) => Settles(v, d)') /\ (Explains(v, d) => Explains(v, d)')
  BY <1>1 DEF Frame, Settles, Explains
<1>2. ASSUME NEW v \in Workers PROVE ReasonInv(v)'
  <2>1. CASE v = w
    BY <2>1
  <2>2. CASE v # w
    <3>1. job'[v] = job[v] /\ seen'[v] = seen[v] /\ ReasonInv(v)
      BY <1>1, <2>2 DEF SettleInv
    <3>2. job[v].pc \in {"fail", "log"} => job[v].doc \in Docs
      BY DEF IInv, Sound, WorkPcs
    <3>3. ASSUME NEW d \in Docs, seen'[v][d] # Absent
          PROVE  /\ row'[d] # Absent
                 /\ seen'[v][d].validation # "pending" => row'[d].validation # "pending"
      BY <3>1, <3>3 DEF ReasonInv, Frame
    <3> QED
      BY <3>1, <3>2, <3>3 DEF ReasonInv, Frame
  <2> QED
    BY <2>1, <2>2
<1>3. ASSUME NEW d \in Docs, row'[d] # Absent PROVE OwedInv(d)'
  <2>1. ASSUME row'[d].processing \in Unsettled
        PROVE  d \in hurt' \/ \E v \in Workers : Settles(v, d)'
    <3>1. CASE row[d] # Absent /\ row[d].processing \in Unsettled /\ ~Settles(w, d)
      <4>1. d \in hurt \/ \E v \in Workers : Settles(v, d)
        BY <3>1 DEF SettleInv, OwedInv, Rows
      <4> QED
        BY <1>1, <3>1, <4>1
    <3> QED
      BY <1>3, <2>1, <3>1
  <2>2. ASSUME row'[d].extraction = "failed", row'[d].error = "none"
        PROVE  d \in hurt' \/ \E v \in Workers : Explains(v, d)'
    <3>1. CASE /\ row[d] # Absent /\ row[d].extraction = "failed"
               /\ row[d].error = "none" /\ ~Explains(w, d)
      <4>1. d \in hurt \/ \E v \in Workers : Explains(v, d)
        BY <3>1 DEF SettleInv, OwedInv, Rows
      <4> QED
        BY <1>1, <3>1, <4>1
    <3> QED
      BY <1>3, <2>2, <3>1
  <2> QED
    BY <2>1, <2>2 DEF OwedInv
<1> QED
  BY <1>2, <1>3 DEF SettleInv, Rows

(* Steps that leave the rows as they are. *)
LEMMA QuietSettles ==
  ASSUME IInv, SettleInv, NEW w \in Workers, Frame(w), row' = row, hurt \subseteq hurt',
         ReasonInv(w)',
         \A d \in Docs : row[d] # Absent /\ row[d].processing \in Unsettled /\ Settles(w, d) =>
           d \in hurt' \/ Settles(w, d)',
         \A d \in Docs : Explains(w, d) => d \in hurt' \/ Explains(w, d)'
  PROVE  SettleInv'
<1>1. ASSUME NEW d \in Docs, row'[d] # Absent PROVE TrueInv(d)'
  BY <1>1 DEF SettleInv, TrueInv, Rows, Frame
<1> QED
  BY <1>1, SettleFrame

(* Steps that begin or end a job, or pick its next document: the job owes   *)
(* nothing before them and nothing after.                                  *)
LEMMA NothingOwed ==
  ASSUME NEW w \in Workers, job[w].pc \notin {"parse", "fetch", "fail", "complete", "log"}
  PROVE  \A d \in Docs : ~Settles(w, d) /\ ~Explains(w, d)
BY DEF Settles, Explains

LEMMA EndedReason ==
  ASSUME NEW w \in Workers, job'[w] = Idle, seen'[w] = NothingSeen PROVE ReasonInv(w)'
BY IdleTyped DEF ReasonInv, NothingSeen

LEMMA EndForgets ==
  ASSUME TypeOK, NEW w \in Workers, End(w)
  PROVE  job'[w] = Idle /\ seen'[w] = NothingSeen /\ hurt' = hurt /\ ReasonInv(w)'
<1>1. job'[w] = Idle /\ seen'[w] = NothingSeen /\ hurt' = hurt
  BY DEF End, TypeOK, bounds
<1> QED
  BY <1>1, EndedReason

LEMMA StartsSettle ==
  ASSUME IInv, SettleInv, NEW w \in Workers, Start(w)
  PROVE  SettleInv'
<1>0. /\ TypeOK /\ Frame(w) /\ row' = row /\ hurt' = hurt /\ job[w] = Idle /\ ReasonInv(w)
      /\ \A d \in Docs : row[d] \in RowTypes \cup {Absent}
  BY StartsKeep DEF IInv, TypeOK, SettleInv, Start, UploadFile, CollectFile, StartExtract,
     StartValidate, UnlinkFile, StartExtractAll, StartPersist, CreateApplication, StartWrite,
     Begin
<1>1. \A d \in Docs : ~Settles(w, d) /\ ~Explains(w, d)
  BY <1>0, IdleTyped, NothingOwed
<1>2. job'[w].pc \notin {"fail", "log"}
  <2>1. CASE CreateApplication(w)
    BY <1>0, <2>1, IdleTyped DEF CreateApplication, session
  <2>2. ASSUME NEW op, NEW pc \in {"create", "mark", "archive", "next", "close", "write"},
               NEW doc, NEW todo, NEW ask,
               Begin(w, [op |-> op, pc |-> pc, doc |-> doc, todo |-> todo, why |-> "none",
                         ask |-> ask])
        PROVE  job'[w].pc = pc
    BY <1>0, <2>2 DEF Begin, TypeOK
  <2>3. ASSUME NEW op \in Writers, StartWrite(w, op) PROVE job'[w].pc = "write"
    <3>1. PICK ask : Begin(w, [Job(op, "write", Absent, {}) EXCEPT !.ask = ask])
      BY <2>3 DEF StartWrite
    <3> QED
      BY <2>2, <3>1 DEF Job
  <2> QED
    BY <1>0, <2>1, <2>2, <2>3 DEF Start, UploadFile, CollectFile, StartExtract, StartValidate,
       UnlinkFile, StartExtractAll, StartPersist, Job
<1>3. \A d \in Docs : seen'[w][d] \in {seen[w][d], row[d]}
  <2>1. ASSUME NEW docs, Load(w, docs) PROVE \A d \in Docs : seen'[w][d] \in {seen[w][d], row[d]}
    BY <1>0, <2>1, LoadTyped
  <2>2. CASE seen' = seen
    BY <2>2
  <2> QED
    BY <2>1, <2>2 DEF Start, UploadFile, CollectFile, StartExtract, StartValidate, UnlinkFile,
       StartExtractAll, StartPersist, CreateApplication, StartWrite, session
<1>4. ReasonInv(w)'
  BY <1>0, <1>2, <1>3 DEF ReasonInv
<1> QED
  BY <1>0, <1>1, <1>4, QuietSettles

(* A commit of the row the job works on: the columns the record sets are    *)
(* written where they differ from what was seen, the others stay.          *)
LEMMA CommitColumns ==
  ASSUME IInv, NEW w \in Workers, job[w].pc \in WorkPcs, NEW new \in RowTypes, CommitRow(w, new)
  PROVE  LET d == job[w].doc
             Column(c) == row'[d][c] = IF new[c] # seen[w][d][c] THEN new[c] ELSE row[d][c]
         IN  /\ d \in Docs /\ row[d] # Absent /\ seen[w][d] # Absent /\ row'[d] # Absent
             /\ \A e \in Docs \ {d} : row'[e] = row[e]
             /\ Column("processing") /\ Column("extraction")
             /\ Column("validation") /\ Column("error")
BY CommitTyped DEF Columns

(* The job goes on, and its session has seen what it had seen before. *)
LEMMA WentOn ==
  ASSUME TypeOK, NEW w \in Workers, NEW pc \in Pcs, Goto(w, pc), seen' = seen
  PROVE  /\ job'[w].pc = pc /\ job'[w].doc = job[w].doc /\ job'[w].why = job[w].why
         /\ seen'[w] = seen[w] /\ hurt' = hurt
BY GotoTyped DEF Goto, TypeOK, Jobs, bounds

LEMMA MarksSettle ==
  ASSUME IInv, SettleInv, NEW w \in Workers, Frame(w),
         MarkExtracting(w) \/ MarkValidating(w)
  PROVE  SettleInv'
<1> DEFINE d == job[w].doc
<1>1. PICK p \in Unsettled, pc \in {"parse", "fetch"} :
        /\ job[w].pc = "mark" /\ Goto(w, pc) /\ seen' = seen /\ file' = file
        /\ CommitRow(w, [Loaded(w) EXCEPT !.processing = p])
  BY DEF MarkExtracting, MarkValidating, At, Unsettled
<1> DEFINE x == [Loaded(w) EXCEPT !.processing = p]
<1>2. /\ x \in RowTypes /\ x.processing = p /\ x.extraction = seen[w][d].extraction
      /\ x.validation = seen[w][d].validation /\ x.error = seen[w][d].error
  BY <1>1, LoadedTyped DEF RowTypes, Unsettled, WorkPcs
<1> HIDE DEF x
<1>3. /\ d \in Docs /\ row[d] # Absent /\ row'[d] # Absent
      /\ \A e \in Docs \ {d} : row'[e] = row[e]
      /\ row'[d].processing \in {p, row[d].processing}
      /\ row'[d].extraction = row[d].extraction /\ row'[d].validation = row[d].validation
      /\ row'[d].error = row[d].error
  BY <1>1, <1>2, CommitColumns DEF WorkPcs, x
<1>4. /\ job'[w].pc = pc /\ job'[w].doc = d /\ seen'[w] = seen[w] /\ hurt' = hurt
  BY <1>1, WentOn DEF IInv, Pcs
<1>5. \A e \in Docs : ~Settles(w, e) /\ ~Explains(w, e)
  BY <1>1, NothingOwed
<1>6. \A e \in Docs : e = d => Settles(w, e)'
  BY <1>4 DEF Settles
<1> HIDE DEF d
<1>7. ReasonInv(w)'
  <2>1. \A e \in Docs : seen[w][e] # Absent =>
          /\ row'[e] # Absent
          /\ seen[w][e].validation # "pending" => row'[e].validation # "pending"
    BY <1>3 DEF SettleInv, ReasonInv
  <2> QED
    BY <1>4, <2>1 DEF ReasonInv
<1>8. ASSUME NEW e \in Docs, row'[e] # Absent PROVE TrueInv(e)'
  <2>1. CASE e = d
    BY <1>1, <1>3, <2>1 DEF SettleInv, TrueInv, Rows, Unsettled
  <2>2. CASE e # d
    BY <1>1, <1>3, <1>8, <2>2 DEF SettleInv, TrueInv, Rows
  <2> QED
    BY <2>1, <2>2
<1>9. ASSUME NEW e \in Docs, e # d PROVE row'[e] = row[e]
  BY <1>3, <1>9
<1> QED
  BY <1>3, <1>4, <1>5, <1>6, <1>7, <1>8, <1>9, SettleFrame

LEMMA MarkFailedSettles ==
  ASSUME IInv, SettleInv, NEW w \in Workers, Frame(w), MarkFailed(w)
  PROVE  SettleInv'
<1> DEFINE d == job[w].doc
           x == [Loaded(w) EXCEPT !.processing = "failed", !.extraction = "failed"]
<1>1. /\ job[w].pc = "fail" /\ Goto(w, "log") /\ seen' = seen /\ file' = file
      /\ CommitRow(w, x)
  BY DEF MarkFailed, At
<1>2. /\ x \in RowTypes /\ x.processing = "failed" /\ x.extraction = "failed"
      /\ x.validation = seen[w][d].validation /\ x.error = seen[w][d].error
  BY <1>1, LoadedTyped DEF RowTypes, WorkPcs
<1> HIDE DEF x
<1>3. /\ d \in Docs /\ row[d] # Absent /\ row'[d] # Absent
      /\ \A e \in Docs \ {d} : row'[e] = row[e]
      /\ row'[d].processing = IF seen[w][d].processing # "failed"
                              THEN "failed" ELSE row[d].processing
      /\ row'[d].validation = row[d].validation /\ row'[d].error = row[d].error
  BY <1>1, <1>2, CommitColumns DEF WorkPcs
<1>4. /\ job'[w].pc = "log" /\ job'[w].doc = d /\ job'[w].why = job[w].why
      /\ seen'[w] = seen[w] /\ hurt' = hurt
  BY <1>1, WentOn DEF IInv, Pcs
<1>5. /\ \A e \in Docs : ~Explains(w, e) /\ (Settles(w, e) => e = d)
      /\ Settles(w, d) <=> seen[w][d].processing # "failed"
      /\ \A e \in Docs : e = d => Explains(w, e)'
  BY <1>1, <1>4 DEF Settles, Explains
<1> HIDE DEF d
<1>6. ReasonInv(w)'
  <2>1. \A e \in Docs : seen[w][e] # Absent =>
          /\ row'[e] # Absent
          /\ seen[w][e].validation # "pending" => row'[e].validation # "pending"
    BY <1>3 DEF SettleInv, ReasonInv
  <2>2. /\ job[w].why # "none"
        /\ job[w].why = "not_found" => file[d] \in {"missing", "unlinked"}
    BY <1>1 DEF SettleInv, ReasonInv, d
  <2> QED
    BY <1>1, <1>4, <2>1, <2>2 DEF ReasonInv
<1>7. ASSUME NEW e \in Docs, row'[e] # Absent PROVE TrueInv(e)'
  <2>1. CASE e = d
    BY <1>1, <1>3, <2>1 DEF SettleInv, TrueInv, Rows
  <2>2. CASE e # d
    BY <1>1, <1>3, <1>7, <2>2 DEF SettleInv, TrueInv, Rows
  <2> QED
    BY <2>1, <2>2
<1>8. row'[d].processing \in Unsettled => row[d].processing \in Unsettled /\ ~Settles(w, d)
  BY <1>3, <1>5 DEF Unsettled
<1>9. ASSUME NEW e \in Docs, e # d PROVE row'[e] = row[e] /\ ~Settles(w, e)
  BY <1>3, <1>5, <1>9
<1> QED
  BY <1>3, <1>4, <1>5, <1>6, <1>7, <1>8, <1>9, SettleFrame

(* A validation and a deletion end with their commits. *)
LEMMA EndingCommitsSettle ==
  ASSUME IInv, SettleInv, NEW w \in Workers, Frame(w), MarkCompleted(w) \/ MarkArchived(w)
  PROVE  SettleInv'
<1> DEFINE d == job[w].doc
<1>1. /\ job[w].pc \in {"complete", "archive"} /\ End(w) /\ file' = file
  BY DEF MarkCompleted, MarkArchived, At
<1>2. /\ d \in Docs /\ row[d] # Absent /\ row'[d] # Absent
      /\ \A e \in Docs \ {d} : row'[e] = row[e]
      /\ row'[d].extraction = row[d].extraction /\ row'[d].error = row[d].error
      /\ row[d].validation # "pending" => row'[d].validation # "pending"
      /\ row'[d].processing = "completed" => row'[d].validation # "pending"
      /\ row'[d].processing \in Unsettled =>
           row'[d].processing = row[d].processing /\ ~Settles(w, d)
  <2>1. CASE MarkCompleted(w)
    <3> DEFINE v == RunSingleValidation(d)
               x == [Loaded(w) EXCEPT !.processing = "completed", !.validation = v]
    <3>1. CommitRow(w, x) /\ job[w].pc = "complete"
      BY <2>1 DEF MarkCompleted, At
    <3>2. v \in {"valid", "invalid"}
      BY DEF RunSingleValidation
    <3> HIDE DEF v
    <3>3. /\ x \in RowTypes /\ x.processing = "completed" /\ x.validation = v
          /\ x.extraction = seen[w][d].extraction /\ x.error = seen[w][d].error
      BY <3>1, <3>2, LoadedTyped DEF RowTypes, WorkPcs
    <3> HIDE DEF x
    <3>4. /\ d \in Docs /\ row[d] # Absent /\ seen[w][d] # Absent /\ row'[d] # Absent
          /\ \A e \in Docs \ {d} : row'[e] = row[e]
          /\ row'[d].extraction = row[d].extraction /\ row'[d].error = row[d].error
          /\ row'[d].validation = IF v # seen[w][d].validation THEN v ELSE row[d].validation
          /\ row'[d].processing = IF seen[w][d].processing # "completed"
                                  THEN "completed" ELSE row[d].processing
      BY <3>1, <3>3, CommitColumns DEF WorkPcs
    <3>5. seen[w][d].validation # "pending" => row[d].validation # "pending"
      BY <3>4 DEF SettleInv, ReasonInv
    <3>6. row'[d].validation # "pending"
      BY <3>2, <3>4, <3>5
    <3>7. row'[d].processing \in Unsettled =>
            row'[d].processing = row[d].processing /\ ~Settles(w, d)
      BY <3>1, <3>4 DEF Settles, Unsettled
    <3> QED
      BY <3>4, <3>6, <3>7
  <2>2. CASE MarkArchived(w)
    <3> DEFINE x == [Loaded(w) EXCEPT !.processing = "archived"]
    <3>1. CommitRow(w, x) /\ job[w].pc = "archive"
      BY <2>2 DEF MarkArchived, At
    <3>2. /\ x \in RowTypes /\ x.processing = "archived"
          /\ x.validation = seen[w][d].validation
          /\ x.extraction = seen[w][d].extraction /\ x.error = seen[w][d].error
      BY <3>1, LoadedTyped DEF RowTypes, WorkPcs
    <3> HIDE DEF x
    <3>3. /\ d \in Docs /\ row[d] # Absent /\ row'[d] # Absent
          /\ \A e \in Docs \ {d} : row'[e] = row[e]
          /\ row'[d].extraction = row[d].extraction /\ row'[d].error = row[d].error
          /\ row'[d].validation = row[d].validation
          /\ row'[d].processing \in {"archived", row[d].processing}
      BY <3>1, <3>2, CommitColumns DEF WorkPcs
    <3>4. ~Settles(w, d)
      BY <3>1 DEF Settles
    <3> QED
      BY <3>3, <3>4 DEF SettleInv, TrueInv, Rows, Unsettled
  <2> QED
    BY <2>1, <2>2
<1>3. job'[w] = Idle /\ hurt' = hurt /\ ReasonInv(w)'
  BY <1>1, EndForgets DEF IInv
<1>4. \A e \in Docs : ~Explains(w, e) /\ (Settles(w, e) => e = d)
  BY <1>1 DEF Settles, Explains
<1> HIDE DEF d
<1>5. ASSUME NEW e \in Docs, row'[e] # Absent PROVE TrueInv(e)'
  <2>1. CASE e = d
    BY <1>1, <1>2, <2>1 DEF SettleInv, TrueInv, Rows
  <2>2. CASE e # d
    BY <1>1, <1>2, <1>5, <2>2 DEF SettleInv, TrueInv, Rows
  <2> QED
    BY <2>1, <2>2
<1>6. ASSUME NEW e \in Docs, e # d PROVE row'[e] = row[e] /\ ~Settles(w, e)
  BY <1>2, <1>4, <1>6
<1> QED
  BY <1>2, <1>3, <1>4, <1>5, <1>6, SettleFrame

LEMMA LogErrorSettles ==
  ASSUME IInv, SettleInv, NEW w \in Workers, Frame(w), LogError(w)
  PROVE  SettleInv'
<1> DEFINE d == job[w].doc
<1>1. /\ job[w].pc = "log" /\ row' = [row EXCEPT ![d].error = job[w].why] /\ file' = file
  BY DEF LogError, At
<1>2. /\ d \in Docs /\ row[d] \in RowTypes /\ row[d] # Absent
      /\ row \in [Docs -> RowTypes \cup {Absent}]
  BY <1>1, LoadedTyped DEF WorkPcs, IInv, TypeOK
<1>3. /\ row'[d] # Absent /\ row'[d].error = job[w].why
      /\ row'[d].processing = row[d].processing /\ row'[d].extraction = row[d].extraction
      /\ row'[d].validation = row[d].validation
      /\ \A e \in Docs \ {d} : row'[e] = row[e]
  <2>1. row' = [row EXCEPT ![d] = [row[d] EXCEPT !.error = job[w].why]]
    BY <1>1
  <2>2. row'[d] # Absent
    BY <1>2 DEF Frame
  <2> HIDE DEF d
  <2> QED
    BY <1>2, <2>1, <2>2 DEF RowTypes
<1>4. /\ job[w].why # "none"
      /\ job[w].why = "not_found" => file[d] \in {"missing", "unlinked"}
  BY <1>1 DEF SettleInv, ReasonInv
<1>5. /\ \A e \in Docs : ~Settles(w, e) /\ (Explains(w, e) => e = d)
  BY <1>1 DEF Settles, Explains
<1>6. hurt' = hurt /\ ReasonInv(w)'
  <2>1. CASE End(w)
    BY <2>1, EndForgets DEF IInv
  <2>2. CASE seen' = [seen EXCEPT ![w][d] = row'[d]] /\ Goto(w, "next")
    <3>1. job'[w].pc = "next" /\ hurt' = hurt
      BY <2>2, GotoTyped DEF IInv, Pcs, Goto, bounds
    <3>2. \A e \in Docs : seen'[w][e] = IF e = d THEN row'[e] ELSE seen[w][e]
      BY <1>2, <2>2 DEF IInv, TypeOK
    <3>3. \A e \in Docs : seen[w][e] # Absent =>
            /\ row[e] # Absent
            /\ seen[w][e].validation # "pending" => row[e].validation # "pending"
      BY DEF SettleInv, ReasonInv
    <3> HIDE DEF d
    <3>4. \A e \in Docs : seen'[w][e] # Absent =>
            /\ row'[e] # Absent
            /\ seen'[w][e].validation # "pending" => row'[e].validation # "pending"
      BY <1>3, <3>2, <3>3
    <3> QED
      BY <3>1, <3>4 DEF ReasonInv
  <2> QED
    BY <2>1, <2>2 DEF LogError
<1> HIDE DEF d
<1>7. ASSUME NEW e \in Docs, row'[e] # Absent PROVE TrueInv(e)'
  <2>1. CASE e = d
    BY <1>1, <1>2, <1>3, <1>4, <2>1 DEF SettleInv, TrueInv, Rows
  <2>2. CASE e # d
    BY <1>1, <1>3, <1>7, <2>2 DEF SettleInv, TrueInv, Rows
  <2> QED
    BY <2>1, <2>2
<1>8. ASSUME NEW e \in Docs, e # d PROVE row'[e] = row[e] /\ ~Explains(w, e)
  BY <1>3, <1>5, <1>8
<1> QED
  BY <1>2, <1>3, <1>4, <1>5, <1>6, <1>7, <1>8, SettleFrame

(* The pipeline and a validation look at the row again: only now it is      *)
(* known whether their commit will write the status.                       *)
LEMMA RefreshesSettle ==
  ASSUME IInv, SettleInv, NEW w \in Workers, Frame(w), RunPipeline(w) \/ FetchExtracted(w)
  PROVE  SettleInv'
<1> DEFINE d == job[w].doc
<1>1. /\ job[w].pc \in {"parse", "fetch"} /\ Load(w, {d}) /\ row' = row /\ file' = file
      /\ job[w] \in Jobs /\ job \in [Workers -> Jobs]
  BY DEF RunPipeline, FetchExtracted, At, Refresh, IInv, TypeOK
<1>2. d \in Docs /\ row[d] # Absent
  BY <1>1, LoadedTyped DEF WorkPcs
<1>3. \A e \in Docs : seen'[w][e] = IF e = d THEN row[e] ELSE seen[w][e]
  BY <1>1, LoadTyped DEF IInv
<1>4. /\ job'[w].doc = d /\ hurt' = hurt
      /\ \/ job'[w].pc = "complete"
         \/ /\ job'[w].pc = "fail" /\ job'[w].why # "none"
            /\ job'[w].why = "not_found" => file[d] # "stored"
  <2>1. CASE FetchExtracted(w)
    <3>1. Goto(w, "complete") /\ "complete" \in Pcs
      BY <2>1 DEF FetchExtracted, Pcs
    <3> QED
      BY <3>1, GotoTyped DEF IInv, Goto, bounds
  <2>2. CASE RunPipeline(w)
    <3>1. /\ job' = [job EXCEPT ![w].pc = "fail",
               ![w].why = IF file[d] = "stored" THEN "raised" ELSE "not_found"]
          /\ hurt' = hurt
      BY <2>2 DEF RunPipeline, bounds
    <3> QED
      BY <1>1, <3>1 DEF Jobs
  <2> QED
    BY <2>1, <2>2
<1>5. file[d] # "stored" => file[d] \in {"missing", "unlinked"}
  BY <1>2 DEF IInv, FilesMatchRows, Rows, TypeOK
<1>6. \A e \in Docs : ~Explains(w, e) /\ (Settles(w, e) => e = d)
  BY <1>1 DEF Settles, Explains
<1> HIDE DEF d
<1>7. ASSUME NEW e \in Docs, e = d, row[e].processing \in Unsettled PROVE Settles(w, e)'
  <2>1. seen'[w][e] = row[e] /\ job'[w].doc = e
    BY <1>3, <1>4, <1>7
  <2> QED
    BY <1>4, <1>7, <2>1 DEF Settles, Unsettled
<1>8. ReasonInv(w)'
  <2>1. \A e \in Docs : seen'[w][e] # Absent =>
          /\ row'[e] # Absent
          /\ seen'[w][e].validation # "pending" => row'[e].validation # "pending"
    BY <1>1, <1>2, <1>3 DEF SettleInv, ReasonInv
  <2> QED
    BY <1>1, <1>4, <1>5, <2>1 DEF ReasonInv
<1> QED
  BY <1>1, <1>4, <1>6, <1>7, <1>8, QuietSettles

LEMMA StepsSettle ==
  ASSUME IInv, SettleInv, NEW w \in Workers, Step(w)
  PROVE  SettleInv'
<1>0. TypeOK /\ Frame(w) /\ ReasonInv(w)
  BY StepsKeep DEF IInv, SettleInv
<1> USE DEF At
<1>1. CASE CreateRow(w)
  <2>1. /\ Creating(w) /\ End(w) /\ row' = [row EXCEPT ![job[w].doc] = NewRow]
        /\ job[w].pc = "create" /\ file' = file
    BY <1>1 DEF CreateRow, Creating, Creators
  <2>2. job[w].doc \in Docs /\ row[job[w].doc] = Absent
    BY <2>1 DEF IInv, Sound
  <2>3. job'[w] = Idle /\ hurt' = hurt /\ ReasonInv(w)'
    BY <1>0, <2>1, EndForgets
  <2>4. \A d \in Docs : ~Settles(w, d) /\ ~Explains(w, d)
    BY <2>1, NothingOwed
  <2>5. \A d \in Docs : row'[d] = IF d = job[w].doc THEN NewRow ELSE row[d]
    BY <1>0, <2>1, <2>2 DEF TypeOK
  <2>6. NewRow.processing = "uploaded" /\ NewRow.extraction = "pending" /\ NewRow.error = "none"
    BY DEF NewRow
  <2>7. ASSUME NEW d \in Docs, row'[d] # Absent PROVE TrueInv(d)'
    <3>1. CASE d = job[w].doc
      BY <2>5, <2>6, <3>1 DEF TrueInv
    <3>2. CASE d # job[w].doc
      BY <2>1, <2>5, <2>7, <3>2 DEF SettleInv, TrueInv, Rows
    <3> QED
      BY <3>1, <3>2
  <2> QED
    BY <1>0, <2>2, <2>3, <2>4, <2>5, <2>6, <2>7, SettleFrame DEF Unsettled
<1>2. CASE NextDocument(w)
  <2>1. row' = row /\ job[w].pc = "next"
    BY <1>2 DEF NextDocument
  <2>2. \A d \in Docs : ~Settles(w, d) /\ ~Explains(w, d)
    BY <2>1, NothingOwed
  <2>3. ReasonInv(w)' /\ hurt' = hurt
    <3>1. CASE End(w)
      BY <1>0, <3>1, EndForgets
    <3>2. ASSUME NEW d \in job[w].todo,
                 job' = [job EXCEPT ![w].todo = @ \ {d}, ![w].doc = d,
                                    ![w].pc = IF Extractable(w, d) THEN "mark" ELSE "next"],
                 UNCHANGED <<seen, seenApp, bounds>>
          PROVE  ReasonInv(w)' /\ hurt' = hurt
      <4>1. job'[w].pc \in {"mark", "next"}
        BY <1>0, <3>2 DEF TypeOK, Jobs
      <4> QED
        BY <1>0, <2>1, <3>2, <4>1 DEF ReasonInv, bounds
    <3> QED
      BY <1>2, <3>1, <3>2 DEF NextDocument
  <2> QED
    BY <1>0, <2>1, <2>2, <2>3, QuietSettles
<1>3. CASE ClosePersist(w) \/ WriteApplication(w)
  <2>1. row' = row /\ job[w].pc \in {"close", "write"} /\ End(w)
    BY <1>3 DEF ClosePersist, WriteApplication
  <2>2. \A d \in Docs : ~Settles(w, d) /\ ~Explains(w, d)
    BY <2>1, NothingOwed
  <2> QED
    BY <1>0, <2>1, <2>2, EndForgets, QuietSettles
<1> QED
  BY <1>0, <1>1, <1>2, <1>3, MarksSettle, MarkFailedSettles, EndingCommitsSettle,
     LogErrorSettles, RefreshesSettle DEF Step

LEMMA LossesSettle ==
  ASSUME IInv, SettleInv, NEW w \in Workers, Lose(w)
  PROVE  SettleInv'
<1>1. Frame(w) /\ row' = row /\ hurt' = hurt \cup ({job[w].doc} \ {Absent})
  BY LossesKeep DEF Lose
<1>2. job'[w] = Idle /\ seen'[w] = NothingSeen
  BY DEF Lose, IInv, TypeOK
<1>3. \A d \in Docs : Settles(w, d) \/ Explains(w, d) => d \in hurt'
  BY <1>1 DEF Settles, Explains
<1> QED
  BY <1>1, <1>2, <1>3, EndedReason, QuietSettles

LEMMA InitSettleInv == Init => SettleInv
<1> SUFFICES ASSUME Init PROVE SettleInv
  OBVIOUS
<1>1. \A d \in Rows : row[d] = NewRow
  BY DEF Init, Rows
<1>2. \A d \in Rows : OwedInv(d) /\ TrueInv(d)
  BY <1>1 DEF NewRow, OwedInv, TrueInv, Unsettled
<1>3. \A w \in Workers : job[w] = Idle /\ seen[w] = NothingSeen
  BY DEF Init
<1>4. \A w \in Workers : ReasonInv(w)
  BY <1>3, IdleTyped DEF ReasonInv, NothingSeen
<1> QED
  BY <1>2, <1>4 DEF SettleInv

LEMMA SettleInductive == IInv /\ SettleInv /\ [Next]_vars => SettleInv'
<1>1. ASSUME IInv, SettleInv, UNCHANGED vars PROVE SettleInv'
  BY <1>1 DEF vars, session, bounds, SettleInv, OwedInv, TrueInv, ReasonInv, Rows,
     Settles, Explains
<1>2. ASSUME IInv, SettleInv, Next PROVE SettleInv'
  BY <1>2, StartsSettle, StepsSettle, LossesSettle DEF Next
<1> QED
  BY <1>1, <1>2

(* Of any number of documents and overlapping jobs of DocumentService,      *)
(* ExtractionService and ValidationService: a document nobody works on and *)
(* no job was cut off at is settled and its failure explained, what the    *)
(* explanation says of the file is true, and a completed document has its  *)
(* verdict, whatever columns the commits of the sessions have skipped.     *)
THEOREM DocumentsDoSettle == Spec => []DocumentsSettle
<1>1. IInv /\ SettleInv => DocumentsSettle
  <2> SUFFICES ASSUME IInv, SettleInv, NEW d \in Rows
               PROVE  /\ ~Busy(d) /\ d \notin hurt =>
                           /\ row[d].processing \notin {"extracting", "validating"}
                           /\ row[d].extraction = "failed" => row[d].error # "none"
                      /\ row[d].error = "not_found" => file[d] # "stored"
                      /\ row[d].processing = "completed" => row[d].validation # "pending"
    BY DEF DocumentsSettle
  <2>1. OwedInv(d) /\ TrueInv(d)
    BY DEF SettleInv
  <2>2. \A w \in Workers : Settles(w, d) \/ Explains(w, d) => Busy(d)
    BY DEF Settles, Explains, Busy
  <2> QED
    BY <2>1, <2>2 DEF OwedInv, TrueInv, Unsettled
<1>2. Spec => []SettleInv
  BY InitSettleInv, SettleInductive, InductiveInvariant, PTL DEF Spec
<1> QED
  BY <1>1, <1>2, InductiveInvariant, PTL
=============================================================================
