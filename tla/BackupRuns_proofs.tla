-------------------------- MODULE BackupRuns_proofs --------------------------
(***************************************************************************)
(* Theorems about BackupRuns, for every value of its constants.            *)
(***************************************************************************)
EXTENDS BackupRunsDelivery, WellFoundedInduction, TLAPS

-----------------------------------------------------------------------------
(* The status store: every method keeps the type of a job's snapshot. *)

\* The parts of a snapshot's target entry.
LEMMA EntryType ==
    ASSUME NEW s \in JobSnapshot, NEW i \in 1..Len(s.targets)
    PROVE  /\ s.targets[i] \in TargetSnapshot
           /\ s.targets[i].target \in Targets
           /\ s.targets[i].state \in TargetState
           /\ ServerOf[s.targets[i].target] \in Servers
<1>1. s.targets \in Seq(TargetSnapshot)
  BY DEF JobSnapshot
<1>2. s.targets[i] \in TargetSnapshot
  BY <1>1
<1> QED BY <1>2 DEF TargetSnapshot, Servers

\* A function over the indices of a sequence is a sequence.
LEMMA MapSeq ==
    ASSUME NEW S, NEW n \in Nat, NEW e \in [1..n -> S]
    PROVE  e \in Seq(S)
OBVIOUS

\* Replacing a snapshot's target list keeps its type.
LEMMA WithTargetsType ==
    ASSUME NEW s \in JobSnapshot, NEW e \in Seq(TargetSnapshot)
    PROVE  [s EXCEPT !.targets = e] \in JobSnapshot
BY DEF JobSnapshot

\* The length of a snapshot's target list.
LEMMA LenType ==
    ASSUME NEW s \in JobSnapshot
    PROVE  Len(s.targets) \in Nat /\ s.targets \in [1..Len(s.targets) -> TargetSnapshot]
BY DEF JobSnapshot

\* A fresh snapshot is a snapshot.
LEMMA newJobSnapshotType ==
    ASSUME NEW list \in Seq(Targets)
    PROVE  newJobSnapshot(list) \in JobSnapshot
<1>1. idleTargets(list) \in [1..Len(list) -> TargetSnapshot]
  BY DEF idleTargets, TargetSnapshot, TargetState
<1>2. idleTargets(list) \in Seq(TargetSnapshot)
  BY <1>1, MapSeq
<1> QED BY <1>2 DEF newJobSnapshot, JobSnapshot, RunState, TargetState, FilesFailed

\* The job's own state is a run state.
LEMMA jobStateType ==
    ASSUME NEW s \in JobSnapshot
    PROVE  jobState(s) \in RunState
BY DEF jobState, overallState, JobSnapshot, RunState, TargetState, FilesFailed

\* So is the one of an unknown job.
LEMMA UnknownType == Unknown \in JobSnapshot
BY DEF Unknown, JobSnapshot, RunState, TargetState, FilesFailed

\* Starting returns a snapshot.
LEMMA StartingType ==
    ASSUME NEW s \in JobSnapshot
    PROVE  Starting(s) \in JobSnapshot
<1> DEFINE e == [i \in 1..Len(s.targets) |-> [s.targets[i] EXCEPT !.state = "running"]]
<1>1. e \in [1..Len(s.targets) -> TargetSnapshot]
  BY EntryType DEF TargetSnapshot, TargetState
<1>2. e \in Seq(TargetSnapshot)
  BY <1>1, LenType, MapSeq
<1>3. Starting(s) = IF ~Known(s) THEN s ELSE [s EXCEPT !.state = "running", !.targets = e]
  BY DEF Starting
<1> HIDE DEF e
<1> QED BY <1>2, <1>3 DEF JobSnapshot, RunState, TargetState

\* RetryStarting returns a snapshot, whatever servers it is given.
LEMMA RetryStartingType ==
    ASSUME NEW s \in JobSnapshot, NEW servers
    PROVE  RetryStarting(s, servers) \in JobSnapshot
<1> DEFINE e == [i \in 1..Len(s.targets) |->
                   IF ServerOf[s.targets[i].target] \in servers
                   THEN [s.targets[i] EXCEPT !.state = "running"] ELSE s.targets[i]]
<1>1. e \in [1..Len(s.targets) -> TargetSnapshot]
  BY EntryType DEF TargetSnapshot, TargetState
<1>2. e \in Seq(TargetSnapshot)
  BY <1>1, LenType, MapSeq
<1>3. RetryStarting(s, servers) = [s EXCEPT !.targets = e]
  BY DEF RetryStarting
<1> HIDE DEF e
<1> QED BY <1>2, <1>3, WithTargetsType

\* TargetDone returns a snapshot, for any index, out of range included.
LEMMA TargetDoneType ==
    ASSUME NEW s \in JobSnapshot, NEW index, NEW outcome \in {"ok", "failed"}
    PROVE  TargetDone(s, index, outcome) \in JobSnapshot
<1>1. CASE index \in 1..Len(s.targets)
  <2> DEFINE e == [s.targets EXCEPT ![index] = [@ EXCEPT !.state = outcome]]
  <2>1. [s.targets[index] EXCEPT !.state = outcome] \in TargetSnapshot
    BY <1>1, EntryType DEF TargetSnapshot, TargetState
  <2>2. e \in [1..Len(s.targets) -> TargetSnapshot]
    BY <1>1, <2>1, LenType
  <2>3. e \in Seq(TargetSnapshot)
    BY <2>2, LenType, MapSeq
  <2>4. TargetDone(s, index, outcome) = [s EXCEPT !.targets = e]
    BY <1>1 DEF TargetDone
  <2> HIDE DEF e
  <2> QED BY <2>3, <2>4, WithTargetsType
<1>2. CASE index \notin 1..Len(s.targets)
  BY <1>2 DEF TargetDone
<1> QED BY <1>1, <1>2

\* Finished returns a snapshot.
LEMMA FinishedType ==
    ASSUME NEW s \in JobSnapshot, NEW failed \in FilesFailed
    PROVE  Finished(s, failed) \in JobSnapshot
<1> DEFINE f == [s EXCEPT !.failedFiles = failed]
<1>1. f \in JobSnapshot
  BY DEF JobSnapshot
<1>2. jobState(f) \in RunState
  BY <1>1, jobStateType
<1> QED BY <1>2 DEF Finished, JobSnapshot

\* RefreshJobState returns a snapshot.
LEMMA RefreshJobStateType ==
    ASSUME NEW s \in JobSnapshot
    PROVE  RefreshJobState(s) \in JobSnapshot
BY jobStateType DEF RefreshJobState, JobSnapshot

\* A nonempty set of natural numbers has a smallest element.
LEMMA SmallestExists ==
    ASSUME NEW T \in SUBSET Nat, T # {}
    PROVE  \E x \in T : \A y \in T : x <= y
<1> DEFINE R == {ss \in Nat \X Nat : ss[1] < ss[2]}
<1>1. OpToRel(<, Nat) = R
  BY DEF OpToRel
<1>2. IsWellFoundedOn(R, Nat)
  BY <1>1, NatLessThanWellFounded
<1>3. PICK x \in T : \A y \in T : <<y, x>> \notin R
  <2> HIDE DEF R
  <2> QED BY <1>2, WFMin
<1>4. ASSUME NEW y \in T PROVE x <= y
  <2>1. <<y, x>> \in Nat \X Nat /\ <<y, x>> \notin R
    BY <1>3
  <2>2. ~(y < x)
    BY <2>1
  <2> QED BY <2>2
<1> QED BY <1>4

\* A kept state is the state of some entry, or idle.
LEMMA keptStateType ==
    ASSUME NEW s \in JobSnapshot, NEW t
    PROVE  keptState(s, t) \in TargetState
<1> DEFINE M == {i \in 1..Len(s.targets) : s.targets[i].target = t}
<1>1. CASE M = {}
  BY <1>1 DEF keptState, TargetState
<1>2. CASE M # {}
  <2>1. M \subseteq Nat
    OBVIOUS
  <2>2. (CHOOSE i \in M : \A j \in M : i <= j) \in M
    BY <1>2, <2>1, SmallestExists
  <2>3. keptState(s, t) = s.targets[CHOOSE i \in M : \A j \in M : i <= j].state
    BY <1>2 DEF keptState
  <2> QED BY <2>2, <2>3, EntryType
<1> QED BY <1>1, <1>2

\* Upsert returns a snapshot for any new list of targets.
LEMMA UpsertType ==
    ASSUME NEW s \in JobSnapshot, NEW list \in Seq(Targets)
    PROVE  Upsert(s, list) \in JobSnapshot
<1> DEFINE e == [i \in 1..Len(list) |-> [target |-> list[i], state |-> keptState(s, list[i])]]
<1>1. e \in [1..Len(list) -> TargetSnapshot]
  BY keptStateType DEF TargetSnapshot
<1>2. e \in Seq(TargetSnapshot)
  <2>1. Len(list) \in Nat
    OBVIOUS
  <2> HIDE DEF e
  <2> QED BY <1>1, <2>1, MapSeq
<1>3. Upsert(s, list) = IF ~Known(s) THEN newJobSnapshot(list) ELSE [s EXCEPT !.targets = e]
  BY DEF Upsert
<1> HIDE DEF e
<1> QED BY <1>2, <1>3, WithTargetsType, newJobSnapshotType

\* SeedLastRun returns a snapshot.
LEMMA SeedLastRunType ==
    ASSUME NEW s \in JobSnapshot, NEW state \in {"ok", "failed"}
    PROVE  SeedLastRun(s, state) \in JobSnapshot
BY DEF SeedLastRun, JobSnapshot, RunState, TargetState

\* SeedTargetRun returns a snapshot, whatever outcomes were saved.
LEMMA SeedTargetRunType ==
    ASSUME NEW s \in JobSnapshot, NEW from \in [Servers -> {"none", "ok", "failed"}]
    PROVE  SeedTargetRun(s, from) \in JobSnapshot
<1> DEFINE server(i) == ServerOf[s.targets[i].target]
           seeded(i) == from[server(i)] # "none" /\ \A j \in 1..(i - 1) : server(j) # server(i)
           e == [i \in 1..Len(s.targets) |->
                   IF seeded(i) THEN [s.targets[i] EXCEPT !.state = from[server(i)]]
                   ELSE s.targets[i]]
<1>1. ASSUME NEW i \in 1..Len(s.targets)
      PROVE  e[i] \in TargetSnapshot
  <2>1. s.targets[i] \in TargetSnapshot /\ server(i) \in Servers
    BY EntryType
  <2>2. from[server(i)] \in {"none", "ok", "failed"}
    BY <2>1
  <2>3. e[i] = IF seeded(i) THEN [s.targets[i] EXCEPT !.state = from[server(i)]] ELSE s.targets[i]
    OBVIOUS
  <2>4. CASE seeded(i)
    <3>1. from[server(i)] \in TargetState
      BY <2>2, <2>4 DEF TargetState
    <3> HIDE DEF seeded, server
    <3> QED BY <2>1, <2>3, <2>4, <3>1 DEF TargetSnapshot
  <2>5. CASE ~seeded(i)
    BY <2>1, <2>3, <2>5
  <2> QED BY <2>4, <2>5
<1>2. e \in [1..Len(s.targets) -> TargetSnapshot]
  BY <1>1
<1>3. e \in Seq(TargetSnapshot)
  <2> HIDE DEF e
  <2> QED BY <1>2, LenType, MapSeq
<1>4. SeedTargetRun(s, from) = [s EXCEPT !.targets = e]
  BY DEF SeedTargetRun
<1> HIDE DEF e
<1> QED BY <1>3, <1>4, WithTargetsType

-----------------------------------------------------------------------------
(* The runs and the retry loop. *)

\* What each process works on agrees with where it is.
ControlOK ==
    /\ phase # "idle" => runNo \in 1..MaxRuns
    /\ phase = "draining" => next \in Files
    /\ phase # "uploading" => left = {}
    /\ \A i \in DOMAIN up : (up[i].pc \in {"open", "send", "record"}) <=> (up[i].todo # {})
    /\ phase \in {"idle", "starting", "staging", "draining"} => DOMAIN up = {}
    /\ IF loop \in {"sleep", "each"} THEN cur = NoRow ELSE cur \in Rows
    /\ loop = "send" => ByServer(curJob, ServerOf[cur.origin]) # {}

Inv == TypeOK /\ ControlOK

-----------------------------------------------------------------------------
(* The smallest and the largest element of a set of numbers *)

\* SetMin of a nonempty set of naturals is its smallest element.
LEMMA SetMinIn ==
    ASSUME NEW S \in SUBSET Nat, S # {}
    PROVE  SetMin(S) \in S /\ \A y \in S : SetMin(S) <= y
BY SmallestExists DEF SetMin

\* SetMax of a nonempty set of sources is its largest element.
LEMMA SetMaxIn ==
    ASSUME NEW S \in SUBSET Files, S # {}
    PROVE  SetMax(S) \in S /\ \A y \in S : SetMax(S) >= y
<1> DEFINE U == {n \in Nat : \A y \in S : y <= n}
<1>1. NFiles \in U
  BY BackupRunsAssumption DEF Files
<1>2. PICK m \in U : \A n \in U : m <= n
  <2>1. U \in SUBSET Nat /\ U # {}
    BY <1>1
  <2> HIDE DEF U
  <2> QED BY <2>1, SmallestExists
<1>3. m \in S
  <2> SUFFICES ASSUME m \notin S PROVE FALSE
    OBVIOUS
  <2>1. PICK y \in S : TRUE
    OBVIOUS
  <2>2. y \in Nat /\ y <= m /\ y # m /\ y >= 1
    BY <2>1, <1>2, BackupRunsAssumption DEF Files
  <2>3. m - 1 \in U
    BY <2>2, <1>2, BackupRunsAssumption DEF Files
  <2> QED BY <2>3, <1>2
<1>4. \E x \in S : \A y \in S : x >= y
  <2>1. \A y \in S : m >= y
    BY <1>2, BackupRunsAssumption DEF Files
  <2> QED BY <1>3, <2>1
<1> QED BY <1>4 DEF SetMax

-----------------------------------------------------------------------------
(* Type correctness *)

\* Every target list, NoJob included, is a sequence of targets.
LEMMA ListType ==
    ASSUME NEW list \in JobLists \cup {NoJob}
    PROVE  list \in Seq(Targets) /\ Len(list) \in Nat
<1>1. NoJob \in Seq(Targets)
  BY DEF NoJob
<1>2. JobLists \subseteq Seq(Targets)
  BY BackupRunsAssumption
<1>3. list \in Seq(Targets)
  BY <1>1, <1>2
<1> QED BY <1>3

\* A goroutine works for one of the run's targets.
LEMMA RunTargets ==
    ASSUME TypeOK, NEW i \in DOMAIN up
    PROVE  /\ runJob \in Seq(Targets)
           /\ runJob[i] \in Targets
           /\ ServerOf[runJob[i]] \in Servers
<1>1. runJob \in Seq(Targets)
  BY ListType DEF TypeOK
<1>2. runJob[i] \in Targets
  BY <1>1 DEF TypeOK
<1> QED BY <1>1, <1>2 DEF Servers

\* A goroutine with files to upload is at one of the run's staged files.
LEMMA CurrentFileType ==
    ASSUME Inv, NEW i \in DOMAIN up, phase = "uploading", up[i].todo # {}
    PROVE  /\ SetMin(up[i].todo) \in up[i].todo
           /\ SetMin(up[i].todo) \in Files
           /\ CurrentFile(i) \in Staged
           /\ [origin |-> runJob[i], file |-> CurrentFile(i)] \in Rows
<1>1. up[i].todo \in SUBSET Files
  BY DEF Inv, TypeOK, Goroutines
<1>2. up[i].todo \in SUBSET Nat
  BY <1>1, BackupRunsAssumption DEF Files
<1>3. SetMin(up[i].todo) \in up[i].todo
  BY <1>2, SetMinIn
<1>4. runNo \in 1..MaxRuns
  BY DEF Inv, ControlOK
<1>5. CurrentFile(i) \in Staged
  BY <1>1, <1>3, <1>4 DEF CurrentFile, StagedFile, Staged
<1> QED BY <1>1, <1>3, <1>5, RunTargets DEF Inv, Rows

\* The target of a retry is one of the job's targets.
LEMMA CurUploadType ==
    ASSUME Inv, loop = "send"
    PROVE  /\ CurIndex \in 1..Len(curJob)
           /\ curJob[CurIndex] \in Targets
           /\ ServerOf[curJob[CurIndex]] = ServerOf[cur.origin]
           /\ CurUpload \in Rows
<1> DEFINE S == ByServer(curJob, ServerOf[cur.origin])
<1>1. curJob \in Seq(Targets)
  BY ListType DEF Inv, TypeOK
<1>2. S \in SUBSET Nat /\ S # {}
  BY <1>1 DEF Inv, ControlOK, ByServer
<1>3. CurIndex \in S
  <2> HIDE DEF S
  <2> QED BY <1>2, SetMinIn DEF CurIndex, S
<1>4. CurIndex \in 1..Len(curJob) /\ ServerOf[curJob[CurIndex]] = ServerOf[cur.origin]
  BY <1>3 DEF ByServer
<1>5. curJob[CurIndex] \in Targets
  BY <1>1, <1>4
<1>6. cur \in Rows
  BY DEF Inv, ControlOK
<1> QED BY <1>4, <1>5, <1>6 DEF CurUpload, Rows

\* Seeding from the database keeps the snapshot's type.
LEMMA SeedStatusType ==
    ASSUME saved \in [Servers -> SavedOutcome], lastRun \in SavedOutcome, NEW s \in JobSnapshot
    PROVE  SeedStatusFromState(s) \subseteq JobSnapshot
<1>1. CASE lastRun = "none"
  BY <1>1, SeedTargetRunType DEF SavedOutcome, SeedStatusFromState
<1>2. CASE lastRun # "none"
  BY <1>2, SeedTargetRunType, SeedLastRunType DEF SavedOutcome, SeedStatusFromState
<1> QED BY <1>1, <1>2

\* The history variables keep their types.
LEMMA DisplacedType == \A list, other : Displaced(list, other) \subseteq Targets
BY DEF Displaced

LEMMA ExcuseType ==
    ASSUME TypeOK, NEW cause \in Causes, NEW uploads \in SUBSET Rows, Excuse(cause, uploads)
    PROVE  /\ excused' \in [Causes -> SUBSET Rows]
           /\ excused'[cause] = excused[cause] \cup uploads
           /\ \A c \in Causes \ {cause} : excused'[c] = excused[c]
BY DEF TypeOK, Excuse

\* The uploads of the goroutines, element by element.
LEMMA ToUploadIs ==
    \A u : u \in ToUpload <=>
              \E i \in DOMAIN up : \E f \in up[i].todo : u = [origin |-> runJob[i], file |-> StagedFile(f)]
BY DEF ToUpload

LEMMA ToUploadType == Inv => ToUpload \subseteq Rows
<1> SUFFICES ASSUME Inv, NEW i \in DOMAIN up, NEW f \in up[i].todo
             PROVE  [origin |-> runJob[i], file |-> StagedFile(f)] \in Rows
  BY ToUploadIs
<1>1. f \in Files /\ runNo \in 1..MaxRuns
  BY DEF Inv, TypeOK, ControlOK, Goroutines
<1> QED BY <1>1, RunTargets DEF Inv, Rows, StagedFile, Staged

\* The initial states have their types.
LEMMA InvInit == Init => Inv
<1> SUFFICES ASSUME Init PROVE Inv
  OBVIOUS
<1>1. job \in Seq(Targets)
  BY ListType DEF Init
<1>2. PICK e \in Earlier :
          /\ runNo = e.runs /\ saved = e.saved /\ lastRun = e.lastRun
          /\ rows = e.rows /\ disk = {r.file : r \in e.rows}
  BY DEF Init
<1>3. /\ runNo \in 0..MaxRuns /\ saved \in [Servers -> SavedOutcome] /\ lastRun \in SavedOutcome
      /\ rows \subseteq Rows /\ disk \subseteq Staged
  BY <1>2, BackupRunsAssumption DEF Rows
<1>4. status \in JobSnapshot
  <2>1. newJobSnapshot(job) \in JobSnapshot
    BY <1>1, newJobSnapshotType
  <2> QED BY <1>3, <2>1, SeedStatusType DEF Init
<1>7. /\ excused \in [Causes -> SUBSET Rows] /\ displaced \subseteq Targets /\ summed \in BOOLEAN
      /\ next \in 1..(NFiles + 1) /\ crashes \in 0..MaxCrashes
  <2>1. excused \in [Causes -> SUBSET Rows]
    BY DEF Init
  <2>2. next \in 1..(NFiles + 1) /\ crashes \in 0..MaxCrashes
    <3>1. NFiles \in Nat /\ MaxCrashes \in Nat
      BY BackupRunsAssumption
    <3> QED BY <3>1 DEF Init
  <2> QED BY <2>1, <2>2 DEF Init
<1>5. TypeOK
  BY <1>3, <1>4, <1>7, BackupRunsAssumption
     DEF Init, TypeOK, NoRequest, Phases, LoopStates, NoGoroutines, NoJob, Files
<1>6. ControlOK
  BY DEF Init, ControlOK, NoGoroutines
<1> QED BY <1>5, <1>6 DEF Inv

\* Steps of the web UI.
LEMMA InvJob ==
    ASSUME Inv,
           \/ \E list \in JobLists : ChangeJob(list)
           \/ HandleRetryFailedTargets \/ RunNow \/ RetryFailedTargets \/ RefuseRetry
    PROVE  Inv'
<1> USE DEF Inv, jobVars, statusVars, runVars, loopVars, history
<1>1. ASSUME NEW list \in JobLists, ChangeJob(list) PROVE Inv'
  <2>1. list \in Seq(Targets) /\ Upsert(status, list) \in JobSnapshot
    BY ListType, UpsertType DEF TypeOK
  <2>2. status' \in JobSnapshot
    BY <1>1, <2>1, UnknownType, SeedStatusType DEF ChangeJob, TypeOK
  <2>3. TypeOK'
    BY <1>1, <2>2, DisplacedType DEF ChangeJob, TypeOK
  <2>4. ControlOK'
    BY <1>1 DEF ChangeJob, ControlOK, ByServer
  <2> QED BY <2>3, <2>4
<1>2. CASE HandleRetryFailedTargets
  <2>1. FailedTargets(status) \subseteq Servers
    BY EntryType DEF TypeOK, FailedTargets
  <2>2. asked' \in [list : JobLists \cup {NoJob}, servers : SUBSET Servers]
    <3>1. CASE asked' = [list |-> job, servers |-> {}]
      BY <3>1 DEF TypeOK
    <3>2. CASE asked' = NoRequest
      BY <3>2 DEF NoRequest
    <3>3. CASE asked' = [list |-> asked.list, servers |-> FailedTargets(status)]
      BY <2>1, <3>3 DEF TypeOK
    <3> QED BY <1>2, <3>1, <3>2, <3>3 DEF HandleRetryFailedTargets
  <2>4. TypeOK'
    BY <1>2, <2>2 DEF HandleRetryFailedTargets, TypeOK
  <2>3. ControlOK'
    BY <1>2 DEF HandleRetryFailedTargets, ControlOK, ByServer
  <2> QED BY <2>3, <2>4
<1>3. ASSUME NEW list \in JobLists \cup {NoJob}, NEW servers \in SUBSET Servers,
             Claim(list, servers), asked' \in {asked, NoRequest}
      PROVE  Inv'
  <2>1. up = NoGoroutines /\ DOMAIN up = {}
    BY <1>3 DEF Claim, ControlOK, NoGoroutines
  <2>2. runNo' \in 1..MaxRuns
    BY <1>3, BackupRunsAssumption DEF Claim, TypeOK
  <2>3. TypeOK'
    BY <1>3, <2>1, <2>2, DisplacedType DEF Claim, TypeOK, Phases, NoRequest
  <2>4. ControlOK'
    BY <1>3, <2>1, <2>2 DEF Claim, ControlOK, ByServer
  <2> QED BY <2>3, <2>4
<1>4. CASE RunNow
  <2>1. Claim(job, {}) /\ asked' = asked
    BY <1>4 DEF RunNow
  <2>2. job \in JobLists \cup {NoJob} /\ {} \in SUBSET Servers
    BY DEF TypeOK
  <2> QED BY <1>3, <2>1, <2>2
<1>5. CASE RetryFailedTargets
  <2>1. Claim(asked.list, asked.servers) /\ asked' = NoRequest
    BY <1>5 DEF RetryFailedTargets
  <2>2. asked.list \in JobLists \cup {NoJob} /\ asked.servers \in SUBSET Servers
    BY DEF TypeOK
  <2> QED BY <1>3, <2>1, <2>2
<1>6. CASE RefuseRetry
  <2>1. TypeOK'
    BY <1>6 DEF RefuseRetry, TypeOK, NoRequest
  <2>2. ControlOK'
    BY <1>6 DEF RefuseRetry, ControlOK, ByServer
  <2> QED BY <2>1, <2>2
<1> QED BY <1>1, <1>2, <1>4, <1>5, <1>6

\* Steps of the run outside its goroutines.
LEMMA InvRun ==
    ASSUME Inv,
           \/ Start \/ BeginStage \/ EndStage \/ BeginUploads
           \/ RemoveStagingFile \/ FinishRun \/ RecordJobRun \/ Release
    PROVE  Inv'
<1> USE DEF Inv, jobVars, statusVars, runVars, loopVars, history
<1>1. CASE Start
  <2>1. status' \in JobSnapshot
    BY <1>1, StartingType, RetryStartingType DEF Start, TypeOK
  <2>2. TypeOK'
    BY <1>1, <2>1 DEF Start, TypeOK, Phases
  <2>3. ControlOK'
    BY <1>1 DEF Start, ControlOK, ByServer
  <2> QED BY <2>2, <2>3
<1>2. CASE BeginStage
  <2>1. StagedFile(next) \in Staged
    BY <1>2 DEF BeginStage, ControlOK, StagedFile, Staged
  <2>2. TypeOK'
    BY <1>2, <2>1 DEF BeginStage, TypeOK, Phases
  <2>3. ControlOK'
    BY <1>2 DEF BeginStage, ControlOK, ByServer
  <2> QED BY <2>2, <2>3
<1>3. CASE EndStage
  <2>1. next \in Files /\ next + 1 \in 1..(NFiles + 1)
    BY <1>3, BackupRunsAssumption DEF EndStage, ControlOK, Files
  <2>2. left = {}
    BY <1>3 DEF EndStage, ControlOK
  <2>3. TypeOK'
    BY <1>3, <2>1, <2>2 DEF EndStage, TypeOK, Phases
  <2>4. ControlOK'
    BY <1>3 DEF EndStage, ControlOK, ByServer
  <2> QED BY <2>3, <2>4
<1>4. CASE BeginUploads
  <2>1. Indices(runJob, only) \subseteq 1..Len(runJob)
    BY DEF Indices
  <2>2. up' \in [Indices(runJob, only) -> Goroutines]
    BY <1>4 DEF BeginUploads, Goroutines, TypeOK
  <2>3. TypeOK'
    BY <1>4, <2>1, <2>2 DEF BeginUploads, TypeOK, Phases
  <2>4. \A i \in DOMAIN up' : (up'[i].pc \in {"open", "send", "record"}) <=> (up'[i].todo # {})
    BY <1>4 DEF BeginUploads
  <2>5. ControlOK'
    BY <1>4, <2>4 DEF BeginUploads, ControlOK, ByServer
  <2> QED BY <2>3, <2>5
<1>5. CASE RemoveStagingFile
  <2>1. SetMax(left) \in left /\ left \in SUBSET Files
    BY <1>5, SetMaxIn DEF RemoveStagingFile, TypeOK
  <2>2. StagedFile(SetMax(left)) \in Staged
    BY <1>5, <2>1 DEF RemoveStagingFile, ControlOK, StagedFile, Staged
  <2>3. disk' \subseteq disk /\ leaked' \subseteq leaked \cup {StagedFile(SetMax(left))} /\ left' \subseteq left
    BY <1>5 DEF RemoveStagingFile
  <2>4. TypeOK'
    BY <1>5, <2>2, <2>3 DEF RemoveStagingFile, TypeOK
  <2>5. ControlOK'
    BY <1>5 DEF RemoveStagingFile, ControlOK, ByServer
  <2> QED BY <2>4, <2>5
<1>6. CASE FinishRun
  <2>1. status' \in JobSnapshot
    BY <1>6, FinishedType DEF FinishRun, TypeOK, FailedSources, FilesFailed
  <2>4. summed' \in BOOLEAN
    BY <1>6 DEF FinishRun, Known
  <2>2. TypeOK'
    BY <1>6, <2>1, <2>4 DEF FinishRun, TypeOK, Phases
  <2>3. ControlOK'
    BY <1>6 DEF FinishRun, ControlOK, ByServer
  <2> QED BY <2>2, <2>3
<1>7. CASE RecordJobRun
  <2>1. TypeOK'
    BY <1>7 DEF RecordJobRun, TypeOK, Phases, SavedOutcome, Outcome
  <2>2. ControlOK'
    BY <1>7 DEF RecordJobRun, ControlOK, ByServer
  <2> QED BY <2>1, <2>2
<1>8. CASE Release
  <2>1. TypeOK'
    BY <1>8, BackupRunsAssumption DEF Release, ForgetRun, TypeOK, Phases, NoGoroutines
  <2>2. ControlOK'
    BY <1>8 DEF Release, ForgetRun, ControlOK, ByServer, NoGoroutines
  <2> QED BY <2>1, <2>2
<1> QED BY <1>1, <1>2, <1>3, <1>4, <1>5, <1>6, <1>7, <1>8

\* Steps of a target's goroutine.
LEMMA InvUpload ==
    ASSUME Inv, NEW i \in DOMAIN up, Upload(i)
    PROVE  Inv'
<1> USE DEF Inv, jobVars, statusVars, runVars, loopVars, history
<1>1. /\ phase = "uploading"
      /\ up \in [DOMAIN up -> Goroutines]
      /\ up[i] \in Goroutines
  BY DEF Upload, OpenStaged, SendOk, SendFails, AddOutstandingTargetUpload, ReportTarget,
         PersistTargetRun, Goroutine, TypeOK
<1>2. ASSUME NEW failed \in BOOLEAN, NextFile(i, failed)
      PROVE  /\ up' \in [DOMAIN up -> Goroutines]
             /\ DOMAIN up' = DOMAIN up
             /\ \A j \in DOMAIN up' : (up'[j].pc \in {"open", "send", "record"}) <=> (up'[j].todo # {})
  BY <1>1, <1>2 DEF NextFile, Goroutines, ControlOK
<1>3. ASSUME NEW pc \in {"open", "send", "record", "report", "save", "done"},
             (pc \in {"open", "send", "record"}) <=> (up[i].pc \in {"open", "send", "record"}),
             up' = [up EXCEPT ![i].pc = pc]
      PROVE  /\ up' \in [DOMAIN up -> Goroutines]
             /\ DOMAIN up' = DOMAIN up
             /\ \A j \in DOMAIN up' : (up'[j].pc \in {"open", "send", "record"}) <=> (up'[j].todo # {})
  BY <1>1, <1>3 DEF Goroutines, ControlOK
<1>4. CASE OpenStaged(i)
  <2>1. up' = [up EXCEPT ![i].pc = "send"] \/ up' = [up EXCEPT ![i].pc = "record"]
    BY <1>4 DEF OpenStaged
  <2>2. up[i].pc = "open"
    BY <1>4 DEF OpenStaged, Goroutine
  <2>3. /\ up' \in [DOMAIN up -> Goroutines]
        /\ DOMAIN up' = DOMAIN up
        /\ \A j \in DOMAIN up' : (up'[j].pc \in {"open", "send", "record"}) <=> (up'[j].todo # {})
    BY <1>3, <2>1, <2>2
  <2>4. TypeOK'
    BY <1>4, <2>3 DEF OpenStaged, TypeOK
  <2>5. ControlOK'
    BY <1>1, <1>4, <2>3 DEF OpenStaged, ControlOK, ByServer
  <2> QED BY <2>4, <2>5
<1>5. CASE SendOk(i)
  <2>1. [origin |-> runJob[i], file |-> CurrentFile(i)] \in Rows
    BY <1>1, <1>5, CurrentFileType DEF SendOk, Goroutine, ControlOK
  <2>2. NextFile(i, FALSE)
    BY <1>5 DEF SendOk
  <2>3. TypeOK'
    BY <1>2, <1>5, <2>1, <2>2 DEF SendOk, TypeOK
  <2>4. ControlOK'
    BY <1>1, <1>2, <1>5, <2>2 DEF SendOk, ControlOK, ByServer
  <2> QED BY <2>3, <2>4
<1>6. CASE SendFails(i)
  <2>1. [origin |-> runJob[i], file |-> CurrentFile(i)] \in Rows
    BY <1>1, <1>6, CurrentFileType DEF SendFails, Goroutine, ControlOK
  <2>2. up' = [up EXCEPT ![i].pc = "record"] /\ up[i].pc = "send"
    BY <1>6 DEF SendFails, Goroutine
  <2>3. TypeOK'
    BY <1>3, <1>6, <2>1, <2>2 DEF SendFails, TypeOK
  <2>4. ControlOK'
    BY <1>1, <1>3, <1>6, <2>2 DEF SendFails, ControlOK, ByServer
  <2> QED BY <2>3, <2>4
<1>7. CASE AddOutstandingTargetUpload(i)
  <2>1. [origin |-> runJob[i], file |-> CurrentFile(i)] \in Rows
    BY <1>1, <1>7, CurrentFileType DEF AddOutstandingTargetUpload, Goroutine, ControlOK
  <2>2. NextFile(i, TRUE)
    BY <1>7 DEF AddOutstandingTargetUpload
  <2>5. excused' \in [Causes -> SUBSET Rows]
    BY <1>7, <2>1, ExcuseType DEF AddOutstandingTargetUpload, TypeOK, Causes
  <2>3. TypeOK'
    BY <1>2, <1>7, <2>1, <2>2, <2>5 DEF AddOutstandingTargetUpload, TypeOK
  <2>4. ControlOK'
    BY <1>1, <1>2, <1>7, <2>2 DEF AddOutstandingTargetUpload, ControlOK, ByServer
  <2> QED BY <2>3, <2>4
<1>8. CASE ReportTarget(i)
  <2>1. up' = [up EXCEPT ![i].pc = "save"] /\ up[i].pc = "report"
    BY <1>8 DEF ReportTarget, Goroutine
  <2>2. status' \in JobSnapshot
    BY <1>8, TargetDoneType DEF ReportTarget, TypeOK, Outcome
  <2>3. TypeOK'
    BY <1>3, <1>8, <2>1, <2>2 DEF ReportTarget, TypeOK
  <2>4. ControlOK'
    BY <1>1, <1>3, <1>8, <2>1 DEF ReportTarget, ControlOK, ByServer
  <2> QED BY <2>3, <2>4
<1>9. CASE PersistTargetRun(i)
  <2>1. up' = [up EXCEPT ![i].pc = "done"] /\ up[i].pc = "save"
    BY <1>9 DEF PersistTargetRun, Goroutine
  <2>2. saved' \in [Servers -> SavedOutcome]
    BY <1>9, RunTargets DEF PersistTargetRun, TypeOK, SavedOutcome, Outcome
  <2>3. TypeOK'
    BY <1>3, <1>9, <2>1, <2>2 DEF PersistTargetRun, TypeOK
  <2>4. ControlOK'
    BY <1>1, <1>3, <1>9, <2>1 DEF PersistTargetRun, ControlOK, ByServer
  <2> QED BY <2>3, <2>4
<1> QED BY <1>4, <1>5, <1>6, <1>7, <1>8, <1>9 DEF Upload

\* Steps of the retry loop.
LEMMA InvLoop ==
    ASSUME Inv, RetryLoop
    PROVE  Inv'
<1> USE DEF Inv, jobVars, statusVars, runVars, loopVars, history, LoopStates, NextRow, LoopAt, AfterForget
<1>1. ASSUME NEW listed \in SUBSET rows, Tick(listed) PROVE Inv'
  <2>1. TypeOK'
    BY <1>1 DEF Tick, TypeOK
  <2>2. ControlOK'
    BY <1>1 DEF Tick, ControlOK
  <2> QED BY <2>1, <2>2
<1>2. CASE Sleep
  <2>1. TypeOK'
    BY <1>2 DEF Sleep, TypeOK
  <2>2. ControlOK'
    BY <1>2 DEF Sleep, ControlOK
  <2> QED BY <2>1, <2>2
<1>3. ASSUME NEW r \in due, PickRow(r) PROVE Inv'
  <2>1. GiveUp(r) \in {"job", "target", "gone", "none"}
    BY DEF GiveUp
  <2>2. GiveUp(r) = "none" => ByServer(job, ServerOf[r.origin]) # {}
    BY DEF GiveUp
  <2>5. r \in Rows /\ excused' \in [Causes -> SUBSET Rows]
    <3>1. r \in Rows
      BY DEF TypeOK
    <3>2. PICK S \in SUBSET Rows : Excuse("unlisted", S)
      BY <1>3, <3>1 DEF PickRow
    <3> QED BY <3>1, <3>2, ExcuseType DEF Causes
  <2>3. TypeOK'
    BY <1>3, <2>1, <2>5 DEF PickRow, TypeOK
  <2>4. ControlOK'
    BY <1>3, <2>2 DEF PickRow, ControlOK, ByServer, TypeOK
  <2> QED BY <2>3, <2>4
<1>4. CASE RetryOk
  <2>1. CurUpload \in Rows
    BY <1>4, CurUploadType DEF RetryOk
  <2>4. excused' \in [Causes -> SUBSET Rows]
    <3>1. cur \in Rows
      BY <1>4 DEF RetryOk, ControlOK
    <3>2. PICK S \in SUBSET Rows : Excuse("bucket", S)
      BY <1>4, <3>1 DEF RetryOk
    <3> QED BY <3>2, ExcuseType DEF Causes
  <2>2. TypeOK'
    BY <1>4, <2>1, <2>4 DEF RetryOk, TypeOK
  <2>3. ControlOK'
    BY <1>4 DEF RetryOk, ControlOK
  <2> QED BY <2>2, <2>3
<1>5. CASE RetryFails
  <2>1. CurUpload \in Rows
    BY <1>5, CurUploadType DEF RetryFails
  <2>2. TypeOK'
    BY <1>5, <2>1 DEF RetryFails, TypeOK
  <2>3. ControlOK'
    BY <1>5 DEF RetryFails, ControlOK
  <2> QED BY <2>2, <2>3
<1>6. CASE DeleteRow
  <2>1. TypeOK'
    BY <1>6 DEF DeleteRow, TypeOK
  <2>2. ControlOK'
    BY <1>6 DEF DeleteRow, ControlOK
  <2> QED BY <2>1, <2>2
<1>7. CASE CountForFile
  <2>1. cur.file \in Staged
    BY <1>7 DEF CountForFile, ControlOK, Rows
  <2>4. excused' \in [Causes -> SUBSET Rows]
    <3>1. {u \in ToUpload : u.file = cur.file} \in SUBSET Rows
      BY ToUploadType
    <3> QED BY <1>7, <3>1, ExcuseType DEF CountForFile, TypeOK, Causes
  <2>2. TypeOK'
    BY <1>7, <2>1, <2>4 DEF CountForFile, TypeOK
  <2>3. ControlOK'
    BY <1>7 DEF CountForFile, ControlOK
  <2> QED BY <2>2, <2>3
<1>8. CASE Unlink
  <2>1. TypeOK'
    BY <1>8 DEF Unlink, TypeOK
  <2>2. ControlOK'
    BY <1>8 DEF Unlink, ControlOK
  <2> QED BY <2>1, <2>2
<1>9. CASE CountForTarget
  <2>1. TypeOK'
    BY <1>9 DEF CountForTarget, TypeOK
  <2>2. ControlOK'
    BY <1>9 DEF CountForTarget, ControlOK
  <2> QED BY <2>1, <2>2
<1>10. CASE ReportRecovery
  <2>1. status' \in JobSnapshot
    BY <1>10, TargetDoneType DEF ReportRecovery, TypeOK
  <2>2. TypeOK'
    BY <1>10, <2>1 DEF ReportRecovery, TypeOK
  <2>3. ControlOK'
    BY <1>10 DEF ReportRecovery, ControlOK
  <2> QED BY <2>2, <2>3
<1>11. CASE RefreshJob
  <2>1. status' \in JobSnapshot
    BY <1>11, RefreshJobStateType DEF RefreshJob, TypeOK
  <2>4. summed' \in BOOLEAN
    BY <1>11 DEF RefreshJob, Known
  <2>2. TypeOK'
    BY <1>11, <2>1, <2>4 DEF RefreshJob, TypeOK
  <2>3. ControlOK'
    BY <1>11 DEF RefreshJob, ControlOK
  <2> QED BY <2>2, <2>3
<1>12. CASE PersistRecovery
  <2>1. saved' \in [Servers -> SavedOutcome]
    BY <1>12 DEF PersistRecovery, TypeOK, SavedOutcome
  <2>2. TypeOK'
    BY <1>12, <2>1 DEF PersistRecovery, TypeOK
  <2>3. ControlOK'
    BY <1>12 DEF PersistRecovery, ControlOK
  <2> QED BY <2>2, <2>3
<1> QED
  BY <1>1, <1>2, <1>3, <1>4, <1>5, <1>6, <1>7, <1>8, <1>9, <1>10, <1>11, <1>12 DEF RetryLoop

\* A restart.
LEMMA InvCrash ==
    ASSUME Inv, CrashAndRestart
    PROVE  Inv'
<1>1. status' \in JobSnapshot
  <2>1. newJobSnapshot(job) \in JobSnapshot
    BY ListType, newJobSnapshotType DEF Inv, TypeOK
  <2> QED BY <2>1, UnknownType, SeedStatusType DEF Inv, TypeOK, CrashAndRestart
<1>5. excused' \in [Causes -> SUBSET Rows]
  BY ToUploadType, ExcuseType DEF CrashAndRestart, Causes, Inv
<1>2. crashes' \in 0..MaxCrashes
  BY BackupRunsAssumption DEF Inv, TypeOK, CrashAndRestart
<1>6. /\ displaced' \subseteq Targets /\ summed' \in BOOLEAN /\ leaked' \subseteq Staged
      /\ next' \in 1..(NFiles + 1) /\ runNo' \in 0..MaxRuns
  <2>1. NFiles \in Nat
    BY BackupRunsAssumption
  <2>2. next' = 1
    BY DEF CrashAndRestart, ForgetRun
  <2>3. next' \in 1..(NFiles + 1)
    BY <2>1, <2>2
  <2>4. /\ displaced' = {} /\ summed' = FALSE /\ runNo' = runNo
        /\ leaked' \subseteq leaked \cup disk
    BY DEF CrashAndRestart
  <2> QED BY <2>3, <2>4 DEF Inv, TypeOK
<1>3. TypeOK'
  BY <1>1, <1>2, <1>5, <1>6
     DEF Inv, CrashAndRestart, ForgetRun, TypeOK, Phases, LoopStates, NoGoroutines, NoRequest
<1>4. ControlOK'
  BY DEF Inv, CrashAndRestart, ForgetRun, ControlOK, NoGoroutines
<1> QED BY <1>3, <1>4 DEF Inv

\* The invariant is inductive.
LEMMA InvStep == Inv /\ [Next]_vars => Inv'
<1> SUFFICES ASSUME Inv, [Next]_vars PROVE Inv'
  OBVIOUS
<1>1. CASE Run
  BY <1>1, InvRun, InvUpload DEF Run
<1>2. CASE UNCHANGED vars
  BY <1>2 DEF vars, jobVars, statusVars, runVars, loopVars, history, Inv, TypeOK, ControlOK, ByServer
<1> QED BY <1>1, <1>2, InvJob, InvLoop, InvCrash DEF Next

\* Every state has its type, and the files, rows and indices that a process
\* works on exist, for every number of sources, targets, runs and crashes.
THEOREM TypeCorrect == Spec => []TypeOK
<1>1. Inv => TypeOK
  BY DEF Inv
<1> QED BY <1>1, InvInit, InvStep, PTL DEF Spec

-----------------------------------------------------------------------------
(* No staging file is left behind *)

\* A step that takes no staging file, no row and no claim away from anyone.
LEMMA LeakFrame ==
    ASSUME NoStagingLeak,
           disk' \subseteq disk, rows \subseteq rows', leaked \subseteq leaked',
           loop \in {"unref", "unlink"} => loop' = loop /\ cur' = cur,
           \A f \in disk' : OwnedByRun(f) => OwnedByRun(f)'
    PROVE  NoStagingLeak'
BY DEF NoStagingLeak, RowsOf

\* The staging file of a record.
LEMMA StagedFileIs ==
    ASSUME NEW f \in Staged
    PROVE  f.run = runNo => f = StagedFile(f.file)
BY DEF Staged, StagedFile

\* Steps of the run.
LEMMA LeakRun ==
    ASSUME Inv, NoStagingLeak, Run
    PROVE  NoStagingLeak'
<1> USE DEF jobVars, statusVars, runVars, loopVars, history
<1>1. CASE Start
  BY <1>1, LeakFrame DEF Start, OwnedByRun
<1>2. CASE BeginStage
  <2>1. \A f \in disk' : f \in disk \/ f = StagedFile(next)
    BY <1>2 DEF BeginStage
  <2>2. \A f \in disk : OwnedByRun(f) => OwnedByRun(f)'
    BY <1>2 DEF BeginStage, OwnedByRun
  <2>3. \A f : f = StagedFile(next) => OwnedByRun(f)'
    BY <1>2 DEF BeginStage, OwnedByRun, StagedFile
  <2> QED BY <1>2, <2>1, <2>2, <2>3 DEF BeginStage, NoStagingLeak, RowsOf
<1>3. CASE EndStage
  <2>1. \A f \in disk' : OwnedByRun(f) => OwnedByRun(f)'
    BY <1>3, StagedFileIs DEF EndStage, OwnedByRun, Inv, TypeOK
  <2> QED BY <1>3, <2>1, LeakFrame DEF EndStage
<1>4. CASE BeginUploads
  BY <1>4, LeakFrame DEF BeginUploads, OwnedByRun
<1>5. ASSUME NEW i \in DOMAIN up, Upload(i) PROVE NoStagingLeak'
  <2>1. /\ rows \subseteq rows'
        /\ UNCHANGED <<disk, leaked, loop, cur, phase, runNo, staged, next, left>>
    BY <1>5 DEF Upload, OpenStaged, SendOk, SendFails, AddOutstandingTargetUpload, ReportTarget,
                PersistTargetRun
  <2> QED BY <2>1, LeakFrame DEF OwnedByRun
<1>6. CASE RemoveStagingFile
  <2> DEFINE file == StagedFile(SetMax(left))
  <2>1. ASSUME NEW f \in disk', OwnedByRun(f), f # file PROVE OwnedByRun(f)'
    <3>1. f.run = runNo /\ f.file \in left
      BY <1>6, <2>1 DEF RemoveStagingFile, OwnedByRun
    <3>2. f = StagedFile(f.file)
      BY <1>6, <3>1, StagedFileIs DEF RemoveStagingFile, Inv, TypeOK
    <3>3. f.file # SetMax(left)
      BY <2>1, <3>2
    <3> QED BY <1>6, <3>1, <3>3 DEF RemoveStagingFile, OwnedByRun
  <2>2. file \in disk' => RowsOf(file) # {} \/ file \in leaked'
    BY <1>6 DEF RemoveStagingFile
  <2>3. disk' \subseteq disk /\ leaked \subseteq leaked' /\ UNCHANGED <<rows, loop, cur>>
    BY <1>6 DEF RemoveStagingFile
  <2> HIDE DEF file
  <2> QED BY <2>1, <2>2, <2>3 DEF NoStagingLeak, RowsOf
<1>7. CASE FinishRun
  BY <1>7, LeakFrame DEF FinishRun, OwnedByRun
<1>8. CASE RecordJobRun
  BY <1>8, LeakFrame DEF RecordJobRun, OwnedByRun
<1>9. CASE Release
  BY <1>9, LeakFrame DEF Release, ForgetRun, OwnedByRun
<1> QED BY <1>1, <1>2, <1>3, <1>4, <1>5, <1>6, <1>7, <1>8, <1>9 DEF Run

\* Steps of the retry loop: only DeleteRow, CountForFile and Unlink touch what
\* keeps a staging file from being forgotten.
LEMMA LeakLoop ==
    ASSUME Inv, NoStagingLeak, RetryLoop
    PROVE  NoStagingLeak'
<1> USE DEF jobVars, statusVars, runVars, loopVars, history, NextRow, LoopAt, AfterForget
<1>1. \A f : OwnedByRun(f)' <=> OwnedByRun(f)
  BY DEF RetryLoop, Tick, Sleep, PickRow, RetryOk, RetryFails, DeleteRow, CountForFile, Unlink,
         CountForTarget, ReportRecovery, RefreshJob, PersistRecovery, OwnedByRun
<1>2. CASE DeleteRow
  <2>1. CASE UNCHANGED rows
    BY <1>1, <1>2, <2>1, LeakFrame DEF DeleteRow
  <2>2. CASE rows' = rows \ {cur} /\ loop' = "unref" /\ cur' = cur
    <3>1. \A f \in disk : RowsOf(f) # {} => RowsOf(f)' # {} \/ f = cur.file
      BY <2>2 DEF RowsOf
    <3> QED BY <1>1, <1>2, <2>2, <3>1 DEF DeleteRow, NoStagingLeak
  <2> QED BY <1>2, <2>1, <2>2 DEF DeleteRow
<1>3. CASE CountForFile
  <2>1. UNCHANGED <<disk, rows>> /\ leaked \subseteq leaked'
    BY <1>3 DEF CountForFile
  <2>2. \/ loop' = "unlink" /\ cur' = cur
        \/ RowsOf(cur.file) # {}
        \/ cur.file \in leaked'
    BY <1>3 DEF CountForFile
  <2> QED BY <1>1, <2>1, <2>2 DEF NoStagingLeak, RowsOf
<1>4. CASE Unlink
  BY <1>1, <1>4 DEF Unlink, NoStagingLeak, RowsOf
<1>5. CASE ~DeleteRow /\ ~CountForFile /\ ~Unlink
  <2>1. UNCHANGED <<disk, rows, leaked>> /\ loop \notin {"unref", "unlink"}
    BY <1>5 DEF RetryLoop, Tick, Sleep, PickRow, RetryOk, RetryFails, CountForTarget,
                ReportRecovery, RefreshJob, PersistRecovery
  <2> QED BY <1>1, <2>1, LeakFrame
<1> QED BY <1>2, <1>3, <1>4, <1>5

\* All other steps.
LEMMA LeakStep == Inv /\ NoStagingLeak /\ [Next]_vars => NoStagingLeak'
<1> SUFFICES ASSUME Inv, NoStagingLeak, [Next]_vars PROVE NoStagingLeak'
  OBVIOUS
<1> USE DEF jobVars, statusVars, runVars, loopVars, history
<1>1. ASSUME NEW list \in JobLists, ChangeJob(list) PROVE NoStagingLeak'
  BY <1>1, LeakFrame DEF ChangeJob, OwnedByRun
<1>2. CASE HandleRetryFailedTargets
  BY <1>2, LeakFrame DEF HandleRetryFailedTargets, OwnedByRun
<1>3. CASE RunNow \/ RetryFailedTargets
  <2>1. phase = "idle" /\ UNCHANGED <<disk, rows, leaked, loop, cur>>
    BY <1>3 DEF RunNow, RetryFailedTargets, Claim
  <2> QED BY <2>1, LeakFrame DEF OwnedByRun
<1>4. CASE RefuseRetry
  BY <1>4, LeakFrame DEF RefuseRetry, OwnedByRun
<1>5. CASE CrashAndRestart
  BY <1>5 DEF CrashAndRestart, NoStagingLeak, RowsOf
<1>6. CASE UNCHANGED vars
  BY <1>6, LeakFrame DEF vars, OwnedByRun
<1> QED BY <1>1, <1>2, <1>3, <1>4, <1>5, <1>6, LeakRun, LeakLoop DEF Next

\* Whatever the interleaving of run and retry loop, a staging file on disk
\* has someone who will remove it, unless a crash or a failed database
\* statement came between.
THEOREM NothingLeaks == Spec => []NoStagingLeak
<1>1. Init => NoStagingLeak
  BY DEF Init, NoStagingLeak, RowsOf
<1> QED BY <1>1, InvInit, InvStep, LeakStep, PTL DEF Spec

-----------------------------------------------------------------------------
(* What goroutines have yet to upload, and what is excused *)

LEMMA ToUploadNone ==
    ASSUME \A i \in DOMAIN up : up[i].todo = {}
    PROVE  ToUpload = {}
BY ToUploadIs

\* A step that leaves the goroutines their files.
LEMMA ToUploadSame ==
    ASSUME DOMAIN up' = DOMAIN up, \A i \in DOMAIN up : up'[i].todo = up[i].todo,
           UNCHANGED <<runJob, runNo>>
    PROVE  ToUpload' = ToUpload
BY DEF ToUpload, StagedFile

\* A goroutine is done with a file: only that upload leaves the set, unless
\* another goroutine owes it too.
LEMMA ToUploadLess ==
    ASSUME Inv, NEW i \in DOMAIN up, NEW failed \in BOOLEAN,
           phase = "uploading", up[i].todo # {}, NextFile(i, failed),
           UNCHANGED <<runJob, runNo>>
    PROVE  LET u == [origin |-> runJob[i], file |-> CurrentFile(i)]
           IN  /\ u \in ToUpload
               /\ ToUpload' \subseteq ToUpload
               /\ ToUpload \subseteq ToUpload' \cup {u}
<1> DEFINE first == SetMin(up[i].todo)
           u == [origin |-> runJob[i], file |-> CurrentFile(i)]
<1>1. first \in up[i].todo /\ u = [origin |-> runJob[i], file |-> StagedFile(first)]
  BY CurrentFileType DEF CurrentFile
<1>2. DOMAIN up' = DOMAIN up
     /\ \A j \in DOMAIN up : up'[j].todo = (IF j = i THEN up[j].todo \ {first} ELSE up[j].todo)
  BY DEF NextFile, Inv, TypeOK
<1>3. \A f : StagedFile(f)' = StagedFile(f)
  BY DEF StagedFile
<1> HIDE DEF first
<1>4. u \in ToUpload
  BY <1>1, ToUploadIs
<1>5. ASSUME NEW v \in ToUpload' PROVE v \in ToUpload
  <2>1. PICK j \in DOMAIN up' : \E f \in up'[j].todo : v = [origin |-> runJob[j], file |-> StagedFile(f)]
    BY <1>3 DEF ToUpload
  <2>2. PICK f \in up'[j].todo : v = [origin |-> runJob[j], file |-> StagedFile(f)]
    BY <2>1
  <2>3. j \in DOMAIN up /\ f \in up[j].todo
    BY <1>2, <2>2
  <2> QED BY <2>2, <2>3, ToUploadIs
<1>6. ASSUME NEW v \in ToUpload, v # u PROVE v \in ToUpload'
  <2>1. PICK j \in DOMAIN up : \E f \in up[j].todo : v = [origin |-> runJob[j], file |-> StagedFile(f)]
    BY ToUploadIs
  <2>2. PICK f \in up[j].todo : v = [origin |-> runJob[j], file |-> StagedFile(f)]
    BY <2>1
  <2>3. f \in up'[j].todo
    BY <1>1, <1>2, <1>6, <2>2
  <2> QED BY <1>2, <1>3, <2>2, <2>3 DEF ToUpload
<1> QED BY <1>4, <1>5, <1>6

\* A step of a goroutine either leaves it its files or is done with the first.
LEMMA UploadStep ==
    ASSUME Inv, NEW i \in DOMAIN up, Upload(i)
    PROVE  /\ phase = "uploading"
           /\ UNCHANGED <<job, phase, runNo, runJob, only, staged, next, left, disk, loop, due, cur, curJob, why>>
           /\ ToUpload' \subseteq ToUpload
           /\ DOMAIN up' = DOMAIN up /\ \A j \in DOMAIN up : j # i => up'[j] = up[j]
<1> USE DEF jobVars, runVars, loopVars
<1>1. /\ phase = "uploading"
      /\ UNCHANGED <<job, phase, runNo, runJob, only, staged, next, left, disk, loop, due, cur, curJob, why>>
  BY DEF Upload, OpenStaged, SendOk, SendFails, AddOutstandingTargetUpload, ReportTarget,
         PersistTargetRun, Goroutine
<1>2. up \in [DOMAIN up -> Goroutines]
  BY DEF Inv, TypeOK
<1>3. CASE \E pc : up' = [up EXCEPT ![i].pc = pc]
  <2>1. /\ DOMAIN up' = DOMAIN up /\ \A j \in DOMAIN up : up'[j].todo = up[j].todo
        /\ \A j \in DOMAIN up : j # i => up'[j] = up[j]
    BY <1>2, <1>3 DEF Goroutines
  <2> QED BY <1>1, <2>1, ToUploadSame
<1>4. CASE \E failed \in BOOLEAN : NextFile(i, failed) /\ up[i].pc \in {"send", "record"}
  <2>1. up[i].todo # {}
    BY <1>4 DEF Inv, ControlOK
  <2>2. ToUpload' \subseteq ToUpload
    BY <1>1, <1>4, <2>1, ToUploadLess
  <2> QED BY <1>1, <1>2, <1>4, <2>2 DEF NextFile
<1>5. \/ \E pc : up' = [up EXCEPT ![i].pc = pc]
      \/ \E failed \in BOOLEAN : NextFile(i, failed) /\ up[i].pc \in {"send", "record"}
  BY DEF Upload, OpenStaged, SendOk, SendFails, AddOutstandingTargetUpload, ReportTarget,
         PersistTargetRun, Goroutine
<1> QED BY <1>3, <1>4, <1>5

\* What is excused stays so.
LEMMA ExcusedGrows ==
    ASSUME Inv, [Next]_vars, NEW c \in Causes
    PROVE  excused[c] \subseteq excused'[c]
<1> USE DEF history
<1>1. CASE \E cause \in Causes : \E uploads : Excuse(cause, uploads)
  BY <1>1 DEF Excuse, Inv, TypeOK
<1>2. CASE ~\E cause \in Causes : \E uploads : Excuse(cause, uploads)
  <2>1. ~RetryOk /\ ~CrashAndRestart /\ \A r : ~PickRow(r)
    BY <1>2 DEF RetryOk, CrashAndRestart, PickRow, Causes
  <2>2. CountForFile => UNCHANGED excused
    BY <1>2 DEF CountForFile, Causes
  <2>3. \A i : AddOutstandingTargetUpload(i) => UNCHANGED excused
    BY <1>2 DEF AddOutstandingTargetUpload, Causes
  <2>4. UNCHANGED excused
    BY <2>1, <2>2, <2>3
    DEF Next, ChangeJob, HandleRetryFailedTargets, RunNow, RetryFailedTargets, RefuseRetry, Claim, Run,
        RetryLoop, Start, BeginStage, EndStage, BeginUploads, RemoveStagingFile, FinishRun, RecordJobRun,
        Release, Upload, OpenStaged, SendOk, SendFails, ReportTarget, PersistTargetRun,
        Tick, Sleep, RetryFails, DeleteRow, Unlink, CountForTarget, ReportRecovery,
        RefreshJob, PersistRecovery, vars
  <2> QED BY <2>4
<1> QED BY <1>1, <1>2

-----------------------------------------------------------------------------
(* An outstanding upload keeps its staging file, unless it was overlooked *)

Overlooked == excused["overlooked"]

\* The run's staging files are on disk, from the first byte on.
StagedOnDisk ==
    /\ phase \in {"idle", "starting"} => staged = {}
    /\ phase \in {"staging", "draining"} => \A f \in staged : StagedFile(f) \in disk /\ f < next
    /\ phase = "draining" => StagedFile(next) \in disk

\* A staging file that an outstanding upload, or the loop, can refer to: the
\* run, if it is the one in flight, has come to its uploads.
Recorded(file) ==
    /\ file.run <= runNo
    /\ file.run = runNo => phase \notin {"starting", "staging", "draining"}

\* The files the goroutines have left to upload are on disk.
TodoOnDisk == \A u \in ToUpload : u.file \in disk \/ u \in Overlooked

\* The loop's row is still recorded until it deletes it, and whoever refers to
\* a file the loop is about to remove was overlooked.
LoopRows ==
    /\ due \subseteq rows
    /\ cur \notin due
    /\ cur \in Rows => Recorded(cur.file)
    /\ loop = "unlink" => \A r \in rows \cup ToUpload : r.file = cur.file => r \in Overlooked

RowInv ==
    /\ RowHasFile
    /\ \A r \in rows : Recorded(r.file)
    /\ StagedOnDisk
    /\ TodoOnDisk
    /\ LoopRows

\* A step that neither removes a file, nor records or drops a row, nor moves
\* the loop, nor gives a goroutine more to do.
LEMMA RowFrame ==
    ASSUME RowInv, Inv, Overlooked \subseteq Overlooked',
           disk \subseteq disk', rows' = rows, due' = due, cur' = cur, loop' = loop,
           runNo' = runNo,
           phase' \in {"starting", "staging", "draining"} =>
               phase \in {"starting", "staging", "draining"},
           StagedOnDisk',
           ToUpload' \subseteq ToUpload
    PROVE  RowInv'
BY DEF RowInv, RowHasFile, Recorded, TodoOnDisk, LoopRows, Overlooked

\* Initially the outstanding uploads are those of an earlier process.
LEMMA RowInit == Init => RowInv
<1> SUFFICES ASSUME Init PROVE RowInv
  OBVIOUS
<1>1. ToUpload = {} /\ phase = "idle" /\ staged = {}
  BY DEF Init, ToUpload, NoGoroutines
<1>2. \A r \in rows : r.file.run <= runNo /\ r.file \in disk
  BY BackupRunsAssumption DEF Init
<1>3. due = {} /\ cur \notin Rows /\ loop = "sleep"
  BY DEF Init, NoRow, Rows
<1> QED BY <1>1, <1>2, <1>3 DEF RowInv, RowHasFile, Recorded, StagedOnDisk, TodoOnDisk, LoopRows

\* Steps of the run outside its goroutines.
LEMMA RowRun ==
    ASSUME Inv, RowInv, Overlooked \subseteq Overlooked',
           \/ Start \/ BeginStage \/ EndStage \/ BeginUploads
           \/ RemoveStagingFile \/ FinishRun \/ RecordJobRun \/ Release
    PROVE  RowInv'
<1> USE DEF jobVars, statusVars, runVars, loopVars, history
<1>1. CASE Start
  <2>1. StagedOnDisk'
    BY <1>1 DEF Start, RowInv, StagedOnDisk
  <2>2. ToUpload' = ToUpload
    BY <1>1, ToUploadSame DEF Start
  <2> QED BY <1>1, <2>1, <2>2, RowFrame DEF Start
<1>2. CASE BeginStage
  <2>1. StagedOnDisk'
    BY <1>2 DEF BeginStage, RowInv, StagedOnDisk, StagedFile
  <2>2. ToUpload' = ToUpload
    BY <1>2, ToUploadSame DEF BeginStage
  <2> QED BY <1>2, <2>1, <2>2, RowFrame DEF BeginStage
<1>3. CASE EndStage
  <2>1. phase = "draining" /\ phase' = "staging" /\ runNo' = runNo
    BY <1>3 DEF EndStage
  <2>2. next \in Nat /\ next' = next + 1 /\ staged \in SUBSET Nat
    BY <1>3, BackupRunsAssumption DEF EndStage, Inv, TypeOK, ControlOK, Files
  <2>3. StagedOnDisk'
    <3>1. StagedFile(next) \in disk /\ \A f \in staged : StagedFile(f) \in disk /\ f < next
      BY <2>1 DEF RowInv, StagedOnDisk
    <3>2. \A f \in staged : StagedFile(f) # StagedFile(next) /\ f < next + 1
      BY <2>2, <3>1 DEF StagedFile
    <3>3. \A f \in staged' : StagedFile(f) \in disk' /\ f < next'
      <4>1. CASE staged' = staged \cup {next} /\ disk' = disk
        BY <2>2, <3>1, <3>2, <4>1
      <4>2. CASE disk' = disk \ {StagedFile(next)} /\ staged' = staged
        BY <2>2, <3>1, <3>2, <4>2
      <4> QED BY <1>3, <4>1, <4>2 DEF EndStage
    <3>4. \A f \in staged' : (StagedFile(f) \in disk)'
      BY <2>1, <3>3 DEF StagedFile
    <3> QED BY <2>1, <3>3, <3>4 DEF StagedOnDisk
  <2>6. ToUpload = {} /\ ToUpload' = {}
    <3>1. DOMAIN up = {} /\ DOMAIN up' = {}
      BY <1>3 DEF EndStage, Inv, ControlOK
    <3> QED BY <3>1 DEF ToUpload
  <2>4. CASE UNCHANGED disk
    BY <1>3, <2>3, <2>4, <2>6, RowFrame DEF EndStage
  <2>5. CASE disk' = disk \ {StagedFile(next)}
    <3>1. \A r \in rows : r.file # StagedFile(next)
      BY <1>3 DEF EndStage, RowInv, Recorded, StagedFile
    <3>2. RowHasFile'
      BY <1>3, <2>5, <3>1 DEF EndStage, RowInv, RowHasFile, Overlooked
    <3>3. TodoOnDisk'
      BY <2>6 DEF TodoOnDisk
    <3>4. LoopRows'
      BY <1>3, <2>6 DEF EndStage, RowInv, LoopRows, Recorded
    <3> QED BY <1>3, <2>3, <3>2, <3>3, <3>4 DEF EndStage, RowInv, Recorded
  <2> QED BY <1>3, <2>4, <2>5 DEF EndStage
<1>4. CASE BeginUploads
  <2>1. /\ \A i \in DOMAIN up' : up'[i].todo = staged
        /\ UNCHANGED <<disk, rows, due, cur, loop, runNo, staged>>
        /\ phase = "staging" /\ phase' = "uploading"
    BY <1>4 DEF BeginUploads
  <2>2. StagedOnDisk'
    BY <2>1 DEF StagedOnDisk
  <2>3. ASSUME NEW u \in ToUpload' PROVE u.file \in disk /\ u.file.run = runNo
    <3>1. PICK i \in DOMAIN up' : \E f \in up'[i].todo : u.file = StagedFile(f)
      BY <2>1 DEF ToUpload, StagedFile
    <3> QED BY <2>1, <3>1 DEF RowInv, StagedOnDisk, StagedFile
  <2>4. TodoOnDisk'
    BY <2>1, <2>3 DEF TodoOnDisk
  <2>5. ASSUME NEW file, Recorded(file) PROVE Recorded(file)' /\ file.run # runNo
    BY <2>1, <2>5 DEF Recorded
  <2>6. loop = "unlink" => cur \in Rows
    BY DEF Inv, ControlOK
  <2>7. LoopRows'
    BY <2>1, <2>3, <2>5, <2>6 DEF RowInv, LoopRows, Overlooked
  <2> QED BY <2>1, <2>2, <2>4, <2>5, <2>7 DEF RowInv, RowHasFile, Overlooked
<1>5. CASE RemoveStagingFile
  <2>1. ToUpload = {} /\ ToUpload' = {}
    <3>1. \A i \in DOMAIN up : up[i].todo = {}
      BY <1>5 DEF RemoveStagingFile, AllReported, Inv, ControlOK
    <3>2. ToUpload' = ToUpload
      BY <1>5, ToUploadSame DEF RemoveStagingFile
    <3> QED BY <3>1, <3>2, ToUploadNone
  <2>2. \A f \in disk : RowsOf(f) # {} => f \in disk'
    BY <1>5 DEF RemoveStagingFile
  <2>3. RowHasFile'
    BY <1>5, <2>2 DEF RemoveStagingFile, RowInv, RowHasFile, RowsOf, Overlooked
  <2>4. StagedOnDisk' /\ TodoOnDisk'
    BY <1>5, <2>1 DEF RemoveStagingFile, StagedOnDisk, TodoOnDisk
  <2>5. LoopRows'
    BY <1>5, <2>1 DEF RemoveStagingFile, RowInv, LoopRows, Recorded, Overlooked
  <2> QED BY <1>5, <2>3, <2>4, <2>5 DEF RemoveStagingFile, RowInv, Recorded
<1>6. CASE FinishRun \/ RecordJobRun
  <2>1. StagedOnDisk'
    BY <1>6 DEF FinishRun, RecordJobRun, StagedOnDisk
  <2>2. ToUpload' = ToUpload
    BY <1>6, ToUploadSame DEF FinishRun, RecordJobRun
  <2> QED BY <1>6, <2>1, <2>2, RowFrame DEF FinishRun, RecordJobRun
<1>7. CASE Release
  <2>1. StagedOnDisk'
    BY <1>7 DEF Release, ForgetRun, StagedOnDisk
  <2>2. ToUpload' = {}
    BY <1>7 DEF Release, ForgetRun, NoGoroutines, ToUpload
  <2> QED BY <1>7, <2>1, <2>2, RowFrame DEF Release, ForgetRun
<1> QED BY <1>1, <1>2, <1>3, <1>4, <1>5, <1>6, <1>7

\* Steps of a goroutine: it records a row for the file it was at.
LEMMA RowUpload ==
    ASSUME Inv, RowInv, Overlooked \subseteq Overlooked', NEW i \in DOMAIN up, Upload(i)
    PROVE  RowInv'
<1>1. /\ phase = "uploading"
      /\ UNCHANGED <<disk, due, cur, loop, runNo, phase, staged, next>>
      /\ ToUpload' \subseteq ToUpload
  BY UploadStep
<1>2. StagedOnDisk'
  BY <1>1 DEF StagedOnDisk
<1>3. CASE rows' = rows
  BY <1>1, <1>2, <1>3, RowFrame
<1>4. CASE /\ rows' = rows \cup {[origin |-> runJob[i], file |-> CurrentFile(i)]}
           /\ AddOutstandingTargetUpload(i)
  <2> DEFINE u == [origin |-> runJob[i], file |-> CurrentFile(i)]
  <2>1. up[i].todo # {}
    BY <1>4 DEF AddOutstandingTargetUpload, Goroutine, Inv, ControlOK
  <2>2. u \in ToUpload
    BY <1>1, <2>1, CurrentFileType, ToUploadIs DEF CurrentFile
  <2>3. RowHasFile'
    BY <1>1, <1>4, <2>2 DEF RowInv, RowHasFile, TodoOnDisk, Overlooked
  <2>4. ASSUME NEW file, Recorded(file) PROVE Recorded(file)'
    BY <1>1, <2>4 DEF Recorded
  <2>5. ASSUME NEW file, file = CurrentFile(i) PROVE Recorded(file)'
    <3>1. file.run = runNo /\ runNo \in Nat
      BY <2>5, BackupRunsAssumption DEF CurrentFile, StagedFile, Inv, TypeOK
    <3> QED BY <1>1, <3>1 DEF Recorded
  <2>8. \A r \in rows' : Recorded(r.file)'
    BY <1>4, <2>4, <2>5 DEF RowInv
  <2>6. TodoOnDisk'
    BY <1>1 DEF RowInv, TodoOnDisk
  <2>7. LoopRows'
    BY <1>1, <1>4, <2>2, <2>4 DEF RowInv, LoopRows
  <2> QED BY <1>2, <2>3, <2>6, <2>7, <2>8 DEF RowInv
<1> QED
  BY <1>3, <1>4 DEF Upload, OpenStaged, SendOk, SendFails, AddOutstandingTargetUpload, ReportTarget,
                    PersistTargetRun

\* Steps of the retry loop: it overlooks who has yet to send a file it counts
\* the rows of, and removes the file.
LEMMA RowLoop ==
    ASSUME Inv, RowInv, Overlooked \subseteq Overlooked', RetryLoop
    PROVE  RowInv'
<1> USE DEF jobVars, statusVars, runVars, loopVars, history, NextRow, LoopAt, AfterForget
<1>1. UNCHANGED <<phase, runNo, runJob, staged, next, up>> /\ rows' \subseteq rows
  BY DEF RetryLoop, Tick, Sleep, PickRow, RetryOk, RetryFails, DeleteRow, CountForFile, Unlink,
         CountForTarget, ReportRecovery, RefreshJob, PersistRecovery
<1>2. ASSUME NEW file, Recorded(file) PROVE Recorded(file)'
  BY <1>1, <1>2 DEF Recorded
<1>3. \A r \in rows' : Recorded(r.file)'
  BY <1>1, <1>2 DEF RowInv
<1>11. ToUpload' = ToUpload
  BY <1>1, ToUploadSame
<1>4. ASSUME disk' = disk PROVE RowHasFile' /\ StagedOnDisk' /\ TodoOnDisk'
  BY <1>1, <1>4, <1>11 DEF RowInv, RowHasFile, StagedOnDisk, TodoOnDisk, StagedFile, Overlooked
<1>5. ASSUME NEW listed \in SUBSET rows, Tick(listed) PROVE RowInv'
  <2>1. cur \notin Rows /\ cur \notin rows
    BY <1>5 DEF Tick, Inv, TypeOK, ControlOK, NoRow, Rows
  <2>2. LoopRows'
    BY <1>5, <2>1 DEF Tick, RowInv, LoopRows
  <2> QED BY <1>3, <1>4, <1>5, <2>2 DEF Tick, RowInv
<1>6. ASSUME NEW r \in due, PickRow(r) PROVE RowInv'
  <2>1. LoopRows'
    BY <1>2, <1>6 DEF PickRow, RowInv, LoopRows
  <2> QED BY <1>3, <1>4, <1>6, <2>1 DEF PickRow, RowInv
<1>7. CASE Sleep \/ RetryOk \/ RetryFails \/ CountForTarget \/ ReportRecovery \/ RefreshJob \/ PersistRecovery
  <2>1. /\ UNCHANGED <<disk, rows, due>> /\ loop' # "unlink"
        /\ cur' = cur \/ cur' = NoRow
    BY <1>7 DEF Sleep, RetryOk, RetryFails, CountForTarget, ReportRecovery, RefreshJob, PersistRecovery
  <2>2. LoopRows'
    BY <1>2, <2>1 DEF RowInv, LoopRows, Inv, TypeOK, NoRow, Rows
  <2> QED BY <1>3, <1>4, <2>1, <2>2 DEF RowInv
<1>8. CASE DeleteRow
  <2>1. LoopRows'
    BY <1>2, <1>8 DEF DeleteRow, RowInv, LoopRows, Inv, TypeOK, NoRow, Rows
  <2> QED BY <1>3, <1>4, <1>8, <2>1 DEF DeleteRow, RowInv
<1>9. CASE CountForFile
  <2>1. UNCHANGED <<disk, rows, due>>
    BY <1>9 DEF CountForFile
  <2>2. CASE loop' = "unlink"
    <3>1. RowsOf(cur.file) = {} /\ cur' = cur /\ Excuse("overlooked", {u \in ToUpload : u.file = cur.file})
      BY <1>9, <2>2 DEF CountForFile
    <3>2. {u \in ToUpload : u.file = cur.file} \subseteq Overlooked'
      BY <3>1 DEF Excuse, Overlooked, Inv, TypeOK, Causes
    <3>3. LoopRows'
      BY <1>2, <1>11, <2>1, <3>1, <3>2 DEF RowInv, LoopRows, RowsOf
    <3> QED BY <1>3, <1>4, <2>1, <3>3 DEF RowInv
  <2>3. CASE loop' # "unlink"
    <3>1. cur' = cur \/ cur' = NoRow
      BY <1>9 DEF CountForFile
    <3>2. LoopRows'
      BY <1>2, <2>1, <2>3, <3>1 DEF RowInv, LoopRows, Inv, TypeOK, NoRow, Rows
    <3> QED BY <1>3, <1>4, <2>1, <3>2 DEF RowInv
  <2> QED BY <2>2, <2>3
<1>10. CASE Unlink
  <2>1. cur \in Rows /\ Recorded(cur.file) /\ \A r \in rows \cup ToUpload : r.file = cur.file => r \in Overlooked
    BY <1>10 DEF Unlink, RowInv, LoopRows, Inv, ControlOK
  <2>2. disk' = disk \ {cur.file} /\ rows' = rows /\ due' = due
    BY <1>10 DEF Unlink
  <2>3. RowHasFile' /\ TodoOnDisk'
    BY <1>11, <2>1, <2>2 DEF RowInv, RowHasFile, TodoOnDisk, Overlooked
  <2>4. StagedOnDisk'
    BY <1>1, <2>1, <2>2 DEF RowInv, StagedOnDisk, Recorded, StagedFile
  <2>5. LoopRows'
    BY <1>2, <1>10 DEF Unlink, RowInv, LoopRows, Inv, TypeOK, NoRow, Rows
  <2> QED BY <1>3, <2>3, <2>4, <2>5 DEF RowInv
<1> QED BY <1>5, <1>6, <1>7, <1>8, <1>9, <1>10 DEF RetryLoop

\* A new run gives the old files a smaller number.
LEMMA RowClaim ==
    ASSUME Inv, RowInv, NEW list, NEW servers, Claim(list, servers)
    PROVE  RowInv'
<1> USE DEF jobVars, statusVars, runVars, loopVars, history
<1>1. DOMAIN up = {} /\ up' = up /\ runNo \in Nat /\ runNo' = runNo + 1
  BY BackupRunsAssumption DEF Claim, Inv, TypeOK, ControlOK
<1>2. ASSUME NEW file, file.run \in Nat, Recorded(file) PROVE Recorded(file)'
  BY <1>1, <1>2 DEF Recorded
<1>3. \A r \in Rows : r.file.run \in Nat
  BY BackupRunsAssumption DEF Rows, Staged
<1>4. \A r \in rows' : Recorded(r.file)'
  BY <1>2, <1>3 DEF Claim, RowInv, Inv, TypeOK
<1>5. StagedOnDisk'
  BY DEF Claim, RowInv, StagedOnDisk
<1>6. ToUpload = {} /\ ToUpload' = {}
  BY <1>1 DEF ToUpload
<1>7. TodoOnDisk'
  BY <1>6 DEF TodoOnDisk
<1>8. LoopRows'
  BY <1>2, <1>3, <1>6 DEF Claim, RowInv, LoopRows, Overlooked
<1> QED BY <1>4, <1>5, <1>7, <1>8 DEF Claim, RowInv, RowHasFile

\* RowInv is inductive.
LEMMA RowStep == Inv /\ RowInv /\ [Next]_vars => RowInv'
<1> SUFFICES ASSUME Inv, RowInv, [Next]_vars PROVE RowInv'
  OBVIOUS
<1> USE DEF jobVars, statusVars, runVars, loopVars, history
<1>0. Overlooked \subseteq Overlooked'
  BY ExcusedGrows DEF Overlooked, Causes
<1>1. CASE \/ \E list \in JobLists : ChangeJob(list)
           \/ HandleRetryFailedTargets \/ RefuseRetry \/ UNCHANGED vars
  <2>1. UNCHANGED <<runVars, disk, rows, loopVars>>
    BY <1>1 DEF ChangeJob, HandleRetryFailedTargets, RefuseRetry, vars
  <2>2. StagedOnDisk'
    BY <2>1 DEF RowInv, StagedOnDisk, StagedFile
  <2>3. ToUpload' = ToUpload
    BY <2>1, ToUploadSame
  <2> QED BY <1>0, <2>1, <2>2, <2>3, RowFrame
<1>2. CASE RunNow \/ RetryFailedTargets
  BY <1>2, RowClaim DEF RunNow, RetryFailedTargets
<1>3. CASE CrashAndRestart
  <2>1. UNCHANGED <<disk, rows, runNo>> /\ up' = NoGoroutines /\ phase' = "idle"
    BY <1>3 DEF CrashAndRestart, ForgetRun
  <2>2. \A r \in rows' : Recorded(r.file)'
    BY <2>1 DEF RowInv, Recorded
  <2>3. LoopRows'
    BY <1>3 DEF CrashAndRestart, LoopRows, NoRow, Rows
  <2>4. StagedOnDisk' /\ TodoOnDisk'
    BY <1>3, <2>1 DEF CrashAndRestart, ForgetRun, StagedOnDisk, TodoOnDisk, ToUpload, NoGoroutines
  <2> QED BY <1>0, <2>1, <2>2, <2>3, <2>4 DEF RowInv, RowHasFile, Overlooked
<1> QED BY <1>0, <1>1, <1>2, <1>3, RowRun, RowUpload, RowLoop DEF Next, Run

\* An outstanding upload still has its staging file, whatever the retry loop,
\* edits of the job, crashes and database errors do, unless the loop counted
\* the file's rows while a goroutine had yet to send it.
THEOREM RowsKeepFiles == Spec => []RowHasFile
<1>1. RowInv => RowHasFile
  BY DEF RowInv
<1> QED BY <1>1, RowInit, RowStep, InvInit, InvStep, PTL DEF Spec

-----------------------------------------------------------------------------
(* What the methods of the status store make of a snapshot's entries *)

\* The snapshot is one of the job with these targets.
Shape(s, list) ==
    Len(s.targets) = Len(list) /\ \A i \in 1..Len(list) : s.targets[i].target = list[i]

\* The targets shown as running.
Running(s) == {s.targets[i].target : i \in {k \in 1..Len(s.targets) : s.targets[k].state = "running"}}

LEMMA StartingIs ==
    ASSUME NEW s \in JobSnapshot, NEW list \in Seq(Targets), Shape(s, list)
    PROVE  Shape(Starting(s), list)
<1> DEFINE e == [i \in 1..Len(s.targets) |-> [s.targets[i] EXCEPT !.state = "running"]]
<1>1. CASE Known(s)
  <2>1. Starting(s).targets = e
    BY <1>1 DEF Starting, JobSnapshot
  <2>2. Len(e) = Len(s.targets) /\ \A i \in 1..Len(s.targets) : e[i].target = s.targets[i].target
    BY LenType, EntryType DEF TargetSnapshot
  <2> HIDE DEF e
  <2> QED BY <2>1, <2>2 DEF Shape
<1>2. CASE ~Known(s)
  BY <1>2 DEF Starting
<1> QED BY <1>1, <1>2

LEMMA RetryStartingIs ==
    ASSUME NEW s \in JobSnapshot, NEW servers, NEW list \in Seq(Targets), Shape(s, list)
    PROVE  /\ Shape(RetryStarting(s, servers), list)
           /\ RetryStarting(s, servers).state = s.state
           /\ \A i \in 1..Len(list) :
                 ServerOf[list[i]] \notin servers
                    => RetryStarting(s, servers).targets[i] = s.targets[i]
<1> DEFINE e == [i \in 1..Len(s.targets) |->
                   IF ServerOf[s.targets[i].target] \in servers
                   THEN [s.targets[i] EXCEPT !.state = "running"] ELSE s.targets[i]]
<1>1. RetryStarting(s, servers).targets = e /\ RetryStarting(s, servers).state = s.state
  BY DEF RetryStarting, JobSnapshot
<1>2. /\ Len(e) = Len(s.targets)
      /\ \A i \in 1..Len(s.targets) :
            /\ e[i].target = s.targets[i].target
            /\ ServerOf[s.targets[i].target] \notin servers => e[i] = s.targets[i]
  BY LenType, EntryType DEF TargetSnapshot
<1> HIDE DEF e
<1> QED BY <1>1, <1>2 DEF Shape

LEMMA TargetDoneState ==
    ASSUME NEW s \in JobSnapshot, NEW index, NEW outcome
    PROVE  TargetDone(s, index, outcome).state = s.state
BY DEF TargetDone, JobSnapshot

LEMMA TargetDoneLen ==
    ASSUME NEW s \in JobSnapshot, NEW index, NEW outcome
    PROVE  Len(TargetDone(s, index, outcome).targets) = Len(s.targets)
<1>1. CASE index \in 1..Len(s.targets)
  <2> DEFINE e == [s.targets EXCEPT ![index] = [s.targets[index] EXCEPT !.state = outcome]]
  <2>1. TargetDone(s, index, outcome).targets = e
    BY <1>1 DEF TargetDone, JobSnapshot
  <2>2. s.targets[index] \in TargetSnapshot /\ s.targets \in [1..Len(s.targets) -> TargetSnapshot]
    BY <1>1, LenType
  <2>3. e \in [1..Len(s.targets) -> [target : Targets, state : TargetState \cup {outcome}]]
    BY <1>1, <2>2 DEF TargetSnapshot
  <2>4. Len(e) = Len(s.targets)
    BY <2>3, LenType
  <2> HIDE DEF e
  <2> QED BY <2>1, <2>4
<1>2. CASE index \notin 1..Len(s.targets)
  BY <1>2 DEF TargetDone
<1> QED BY <1>1, <1>2

LEMMA TargetDoneEntry ==
    ASSUME NEW s \in JobSnapshot, NEW index, NEW outcome, NEW i \in 1..Len(s.targets)
    PROVE  /\ TargetDone(s, index, outcome).targets[i].target = s.targets[i].target
           /\ i = index => TargetDone(s, index, outcome).targets[i].state = outcome
           /\ i # index => TargetDone(s, index, outcome).targets[i] = s.targets[i]
<1>1. CASE index \in 1..Len(s.targets)
  <2> DEFINE e == [s.targets EXCEPT ![index] = [s.targets[index] EXCEPT !.state = outcome]]
  <2>1. TargetDone(s, index, outcome).targets = e
    BY <1>1 DEF TargetDone, JobSnapshot
  <2>2. /\ e[i].target = s.targets[i].target
        /\ i # index => e[i] = s.targets[i]
        /\ e[index].state = outcome
    <3>1. s.targets[index] \in TargetSnapshot /\ s.targets \in [1..Len(s.targets) -> TargetSnapshot]
      BY <1>1, LenType
    <3> QED BY <1>1, <3>1 DEF TargetSnapshot
  <2> HIDE DEF e
  <2> QED BY <2>1, <2>2
<1>2. CASE index \notin 1..Len(s.targets)
  BY <1>2 DEF TargetDone
<1> QED BY <1>1, <1>2

LEMMA TargetDoneIs ==
    ASSUME NEW s \in JobSnapshot, NEW index, NEW outcome, NEW list \in Seq(Targets), Shape(s, list)
    PROVE  Shape(TargetDone(s, index, outcome), list)
<1>1. Len(TargetDone(s, index, outcome).targets) = Len(s.targets)
  BY TargetDoneLen
<1>2. \A i \in 1..Len(s.targets) : TargetDone(s, index, outcome).targets[i].target = s.targets[i].target
  BY TargetDoneEntry
<1> QED BY <1>1, <1>2 DEF Shape

\* An outcome leaves no target running that was not, and not the one it is for.
LEMMA TargetDoneRunning ==
    ASSUME NEW s \in JobSnapshot, NEW index, NEW outcome, outcome # "running",
           NEW list \in Seq(Targets), Shape(s, list)
    PROVE  /\ Running(TargetDone(s, index, outcome)) \subseteq Running(s)
           /\ \A t : Place(list, t) = {index} => t \notin Running(TargetDone(s, index, outcome))
<1> DEFINE d == TargetDone(s, index, outcome)
<1>1. Shape(d, list)
  BY TargetDoneIs
<1>2. ASSUME NEW i \in 1..Len(list) PROVE d.targets[i].state = "running" => i # index /\ d.targets[i] = s.targets[i]
  <2>1. i \in 1..Len(s.targets)
    BY DEF Shape
  <2> QED BY <2>1, TargetDoneEntry
<1> HIDE DEF d
<1>3. Running(d) \subseteq Running(s)
  BY <1>1, <1>2 DEF Running, Shape
<1>4. ASSUME NEW t, Place(list, t) = {index} PROVE t \notin Running(d)
  BY <1>1, <1>2, <1>4 DEF Running, Shape, Place
<1> QED BY <1>3, <1>4 DEF d

\* The job's state follows from its targets and files alone.
LEMMA FinishedIs ==
    ASSUME NEW s \in JobSnapshot, NEW failed \in FilesFailed, Known(s)
    PROVE  /\ Finished(s, failed).targets = s.targets
           /\ Finished(s, failed).state = jobState(Finished(s, failed))
           /\ Finished(s, failed).state # "running"
<1> DEFINE f == [s EXCEPT !.failedFiles = failed]
           g == Finished(s, failed)
<1>1. /\ g.targets = s.targets /\ g.failedFiles = failed /\ g.state = jobState(f)
      /\ f.targets = s.targets /\ f.failedFiles = failed
  BY DEF Finished, JobSnapshot
<1> HIDE DEF f, g
<1>2. jobState(f) = jobState(g) /\ jobState(f) # "running"
  BY <1>1 DEF jobState, overallState, FilesFailed
<1> QED BY <1>1, <1>2 DEF g

LEMMA RefreshIs ==
    ASSUME NEW s \in JobSnapshot
    PROVE  /\ RefreshJobState(s).targets = s.targets
           /\ s.state # "running" => RefreshJobState(s).state # "running"
           /\ Known(s) => RefreshJobState(s).state = jobState(RefreshJobState(s))
<1> DEFINE g == RefreshJobState(s)
<1>1. CASE Known(s)
  <2>1. g.targets = s.targets /\ g.failedFiles = s.failedFiles /\ g.state = jobState(s)
    BY <1>1 DEF RefreshJobState, JobSnapshot
  <2> HIDE DEF g
  <2>2. jobState(s) = jobState(g) /\ jobState(s) # "running"
    BY <2>1 DEF jobState, overallState, FilesFailed, JobSnapshot
  <2> QED BY <2>1, <2>2 DEF g
<1>2. CASE ~Known(s)
  BY <1>2 DEF RefreshJobState
<1> QED BY <1>1, <1>2

LEMMA NewJobIs ==
    ASSUME NEW list \in Seq(Targets)
    PROVE  /\ Shape(newJobSnapshot(list), list)
           /\ newJobSnapshot(list).state # "running"
           /\ Running(newJobSnapshot(list)) = {}
<1>1. newJobSnapshot(list).targets = idleTargets(list) /\ newJobSnapshot(list).state = "idle"
  BY DEF newJobSnapshot
<1>2. /\ Len(idleTargets(list)) = Len(list)
      /\ \A i \in 1..Len(list) : idleTargets(list)[i].target = list[i] /\ idleTargets(list)[i].state = "idle"
  BY DEF idleTargets
<1> QED BY <1>1, <1>2 DEF Shape, Running

LEMMA UpsertIs ==
    ASSUME NEW s \in JobSnapshot, NEW list \in Seq(Targets)
    PROVE  /\ Shape(Upsert(s, list), list)
           /\ Running(Upsert(s, list)) \subseteq Running(s)
           /\ s.state # "running" => Upsert(s, list).state # "running"
<1>1. CASE ~Known(s)
  <2>1. Upsert(s, list) = newJobSnapshot(list)
    BY <1>1 DEF Upsert
  <2> QED BY <2>1, NewJobIs
<1>2. CASE Known(s)
  <2> DEFINE e == [i \in 1..Len(list) |-> [target |-> list[i], state |-> keptState(s, list[i])]]
  <2>1. Upsert(s, list).targets = e /\ Upsert(s, list).state = s.state
    BY <1>2 DEF Upsert, JobSnapshot
  <2>2. /\ Len(e) = Len(list)
        /\ \A i \in 1..Len(list) : e[i].target = list[i] /\ e[i].state = keptState(s, list[i])
    OBVIOUS
  <2>3. ASSUME NEW t, keptState(s, t) = "running"
        PROVE  t \in Running(s)
    <3> DEFINE M == {i \in 1..Len(s.targets) : s.targets[i].target = t}
    <3>1. CASE M = {}
      BY <2>3, <3>1 DEF keptState
    <3>2. CASE M # {}
      <4>1. M \subseteq Nat
        OBVIOUS
      <4>2. (CHOOSE i \in M : \A j \in M : i <= j) \in M
        BY <3>2, <4>1, SmallestExists
      <4>3. keptState(s, t) = s.targets[CHOOSE i \in M : \A j \in M : i <= j].state
        BY <3>2 DEF keptState
      <4> QED BY <2>3, <4>2, <4>3 DEF Running
    <3> QED BY <3>1, <3>2
  <2> HIDE DEF e
  <2> QED BY <2>1, <2>2, <2>3 DEF Shape, Running
<1> QED BY <1>1, <1>2

\* What the database gives a snapshot is never "running".
LEMMA SeedTargetRunIs ==
    ASSUME NEW s \in JobSnapshot, NEW from \in [Servers -> {"none", "ok", "failed"}],
           NEW list \in Seq(Targets), Shape(s, list)
    PROVE  /\ Shape(SeedTargetRun(s, from), list)
           /\ SeedTargetRun(s, from).state = s.state
           /\ Running(SeedTargetRun(s, from)) \subseteq Running(s)
<1> DEFINE server(i) == ServerOf[s.targets[i].target]
           seeded(i) == from[server(i)] # "none" /\ \A j \in 1..(i - 1) : server(j) # server(i)
           e == [i \in 1..Len(s.targets) |->
                   IF seeded(i) THEN [s.targets[i] EXCEPT !.state = from[server(i)]]
                   ELSE s.targets[i]]
<1>1. SeedTargetRun(s, from).targets = e /\ SeedTargetRun(s, from).state = s.state
  BY DEF SeedTargetRun, JobSnapshot
<1>2. Len(e) = Len(s.targets)
  BY LenType
<1>3. ASSUME NEW i \in 1..Len(s.targets)
      PROVE  /\ e[i].target = s.targets[i].target
             /\ e[i].state \in {s.targets[i].state, "ok", "failed"}
  <2>1. s.targets[i] \in TargetSnapshot /\ from[server(i)] \in {"none", "ok", "failed"}
    BY EntryType
  <2>2. e[i] = IF seeded(i) THEN [s.targets[i] EXCEPT !.state = from[server(i)]] ELSE s.targets[i]
    OBVIOUS
  <2>3. seeded(i) => from[server(i)] # "none"
    OBVIOUS
  <2> HIDE DEF seeded, server
  <2> QED BY <2>1, <2>2, <2>3 DEF TargetSnapshot
<1> HIDE DEF e
<1> QED BY <1>1, <1>2, <1>3 DEF Shape, Running

LEMMA SeedIs ==
    ASSUME TypeOK, NEW s \in JobSnapshot, NEW list \in Seq(Targets), Shape(s, list),
           NEW seed \in SeedStatusFromState(s)
    PROVE  /\ Shape(seed, list)
           /\ Running(seed) \subseteq Running(s)
           /\ s.state # "running" => seed.state # "running"
<1> DEFINE last == IF lastRun = "none" THEN s ELSE SeedLastRun(s, lastRun)
<1>1. saved \in [Servers -> {"none", "ok", "failed"}] /\ lastRun \in {"none", "ok", "failed"}
  BY DEF TypeOK, SavedOutcome
<1>2. /\ last \in JobSnapshot /\ last.targets = s.targets
      /\ s.state # "running" => last.state # "running"
  BY <1>1, SeedLastRunType DEF SeedLastRun, JobSnapshot
<1>3. Shape(last, list) /\ Running(last) = Running(s)
  BY <1>2 DEF Shape, Running
<1>4. seed \in {SeedTargetRun(last, saved), s, last, SeedTargetRun(s, saved)}
  BY DEF SeedStatusFromState
<1> HIDE DEF last
<1> QED BY <1>1, <1>2, <1>3, <1>4, SeedTargetRunIs

-----------------------------------------------------------------------------
(* Where the run's targets are in the job's definition *)

\* The snapshot is of the job's definition, and a target that is not displaced
\* has one place, the same in the run's definition.
Aligned ==
    /\ Shape(status, job)
    /\ job = NoJob => status.state # "running"
    /\ DOMAIN up \subseteq Indices(runJob, only)
    /\ phase = "uploading" => DOMAIN up = Indices(runJob, only)
    /\ phase # "idle" => \A t \in Targets \ displaced :
                            /\ Place(job, t) = Place(runJob, t)
                            /\ \A i, j \in Place(job, t) : i = j

\* What a fresh snapshot, seeded or not, and an unknown job show.
LEMMA FreshIs ==
    ASSUME TypeOK, NEW list \in Seq(Targets), NEW s \in SeedStatusFromState(newJobSnapshot(list))
    PROVE  Shape(s, list) /\ Running(s) = {} /\ s.state # "running"
<1>1. newJobSnapshot(list) \in JobSnapshot
  BY newJobSnapshotType
<1> QED BY <1>1, NewJobIs, SeedIs

LEMMA UnknownIs == Shape(Unknown, NoJob) /\ Running(Unknown) = {} /\ Unknown.state # "running"
BY DEF Shape, Unknown, NoJob, Running

\* An edit: the snapshot follows the definition, nothing starts to run.
LEMMA ChangeJobIs ==
    ASSUME Inv, NEW list \in JobLists, ChangeJob(list)
    PROVE  /\ Shape(status', list)
           /\ list = NoJob => status'.state # "running"
           /\ Running(status') \subseteq Running(status)
           /\ status.state # "running" => status'.state # "running"
<1>1. list \in Seq(Targets) /\ status \in JobSnapshot
  BY ListType DEF Inv, TypeOK
<1>2. /\ Upsert(status, list) \in JobSnapshot /\ Shape(Upsert(status, list), list)
      /\ Running(Upsert(status, list)) \subseteq Running(status)
      /\ status.state # "running" => Upsert(status, list).state # "running"
  BY <1>1, UpsertType, UpsertIs
<1>3. CASE list = NoJob
  BY <1>3, UnknownIs DEF ChangeJob
<1>4. CASE list # NoJob
  <2>1. status' \in SeedStatusFromState(Upsert(status, list)) \cup {Upsert(status, list)}
    BY <1>4 DEF ChangeJob
  <2>2. CASE status' = Upsert(status, list)
    BY <1>2, <1>4, <2>2
  <2>3. CASE status' \in SeedStatusFromState(Upsert(status, list))
    <3>1. /\ Shape(status', list) /\ Running(status') \subseteq Running(Upsert(status, list))
          /\ Upsert(status, list).state # "running" => status'.state # "running"
      BY <1>1, <1>2, <2>3, SeedIs DEF Inv
    <3> QED BY <1>2, <1>4, <3>1
  <2> QED BY <2>1, <2>2, <2>3
<1> QED BY <1>3, <1>4

\* A restart shows nothing as running.
LEMMA CrashIs ==
    ASSUME Inv, CrashAndRestart
    PROVE  Shape(status', job) /\ Running(status') = {} /\ status'.state # "running"
<1>1. job \in Seq(Targets)
  BY ListType DEF Inv, TypeOK
<1> QED BY <1>1, FreshIs, UnknownIs DEF Inv, CrashAndRestart

LEMMA AlignedInit == Init => Aligned
<1> SUFFICES ASSUME Init PROVE Aligned
  OBVIOUS
<1>1. TypeOK /\ job \in Seq(Targets)
  BY InvInit, ListType DEF Inv, TypeOK
<1>2. Shape(status, job) /\ status.state # "running"
  BY <1>1, FreshIs DEF Init
<1> QED BY <1>2 DEF Init, Aligned, NoGoroutines

LEMMA AlignedJob ==
    ASSUME Inv, Aligned,
           \/ \E list \in JobLists : ChangeJob(list)
           \/ HandleRetryFailedTargets \/ RunNow \/ RetryFailedTargets \/ RefuseRetry
    PROVE  Aligned'
<1> USE DEF statusVars, runVars, history
<1>1. ASSUME NEW list \in JobLists, ChangeJob(list) PROVE Aligned'
  <2>1. Shape(status', list) /\ (list = NoJob => status'.state # "running")
    BY <1>1, ChangeJobIs
  <2>2. UNCHANGED runVars /\ job' = list
    BY <1>1 DEF ChangeJob
  <2>3. ASSUME phase # "idle", NEW t \in Targets \ displaced'
        PROVE  Place(list, t) = Place(runJob, t) /\ \A i, j \in Place(list, t) : i = j
    <3>1. t \notin Displaced(list, runJob)
      BY <1>1, <2>3 DEF ChangeJob
    <3> QED BY <2>3, <3>1 DEF Displaced
  <2> QED BY <2>1, <2>2, <2>3 DEF Aligned
<1>2. CASE HandleRetryFailedTargets \/ RefuseRetry
  BY <1>2 DEF HandleRetryFailedTargets, RefuseRetry, Aligned
<1>3. CASE RunNow \/ RetryFailedTargets
  <2>1. PICK list, servers : Claim(list, servers)
    BY <1>3 DEF RunNow, RetryFailedTargets
  <2>2. DOMAIN up = {}
    BY <2>1 DEF Claim, Inv, ControlOK
  <2>3. ASSUME NEW t \in Targets \ displaced'
        PROVE  Place(job, t) = Place(list, t) /\ \A i, j \in Place(job, t) : i = j
    <3>1. t \notin Displaced(job, list)
      BY <2>1, <2>3 DEF Claim
    <3> QED BY <2>3, <3>1 DEF Displaced
  <2> QED BY <2>1, <2>2, <2>3 DEF Claim, Aligned
<1> QED BY <1>1, <1>2, <1>3

LEMMA AlignedStatus ==
    ASSUME Inv, Aligned,
           \/ status' = status
           \/ status' = Starting(status)
           \/ \E servers : status' = RetryStarting(status, servers)
           \/ \E i, outcome : status' = TargetDone(status, i, outcome)
    PROVE  Shape(status', job) /\ (job = NoJob => status'.state # "running")
<1>1. status \in JobSnapshot /\ job \in Seq(Targets) /\ Shape(status, job)
  BY ListType DEF Inv, TypeOK, Aligned
<1>2. CASE status' = Starting(status)
  <2>1. job = NoJob => ~Known(status)
    BY <1>1 DEF Shape, Known, NoJob, JobSnapshot
  <2> QED BY <1>1, <1>2, <2>1, StartingIs DEF Starting, Aligned
<1>3. CASE status' # Starting(status)
  BY <1>1, <1>3, RetryStartingIs, TargetDoneIs, TargetDoneState DEF Aligned
<1> QED BY <1>2, <1>3

\* The steps of the run and of the retry loop.
LEMMA AlignedRun ==
    ASSUME Inv, Aligned, Run \/ RetryLoop
    PROVE  Aligned'
<1> USE DEF statusVars, runVars, jobVars, history
<1>1. Shape(status', job) /\ (job = NoJob => status'.state # "running")
  <2>0. status \in JobSnapshot /\ FailedSources \in FilesFailed /\ Shape(status, job)
    BY DEF FailedSources, FilesFailed, Inv, TypeOK, Aligned
  <2>1. CASE FinishRun
    <3>1. CASE Known(status)
      <4>1. status'.targets = status.targets /\ status'.state # "running"
        BY <2>0, <2>1, <3>1, FinishedIs DEF FinishRun
      <4> QED BY <2>0, <4>1 DEF Shape
    <3>2. CASE ~Known(status)
      BY <2>0, <2>1, <3>2 DEF FinishRun, Finished, Aligned
    <3> QED BY <3>1, <3>2
  <2>2. CASE RefreshJob
    <3>1. status'.targets = status.targets /\ (status.state # "running" => status'.state # "running")
      BY <2>0, <2>2, RefreshIs DEF RefreshJob
    <3> QED BY <2>0, <3>1 DEF Shape, Aligned
  <2>3. CASE ~FinishRun /\ ~RefreshJob
    <3>1. \/ status' = status \/ status' = Starting(status)
          \/ \E servers : status' = RetryStarting(status, servers)
          \/ \E i, outcome : status' = TargetDone(status, i, outcome)
      BY <2>3 DEF Run, RetryLoop, Upload, Start, BeginStage, EndStage, BeginUploads, OpenStaged,
          SendOk, SendFails, AddOutstandingTargetUpload, ReportTarget, PersistTargetRun,
          RemoveStagingFile, RecordJobRun, Release, Tick, Sleep, PickRow, RetryOk, RetryFails,
          DeleteRow, CountForFile, Unlink, CountForTarget, ReportRecovery, PersistRecovery
    <3> QED BY <3>1, AlignedStatus
  <2> QED BY <2>1, <2>2, <2>3
<1>2. UNCHANGED <<job, displaced>>
  BY DEF Run, RetryLoop, Upload, Start, BeginStage, EndStage, BeginUploads, OpenStaged,
      SendOk, SendFails, AddOutstandingTargetUpload, ReportTarget, PersistTargetRun,
      RemoveStagingFile, FinishRun, RecordJobRun, Release, Tick, Sleep, PickRow, RetryOk, RetryFails,
      DeleteRow, CountForFile, Unlink, CountForTarget, ReportRecovery, RefreshJob, PersistRecovery
<1>3. CASE Release
  BY <1>1, <1>2, <1>3 DEF Release, ForgetRun, NoGoroutines, Aligned
<1>4. CASE BeginUploads
  BY <1>1, <1>2, <1>4 DEF BeginUploads, Aligned
<1>5. CASE ~Release /\ ~BeginUploads
  <2>1. /\ DOMAIN up' = DOMAIN up /\ UNCHANGED <<runJob, only>>
        /\ phase' # "idle" => phase # "idle"
        /\ phase' = "uploading" => phase = "uploading"
    BY <1>5 DEF Run, RetryLoop, Upload, Start, BeginStage, EndStage, OpenStaged,
        SendOk, SendFails, AddOutstandingTargetUpload, ReportTarget, PersistTargetRun, NextFile,
        RemoveStagingFile, FinishRun, RecordJobRun, Tick, Sleep, PickRow, RetryOk, RetryFails,
        DeleteRow, CountForFile, Unlink, CountForTarget, ReportRecovery, RefreshJob, PersistRecovery
  <2> QED BY <1>1, <1>2, <2>1 DEF Aligned
<1> QED BY <1>3, <1>4, <1>5

LEMMA AlignedStep == Inv /\ Aligned /\ [Next]_vars => Aligned'
<1> SUFFICES ASSUME Inv, Aligned, [Next]_vars PROVE Aligned'
  OBVIOUS
<1>1. CASE UNCHANGED vars
  BY <1>1 DEF vars, jobVars, statusVars, runVars, history, Aligned
<1>2. CASE Run \/ RetryLoop
  BY <1>2, AlignedRun
<1>3. CASE CrashAndRestart
  BY <1>3, CrashIs DEF CrashAndRestart, ForgetRun, NoGoroutines, Aligned
<1> QED BY <1>1, <1>2, <1>3, AlignedJob DEF Next

\* The goroutine of a target that is not displaced reports on its own entry.
LEMMA OwnPlace ==
    ASSUME Inv, Aligned, NEW i \in DOMAIN up, phase # "idle",
           runJob[i] \notin displaced \/ (i \in 1..Len(job) /\ job[i] \notin displaced)
    PROVE  i \in 1..Len(job) /\ job[i] = runJob[i] /\ Place(job, runJob[i]) = {i}
<1>1. i \in 1..Len(runJob) /\ runJob[i] \in Targets /\ job \in Seq(Targets)
  BY RunTargets, ListType DEF Inv, TypeOK
<1>2. CASE runJob[i] \notin displaced
  <2>1. i \in Place(runJob, runJob[i])
    BY <1>1 DEF Place
  <2>2. /\ Place(job, runJob[i]) = Place(runJob, runJob[i])
        /\ \A k, j \in Place(job, runJob[i]) : k = j
    BY <1>1, <1>2 DEF Aligned
  <2> QED BY <2>1, <2>2 DEF Place
<1>3. CASE i \in 1..Len(job) /\ job[i] \notin displaced
  <2>1. job[i] \in Targets
    BY <1>1, <1>3
  <2>2. i \in Place(job, job[i])
    BY <1>3 DEF Place
  <2>3. Place(job, job[i]) = Place(runJob, job[i]) /\ \A k, j \in Place(job, job[i]) : k = j
    BY <1>3, <2>1 DEF Aligned
  <2> QED BY <1>3, <2>2, <2>3 DEF Place
<1> QED BY <1>2, <1>3

-----------------------------------------------------------------------------
(* A run resolves the targets it set to running *)

\* A target the run has yet to report.
Pending(t) ==
    CASE phase \in {"staging", "draining"} -> \E i \in Indices(runJob, only) : runJob[i] = t
      [] phase = "uploading" -> \E i \in DOMAIN up : runJob[i] = t /\ up[i].pc \notin {"save", "done"}
      [] OTHER -> FALSE

\* Which targets may be shown as running: a full run that begins sets each of
\* them to running anyway.
Quiet ==
    /\ phase \in {"idle", "starting", "finished", "hooks"} => status.state # "running"
    /\ ~(phase = "starting" /\ only = {}) => \A t \in Running(status) \ displaced : Pending(t)

LEMMA QuietInit == Init => Quiet
<1> SUFFICES ASSUME Init PROVE Quiet
  OBVIOUS
<1>1. TypeOK /\ job \in Seq(Targets)
  BY InvInit, ListType DEF Inv, TypeOK
<1> QED BY <1>1, FreshIs DEF Init, Quiet

\* A step that sets nothing to running and reports nothing.
LEMMA QuietFrame ==
    ASSUME Quiet, UNCHANGED runVars, displaced \subseteq displaced',
           Running(status') \subseteq Running(status), status.state # "running" => status'.state # "running"
    PROVE  Quiet'
BY DEF Quiet, Pending, runVars

LEMMA QuietRun ==
    ASSUME Inv, Aligned, Quiet,
           \/ Start \/ BeginStage \/ EndStage \/ BeginUploads
           \/ RemoveStagingFile \/ FinishRun \/ RecordJobRun \/ Release
    PROVE  Quiet'
<1> USE DEF history
<1>0. status \in JobSnapshot /\ job \in Seq(Targets) /\ Shape(status, job)
  BY ListType DEF Inv, TypeOK, Aligned
<1>1. CASE Start
  <2>1. phase = "starting" /\ phase' = "staging" /\ UNCHANGED <<runJob, only, displaced>>
    BY <1>1 DEF Start
  <2>2. ASSUME NEW t, t \notin displaced, only = {} \/ ServerOf[t] \in only,
               NEW i \in 1..Len(job), job[i] = t
        PROVE  Pending(t)'
    <3>1. i \in Place(job, t) /\ t \in Targets
      BY <1>0, <2>2 DEF Place
    <3>2. i \in Place(runJob, t)
      BY <2>1, <2>2, <3>1 DEF Aligned
    <3>3. i \in Indices(runJob, only) /\ runJob[i] = t
      BY <2>2, <3>2 DEF Place, Indices
    <3>4. i \in Indices(runJob, only)' /\ (runJob[i] = t)'
      BY <2>1, <3>3 DEF Indices
    <3> QED BY <2>1, <3>4 DEF Pending
  <2>3. CASE only = {}
    <3>1. Shape(status', job)
      BY <1>0, <1>1, <2>3, StartingIs DEF Start
    <3>2. \A t \in Running(status') : \E i \in 1..Len(job) : t = job[i]
      BY <3>1 DEF Running, Shape
    <3>3. ASSUME NEW t \in Running(status') \ displaced PROVE Pending(t)'
      BY <2>2, <2>3, <3>2
    <3> QED BY <2>1, <3>3 DEF Quiet
  <2>4. CASE only # {}
    <3>1. status' = RetryStarting(status, only)
      BY <1>1, <2>4 DEF Start
    <3>2. /\ Shape(status', job)
          /\ \A i \in 1..Len(job) : ServerOf[job[i]] \notin only => status'.targets[i] = status.targets[i]
      BY <1>0, <3>1, RetryStartingIs
    <3>3. ASSUME NEW t \in Running(status') \ displaced PROVE Pending(t)'
      <4>1. PICK i \in 1..Len(job) : t = job[i] /\ status'.targets[i].state = "running"
        BY <3>2 DEF Running, Shape
      <4>2. CASE ServerOf[t] \in only
        BY <2>2, <3>3, <4>1, <4>2
      <4>3. CASE ServerOf[t] \notin only
        <5>1. t \in Running(status)
          BY <1>0, <3>2, <4>1, <4>3 DEF Running, Shape
        <5> QED BY <2>1, <2>4, <5>1 DEF Quiet, Pending
      <4> QED BY <4>2, <4>3
    <3> QED BY <2>1, <3>3 DEF Quiet
  <2> QED BY <2>3, <2>4
<1>2. CASE BeginStage \/ EndStage
  BY <1>2 DEF BeginStage, EndStage, statusVars, Quiet, Pending
<1>3. CASE BeginUploads
  <2>1. /\ phase = "staging" /\ phase' = "uploading" /\ UNCHANGED <<status, runJob, displaced>>
        /\ DOMAIN up' = Indices(runJob, only) /\ \A i \in DOMAIN up' : up'[i].pc \in {"report", "open"}
    BY <1>3 DEF BeginUploads, statusVars
  <2> QED BY <2>1 DEF Quiet, Pending
<1>4. CASE RemoveStagingFile
  BY <1>4 DEF RemoveStagingFile, statusVars, Quiet, Pending
<1>5. CASE FinishRun
  <2>0. FailedSources \in FilesFailed
    BY DEF FailedSources, FilesFailed
  <2>1. status'.targets = status.targets /\ status'.state # "running"
    <3>1. CASE Known(status)
      BY <1>0, <1>5, <2>0, <3>1, FinishedIs DEF FinishRun
    <3>2. CASE ~Known(status)
      <4>1. job = NoJob
        BY <1>0, <3>2 DEF Known, Shape, NoJob
      <4> QED BY <1>5, <3>2, <4>1 DEF FinishRun, Finished, Aligned
    <3> QED BY <3>1, <3>2
  <2>2. Running(status') = Running(status)
    BY <2>1 DEF Running
  <2>3. Running(status) \subseteq displaced
    BY <1>5 DEF FinishRun, AllReported, Quiet, Pending
  <2> QED BY <1>5, <2>1, <2>2, <2>3 DEF FinishRun, Quiet
<1>6. CASE RecordJobRun \/ Release
  <2>1. phase \in {"finished", "hooks"} /\ phase' \in {"hooks", "idle"} /\ UNCHANGED <<status, displaced>>
    BY <1>6 DEF RecordJobRun, Release, ForgetRun, statusVars
  <2> QED BY <2>1 DEF Quiet, Pending
<1> QED BY <1>1, <1>2, <1>3, <1>4, <1>5, <1>6

LEMMA QuietUpload ==
    ASSUME Inv, Aligned, Quiet, NEW i \in DOMAIN up, Upload(i)
    PROVE  Quiet'
<1>1. /\ phase = "uploading" /\ UNCHANGED <<job, phase, only, runJob>>
      /\ DOMAIN up' = DOMAIN up /\ \A k \in DOMAIN up : k # i => up'[k] = up[k]
  BY UploadStep
<1>2. UNCHANGED displaced
  BY DEF Upload, OpenStaged, SendOk, SendFails, AddOutstandingTargetUpload, ReportTarget,
         PersistTargetRun, history
<1>3. CASE ReportTarget(i)
  <2>1. PICK outcome : outcome # "running" /\ status' = TargetDone(status, i, outcome)
    BY <1>3 DEF ReportTarget, Outcome
  <2>2. status \in JobSnapshot /\ job \in Seq(Targets) /\ Shape(status, job)
    BY ListType DEF Inv, TypeOK, Aligned
  <2>3. /\ Running(status') \subseteq Running(status)
        /\ \A t : Place(job, t) = {i} => t \notin Running(status')
    BY <2>1, <2>2, TargetDoneRunning
  <2>4. ASSUME NEW t \in Running(status') \ displaced PROVE Pending(t)'
    <3>1. PICK k \in DOMAIN up : runJob[k] = t /\ up[k].pc \notin {"save", "done"}
      BY <1>1, <2>3 DEF Quiet, Pending
    <3>2. k # i
      BY <1>1, <2>3, <3>1, OwnPlace
    <3> QED BY <1>1, <3>1, <3>2 DEF Pending
  <2> QED BY <1>1, <1>2, <2>4 DEF Quiet
<1>4. CASE ~ReportTarget(i)
  <2>1. UNCHANGED status /\ (up[i].pc # "save" => up'[i].pc \notin {"save", "done"})
    <3>0. up \in [DOMAIN up -> Goroutines]
      BY DEF Inv, TypeOK
    <3>1. CASE OpenStaged(i) \/ SendFails(i)
      BY <3>0, <3>1 DEF OpenStaged, SendFails, Goroutine, statusVars, Goroutines
    <3>2. CASE SendOk(i) \/ AddOutstandingTargetUpload(i)
      BY <3>0, <3>2 DEF SendOk, AddOutstandingTargetUpload, NextFile, Goroutine, statusVars
    <3>3. CASE PersistTargetRun(i)
      BY <3>0, <3>3 DEF PersistTargetRun, Goroutine
    <3> QED BY <1>4, <3>1, <3>2, <3>3 DEF Upload
  <2>2. ASSUME NEW t \in Running(status) \ displaced PROVE Pending(t)'
    <3>1. PICK k \in DOMAIN up : runJob[k] = t /\ up[k].pc \notin {"save", "done"}
      BY <1>1 DEF Quiet, Pending
    <3>2. up'[k].pc \notin {"save", "done"}
      BY <1>1, <2>1, <3>1
    <3> QED BY <1>1, <3>1, <3>2 DEF Pending
  <2> QED BY <1>1, <1>2, <2>1, <2>2 DEF Quiet
<1> QED BY <1>3, <1>4

LEMMA QuietLoop == ASSUME Inv, Aligned, Quiet, RetryLoop PROVE Quiet'
<1>1. UNCHANGED <<runVars, displaced>>
  BY DEF RetryLoop, Tick, Sleep, PickRow, RetryOk, RetryFails, DeleteRow, CountForFile, Unlink,
         CountForTarget, ReportRecovery, RefreshJob, PersistRecovery, history
<1>2. status \in JobSnapshot /\ job \in Seq(Targets) /\ Shape(status, job)
  BY ListType DEF Inv, TypeOK, Aligned
<1>3. Running(status') \subseteq Running(status) /\ (status.state # "running" => status'.state # "running")
  <2>1. CASE ReportRecovery
    <3>1. PICK index, outcome : outcome # "running" /\ status' = TargetDone(status, index, outcome)
      BY <2>1 DEF ReportRecovery
    <3>2. Running(status') \subseteq Running(status)
      BY <1>2, <3>1, TargetDoneRunning
    <3>3. status'.state = status.state
      BY <1>2, <3>1, TargetDoneState
    <3> QED BY <3>2, <3>3
  <2>2. CASE RefreshJob
    BY <1>2, <2>2, RefreshIs DEF RefreshJob, Running
  <2>3. CASE ~ReportRecovery /\ ~RefreshJob
    <3>1. status' = status
      BY <2>3 DEF RetryLoop, Tick, Sleep, PickRow, RetryOk, RetryFails, DeleteRow, CountForFile, Unlink,
           CountForTarget, PersistRecovery, statusVars
    <3> QED BY <3>1
  <2> QED BY <2>1, <2>2, <2>3
<1> QED BY <1>1, <1>3, QuietFrame

LEMMA QuietStep == Inv /\ Aligned /\ Quiet /\ [Next]_vars => Quiet'
<1> SUFFICES ASSUME Inv, Aligned, Quiet, [Next]_vars PROVE Quiet'
  OBVIOUS
<1>1. CASE UNCHANGED <<status, runVars, displaced>>
  BY <1>1, QuietFrame
<1>2. ASSUME NEW list \in JobLists, ChangeJob(list) PROVE Quiet'
  <2>1. UNCHANGED runVars /\ displaced \subseteq displaced'
    BY <1>2 DEF ChangeJob
  <2> QED BY <1>2, <2>1, ChangeJobIs, QuietFrame
<1>3. CASE RunNow \/ RetryFailedTargets
  <2>1. PICK list, servers : Claim(list, servers)
    BY <1>3 DEF RunNow, RetryFailedTargets
  <2>2. /\ phase = "idle" /\ phase' = "starting" /\ UNCHANGED status /\ only' = servers
        /\ servers # {} => displaced \subseteq displaced'
    BY <2>1 DEF Claim, statusVars
  <2> QED BY <2>2 DEF Quiet, Pending
<1>4. CASE Run
  BY <1>4, QuietRun, QuietUpload DEF Run
<1>5. CASE CrashAndRestart
  BY <1>5, CrashIs DEF Quiet
<1>6. \/ UNCHANGED <<status, runVars, displaced>>
      \/ (\E list \in JobLists : ChangeJob(list))
      \/ RunNow \/ RetryFailedTargets \/ Run \/ RetryLoop \/ CrashAndRestart
  BY DEF Next, HandleRetryFailedTargets, RefuseRetry, vars, statusVars, history
<1> QED BY <1>1, <1>2, <1>3, <1>4, <1>5, <1>6, QuietLoop

\* A run resolves every target it set to running, whatever fails, and however
\* the retry loop, edits of the job and restarts interleave, but for targets
\* that an edit put elsewhere.
THEOREM RunsComeToRest == Spec => []NoStuckRunning
<1>1. Quiet => NoStuckRunning
  BY DEF Quiet, Pending, NoStuckRunning, Running
<1> QED BY <1>1, InvInit, InvStep, AlignedInit, AlignedStep, QuietInit, QuietStep, PTL DEF Spec

-----------------------------------------------------------------------------
(* What a retry run may change *)

\* Reporting an outcome changes no other entry of the snapshot.
LEMMA ReportChanges ==
    ASSUME Inv, Aligned, NEW i \in DOMAIN up, ReportTarget(i),
           NEW k \in 1..Len(status.targets), status'.targets[k] # status.targets[k],
           status.targets[k].target \notin displaced
    PROVE  status.targets[k].target = runJob[i] /\ i \in Indices(runJob, only)
<1>1. status \in JobSnapshot /\ job \in Seq(Targets) /\ Shape(status, job)
  BY ListType DEF Inv, TypeOK, Aligned
<1>2. PICK outcome : status' = TargetDone(status, i, outcome)
  BY DEF ReportTarget
<1>3. k = i
  BY <1>1, <1>2, TargetDoneEntry
<1>4. k \in 1..Len(job) /\ status.targets[k].target = job[k]
  BY <1>1 DEF Shape
<1>5. phase = "uploading" /\ i \in Indices(runJob, only)
  BY DEF ReportTarget, Goroutine, Aligned
<1> QED BY <1>3, <1>4, <1>5, OwnPlace

\* A retry of failed targets changes what is shown of those targets only, but
\* for targets that an edit put elsewhere.
THEOREM RetriesAreNarrow == Spec => RetryTouchesOnlyAsked
<1> DEFINE Narrow == only # {} /\ only' = only /\ UNCHANGED <<job, loop>> =>
                        \A k \in 1..Len(status.targets) :
                           status'.targets[k] # status.targets[k] =>
                              LET t == status.targets[k].target IN ServerOf[t] \in only \/ t \in displaced
<1>1. ASSUME Inv, Aligned, [Next]_vars
      PROVE  [Narrow]_vars
  <2> SUFFICES ASSUME only # {}, only' = only, UNCHANGED <<job, loop>>,
                      NEW k \in 1..Len(status.targets), status'.targets[k] # status.targets[k],
                      status.targets[k].target \notin displaced
               PROVE  ServerOf[status.targets[k].target] \in only
    OBVIOUS
  <2>1. status \in JobSnapshot /\ job \in Seq(Targets) /\ Shape(status, job)
    BY <1>1, ListType DEF Inv, TypeOK, Aligned
  <2>2. status' # status
    OBVIOUS
  <2>3. \/ Start \/ FinishRun \/ RefreshJob
        \/ \E i \in DOMAIN up : ReportTarget(i)
    BY <1>1, <2>2
    DEF Next, ChangeJob, HandleRetryFailedTargets, RunNow, RetryFailedTargets, RefuseRetry, Claim, Run,
        RetryLoop, BeginStage, EndStage, BeginUploads, RemoveStagingFile, RecordJobRun,
        Release, ForgetRun, Tick, Sleep, PickRow, RetryOk, RetryFails, DeleteRow,
        CountForFile, Unlink, CountForTarget, ReportRecovery, PersistRecovery,
        CrashAndRestart, vars, statusVars, Upload, OpenStaged, SendOk, SendFails,
        AddOutstandingTargetUpload, PersistTargetRun
  <2>4. CASE Start
    <3>1. status' = RetryStarting(status, only)
      BY <2>4 DEF Start
    <3> QED BY <2>1, <3>1, RetryStartingIs DEF Shape
  <2>5. CASE FinishRun
    <3>1. FailedSources \in FilesFailed
      BY DEF FailedSources, FilesFailed
    <3>2. CASE Known(status)
      BY <2>1, <2>5, <3>1, <3>2, FinishedIs DEF FinishRun
    <3>3. CASE ~Known(status)
      BY <2>2, <2>5, <3>3 DEF FinishRun, Finished
    <3> QED BY <3>2, <3>3
  <2>6. CASE RefreshJob
    BY <2>6 DEF RefreshJob
  <2>7. ASSUME NEW i \in DOMAIN up, ReportTarget(i)
        PROVE  ServerOf[status.targets[k].target] \in only
    <3>1. status.targets[k].target = runJob[i] /\ i \in Indices(runJob, only)
      BY <1>1, <2>7, ReportChanges
    <3> QED BY <3>1 DEF Indices
  <2> QED BY <2>3, <2>4, <2>5, <2>6, <2>7
<1>2. Spec => [](Inv /\ Aligned)
  BY InvInit, InvStep, AlignedInit, AlignedStep, PTL DEF Spec
<1>3. Spec => [][Next]_vars
  BY PTL DEF Spec
<1>4. RetryTouchesOnlyAsked <=> [][Narrow]_vars
  BY DEF RetryTouchesOnlyAsked
<1> HIDE DEF Narrow
<1> QED BY <1>1, <1>2, <1>3, <1>4, PTL

-----------------------------------------------------------------------------
(* What the job's state says *)

LEMMA SummedStep == Inv /\ JobStateSumsUp /\ [Next]_vars => JobStateSumsUp'
<1> SUFFICES ASSUME Inv, JobStateSumsUp, [Next]_vars PROVE JobStateSumsUp'
  OBVIOUS
<1>0. status \in JobSnapshot
  BY DEF Inv, TypeOK
<1>1. CASE UNCHANGED <<status, phase, loop, summed>>
  BY <1>1 DEF JobStateSumsUp
<1>2. CASE FinishRun
  <2>1. FailedSources \in FilesFailed
    BY DEF FailedSources, FilesFailed
  <2> QED BY <1>0, <1>2, <2>1, FinishedIs DEF FinishRun, JobStateSumsUp
<1>3. CASE Run /\ ~FinishRun
  <2>1. \/ phase' \in {"staging", "draining", "uploading"}
        \/ phase \in {"finished", "hooks"} /\ UNCHANGED <<status, loop, summed>>
    BY <1>3
    DEF Run, Start, BeginStage, EndStage, BeginUploads, RemoveStagingFile, RecordJobRun, Release,
        ForgetRun, loopVars, statusVars, history, Upload, OpenStaged, SendOk, SendFails,
        AddOutstandingTargetUpload, ReportTarget, PersistTargetRun, Goroutine
  <2>2. CASE phase' \in {"staging", "draining", "uploading"}
    BY <2>2 DEF JobStateSumsUp
  <2>3. CASE phase \in {"finished", "hooks"} /\ UNCHANGED <<status, loop, summed>>
    BY <2>3 DEF JobStateSumsUp
  <2> QED BY <2>1, <2>2, <2>3
<1>4. CASE RefreshJob
  BY <1>0, <1>4, RefreshIs DEF RefreshJob, JobStateSumsUp
<1>5. CASE RetryLoop /\ ~RefreshJob
  <2>1. /\ UNCHANGED <<phase, summed>>
        /\ loop' = "refresh" \/ (UNCHANGED status /\ loop # "refresh")
    BY <1>5
    DEF RetryLoop, Tick, Sleep, PickRow, RetryOk, RetryFails, DeleteRow, CountForFile, Unlink,
        CountForTarget, ReportRecovery, PersistRecovery, runVars, statusVars, history
  <2> QED BY <2>1 DEF JobStateSumsUp
<1>6. CASE RunNow \/ RetryFailedTargets
  BY <1>6 DEF RunNow, RetryFailedTargets, Claim, JobStateSumsUp
<1>7. CASE CrashAndRestart \/ \E list \in JobLists : ChangeJob(list)
  BY <1>7 DEF CrashAndRestart, ChangeJob, JobStateSumsUp
<1>8. \/ UNCHANGED <<status, phase, loop, summed>>
      \/ Run \/ RetryLoop \/ RunNow \/ RetryFailedTargets
      \/ CrashAndRestart \/ \E list \in JobLists : ChangeJob(list)
  BY DEF Next, HandleRetryFailedTargets, RefuseRetry, vars, statusVars, runVars, loopVars, history
<1> QED BY <1>1, <1>2, <1>3, <1>4, <1>5, <1>6, <1>7, <1>8

\* After a run the job's state sums up its targets and files, although the
\* retry loop reports recoveries at any time, until the next edit or restart.
THEOREM StateSumsUp == Spec => []JobStateSumsUp
<1>1. Init => JobStateSumsUp
  BY DEF Init, JobStateSumsUp
<1> QED BY <1>1, InvInit, InvStep, SummedStep, PTL DEF Spec

-----------------------------------------------------------------------------
(* What counts as a success of a run *)

\* A goroutine without a failure has sent each staged file it is done with.
Earned(i) ==
    ~up[i].bad => /\ staged # {}
                  /\ \A f \in staged \ up[i].todo : [origin |-> runJob[i], file |-> StagedFile(f)] \in stored

AllEarned == \A i \in DOMAIN up : Earned(i)

LEMMA EarnedFrame ==
    ASSUME AllEarned, UNCHANGED <<runNo, runJob, staged, up>>, stored \subseteq stored'
    PROVE  AllEarned'
BY DEF AllEarned, Earned, StagedFile

LEMMA EarnedUpload ==
    ASSUME Inv, AllEarned, NEW i \in DOMAIN up, Upload(i)
    PROVE  AllEarned'
<1>0. /\ phase = "uploading" /\ UNCHANGED <<runNo, runJob, staged>>
      /\ DOMAIN up' = DOMAIN up /\ \A j \in DOMAIN up : j # i => up'[j] = up[j]
  BY UploadStep
<1>1. stored \subseteq stored'
  BY DEF Upload, OpenStaged, SendOk, SendFails, AddOutstandingTargetUpload, ReportTarget, PersistTargetRun
<1>2. \A f : StagedFile(f)' = StagedFile(f)
  BY <1>0 DEF StagedFile
<1>3. ASSUME NEW j \in DOMAIN up, j # i PROVE Earned(j)'
  BY <1>0, <1>1, <1>2, <1>3 DEF AllEarned, Earned
<1>4. Earned(i)
  BY DEF AllEarned
<1>5. up[i] \in Goroutines
  BY DEF Inv, TypeOK
<1>6. Earned(i)'
  <2>1. CASE OpenStaged(i) \/ SendFails(i) \/ ReportTarget(i) \/ PersistTargetRun(i)
    <3>1. up'[i].todo = up[i].todo /\ up'[i].bad = up[i].bad
      BY <1>5, <2>1 DEF OpenStaged, SendFails, ReportTarget, PersistTargetRun, Goroutines
    <3> QED BY <1>0, <1>1, <1>2, <1>4, <3>1 DEF Earned
  <2>2. CASE SendOk(i)
    <3>1. /\ up'[i].todo = up[i].todo \ {SetMin(up[i].todo)}
          /\ up'[i].bad = up[i].bad
          /\ stored' = stored \cup {[origin |-> runJob[i], file |-> StagedFile(SetMin(up[i].todo))]}
      BY <1>5, <2>2 DEF SendOk, NextFile, CurrentFile, Goroutines
    <3> QED BY <1>0, <1>2, <1>4, <3>1 DEF Earned
  <2>3. CASE AddOutstandingTargetUpload(i)
    <3>1. up'[i].bad
      BY <2>3 DEF AddOutstandingTargetUpload, NextFile
    <3> QED BY <3>1 DEF Earned
  <2> QED BY <2>1, <2>2, <2>3 DEF Upload
<1> QED BY <1>0, <1>3, <1>6 DEF AllEarned

LEMMA EarnedStep == Inv /\ Inv' /\ AllEarned /\ [Next]_vars => AllEarned'
<1> SUFFICES ASSUME Inv, Inv', AllEarned, [Next]_vars PROVE AllEarned'
  OBVIOUS
<1> USE DEF runVars
<1>1. CASE DOMAIN up' = {}
  BY <1>1 DEF AllEarned
<1>2. CASE BeginUploads
  <2>1. /\ \A i \in DOMAIN up' : up'[i].todo = staged /\ up'[i].bad = (staged = {})
        /\ UNCHANGED staged
    BY <1>2 DEF BeginUploads
  <2> QED BY <2>1 DEF AllEarned, Earned
<1>3. CASE UNCHANGED <<runNo, runJob, staged, up>> /\ stored \subseteq stored'
  BY <1>3, EarnedFrame
<1>4. CASE Start \/ BeginStage \/ EndStage
  BY <1>1, <1>4 DEF Start, BeginStage, EndStage, Inv, ControlOK
<1>5. CASE RunNow \/ RetryFailedTargets \/ Release \/ CrashAndRestart
  BY <1>1, <1>5 DEF RunNow, RetryFailedTargets, Claim, Release, CrashAndRestart, ForgetRun, NoGoroutines,
     Inv, ControlOK
<1>6. CASE RetryLoop
  BY <1>3, <1>6 DEF RetryLoop, Tick, Sleep, PickRow, RetryOk, RetryFails, DeleteRow, CountForFile, Unlink,
         CountForTarget, ReportRecovery, RefreshJob, PersistRecovery
<1>7. CASE RemoveStagingFile \/ FinishRun \/ RecordJobRun
  BY <1>3, <1>7 DEF RemoveStagingFile, FinishRun, RecordJobRun
<1>8. CASE \/ \E list \in JobLists : ChangeJob(list)
           \/ HandleRetryFailedTargets \/ RefuseRetry \/ UNCHANGED vars
  BY <1>3, <1>8 DEF ChangeJob, HandleRetryFailedTargets, RefuseRetry, vars
<1> QED BY <1>2, <1>4, <1>5, <1>6, <1>7, <1>8, EarnedUpload DEF Next, Run

\* Whatever the job is edited to while a run is on, the database calls a
\* target's run a success only when that target has every staged file.
THEOREM OkIsEarned == Spec => OkWasEarned
<1> DEFINE Ok == \A s \in Servers : saved[s] # "ok" /\ saved'[s] = "ok" /\ loop' = loop =>
                    /\ staged # {}
                    /\ \E i \in DOMAIN up :
                          /\ ServerOf[runJob[i]] = s
                          /\ \A f \in staged : [origin |-> runJob[i], file |-> StagedFile(f)] \in stored
<1>1. ASSUME Inv, AllEarned, [Next]_vars
      PROVE  [Ok]_vars
  <2> SUFFICES ASSUME NEW s \in Servers, saved[s] # "ok", saved'[s] = "ok", loop' = loop
               PROVE  /\ staged # {}
                      /\ \E i \in DOMAIN up :
                            /\ ServerOf[runJob[i]] = s
                            /\ \A f \in staged : [origin |-> runJob[i], file |-> StagedFile(f)] \in stored
    OBVIOUS
  <2>1. saved' # saved
    OBVIOUS
  <2>2. ~PersistRecovery
    BY DEF PersistRecovery, NextRow
  <2>3. PICK i \in DOMAIN up : PersistTargetRun(i)
    BY <1>1, <2>1, <2>2
    DEF Next, ChangeJob, HandleRetryFailedTargets, RunNow, RetryFailedTargets, RefuseRetry, Claim, Run,
        RetryLoop, Start, BeginStage, EndStage, BeginUploads, RemoveStagingFile, FinishRun, RecordJobRun,
        Release, Tick, Sleep, PickRow, RetryOk, RetryFails, DeleteRow,
        CountForFile, Unlink, CountForTarget, ReportRecovery, RefreshJob,
        CrashAndRestart, vars, statusVars, Upload, OpenStaged, SendOk, SendFails,
        AddOutstandingTargetUpload, ReportTarget
  <2>4. saved' = [saved EXCEPT ![ServerOf[runJob[i]]] = Outcome(up[i].bad)]
    BY <2>1, <2>3 DEF PersistTargetRun
  <2>5. saved \in [Servers -> SavedOutcome] /\ ServerOf[runJob[i]] \in Servers
    BY <1>1, RunTargets DEF Inv, TypeOK
  <2>6. s = ServerOf[runJob[i]] /\ Outcome(up[i].bad) = "ok"
    BY <2>4, <2>5
  <2>7. ~up[i].bad /\ up[i].todo = {}
    BY <1>1, <2>3, <2>6 DEF Outcome, PersistTargetRun, Goroutine, Inv, ControlOK
  <2> QED BY <1>1, <2>6, <2>7 DEF AllEarned, Earned
<1>2. Init => AllEarned
  BY DEF Init, NoGoroutines, AllEarned
<1>3. Inv /\ Inv' /\ AllEarned /\ [Next]_vars => AllEarned'
  BY EarnedStep
<1>4. Spec => [](Inv /\ AllEarned)
  BY <1>2, <1>3, InvInit, InvStep, PTL DEF Spec
<1>5. Spec => [][Next]_vars
  BY PTL DEF Spec
<1>6. OkWasEarned <=> [][Ok]_vars
  BY DEF OkWasEarned
<1> HIDE DEF Ok
<1> QED BY <1>1, <1>4, <1>5, <1>6, PTL

-----------------------------------------------------------------------------
(* The runs implement Delivery *)

Owed == rows \cup ToUpload

Exc == UNION {excused[c] : c \in Causes}

LEMMA ExcGrows ==
    ASSUME TypeOK, NEW cause \in Causes, NEW uploads \in SUBSET Rows, Excuse(cause, uploads)
    PROVE  Exc' = Exc \cup uploads
<1>1. /\ excused'[cause] = excused[cause] \cup uploads
      /\ \A c \in Causes \ {cause} : excused'[c] = excused[c]
  BY ExcuseType
<1>2. Exc' \subseteq Exc \cup uploads
  BY <1>1 DEF Exc
<1>3. ASSUME NEW u \in Exc \cup uploads PROVE u \in Exc'
  BY <1>1 DEF Exc
<1> QED BY <1>2, <1>3

LEMMA ExcuseNext ==
    ASSUME NEW S, S \subseteq Owed, Exc' = Exc \cup S, Owed \ S \subseteq Owed', Owed' \subseteq Owed,
           stored' = stored
    PROVE  D!Next
<1>1. S \in SUBSET Owed /\ D!Excuse(S)
  BY DEF D!Excuse, Owed, Exc
<1> QED BY <1>1, Zenon DEF D!Next, Owed

LEMMA DivertNext ==
    ASSUME NEW v \in Owed \cap Rows, NEW other \in Rows, Exc' = Exc \cup {v}, Owed' = Owed,
           stored' = stored \cup {other}
    PROVE  D!Next
<1>1. D!Divert(v, other)
  BY DEF D!Divert, Owed, Exc
<1> QED BY <1>1 DEF D!Next

\* What the loop drops it has sent, or is excused; the goroutines of a run that
\* is over have nothing left to upload.
DeliveryInv ==
    /\ loop \in {"send", "forget"} => cur \in rows
    /\ loop = "forget" => cur \in stored \cup Exc
    /\ phase \in {"finished", "hooks"} => \A i \in DOMAIN up : up[i].todo = {}

LEMMA DeliveryInit == Init => DeliveryInv
BY DEF Init, DeliveryInv

\* A goroutine's step implements one of Delivery's, or none.
LEMMA RefineUpload ==
    ASSUME Inv, NEW i \in DOMAIN up, Upload(i)
    PROVE  [D!Next]_<<Owed, stored, Exc>>
<1> USE DEF jobVars, statusVars, runVars, loopVars, history
<1> DEFINE u == [origin |-> runJob[i], file |-> CurrentFile(i)]
<1>1. CASE OpenStaged(i) \/ ReportTarget(i) \/ PersistTargetRun(i)
  <2>1. UNCHANGED <<runJob, runNo, rows, stored, excused>> /\ DOMAIN up' = DOMAIN up
    BY <1>1 DEF OpenStaged, ReportTarget, PersistTargetRun, Inv, TypeOK
  <2>2. \A j \in DOMAIN up : up'[j].todo = up[j].todo
    BY <1>1 DEF OpenStaged, ReportTarget, PersistTargetRun, Inv, TypeOK, Goroutines
  <2> QED BY <2>1, <2>2, ToUploadSame DEF Owed, Exc
<1>2. CASE SendOk(i)
  <2>1. up[i].todo # {} /\ phase = "uploading" /\ UNCHANGED <<runJob, runNo, rows, excused>>
    BY <1>2 DEF SendOk, Goroutine, Inv, ControlOK
  <2>2. u \in ToUpload /\ ToUpload' \subseteq ToUpload /\ ToUpload \subseteq ToUpload' \cup {u}
    BY <1>2, <2>1, ToUploadLess DEF SendOk
  <2>3. u \in Rows
    BY <2>1, CurrentFileType
  <2>4. stored' = stored \cup {u} /\ Exc' = Exc
    BY <1>2, <2>1 DEF SendOk, Exc
  <2> HIDE DEF u
  <2>5. Owed' \in {Owed, Owed \ {u}}
    <3>1. CASE u \in Owed'
      BY <2>1, <2>2, <3>1 DEF Owed
    <3>2. CASE u \notin Owed'
      BY <2>1, <2>2, <3>2 DEF Owed
    <3> QED BY <3>1, <3>2
  <2>6. D!Deliver(u)
    BY <2>4, <2>5 DEF D!Deliver, Owed, Exc
  <2> QED BY <2>3, <2>6 DEF D!Next
<1>3. CASE SendFails(i)
  <2>1. up[i].todo # {} /\ phase = "uploading" /\ UNCHANGED <<runJob, runNo, rows, excused>>
    BY <1>3 DEF SendFails, Goroutine, Inv, ControlOK
  <2>2. DOMAIN up' = DOMAIN up /\ \A j \in DOMAIN up : up'[j].todo = up[j].todo
    BY <1>3 DEF SendFails, Inv, TypeOK, Goroutines
  <2>3. Owed' = Owed /\ Exc' = Exc
    BY <2>1, <2>2, ToUploadSame DEF Owed, Exc
  <2>4. u \in Rows
    BY <2>1, CurrentFileType
  <2>5. stored' = stored \/ stored' = stored \cup {u}
    BY <1>3 DEF SendFails
  <2> QED BY <2>3, <2>4, <2>5 DEF D!Next, D!Deliver, Owed, Exc
<1>4. CASE AddOutstandingTargetUpload(i)
  <2>1. up[i].todo # {} /\ phase = "uploading" /\ UNCHANGED <<runJob, runNo, stored>>
    BY <1>4 DEF AddOutstandingTargetUpload, Goroutine, Inv, ControlOK
  <2>2. u \in ToUpload /\ ToUpload' \subseteq ToUpload /\ ToUpload \subseteq ToUpload' \cup {u}
    BY <1>4, <2>1, ToUploadLess DEF AddOutstandingTargetUpload
  <2>3. u \in Rows
    BY <2>1, CurrentFileType
  <2>4. \/ rows' = rows \cup {u} /\ UNCHANGED excused
        \/ rows' = rows /\ Excuse("unrecorded", {u})
    BY <1>4 DEF AddOutstandingTargetUpload
  <2>5. CASE rows' = rows \cup {u} /\ UNCHANGED excused
    BY <2>1, <2>2, <2>5 DEF Owed, Exc
  <2>6. CASE rows' = rows /\ Excuse("unrecorded", {u})
    <3>1. Exc' = Exc \cup {u}
      BY <2>3, <2>6, ExcGrows DEF Causes, Inv
    <3>2. {u} \subseteq Owed /\ Owed \ {u} \subseteq Owed' /\ Owed' \subseteq Owed
      BY <2>2, <2>6 DEF Owed
    <3> QED BY <2>1, <3>1, <3>2, ExcuseNext
  <2> QED BY <2>4, <2>5, <2>6
<1> QED BY <1>1, <1>2, <1>3, <1>4 DEF Upload

LEMMA DeliveryUpload ==
    ASSUME Inv, DeliveryInv, NEW i \in DOMAIN up, Upload(i)
    PROVE  DeliveryInv'
<1>1. phase = "uploading" /\ UNCHANGED <<phase, loop, cur>>
  BY UploadStep
<1>2. rows \subseteq rows' /\ stored \subseteq stored'
  BY DEF Upload, OpenStaged, SendOk, SendFails, AddOutstandingTargetUpload, ReportTarget, PersistTargetRun
<1>3. Exc \subseteq Exc'
  <2>1. [Next]_vars
    BY DEF Next, Run
  <2> QED BY <2>1, ExcusedGrows DEF Exc
<1> QED BY <1>1, <1>2, <1>3 DEF DeliveryInv

LEMMA DeliveryRun ==
    ASSUME Inv, DeliveryInv,
           \/ Start \/ BeginStage \/ EndStage \/ BeginUploads
           \/ RemoveStagingFile \/ FinishRun \/ RecordJobRun \/ Release
    PROVE  DeliveryInv'
<1> USE DEF jobVars, statusVars, runVars, loopVars, history
<1>1. UNCHANGED <<loop, cur, rows, stored, excused>>
  BY DEF Start, BeginStage, EndStage, BeginUploads, RemoveStagingFile, FinishRun, RecordJobRun, Release
<1>2. phase' \in {"finished", "hooks"} => \A i \in DOMAIN up' : up'[i].todo = {}
  <2>1. CASE FinishRun
    BY <2>1 DEF FinishRun, AllReported, Inv, ControlOK
  <2>2. CASE RecordJobRun
    BY <2>2 DEF RecordJobRun, DeliveryInv
  <2>3. CASE ~FinishRun /\ ~RecordJobRun
    BY <2>3 DEF Start, BeginStage, EndStage, BeginUploads, RemoveStagingFile, Release, ForgetRun
  <2> QED BY <2>1, <2>2, <2>3
<1> QED BY <1>1, <1>2 DEF DeliveryInv, Exc

LEMMA RefineRun ==
    ASSUME Inv, Inv', DeliveryInv,
           \/ Start \/ BeginStage \/ EndStage \/ BeginUploads
           \/ RemoveStagingFile \/ FinishRun \/ RecordJobRun \/ Release
    PROVE  [D!Next]_<<Owed, stored, Exc>>
<1> USE DEF jobVars, statusVars, runVars, loopVars, history
<1>0. UNCHANGED <<rows, stored, excused>>
  BY DEF Start, BeginStage, EndStage, BeginUploads, RemoveStagingFile, FinishRun, RecordJobRun, Release
<1>1. CASE BeginUploads
  <2>1. ToUpload = {}
    BY <1>1, ToUploadNone DEF BeginUploads, Inv, ControlOK
  <2>2. (Inv => ToUpload \subseteq Rows)'
    BY ToUploadType, PTL
  <2>3. D!Owe(ToUpload')
    BY <1>0, <2>1 DEF D!Owe
  <2>4. ToUpload' \in SUBSET Rows
    BY <2>2
  <2> QED BY <2>3, <2>4 DEF D!Next
<1>2. CASE Release
  <2>1. ToUpload = {}
    BY <1>2, ToUploadNone DEF Release, DeliveryInv
  <2>2. ToUpload' = {}
    BY <1>2 DEF Release, ForgetRun, NoGoroutines, ToUpload
  <2> QED BY <1>0, <2>1, <2>2 DEF Owed, Exc
<1>3. CASE Start \/ BeginStage \/ EndStage \/ RemoveStagingFile \/ FinishRun \/ RecordJobRun
  <2>1. UNCHANGED <<up, runJob, runNo>>
    BY <1>3 DEF Start, BeginStage, EndStage, RemoveStagingFile, FinishRun, RecordJobRun
  <2> QED BY <1>0, <2>1, ToUploadSame DEF Owed, Exc
<1> QED BY <1>1, <1>2, <1>3

\* The loop's steps: what it drops is settled.
LEMMA RefineLoop ==
    ASSUME Inv, RowInv, DeliveryInv, RetryLoop
    PROVE  [D!Next]_<<Owed, stored, Exc>> /\ DeliveryInv'
<1> USE DEF jobVars, statusVars, runVars, loopVars, history, LoopAt, NextRow, AfterForget
<1>0. UNCHANGED runVars
  BY DEF RetryLoop, Tick, Sleep, PickRow, RetryOk, RetryFails, DeleteRow, CountForFile, Unlink,
         CountForTarget, ReportRecovery, RefreshJob, PersistRecovery
<1>1. ToUpload' = ToUpload
  BY <1>0, ToUploadSame
<1>2. rows \subseteq Rows /\ ToUpload \subseteq Rows
  BY ToUploadType DEF Inv, TypeOK
<1>3. ASSUME NEW r \in due, PickRow(r)
      PROVE  [D!Next]_<<Owed, stored, Exc>> /\ DeliveryInv'
  <2> DEFINE S == IF GiveUp(r) \in {"job", "target"} THEN {r} ELSE {}
  <2>1. r \in rows /\ cur' = r /\ UNCHANGED <<rows, stored>>
    BY <1>3 DEF PickRow, RowInv, LoopRows
  <2>2. Excuse("unlisted", S) /\ S \subseteq rows
    BY <1>3, <2>1 DEF PickRow
  <2> HIDE DEF S
  <2>3. Exc' = Exc \cup S
    BY <1>2, <2>2, ExcGrows DEF Causes, Inv
  <2>4. S \subseteq Owed /\ Owed' = Owed
    BY <1>1, <2>1, <2>2 DEF Owed
  <2>5. [D!Next]_<<Owed, stored, Exc>>
    BY <2>1, <2>3, <2>4, ExcuseNext
  <2>6. ASSUME loop' = "forget" PROVE r \in Exc'
    <3>1. GiveUp(r) # "none"
      BY <1>3, <2>6 DEF PickRow
    <3>2. CASE GiveUp(r) \in {"job", "target"}
      BY <2>3, <3>2 DEF S
    <3>3. CASE r.file \notin disk
      <4>1. r \in excused["overlooked"]
        BY <2>1, <3>3 DEF RowInv, RowHasFile
      <4>2. r \in Exc
        BY <4>1 DEF Exc, Causes
      <4> QED BY <2>3, <4>2
    <3> QED BY <3>1, <3>2, <3>3 DEF GiveUp
  <2>7. DeliveryInv'
    BY <1>0, <2>1, <2>6 DEF DeliveryInv
  <2> QED BY <2>5, <2>7
<1>4. CASE RetryOk
  <2>1. cur \in rows /\ CurUpload \in Rows
    BY <1>4, CurUploadType DEF RetryOk, DeliveryInv
  <2>2. UNCHANGED <<rows, cur>> /\ stored' = stored \cup {CurUpload} /\ loop' = "forget"
    BY <1>4 DEF RetryOk
  <2>3. Exc' = Exc \cup ({cur} \ {CurUpload})
    <3>1. {cur} \ {CurUpload} \in SUBSET Rows /\ "bucket" \in Causes
      BY <1>2, <2>1 DEF Causes
    <3> QED BY <1>4, <3>1, ExcGrows DEF RetryOk, Inv
  <2>4. DeliveryInv'
    BY <1>0, <2>1, <2>2, <2>3 DEF DeliveryInv
  <2>5. CASE cur = CurUpload
    <3>1. D!Deliver(cur)
      BY <1>1, <2>2, <2>3, <2>5 DEF D!Deliver, Owed, Exc
    <3> QED BY <1>2, <2>1, <2>4, <3>1 DEF D!Next
  <2>6. CASE cur # CurUpload
    <3>1. cur \in Owed \cap Rows /\ Owed' = Owed /\ Exc' = Exc \cup {cur}
      BY <1>1, <1>2, <2>1, <2>2, <2>3, <2>6 DEF Owed
    <3> QED BY <2>1, <2>2, <2>4, <3>1, DivertNext
  <2> QED BY <2>5, <2>6
<1>5. CASE RetryFails
  <2>1. CurUpload \in Rows
    BY <1>5, CurUploadType DEF RetryFails
  <2>2. /\ UNCHANGED <<rows, excused>> /\ loop' = "each"
        /\ stored' = stored \/ stored' = stored \cup {CurUpload}
    BY <1>5 DEF RetryFails
  <2>3. Owed' = Owed /\ Exc' = Exc
    BY <1>1, <2>2 DEF Owed, Exc
  <2>4. [D!Next]_<<Owed, stored, Exc>>
    BY <2>1, <2>2, <2>3 DEF D!Next, D!Deliver, Owed, Exc
  <2>5. DeliveryInv'
    BY <1>0, <2>2 DEF DeliveryInv
  <2> QED BY <2>4, <2>5
<1>6. CASE DeleteRow
  <2>1. cur \in rows /\ cur \in stored \cup Exc /\ cur \in Rows
    BY <1>2, <1>6 DEF DeleteRow, DeliveryInv
  <2>2. /\ UNCHANGED <<stored, excused>> /\ loop' \notin {"send", "forget"}
        /\ rows' = rows \/ rows' = rows \ {cur}
    BY <1>6 DEF DeleteRow
  <2>3. Exc' = Exc
    BY <2>2 DEF Exc
  <2>4. Owed' = Owed \/ Owed' = Owed \ {cur}
    BY <1>1, <2>1, <2>2 DEF Owed
  <2>5. [D!Next]_<<Owed, stored, Exc>>
    <3>1. CASE Owed' = Owed
      BY <2>2, <2>3, <3>1
    <3>2. CASE Owed' = Owed \ {cur}
      <4>1. D!Settle(cur)
        BY <2>1, <2>2, <2>3, <3>2 DEF D!Settle, Owed, Exc
      <4> QED BY <2>1, <4>1 DEF D!Next
    <3> QED BY <2>4, <3>1, <3>2
  <2>6. DeliveryInv'
    BY <1>0, <2>2 DEF DeliveryInv
  <2> QED BY <2>5, <2>6
<1>7. CASE CountForFile
  <2>1. UNCHANGED <<rows, stored>> /\ loop' \notin {"send", "forget"}
    BY <1>7 DEF CountForFile
  <2>2. DeliveryInv'
    BY <1>0, <2>1 DEF DeliveryInv
  <2>3. CASE UNCHANGED excused
    BY <1>1, <2>1, <2>2, <2>3 DEF Owed, Exc
  <2>4. CASE ~UNCHANGED excused
    <3> DEFINE S == {u \in ToUpload : u.file = cur.file}
    <3>1. Excuse("overlooked", S) /\ S \subseteq ToUpload
      BY <1>7, <2>4 DEF CountForFile
    <3> HIDE DEF S
    <3>2. Exc' = Exc \cup S
      BY <1>2, <3>1, ExcGrows DEF Causes, Inv
    <3>3. S \subseteq Owed /\ Owed' = Owed
      BY <1>1, <2>1, <3>1 DEF Owed
    <3> QED BY <2>1, <2>2, <3>2, <3>3, ExcuseNext
  <2> QED BY <2>3, <2>4
<1>8. CASE \/ \E listed \in SUBSET rows : Tick(listed)
           \/ Sleep \/ Unlink \/ CountForTarget \/ ReportRecovery \/ RefreshJob \/ PersistRecovery
  <2>1. UNCHANGED <<rows, stored, excused>> /\ loop' \notin {"send", "forget"}
    BY <1>8 DEF Tick, Sleep, Unlink, CountForTarget, ReportRecovery, RefreshJob, PersistRecovery
  <2>2. DeliveryInv'
    BY <1>0, <2>1 DEF DeliveryInv
  <2> QED BY <1>1, <2>1, <2>2 DEF Owed, Exc
<1> QED BY <1>3, <1>4, <1>5, <1>6, <1>7, <1>8 DEF RetryLoop

LEMMA RefineStep ==
    Inv /\ Inv' /\ RowInv /\ DeliveryInv /\ [Next]_vars
        => [D!Next]_<<Owed, stored, Exc>> /\ DeliveryInv'
<1> SUFFICES ASSUME Inv, Inv', RowInv, DeliveryInv, [Next]_vars
             PROVE  [D!Next]_<<Owed, stored, Exc>> /\ DeliveryInv'
  OBVIOUS
<1> USE DEF jobVars, statusVars, runVars, loopVars, history
<1>1. CASE UNCHANGED <<runVars, rows, stored, loopVars, excused>>
  <2>1. UNCHANGED <<up, runJob, runNo>>
    BY <1>1
  <2>2. ToUpload' = ToUpload
    BY <2>1, ToUploadSame
  <2> QED BY <1>1, <2>2 DEF Owed, Exc, DeliveryInv
<1>2. CASE RunNow \/ RetryFailedTargets
  <2>1. phase = "idle" /\ phase' = "starting" /\ UNCHANGED <<up, rows, stored, loop, cur, excused>>
    BY <1>2 DEF RunNow, RetryFailedTargets, Claim
  <2>2. ToUpload = {} /\ ToUpload' = {}
    BY <2>1 DEF ToUpload, Inv, ControlOK
  <2> QED BY <2>1, <2>2 DEF Owed, Exc, DeliveryInv
<1>3. CASE CrashAndRestart
  <2>1. /\ UNCHANGED <<rows, stored>> /\ loop' = "sleep" /\ phase' = "idle"
        /\ Excuse("restart", ToUpload) /\ up' = NoGoroutines
    BY <1>3 DEF CrashAndRestart, ForgetRun
  <2>2. ToUpload' = {}
    BY <2>1 DEF NoGoroutines, ToUpload
  <2>3. Exc' = Exc \cup ToUpload
    BY <2>1, ToUploadType, ExcGrows DEF Causes, Inv
  <2>4. /\ ToUpload \subseteq Owed /\ Owed \ ToUpload \subseteq Owed'
        /\ Owed' \subseteq Owed
    BY <2>1, <2>2 DEF Owed
  <2>5. DeliveryInv'
    BY <2>1 DEF DeliveryInv
  <2> QED BY <2>1, <2>3, <2>4, <2>5, ExcuseNext
<1>4. CASE Run
  BY <1>4, RefineRun, DeliveryRun, RefineUpload, DeliveryUpload DEF Run
<1>5. UNCHANGED <<runVars, rows, stored, loopVars, excused>> \/ RunNow \/ RetryFailedTargets \/ Run
      \/ RetryLoop \/ CrashAndRestart
  BY DEF Next, ChangeJob, HandleRetryFailedTargets, RefuseRetry, vars
<1> QED BY <1>1, <1>2, <1>3, <1>4, <1>5, RefineLoop

\* The runs of a job, and the retry loop, implement Delivery, through edits,
\* restarts and errors of the database: an upload once owed stays owed until
\* its target has the file or one of the Causes befalls it.
THEOREM RunsDeliver == Spec => OwedUntilDelivered
<1>1. Inv /\ RowInv /\ [Next]_vars => RowInv'
  BY RowStep
<1>2. Inv /\ Inv' /\ RowInv /\ DeliveryInv /\ [Next]_vars => DeliveryInv'
  BY RefineStep
<1>3. Spec => [](Inv /\ RowInv /\ DeliveryInv)
  BY <1>1, <1>2, InvInit, InvStep, RowInit, DeliveryInit, PTL DEF Spec
<1>4. Init => D!Init
  <2> SUFFICES ASSUME Init PROVE D!Init
    OBVIOUS
  <2>1. ToUpload = {}
    BY DEF Init, NoGoroutines, ToUpload
  <2>2. rows \subseteq Rows /\ stored = {} /\ excused = [c \in Causes |-> {}]
    BY InvInit DEF Init, Inv, TypeOK
  <2>3. UNION {excused[c] : c \in Causes} = {}
    BY <2>2
  <2> QED BY <2>1, <2>2, <2>3 DEF D!Init
<1>5. Inv /\ Inv' /\ RowInv /\ DeliveryInv /\ [Next]_vars
          => [D!Next]_<<rows \cup ToUpload, stored, UNION {excused[c] : c \in Causes}>>
  BY RefineStep DEF Owed, Exc
<1> QED BY <1>3, <1>4, <1>5, PTL DEF Spec, OwedUntilDelivered, D!Spec

=============================================================================
