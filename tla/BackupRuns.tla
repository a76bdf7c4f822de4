----------------------------- MODULE BackupRuns -----------------------------
(***************************************************************************)
(* The runs of one backup job and the background retries of its failed     *)
(* uploads (internal/backup/pipeline: runner.go, pipeline.go).             *)
(*                                                                         *)
(* A run stages every source into an encrypted local file, then uploads    *)
(* each staged file to each target: one goroutine per target, its files    *)
(* one after another, one attempt per file.  A failed attempt leaves a row *)
(* in the state database.  A second goroutine, the retry loop, lists the   *)
(* rows that are due and attempts each again.  The run and the loop share  *)
(* the staged files, the rows and the job's status, and take no common     *)
(* lock; whoever drops the last row of a staged file removes the file.     *)
(*                                                                         *)
(* The web UI may edit, delete and re-create the job at any time, and the  *)
(* process may be killed and started again.                                *)
(***************************************************************************)
EXTENDS JobStatus

CONSTANTS NFiles,       \* how many sources the job has
          JobLists,     \* the target lists the job may have; <<>> is no job
          Earlier,      \* what an earlier process may have left: see Init
          MaxRuns,      \* bound: how many runs start
          MaxCrashes,   \* bound: how many times the process is killed
          DbErrors,     \* the statements of the state database that may fail: those
                        \* on outstanding "uploads", those on the "outcomes" of runs
          LostAnswers   \* whether a target may store a file and the upload fail

NoJob == <<>>

Files == 1..NFiles
\* A staging file has a unique name: the run that made it, and the source.
Staged == [run : 1..MaxRuns, file : Files]
\* An outstanding upload.  The database keeps ServerOf[origin], not the
\* target itself: the code below uses origin through ServerOf only.
Rows == [origin : Targets, file : Staged]
NoRow == [origin |-> "none"]

SavedOutcome == {"none", "ok", "failed"}

ASSUME BackupRunsAssumption ==
    /\ NFiles \in Nat \ {0}
    /\ JobLists \subseteq Seq(Targets)
    /\ JobLists \ {NoJob} # {}
    /\ Earlier # {}
    /\ Earlier \subseteq [runs : 0..MaxRuns, saved : [Servers -> SavedOutcome], lastRun : SavedOutcome,
                         rows : SUBSET Rows]
    /\ \A e \in Earlier : \A r \in e.rows : r.file.run <= e.runs
    /\ MaxRuns \in Nat
    /\ MaxCrashes \in Nat
    /\ DbErrors \subseteq {"uploads", "outcomes"}
    /\ LostAnswers \in BOOLEAN

\* What makes the code stop to care for an upload: a restart forgets what only
\* goroutines knew; the row of a failed upload is not written; the job does not
\* name the row's server; the loop sends the file to another of the server's
\* buckets; the loop counts the rows of a file that a goroutine has yet to
\* send, and so overlooks it.
Causes == {"restart", "unrecorded", "unlisted", "bucket", "overlooked"}

\* A request to retry failed targets: the definition and the servers it read.
NoRequest == [list |-> NoJob, servers |-> {}]

VARIABLES
    job,        \* the job's target list in the manager, NoJob if there is none
    asked,      \* a pending "retry failed targets" request: target list, servers
    status,     \* the job's snapshot in the status store
    saved,      \* database: the last outcome of each server
    lastRun,    \* database: the outcome of the job's last run
    phase,      \* where the run in flight is; "idle" when the job is unclaimed
    runNo,      \* how many runs have started
    runJob,     \* the target list the run works with
    only,       \* the servers a retry run is restricted to, {} for a full run
    staged,     \* the files this run has staged
    next,       \* the next source to stage
    left,       \* the staged files the run has not yet considered removing
    up,         \* the goroutine of each target: where it is, its files, any failure
    disk,       \* the staging files on disk
    stored,     \* the files each target has received
    rows,       \* database: the outstanding uploads
    loop,       \* where the retry loop is
    due,        \* the rows it has listed and not yet attempted
    cur,        \* the row it is attempting
    curJob,     \* the job definition it looked up for that row
    why,        \* why it drops the row
    crashes,    \* how many times the process was killed
    (* History, which no action looks at: *)
    leaked,     \* files whose removal a crash or a database error prevented
    excused,    \* uploads the code stops to care for, by what made it so
    displaced,  \* targets that are not where the last full run, or a retry since, has them
    summed      \* the job's state was computed after the last edit and restart

jobVars == <<job, asked>>
statusVars == <<status, saved, lastRun>>
runVars == <<phase, runNo, runJob, only, staged, next, left, up>>
loopVars == <<loop, due, cur, curJob, why>>
history == <<leaked, excused, displaced, summed>>
vars == <<jobVars, statusVars, runVars, disk, stored, rows, loopVars, crashes, history>>

-----------------------------------------------------------------------------
(* Reading the state *)

SetMin(S) == CHOOSE x \in S : \A y \in S : x <= y
SetMax(S) == CHOOSE x \in S : \A y \in S : x >= y

StagedFile(f) == [run |-> runNo, file |-> f]
CurrentFile(i) == StagedFile(SetMin(up[i].todo))

\* Mutant of RowsOf: nobody counts the references of a file.
NoReferences(file) == {}

RowsOf(file) == {r \in rows : r.file = file}

\* The targets a run uploads to: those of the servers it is restricted to.
Indices(list, servers) ==
    {i \in 1..Len(list) : servers = {} \/ ServerOf[list[i]] \in servers}

ByServer(list, server) == {i \in 1..Len(list) : ServerOf[list[i]] = server}

Outcome(bad) == IF bad THEN "failed" ELSE "ok"

FailedSources == IF staged = Files THEN "none" ELSE IF staged = {} THEN "all" ELSE "some"

AllReported == \A i \in DOMAIN up : up[i].pc = "done"

RunSucceeded == staged = Files /\ \A i \in DOMAIN up : ~up[i].bad

NoGoroutines == [i \in {} |-> {}]

\* The uploads that only goroutines of the run know of.
ToUpload ==
    UNION {{[origin |-> runJob[i], file |-> StagedFile(f)] : f \in up[i].todo} : i \in DOMAIN up}

Excuse(cause, uploads) == excused' = [excused EXCEPT ![cause] = @ \cup uploads]

Place(list, t) == {i \in 1..Len(list) : list[i] = t}

\* The targets that do not have one and the same place in both lists.
Displaced(list, other) ==
    {t \in Targets : \/ Place(list, t) # Place(other, t)
                     \/ \E i, j \in Place(list, t) : i # j}

-----------------------------------------------------------------------------
(* The job's definition *)

\* The snapshots that seeding s from the database may give: a job's last run
\* and its targets' are read one after the other, and either may fail.
SeedStatusFromState(s) ==
    LET last == IF lastRun = "none" THEN s ELSE SeedLastRun(s, lastRun)
    IN  {SeedTargetRun(last, saved)} \cup
        (IF "outcomes" \in DbErrors THEN {s, last, SeedTargetRun(s, saved)} ELSE {})

\* Startup: no run, the job active and seeded from the database that earlier
\* runs have left, their outstanding uploads still staged.
Init ==
    /\ job \in JobLists \ {NoJob}
    /\ asked = NoRequest
    /\ \E e \in Earlier :
          /\ runNo = e.runs /\ saved = e.saved /\ lastRun = e.lastRun
          /\ rows = e.rows /\ disk = {r.file : r \in e.rows}
    /\ status \in SeedStatusFromState(newJobSnapshot(job))
    /\ phase = "idle" /\ runJob = NoJob /\ only = {}
    /\ staged = {} /\ next = 1 /\ left = {} /\ up = NoGoroutines
    /\ stored = {}
    /\ loop = "sleep" /\ due = {} /\ cur = NoRow /\ curJob = NoJob /\ why = "none"
    /\ crashes = 0
    /\ leaked = {} /\ excused = [c \in Causes |-> {}] /\ displaced = {} /\ summed = FALSE

\* activateJobLocked: a job that was not active is seeded from the database.
ChangeJob(list) ==
    /\ list # job
    /\ job' = list
    /\ status' \in IF list = NoJob THEN {Unknown}
                  ELSE IF job = NoJob THEN SeedStatusFromState(Upsert(status, list))
                  ELSE {Upsert(status, list)}
    /\ displaced' = displaced \cup IF phase = "idle" THEN {} ELSE Displaced(list, runJob)
    /\ summed' = FALSE
    /\ UNCHANGED <<asked, saved, lastRun, runVars, disk, stored, rows, loopVars, crashes, leaked, excused>>

\* The web UI looks up the job, then reads its failed targets, then starts a
\* retry in the background.  Bound: one request at a time.
HandleRetryFailedTargets ==
    /\ \/ /\ asked = NoRequest /\ job # NoJob
          /\ asked' = [list |-> job, servers |-> {}]
       \/ /\ asked # NoRequest /\ asked.servers = {}
          /\ asked' = IF FailedTargets(status) = {} THEN NoRequest
                      ELSE [list |-> asked.list, servers |-> FailedTargets(status)]
    /\ UNCHANGED <<job, statusVars, runVars, disk, stored, rows, loopVars, crashes, history>>

-----------------------------------------------------------------------------
(* The run *)

\* The claim: RunNow, the schedule and RetryFailedTargets all take it first.
Claim(list, servers) ==
    /\ phase = "idle"
    /\ runNo < MaxRuns
    /\ phase' = "starting"
    /\ runNo' = runNo + 1
    /\ runJob' = list
    /\ only' = servers
    /\ displaced' = Displaced(job, list) \cup IF servers = {} THEN {} ELSE displaced
    /\ UNCHANGED <<job, statusVars, staged, next, left, up, disk, stored, rows, loopVars, crashes,
                   leaked, excused, summed>>

RunNow == job # NoJob /\ Claim(job, {}) /\ UNCHANGED asked

RetryFailedTargets ==
    /\ asked.servers # {}
    /\ Indices(asked.list, asked.servers) # {}
    /\ asked' = NoRequest
    /\ Claim(asked.list, asked.servers)

\* Refused: the job is running, or the definition that was looked up has none
\* of the targets that were read.
RefuseRetry ==
    /\ asked.servers # {}
    /\ phase # "idle" \/ Indices(asked.list, asked.servers) = {}
    /\ asked' = NoRequest
    /\ UNCHANGED <<job, statusVars, runVars, disk, stored, rows, loopVars, crashes, history>>

Start ==
    /\ phase = "starting"
    /\ status' = IF only = {} THEN Starting(status) ELSE RetryStarting(status, only)
    /\ phase' = "staging"
    /\ UNCHANGED <<jobVars, saved, lastRun, runNo, runJob, only, staged, next, left, up,
                   disk, stored, rows, loopVars, crashes, history>>

\* stageBackup creates the staging file before it reads the first byte.
BeginStage ==
    /\ phase = "staging"
    /\ next \in Files
    /\ phase' = "draining"
    /\ disk' = disk \cup {StagedFile(next)}
    /\ UNCHANGED <<jobVars, statusVars, runNo, runJob, only, staged, next, left, up,
                   stored, rows, loopVars, crashes, history>>

\* The command and gpg succeeded, or the staging file is removed again.
EndStage ==
    /\ phase = "draining"
    /\ \/ staged' = staged \cup {next} /\ UNCHANGED disk
       \/ disk' = disk \ {StagedFile(next)} /\ UNCHANGED staged
    /\ next' = next + 1
    /\ phase' = "staging"
    /\ UNCHANGED <<jobVars, statusVars, runNo, runJob, only, left, up,
                   stored, rows, loopVars, crashes, history>>

\* Nothing staged: the targets are reported one by one with the run's error.
BeginUploads ==
    /\ phase = "staging"
    /\ next = NFiles + 1
    /\ phase' = "uploading"
    /\ left' = staged
    /\ up' = [i \in Indices(runJob, only) |->
                 [pc |-> IF staged = {} THEN "report" ELSE "open", todo |-> staged, bad |-> staged = {}]]
    /\ UNCHANGED <<jobVars, statusVars, runNo, runJob, only, staged, next,
                   disk, stored, rows, loopVars, crashes, history>>

Goroutine(i, pc) == phase = "uploading" /\ i \in DOMAIN up /\ up[i].pc = pc

\* Mutant of NextFile: a failed upload is the retry loop's business.
LeaveToRetryLoop(i, failed) ==
    LET rest == up[i].todo \ {SetMin(up[i].todo)}
    IN  up' = [up EXCEPT ![i] = [pc |-> IF rest = {} THEN "report" ELSE "open",
                                 todo |-> rest, bad |-> up[i].bad]]

\* The current file is over: go on to the next one, or to the report.
NextFile(i, failed) ==
    LET rest == up[i].todo \ {SetMin(up[i].todo)}
    IN  up' = [up EXCEPT ![i] = [pc |-> IF rest = {} THEN "report" ELSE "open",
                                 todo |-> rest, bad |-> up[i].bad \/ failed]]

\* The open handle survives a later removal of the file.
OpenStaged(i) ==
    /\ Goroutine(i, "open")
    /\ up' = [up EXCEPT ![i].pc = IF CurrentFile(i) \in disk THEN "send" ELSE "record"]
    /\ UNCHANGED <<jobVars, statusVars, phase, runNo, runJob, only, staged, next, left,
                   disk, stored, rows, loopVars, crashes, history>>

SendOk(i) ==
    /\ Goroutine(i, "send")
    /\ stored' = stored \cup {[origin |-> runJob[i], file |-> CurrentFile(i)]}
    /\ NextFile(i, FALSE)
    /\ UNCHANGED <<jobVars, statusVars, phase, runNo, runJob, only, staged, next, left,
                   disk, rows, loopVars, crashes, history>>

\* The target may have stored the file although the answer was lost.
SendFails(i) ==
    /\ Goroutine(i, "send")
    /\ \/ UNCHANGED stored
       \/ LostAnswers /\ stored' = stored \cup {[origin |-> runJob[i], file |-> CurrentFile(i)]}
    /\ up' = [up EXCEPT ![i].pc = "record"]
    /\ UNCHANGED <<jobVars, statusVars, phase, runNo, runJob, only, staged, next, left,
                   disk, rows, loopVars, crashes, history>>

AddOutstandingTargetUpload(i) ==
    /\ Goroutine(i, "record")
    /\ LET row == [origin |-> runJob[i], file |-> CurrentFile(i)]
       IN  \/ rows' = rows \cup {row} /\ UNCHANGED excused
           \/ "uploads" \in DbErrors /\ UNCHANGED rows /\ Excuse("unrecorded", {row})
    /\ NextFile(i, TRUE)
    /\ UNCHANGED <<jobVars, statusVars, phase, runNo, runJob, only, staged, next, left,
                   disk, stored, loopVars, crashes, leaked, displaced, summed>>

\* onTargetDone, first half: the status store.  Without uploads one loop
\* reports the targets in their order.
ReportTarget(i) ==
    /\ Goroutine(i, "report")
    /\ staged = {} => \A j \in DOMAIN up : j < i => up[j].pc = "done"
    /\ status' = TargetDone(status, i, Outcome(up[i].bad))
    /\ up' = [up EXCEPT ![i].pc = "save"]
    /\ UNCHANGED <<jobVars, saved, lastRun, phase, runNo, runJob, only, staged, next, left,
                   disk, stored, rows, loopVars, crashes, history>>

\* onTargetDone, second half: the database; a failure is only logged.
PersistTargetRun(i) ==
    /\ Goroutine(i, "save")
    /\ \/ saved' = [saved EXCEPT ![ServerOf[runJob[i]]] = Outcome(up[i].bad)]
       \/ "outcomes" \in DbErrors /\ UNCHANGED saved
    /\ up' = [up EXCEPT ![i].pc = "done"]
    /\ UNCHANGED <<jobVars, status, lastRun, phase, runNo, runJob, only, staged, next, left,
                   disk, stored, rows, loopVars, crashes, history>>

\* removeStagingFileIfUnreferenced for each staged file, last one first, once
\* every target is done.  When the count fails the file stays.
RemoveStagingFile ==
    /\ phase = "uploading" /\ AllReported /\ left # {}
    /\ LET file == StagedFile(SetMax(left))
       IN  \/ /\ disk' = IF RowsOf(file) = {} THEN disk \ {file} ELSE disk
              /\ UNCHANGED leaked
           \/ /\ "uploads" \in DbErrors
              /\ leaked' = leaked \cup {file}
              /\ UNCHANGED disk
    /\ left' = left \ {SetMax(left)}
    /\ UNCHANGED <<jobVars, statusVars, phase, runNo, runJob, only, staged, next, up,
                   stored, rows, loopVars, crashes, excused, displaced, summed>>

FinishRun ==
    /\ phase = "uploading" /\ AllReported /\ left = {}
    /\ status' = Finished(status, FailedSources)
    /\ summed' = Known(status)
    /\ phase' = "finished"
    /\ UNCHANGED <<jobVars, saved, lastRun, runNo, runJob, only, staged, next, left, up,
                   disk, stored, rows, loopVars, crashes, leaked, excused, displaced>>

RecordJobRun ==
    /\ phase = "finished"
    /\ \/ lastRun' = Outcome(~RunSucceeded)
       \/ "outcomes" \in DbErrors /\ UNCHANGED lastRun
    /\ phase' = "hooks"
    /\ UNCHANGED <<jobVars, status, saved, runNo, runJob, only, staged, next, left, up,
                   disk, stored, rows, loopVars, crashes, history>>

ForgetRun ==
    /\ phase' = "idle" /\ runJob' = NoJob /\ only' = {}
    /\ staged' = {} /\ next' = 1 /\ left' = {} /\ up' = NoGoroutines

\* The targets' commands and the notifications are over; the claim ends.
Release ==
    /\ phase = "hooks"
    /\ ForgetRun
    /\ UNCHANGED <<jobVars, statusVars, runNo, disk, stored, rows, loopVars, crashes, history>>

-----------------------------------------------------------------------------
(* The retry loop *)

NextRow == loop' = "each" /\ cur' = NoRow /\ curJob' = NoJob /\ why' = "none"

LoopAt(pc) == loop' = pc /\ UNCHANGED <<cur, curJob, why>>
AfterForget == IF why = "sent" THEN LoopAt("count") ELSE NextRow

\* A minute tick lists the due rows: any of them may have been rescheduled
\* or added less than a minute ago.
Tick(listed) ==
    /\ loop = "sleep"
    /\ listed \subseteq rows
    /\ due' = listed
    /\ loop' = "each"
    /\ UNCHANGED <<jobVars, statusVars, runVars, disk, stored, rows, cur, curJob, why, crashes, history>>

Sleep ==
    /\ loop = "each" /\ due = {}
    /\ loop' = "sleep"
    /\ UNCHANGED <<jobVars, statusVars, runVars, disk, stored, rows, due, cur, curJob, why, crashes, history>>

GiveUp(r) ==
    IF job = NoJob THEN "job"
    ELSE IF ByServer(job, ServerOf[r.origin]) = {} THEN "target"
    ELSE IF r.file \notin disk THEN "gone"
    ELSE "none"

\* Look up the job and its target, check and open the staged file.  The rows
\* are taken by age; any order is allowed here.
PickRow(r) ==
    /\ loop = "each" /\ r \in due
    /\ due' = due \ {r}
    /\ cur' = r
    /\ curJob' = job
    /\ why' = GiveUp(r)
    /\ loop' = IF GiveUp(r) = "none" THEN "send" ELSE "forget"
    /\ Excuse("unlisted", IF GiveUp(r) \in {"job", "target"} THEN {r} ELSE {})
    /\ UNCHANGED <<jobVars, statusVars, runVars, disk, stored, rows, crashes, leaked, displaced, summed>>

\* The target the loop uploads to: the first one of the row's server.
CurIndex == SetMin(ByServer(curJob, ServerOf[cur.origin]))
CurUpload == [origin |-> curJob[CurIndex], file |-> cur.file]

RetryOk ==
    /\ loop = "send"
    /\ stored' = stored \cup {CurUpload}
    /\ Excuse("bucket", {cur} \ {CurUpload})
    /\ why' = "sent"
    /\ loop' = "forget"
    /\ UNCHANGED <<jobVars, statusVars, runVars, disk, rows, due, cur, curJob, crashes,
                   leaked, displaced, summed>>

\* Mutant of RetryFails: a retry that fails is the last one.
RetryFailsForGood ==
    /\ loop = "send"
    /\ LoopAt("forget")
    /\ UNCHANGED <<jobVars, statusVars, runVars, disk, stored, rows, due, crashes, history>>

\* Rescheduled, so that a later tick lists the row again.
RetryFails ==
    /\ loop = "send"
    /\ \/ UNCHANGED stored
       \/ LostAnswers /\ stored' = stored \cup {CurUpload}
    /\ NextRow
    /\ UNCHANGED <<jobVars, statusVars, runVars, disk, rows, due, crashes, history>>

\* Mutants of DeleteRow: the row goes by what it names, not by its identity;
\* the staging file is forgotten with the row.
DeleteRowsOfServer ==
    /\ loop = "forget"
    /\ rows' = {r \in RowsOf(cur.file) : ServerOf[r.origin] # ServerOf[cur.origin]} \cup (rows \ RowsOf(cur.file))
    /\ LoopAt("unref")
    /\ UNCHANGED <<jobVars, statusVars, runVars, disk, stored, due, crashes, history>>

DeleteRowOnly ==
    /\ loop = "forget"
    /\ rows' = rows \ {cur}
    /\ AfterForget
    /\ UNCHANGED <<jobVars, statusVars, runVars, disk, stored, due, crashes, history>>

DeleteRow ==
    /\ loop = "forget"
    /\ \/ rows' = rows \ {cur} /\ LoopAt("unref")
       \/ "uploads" \in DbErrors /\ UNCHANGED rows /\ AfterForget
    /\ UNCHANGED <<jobVars, statusVars, runVars, disk, stored, due, crashes, history>>

CountForFile ==
    /\ loop = "unref"
    /\ \/ /\ RowsOf(cur.file) = {}
          /\ LoopAt("unlink")
          /\ Excuse("overlooked", {u \in ToUpload : u.file = cur.file})
          /\ UNCHANGED leaked
       \/ RowsOf(cur.file) # {} /\ AfterForget /\ UNCHANGED <<leaked, excused>>
       \/ "uploads" \in DbErrors /\ AfterForget /\ leaked' = leaked \cup {cur.file} /\ UNCHANGED excused
    /\ UNCHANGED <<jobVars, statusVars, runVars, disk, stored, rows, due, crashes, displaced, summed>>

Unlink ==
    /\ loop = "unlink"
    /\ disk' = disk \ {cur.file}
    /\ AfterForget
    /\ UNCHANGED <<jobVars, statusVars, runVars, stored, rows, due, crashes, history>>

OutstandingFor(server) == {r \in rows : ServerOf[r.origin] = server}

CountForTarget ==
    /\ loop = "count"
    /\ \/ OutstandingFor(ServerOf[cur.origin]) = {} /\ LoopAt("report")
       \/ OutstandingFor(ServerOf[cur.origin]) # {} /\ NextRow
       \/ "uploads" \in DbErrors /\ NextRow
    /\ UNCHANGED <<jobVars, statusVars, runVars, disk, stored, rows, due, crashes, history>>

ReportRecovery ==
    /\ loop = "report"
    /\ status' = TargetDone(status, CurIndex, "ok")
    /\ loop' = "refresh"
    /\ UNCHANGED <<jobVars, saved, lastRun, runVars, disk, stored, rows, due, cur, curJob, why, crashes, history>>

RefreshJob ==
    /\ loop = "refresh"
    /\ status' = RefreshJobState(status)
    /\ summed' = Known(status)
    /\ loop' = "save"
    /\ UNCHANGED <<jobVars, saved, lastRun, runVars, disk, stored, rows, due, cur, curJob, why, crashes,
                   leaked, excused, displaced>>

PersistRecovery ==
    /\ loop = "save"
    /\ \/ saved' = [saved EXCEPT ![ServerOf[cur.origin]] = "ok"]
       \/ "outcomes" \in DbErrors /\ UNCHANGED saved
    /\ NextRow
    /\ UNCHANGED <<jobVars, status, lastRun, runVars, disk, stored, rows, due, crashes, history>>

-----------------------------------------------------------------------------
(* The process *)

\* Killed and started again: the database, the staging files and what the
\* targets hold survive.  Startup does not look at the staging directory.
CrashAndRestart ==
    /\ crashes < MaxCrashes
    /\ crashes' = crashes + 1
    /\ ForgetRun
    /\ loop' = "sleep" /\ due' = {} /\ cur' = NoRow /\ curJob' = NoJob /\ why' = "none"
    /\ asked' = NoRequest
    /\ status' \in IF job = NoJob THEN {Unknown} ELSE SeedStatusFromState(newJobSnapshot(job))
    /\ leaked' = leaked \cup {f \in disk : RowsOf(f) = {}}
    /\ Excuse("restart", ToUpload)
    /\ displaced' = {} /\ summed' = FALSE
    /\ UNCHANGED <<job, saved, lastRun, runNo, disk, stored, rows>>

Upload(i) ==
    \/ OpenStaged(i) \/ SendOk(i) \/ SendFails(i) \/ AddOutstandingTargetUpload(i)
    \/ ReportTarget(i) \/ PersistTargetRun(i)

Run ==
    \/ Start \/ BeginStage \/ EndStage \/ BeginUploads
    \/ \E i \in DOMAIN up : Upload(i)
    \/ RemoveStagingFile \/ FinishRun \/ RecordJobRun \/ Release

RetryLoop ==
    \/ \E listed \in SUBSET rows : Tick(listed)
    \/ Sleep
    \/ \E r \in due : PickRow(r)
    \/ RetryOk \/ RetryFails
    \/ DeleteRow \/ CountForFile \/ Unlink \/ CountForTarget
    \/ ReportRecovery \/ RefreshJob \/ PersistRecovery

Next ==
    \/ \E list \in JobLists : ChangeJob(list)
    \/ HandleRetryFailedTargets
    \/ RunNow \/ RetryFailedTargets \/ RefuseRetry
    \/ Run
    \/ RetryLoop
    \/ CrashAndRestart

Spec == Init /\ [][Next]_vars

\* The run and the retry loop always take a next step (a run has finitely
\* many, so each of its goroutines comes to its end).  The loop's ticker fires
\* again and again and lists a row once its minute is over, and a target that
\* is tried again and again accepts an upload at last.
Fairness ==
    /\ WF_vars(Run)
    /\ WF_vars(RetryLoop)
    /\ \A t \in Targets, n \in 1..MaxRuns, f \in Files :
          LET r == [origin |-> t, file |-> [run |-> n, file |-> f]]
          IN  /\ SF_vars(r \in rows /\ \E listed \in SUBSET rows : r \in listed /\ Tick(listed))
              /\ SF_vars(cur = r /\ RetryOk)

FairSpec == Spec /\ Fairness

-----------------------------------------------------------------------------
(* Properties *)

Phases == {"idle", "starting", "staging", "draining", "uploading", "finished", "hooks"}
Goroutines == [pc : {"open", "send", "record", "report", "save", "done"},
               todo : SUBSET Files, bad : BOOLEAN]
LoopStates == {"sleep", "each", "send", "forget", "unref", "unlink", "count", "report", "refresh", "save"}
\* Every variable has its type; the goroutines of a run are those of the
\* targets it was started for.
TypeOK ==
    /\ job \in JobLists \cup {NoJob}
    /\ asked \in [list : JobLists \cup {NoJob}, servers : SUBSET Servers]
    /\ status \in JobSnapshot
    /\ saved \in [Servers -> SavedOutcome]
    /\ lastRun \in SavedOutcome
    /\ phase \in Phases
    /\ runNo \in 0..MaxRuns
    /\ runJob \in JobLists \cup {NoJob}
    /\ only \subseteq Servers
    /\ staged \subseteq Files
    /\ next \in 1..(NFiles + 1)
    /\ left \subseteq staged
    /\ DOMAIN up \subseteq 1..Len(runJob)
    /\ up \in [DOMAIN up -> Goroutines]
    /\ disk \subseteq Staged
    /\ stored \subseteq Rows
    /\ rows \subseteq Rows
    /\ loop \in LoopStates
    /\ due \subseteq Rows
    /\ cur \in Rows \cup {NoRow}
    /\ curJob \in JobLists \cup {NoJob}
    /\ why \in {"none", "job", "target", "gone", "sent"}
    /\ crashes \in 0..MaxCrashes
    /\ leaked \subseteq Staged
    /\ excused \in [Causes -> SUBSET Rows]
    /\ displaced \subseteq Targets
    /\ summed \in BOOLEAN

\* The in-flight run will still consider removing this staging file.
OwnedByRun(f) ==
    /\ f.run = runNo
    /\ \/ phase = "draining" /\ f.file = next
       \/ phase \in {"staging", "draining"} /\ f.file \in staged
       \/ phase = "uploading" /\ f.file \in left

\* No staging file is left behind: each one on disk is still the run's to
\* remove, or referenced by an outstanding upload, or in the retry loop's
\* hands, or one whose removal a crash or a database error prevented
\* (removeStagingFileIfUnreferenced: whoever resolves the last reference
\* removes the file).
NoStagingLeak ==
    \A f \in disk : \/ OwnedByRun(f)
                    \/ RowsOf(f) # {}
                    \/ loop \in {"unref", "unlink"} /\ cur.file = f
                    \/ f \in leaked

\* An outstanding upload still has its staging file (the comment on
\* removeStagingFileIfUnreferenced), unless a goroutine had yet to send it
\* when the loop counted the rows that refer to the file.
RowHasFile == \A r \in rows : r.file \in disk \/ r \in excused["overlooked"]

\* Not so in the code: the file is there without exception, as "one target's
\* failure never affects any other target's own attempt" (runPipeline).
RowKeepsFile == \A r \in rows : r.file \in disk

\* Not so in the code, which takes the buckets of a server for one target: an
\* outstanding upload dropped as sent was sent to the very target whose upload
\* had failed, bucket included ("distinct targets", targetKey).
SentRowWasDelivered == [][\A r \in rows \ rows' : why = "sent" => r \in stored]_vars

\* What the database calls a success of a run was one: the run staged a file,
\* and a target of that server, of the list the run began with, has received
\* every file it staged, whatever the job is edited to meanwhile.
OkWasEarned ==
    [][\A s \in Servers : saved[s] # "ok" /\ saved'[s] = "ok" /\ loop' = loop =>
          /\ staged # {}
          /\ \E i \in DOMAIN up : /\ ServerOf[runJob[i]] = s
                                  /\ \A f \in staged : [origin |-> runJob[i], file |-> StagedFile(f)] \in stored]_vars

\* Nothing is shown as running once the job is no longer claimed: a run
\* resolves every target it set to running, unless an edit of the list gave
\* the target another place while the run, or the request for it, was on.
NoStuckRunning ==
    phase = "idle" => /\ status.state # "running"
                      /\ \A i \in 1..Len(status.targets) :
                            status.targets[i].state = "running" => status.targets[i].target \in displaced

\* Not so in the code, which goes by the index: a run reports an outcome on
\* the entry of the target it uploaded to ("index-aligned with the job's
\* targets", Store.TargetDone).
OutcomeOnOwnTarget ==
    [][\A i \in DOMAIN up \cap DOMAIN up' : up[i].pc = "report" /\ up'[i].pc = "save" =>
          \A k \in 1..Len(status.targets) :
             status'.targets[k] # status.targets[k] => status.targets[k].target = runJob[i]]_vars

\* A retry of failed targets leaves the state of every other target alone,
\* but for one that an edit put where the retry knows another.
RetryTouchesOnlyAsked ==
    [][only # {} /\ only' = only /\ UNCHANGED <<job, loop>> =>
          \A k \in 1..Len(status.targets) :
             status'.targets[k] # status.targets[k] =>
                LET t == status.targets[k].target IN ServerOf[t] \in only \/ t \in displaced]_vars

\* Outside a run, and until the next edit or restart, the job's state sums up
\* its targets and files, whatever the retry loop reports later.
JobStateSumsUp ==
    summed /\ phase \in {"finished", "hooks", "idle"} /\ loop # "refresh" =>
        status.state = jobState(status)

\* Every file a run staged reaches each of the run's targets at last.
EventuallyDelivered ==
    \A t \in Targets, n \in 1..MaxRuns, f \in Files :
       LET owed == /\ phase = "uploading" /\ runNo = n /\ f \in staged
                   /\ \E i \in DOMAIN up : runJob[i] = t
       IN  owed ~> [origin |-> t, file |-> [run |-> n, file |-> f]] \in stored

=============================================================================
