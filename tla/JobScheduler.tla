---------------------------- MODULE JobScheduler ----------------------------
(***************************************************************************)
(* The schedulers of one job (internal/backup/jobs/manager.go, and         *)
(* ScheduleLive and watchOnChange of internal/backup/pipeline).            *)
(*                                                                         *)
(* The jobs manager starts a goroutine for every schedule a job gets.  An  *)
(* edit that changes the schedule stops the old goroutine and starts a new *)
(* one, which waits until the old one, and the run it may be in, is over.  *)
(* A schedule may have a second goroutine, the watcher of an on-change     *)
(* job's source.  Schedulers, watchers and the web UI's "run now" start    *)
(* runs; a claim keeps the runs apart.                                     *)
(*                                                                         *)
(* Time is left out: a scheduler that waits for its next run may go on at  *)
(* any moment, and whether a next run is shown is all that is kept of it.  *)
(***************************************************************************)
EXTENDS Naturals

CONSTANTS Definitions,   \* what the job may be defined as
          MaxSchedules,  \* bound: schedules started
          MaxManual      \* bound: requests to run now

\* interval 0: the job does not repeat; grid: it has a start-time.
Definition == [interval : Nat, grid : BOOLEAN, source : STRING, watch : BOOLEAN]

NoJob == [interval |-> 0, grid |-> FALSE, source |-> "none", watch |-> FALSE]

ASSUME JobSchedulerAssumption ==
    /\ Definitions \subseteq Definition \ {NoJob}
    /\ \A d \in Definitions : d.grid => d.interval # 0
    /\ MaxSchedules \in Nat \ {0}
    /\ MaxManual \in Nat

Numbers == 1..MaxSchedules

NewSchedule(d, resumed, pc) ==
    [def |-> d, resumed |-> resumed, stopped |-> FALSE, pc |-> pc, watcher |-> "off"]

Unstarted == NewSchedule(NoJob, FALSE, "none")

VARIABLES
    job,        \* the active definition, NoJob if there is none
    newest,     \* the number of the job's schedule in the manager
    schedule,   \* every schedule ever started
    claimed,    \* whether a run holds the job's claim
    manual,     \* a request to run now: where it is, and whether the job it
                \* looked up was deleted since
    requests,   \* how many requests there were
    nextRun,    \* whether the status store shows a next run
    ran         \* history: a run started since the job became active

vars == <<job, newest, schedule, claimed, manual, requests, nextRun, ran>>

\* There is no request to run now.
NoRequest == [pc |-> "none", old |-> FALSE]

-----------------------------------------------------------------------------
(* The manager *)

sameSchedule(d, e) ==
    d.interval = e.interval /\ d.grid = e.grid /\ d.source = e.source /\ d.watch = e.watch

\* Mutant of scheduledLocked: a stopped schedule counts until it is over.
scheduledUntilDone(d) ==
    newest # 0 /\ sameSchedule(schedule[newest].def, d) /\ schedule[newest].pc # "done"

scheduledLocked(d) ==
    /\ newest # 0
    /\ ~schedule[newest].stopped
    /\ sameSchedule(schedule[newest].def, d)
    /\ schedule[newest].pc # "done"

Stopped == [i \in Numbers |-> [schedule[i] EXCEPT !.stopped = @ \/ i = newest]]

scheduleLocked(d, resumed) ==
    /\ newest < MaxSchedules
    /\ newest' = newest + 1
    /\ schedule' = [Stopped EXCEPT ![newest + 1] =
                      NewSchedule(d, resumed, IF newest = 0 THEN "begin" ELSE "handover")]

\* A job is created, edited, valid again, or refreshed as it is: one step under
\* the manager's lock.
activateJobLocked(d) ==
    LET existed == job # NoJob
        sourceMoved == newest # 0 /\ schedule[newest].def.source # d.source
    IN  /\ job' = d
        /\ IF existed THEN UNCHANGED <<nextRun, ran>>
           ELSE nextRun' = d.grid /\ ran' = FALSE
        /\ IF scheduledLocked(d) THEN UNCHANGED <<newest, schedule>>
           ELSE scheduleLocked(d, existed /\ ~sourceMoved)
        /\ UNCHANGED <<claimed, manual, requests>>

\* Mutant of deactivateJobLocked: the schedule is left to find out.
DeactivateOnly ==
    /\ job # NoJob
    /\ job' = NoJob /\ nextRun' = FALSE
    /\ UNCHANGED <<newest, schedule, claimed, manual, requests, ran>>

\* The job is deleted, or a server or command it uses went.
deactivateJobLocked ==
    /\ job # NoJob
    /\ job' = NoJob /\ nextRun' = FALSE
    /\ schedule' = Stopped
    /\ manual' = [manual EXCEPT !.old = manual # NoRequest]
    /\ UNCHANGED <<newest, claimed, requests, ran>>

-----------------------------------------------------------------------------
(* A schedule's goroutines *)

\* A run starts.
claim(current) ==
    /\ ~claimed
    /\ claimed' = TRUE
    /\ ran' = (ran \/ current)

\* The status store ignores a job it does not know.
SetNextRun(shown) == nextRun' = (shown /\ job # NoJob)

Step(i, from, to) == schedule[i].pc = from /\ schedule' = [schedule EXCEPT ![i].pc = to]

\* Mutant of HandOver: the predecessor's run is not waited for.
HandOverAtOnce(i) ==
    /\ Step(i, "handover", "begin")
    /\ UNCHANGED <<job, newest, claimed, manual, requests, nextRun, ran>>

HandOver(i) ==
    /\ i # 1 /\ schedule[i - 1].pc = "done"
    /\ Step(i, "handover", "begin")
    /\ UNCHANGED <<job, newest, claimed, manual, requests, nextRun, ran>>

\* Where a schedule begins: with a run, or by waiting for the next slot, or
\* not at all.
First(s) ==
    IF s.def.grid THEN "wait"
    ELSE IF ~s.resumed THEN "check"
    ELSE IF s.def.interval = 0 THEN "ended"
    ELSE "wait"

\* Mutant of Begin: a resumed schedule does not say when it goes on.
BeginSilently(i) ==
    /\ schedule[i].pc = "begin"
    /\ schedule' = [schedule EXCEPT ![i].pc = First(schedule[i]),
                                    ![i].watcher = IF schedule[i].def.watch THEN "watch" ELSE "off"]
    /\ UNCHANGED <<job, newest, claimed, manual, requests, nextRun, ran>>

Begin(i) ==
    /\ schedule[i].pc = "begin"
    /\ schedule' = [schedule EXCEPT ![i].pc = First(schedule[i]),
                                    ![i].watcher = IF schedule[i].def.watch THEN "watch" ELSE "off"]
    /\ IF First(schedule[i]) = "check" THEN UNCHANGED nextRun
       ELSE SetNextRun(First(schedule[i]) = "wait")
    /\ UNCHANGED <<job, newest, claimed, manual, requests, ran>>

\* waitUntil returns at its time, or when the schedule is stopped before.
Wait(i) ==
    /\ \/ Step(i, "wait", "check")
       \/ schedule[i].stopped /\ Step(i, "wait", "ended")
    /\ UNCHANGED <<job, newest, claimed, manual, requests, nextRun, ran>>

CheckStop(i) ==
    /\ Step(i, "check", IF schedule[i].stopped THEN "ended" ELSE "lookup")
    /\ UNCHANGED <<job, newest, claimed, manual, requests, nextRun, ran>>

LookUp(i) ==
    /\ Step(i, "lookup", IF job = NoJob THEN "ended" ELSE "claim")
    /\ UNCHANGED <<job, newest, claimed, manual, requests, nextRun, ran>>

\* Mutant of Claim: the claim is taken whoever has it.
ClaimAnyway(i) ==
    /\ Step(i, "claim", "run")
    /\ claimed' = TRUE
    /\ UNCHANGED <<job, newest, manual, requests, nextRun, ran>>

\* A job that is already running is not run again: the slot is skipped.
Claim(i) ==
    /\ \/ Step(i, "claim", "run") /\ claim(~schedule[i].stopped)
       \/ claimed /\ Step(i, "claim", "again") /\ UNCHANGED <<claimed, ran>>
    /\ UNCHANGED <<job, newest, manual, requests, nextRun>>

FinishRun(i) ==
    /\ Step(i, "run", "again")
    /\ claimed' = FALSE
    /\ UNCHANGED <<job, newest, manual, requests, nextRun, ran>>

\* The next slot, or the end of a job that does not repeat.  The schedule may
\* have been stopped during the run: that it only sees afterwards.
Again(i) ==
    /\ \/ schedule[i].def.interval # 0 /\ Step(i, "again", "wait") /\ SetNextRun(TRUE)
       \/ schedule[i].def.interval = 0 /\ Step(i, "again", "ended") /\ UNCHANGED nextRun
    /\ UNCHANGED <<job, newest, claimed, manual, requests, ran>>

\* The goroutine ends once its watcher has.
Done(i) ==
    /\ schedule[i].watcher = "off"
    /\ Step(i, "ended", "done")
    /\ UNCHANGED <<job, newest, claimed, manual, requests, nextRun, ran>>

\* A stopped watcher ends; a batch of changes looks up the job first.
Flush(i) ==
    /\ schedule[i].watcher = "watch"
    /\ schedule' = [schedule EXCEPT ![i].watcher =
                      IF job = NoJob \/ schedule[i].stopped THEN "off" ELSE "claim"]
    /\ UNCHANGED <<job, newest, claimed, manual, requests, nextRun, ran>>

\* A batch that cannot run now is kept.
ClaimFlush(i) ==
    /\ schedule[i].watcher = "claim"
    /\ \/ claim(~schedule[i].stopped) /\ schedule' = [schedule EXCEPT ![i].watcher = "run"]
       \/ claimed /\ schedule' = [schedule EXCEPT ![i].watcher = "watch"] /\ UNCHANGED <<claimed, ran>>
    /\ UNCHANGED <<job, newest, manual, requests, nextRun>>

FinishFlush(i) ==
    /\ schedule[i].watcher = "run"
    /\ schedule' = [schedule EXCEPT ![i].watcher = "watch"]
    /\ claimed' = FALSE
    /\ UNCHANGED <<job, newest, manual, requests, nextRun, ran>>

-----------------------------------------------------------------------------
(* The web UI's "run now" *)

HandleRunJob ==
    /\ manual = NoRequest /\ requests < MaxManual
    /\ job # NoJob
    /\ manual' = [pc |-> "claim", old |-> FALSE]
    /\ requests' = requests + 1
    /\ UNCHANGED <<job, newest, schedule, claimed, nextRun, ran>>

RunNow ==
    /\ manual.pc = "claim"
    /\ \/ claim(~manual.old) /\ manual' = [manual EXCEPT !.pc = "run"]
       \/ claimed /\ manual' = NoRequest /\ UNCHANGED <<claimed, ran>>
    /\ UNCHANGED <<job, newest, schedule, requests, nextRun>>

FinishManual ==
    /\ manual.pc = "run"
    /\ manual' = NoRequest
    /\ claimed' = FALSE
    /\ UNCHANGED <<job, newest, schedule, requests, nextRun, ran>>

-----------------------------------------------------------------------------

\* Startup: the job, if there is one, is active and its schedule begins.
Init ==
    /\ job \in Definitions \cup {NoJob}
    /\ LET active == job # NoJob
       IN  /\ newest = IF active THEN 1 ELSE 0
           /\ schedule = [i \in Numbers |-> IF active /\ i = 1 THEN NewSchedule(job, FALSE, "begin") ELSE Unstarted]
    /\ claimed = FALSE /\ manual = NoRequest /\ requests = 0
    /\ nextRun = job.grid /\ ran = FALSE

Scheduler(i) ==
    \/ HandOver(i) \/ Begin(i) \/ Wait(i) \/ CheckStop(i) \/ LookUp(i) \/ Claim(i)
    \/ FinishRun(i) \/ Again(i) \/ Done(i)

Watcher(i) == Flush(i) \/ ClaimFlush(i) \/ FinishFlush(i)

Next ==
    \/ \E d \in Definitions : activateJobLocked(d)
    \/ deactivateJobLocked
    \/ \E i \in Numbers : Scheduler(i) \/ Watcher(i)
    \/ HandleRunJob \/ RunNow \/ FinishManual

Spec == Init /\ [][Next]_vars

\* Every goroutine takes its next step: a wait ends, a run ends, a stopped
\* watcher leaves.  Nothing makes a watcher see a change of the source.
Fairness ==
    /\ \A i \in Numbers :
          /\ WF_vars(Scheduler(i))
          /\ WF_vars(schedule[i].stopped /\ Flush(i))
          /\ WF_vars(ClaimFlush(i) \/ FinishFlush(i))
    /\ WF_vars(RunNow \/ FinishManual)

FairSpec == Spec /\ Fairness

-----------------------------------------------------------------------------
(* Properties *)

Places == {"none", "handover", "begin", "wait", "check", "lookup", "claim", "run", "again", "ended", "done"}

Schedules == [def : Definitions \cup {NoJob}, resumed : BOOLEAN, stopped : BOOLEAN, pc : Places,
              watcher : {"off", "watch", "claim", "run"}]

\* Every variable has its type, and only schedules that were started exist.
TypeOK ==
    /\ job \in Definitions \cup {NoJob}
    /\ newest \in 0..MaxSchedules
    /\ schedule \in [Numbers -> Schedules]
    /\ \A i \in Numbers : i > newest <=> schedule[i].pc = "none"
    /\ claimed \in BOOLEAN
    /\ manual \in [pc : {"none", "claim", "run"}, old : BOOLEAN]
    /\ requests \in 0..MaxManual
    /\ nextRun \in BOOLEAN
    /\ ran \in BOOLEAN

\* A new schedule goes to work only after every earlier one is over, watcher
\* and run included ("so the two never run the job concurrently").
OneScheduler ==
    \A i, j \in Numbers : i < j /\ schedule[j].pc \notin {"none", "handover"} =>
        schedule[i].pc = "done" /\ schedule[i].watcher = "off"

\* Who is in a run of the job: a schedule, its watcher, or a request.
Runners == (0..MaxSchedules) \X {"schedule", "watcher", "manual"}

Running(r) ==
    \/ r[2] = "schedule" /\ r[1] # 0 /\ schedule[r[1]].pc = "run"
    \/ r[2] = "watcher" /\ r[1] # 0 /\ schedule[r[1]].watcher = "run"
    \/ r[2] = "manual" /\ r[1] = 0 /\ manual.pc = "run"

\* Runs of the job never overlap, whoever starts them, and the claim is held
\* exactly while there is one.
RunsExclusive ==
    /\ \A r, s \in Runners : Running(r) /\ Running(s) => r = s
    /\ claimed <=> \E r \in Runners : Running(r)

\* A schedule that waits for its next run shows one in the status store.
NextRunShown ==
    \A i \in Numbers : schedule[i].pc = "wait" /\ ~schedule[i].stopped => nextRun

\* An active job that repeats runs again and again, whatever was edited,
\* deleted and re-created before.
KeepsRunning ==
    <>[](job # NoJob /\ job.interval # 0) =>
        []<>(\E i \in Numbers : schedule[i].pc = "claim" /\ ~schedule[i].stopped)

\* Once the job is gone for good, its schedulers and watchers end.
DeletedJobEnds ==
    <>[](job = NoJob) => <>[](\A i \in Numbers : schedule[i].pc \in {"none", "done"})

\* A job without a start-time that becomes active runs: CreateJob says it
\* "runs right away".
CreatedJobRuns ==
    (job # NoJob /\ ~job.grid /\ ~ran) ~> (ran \/ job = NoJob)

=============================================================================
