----------------------------- MODULE JobStatus -----------------------------
(***************************************************************************)
(* The live status of one job (internal/backup/status/status.go), as       *)
(* operators over its snapshot.  Each operator is one method of            *)
(* status.Store; the store holds one mutex through each method, so each is *)
(* a single atomic step of the modules that call it.                       *)
(*                                                                         *)
(* A snapshot is a record: the job's state, its targets' states in the     *)
(* order of the job's definition (callers address them by index), and how  *)
(* many of the backup's files the last finished run produced.  A job       *)
(* always has a target, so the snapshot without targets stands for a job   *)
(* the store does not know.  Times, sizes and error texts are left out.    *)
(***************************************************************************)
EXTENDS Naturals, Sequences

CONSTANTS Targets,      \* the (server, bucket) pairs a job can write to
          ServerOf      \* the server of each target

\* A target is one server with one bucket.
ASSUME ServerOfAssumption == DOMAIN ServerOf = Targets

Servers == {ServerOf[t] : t \in Targets}

TargetState == {"idle", "running", "ok", "failed"}
RunState == TargetState \cup {"incomplete"}

\* How many of a run's files failed to be produced.
FilesFailed == {"none", "some", "all"}

TargetSnapshot == [target : Targets, state : TargetState]
JobSnapshot == [state : RunState, targets : Seq(TargetSnapshot), failedFiles : FilesFailed]

Unknown == [state |-> "idle", targets |-> <<>>, failedFiles |-> "none"]
Known(s) == s.targets # <<>>

idleTargets(list) == [i \in 1..Len(list) |-> [target |-> list[i], state |-> "idle"]]

newJobSnapshot(list) == [state |-> "idle", targets |-> idleTargets(list), failedFiles |-> "none"]

-----------------------------------------------------------------------------

overallState(targets) ==
    LET succeeded == {i \in 1..Len(targets) : targets[i].state = "ok"}
    IN  CASE succeeded = 1..Len(targets) -> "ok"
          [] succeeded = {} /\ Len(targets) > 0 -> "failed"
          [] OTHER -> "incomplete"

jobState(s) ==
    LET state == overallState(s.targets)
    IN  CASE s.failedFiles = "none" -> state
          [] s.failedFiles = "all" -> "failed"
          [] s.failedFiles = "some" -> IF state = "ok" THEN "incomplete" ELSE state

\* The state of target t kept from snapshot s, "idle" when s has no such target.
keptState(s, t) ==
    LET same == {i \in 1..Len(s.targets) : s.targets[i].target = t}
    IN  IF same = {} THEN "idle"
        ELSE s.targets[CHOOSE i \in same : \A j \in same : i <= j].state

Upsert(s, list) ==
    IF ~Known(s) THEN newJobSnapshot(list)
    ELSE [s EXCEPT !.targets =
            [i \in 1..Len(list) |-> [target |-> list[i], state |-> keptState(s, list[i])]]]

Starting(s) ==
    IF ~Known(s) THEN s
    ELSE [s EXCEPT !.state = "running",
                   !.targets = [i \in 1..Len(s.targets) |-> [s.targets[i] EXCEPT !.state = "running"]]]

\* Mutant of RetryStarting: every target starts over.
RetryStartingAll(s, servers) ==
    [s EXCEPT !.targets = [i \in 1..Len(s.targets) |-> [s.targets[i] EXCEPT !.state = "running"]]]

\* The targets named by server: several targets of the job can match one name.
RetryStarting(s, servers) ==
    LET t == s.targets
    IN  [s EXCEPT !.targets = [i \in 1..Len(t) |->
            IF ServerOf[t[i].target] \in servers THEN [t[i] EXCEPT !.state = "running"] ELSE t[i]]]

\* Mutant of TargetDone: the last target is out of range.
TargetDoneButLast(s, index, outcome) ==
    IF index \in 1..(Len(s.targets) - 1) THEN [s EXCEPT !.targets[index].state = outcome] ELSE s

TargetDone(s, index, outcome) ==
    IF index \in 1..Len(s.targets)
    THEN [s EXCEPT !.targets[index].state = outcome]
    ELSE s

Finished(s, failed) ==
    IF ~Known(s) THEN s
    ELSE [s EXCEPT !.failedFiles = failed,
                   !.state = jobState([s EXCEPT !.failedFiles = failed])]

\* Mutant of RefreshJobState: the job's state stays what the run made it.
KeepJobState(s) == s

RefreshJobState(s) ==
    IF ~Known(s) THEN s ELSE [s EXCEPT !.state = jobState(s)]

FailedTargets(s) ==
    {ServerOf[s.targets[i].target] : i \in {j \in 1..Len(s.targets) : s.targets[j].state = "failed"}}

SeedLastRun(s, state) == IF ~Known(s) THEN s ELSE [s EXCEPT !.state = state]

\* Only the first target of a server is seeded with the server's last outcome.
SeedTargetRun(s, saved) ==
    LET t == s.targets
        server(i) == ServerOf[t[i].target]
        seeded(i) == saved[server(i)] # "none" /\ \A j \in 1..(i - 1) : server(j) # server(i)
    IN  [s EXCEPT !.targets = [i \in 1..Len(t) |->
            IF seeded(i) THEN [t[i] EXCEPT !.state = saved[server(i)]] ELSE t[i]]]

=============================================================================
