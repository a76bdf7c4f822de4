------------------------------- MODULE RunLog -------------------------------
(***************************************************************************)
(* The logs of what happened and how long they are kept                    *)
(* (internal/backup/store/jobs.go, events.go, log_retention.go,            *)
(* settings/log_retention.go and the pruning in app/app.go): the runs of a *)
(* job, and the requests its receiver served.                              *)
(*                                                                         *)
(* What happens is given its time first and stored after, or never.  The   *)
(* pruning deletes rows by age and by number, but the newest run and the   *)
(* newest successful run of a job stay: a restart shows the one and plans  *)
(* by the other.                                                           *)
(***************************************************************************)
EXTENDS Integers, Sequences, FiniteSets

CONSTANTS MaxTime,         \* bounds the clock
          MaxEntries,      \* bounds what happens
          Retentions,      \* the limits a user may set: days and rows, 0 for none
          EventRetention   \* webui.event-log-retention, 0 for no limit

ASSUME RunLogAssumption ==
    /\ {MaxTime, MaxEntries, EventRetention} \subseteq Nat
    /\ Retentions \subseteq [days : Nat, rows : Nat]

VARIABLES
    now,
    log          \* what happened, in order: its kind, its time, where it is

logVars == <<now, log>>

Kinds   == {"ok", "failed", "event"}    \* runs of the job, requests of the receiver
Entries == DOMAIN log
Stored  == {e \in Entries : log[e].in = "stored"}
JobRuns == {e \in Entries : log[e].kind # "event"}
Events  == Entries \ JobRuns

Newest(es) == {e \in es : \A f \in es : f <= e}

----------------------------------------------------------------------------
(* What is read of the log.                                                *)

GetLastRun        == Newest(Stored \cap JobRuns)
GetLastJobSuccess == Newest({e \in Stored : log[e].kind = "ok"})

\* The rows of a report: from its start on, up to but not at its end.
InWindow(e, start, end) == log[e].at >= start /\ log[e].at < end

SummarizeJobRuns(start, end) == {e \in Stored \cap JobRuns : InWindow(e, start, end)}

SummarizeReceiverEvents(start, end) == {e \in Stored \cap Events : InWindow(e, start, end)}

----------------------------------------------------------------------------
(* What is written to it.                                                  *)

\* A run records its row while the job is claimed, so the next run begins
\* after that; requests are served side by side.
Happen(kind) ==
    /\ Len(log) < MaxEntries
    /\ kind # "event" => \A e \in JobRuns : log[e].in # "memory"
    /\ log' = Append(log, [kind |-> kind, at |-> now, in |-> "memory"])
    /\ UNCHANGED now

SaveJobRun(e) ==
    /\ e \in JobRuns /\ log[e].in = "memory"
    /\ \E in \in {"stored", "gone"} : log' = [log EXCEPT ![e].in = in]
    /\ UNCHANGED now

SaveReceiverEvent(e) ==
    /\ e \in Events /\ log[e].in = "memory"
    /\ \E in \in {"stored", "gone"} : log' = [log EXCEPT ![e].in = in]
    /\ UNCHANGED now

----------------------------------------------------------------------------
(* Pruning.                                                                *)

\* Mutant of Keep: only the newest run is kept.
keepNewest(rows) == Newest(rows)

Keep(rows) == Newest(rows) \cup Newest({e \in rows : log[e].kind = "ok"})

ByAge(rows, days) == {e \in rows : days > 0 /\ log[e].at < now - days} \ Keep(rows)

ByCount(rows, n) ==
    {e \in rows : n > 0 /\ Cardinality({f \in rows : f > e}) >= n} \ Keep(rows)

\* Both limits in one transaction, the second on what the first has left.
DeleteOldJobRuns(limits) ==
    LET rows == Stored \cap JobRuns
        aged == ByAge(rows, limits.days)
    IN  aged \cup ByCount(rows \ aged, limits.rows)

Delete(es) == log' = [e \in Entries |-> IF e \in es THEN [log[e] EXCEPT !.in = "gone"] ELSE log[e]]

\* Every hour and after every edit, with the limits of the moment.
PruneRunLogs(limits) ==
    /\ DeleteOldJobRuns(limits) # {}
    /\ Delete(DeleteOldJobRuns(limits))
    /\ UNCHANGED now

PruneEvents ==
    {e \in Stored \cap Events : EventRetention > 0 /\ log[e].at < now - EventRetention}

PruneEventLogs ==
    /\ PruneEvents # {}
    /\ Delete(PruneEvents)
    /\ UNCHANGED now

Tick ==
    /\ now < MaxTime
    /\ now' = now + 1
    /\ UNCHANGED log

LogInit ==
    /\ now = 0 /\ log = <<>>

----------------------------------------------------------------------------
(* Properties.                                                             *)

\* Whatever limits are set and whenever they are applied, pruning does not
\* change what a restart reads: the last run and the last success of the job.
LastRunKept ==
    [][Stored' \subseteq Stored =>
         GetLastRun' = GetLastRun /\ GetLastJobSuccess' = GetLastJobSuccess]_log
=============================================================================
