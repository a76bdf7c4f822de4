------------------------------ MODULE Reports -------------------------------
(***************************************************************************)
(* The periodic report (internal/backup/reporter/reporter.go,              *)
(* report/report.go and its settings): on a schedule the loop counts what  *)
(* the logs of RunLog hold of a window, keeps the report and sends it by   *)
(* MailQueue.                                                              *)
(*                                                                         *)
(* A window begins where the one before it ended, whatever was edited in   *)
(* between; the first of a process reaches back a day.  The module shows   *)
(* one run of the process, which is how long the loop remembers the end of *)
(* the last window and how long the mails are queued.                      *)
(***************************************************************************)
EXTENDS RunLog, MailQueue

CONSTANTS Schedules,       \* what a user may set: see Due
          Day              \* how far the first window reaches back

ASSUME ReportsAssumption ==
    /\ Schedules \subseteq [every : Nat \ {0}, kind : {"cron", "@every"}]
    /\ Day \in Nat

None     == -1
Disabled == [every |-> 0, kind |-> "none"]

VARIABLES
    settings,    \* the schedule in effect, or Disabled
    changed,     \* the channel the loop waits on is closed
    phase,       \* where the loop is
    prev,        \* the end of the last window, None before the first
    next,        \* when the report is due: the end of the next window
    counted,     \* what the report counts so far
    from,        \* history: where the first window began
    reported,    \* history: how often an entry was counted
    excused      \* history: entries stored late, or that could not be read

loopVars    == <<settings, changed, phase, prev, next, counted>>
historyVars == <<from, reported, excused>>
vars        == <<logVars, mailVars, loopVars, historyVars>>

----------------------------------------------------------------------------
(* The settings.                                                           *)

\* An enabled report has a schedule and somebody to notify.
ResolveSettings(enabled, schedule) == IF enabled THEN schedule ELSE Disabled

\* The channel of the settings is closed and a new one made.
Set(s) == settings' = s /\ changed' = TRUE

UpdateReport(enabled, schedule) ==
    /\ Set(ResolveSettings(enabled, schedule))
    /\ UNCHANGED <<phase, prev, next, counted, logVars, mailVars, historyVars>>

----------------------------------------------------------------------------
(* The loop.                                                               *)

\* A cron expression is due at fixed times, the first of them after this
\* moment; "@every" is due that long from now.
Due(schedule) ==
    now + schedule.every - (IF schedule.kind = "cron" THEN now % schedule.every ELSE 0)

\* The channel is taken before the settings.
Look ==
    /\ phase = "look"
    /\ changed' = FALSE
    /\ IF settings = Disabled
       THEN phase' = "idle" /\ UNCHANGED next
       ELSE phase' = "wait" /\ next' = Due(settings)
    /\ UNCHANGED <<settings, prev, counted, logVars, mailVars, historyVars>>

WaitChanged ==
    /\ phase \in {"idle", "wait"} /\ changed
    /\ phase' = "look"
    /\ UNCHANGED <<settings, changed, prev, next, counted, logVars, mailVars, historyVars>>

\* With both ready either may be taken.
WaitReached ==
    /\ phase = "wait" /\ now >= next
    /\ phase' = "receivers"
    /\ counted' = {}
    /\ UNCHANGED <<settings, changed, prev, next, logVars, mailVars, historyVars>>

\* Mutant of Start: every window is a day.
dayBefore == next - Day

Start == IF prev = None THEN next - Day ELSE prev

\* A query that fails leaves its section empty.
buildReceiverReport ==
    /\ phase = "receivers"
    /\ phase' = "jobs"
    /\ \/ /\ counted' = SummarizeReceiverEvents(Start, next)
          /\ UNCHANGED excused
       \/ /\ excused' = excused \cup {e \in Events : InWindow(e, Start, next)}
          /\ UNCHANGED counted
    /\ UNCHANGED <<settings, changed, prev, next, logVars, mailVars, from, reported>>

buildJobReport ==
    /\ phase = "jobs"
    /\ phase' = "send"
    /\ \/ /\ counted' = counted \cup SummarizeJobRuns(Start, next)
          /\ UNCHANGED excused
       \/ /\ excused' = excused \cup {e \in JobRuns : InWindow(e, Start, next)}
          /\ UNCHANGED counted
    /\ UNCHANGED <<settings, changed, prev, next, logVars, mailVars, from, reported>>

\* Sent, or queued; either way the window is over.
sendReport ==
    /\ phase = "send"
    /\ SendMailQueued(next)
    /\ phase' = "look"
    /\ prev' = next
    /\ from' = IF prev = None THEN Start ELSE from
    /\ reported' = [e \in 1 .. MaxEntries |-> reported[e] + (IF e \in counted THEN 1 ELSE 0)]
    /\ counted' = {}
    /\ UNCHANGED <<settings, changed, next, logVars, excused>>

----------------------------------------------------------------------------

\* Stored when the query that would have found it was over.
TooLate(e) ==
    \/ prev # None /\ log[e].at < prev
    \/ /\ log[e].at < next
       /\ phase = "send" \/ (phase = "jobs" /\ e \in Events)

Store(e) ==
    /\ SaveJobRun(e) \/ SaveReceiverEvent(e)
    /\ excused' = IF TooLate(e) THEN excused \cup {e} ELSE excused
    /\ UNCHANGED <<loopVars, mailVars, from, reported>>

Log ==
    /\ \/ \E kind \in Kinds : Happen(kind)
       \/ \E limits \in Retentions : PruneRunLogs(limits)
       \/ PruneEventLogs \/ Tick
    /\ UNCHANGED <<mailVars, loopVars, historyVars>>

Queue ==
    /\ BeginRetry \/ Retry \/ EndRetry
    /\ UNCHANGED <<logVars, loopVars, historyVars>>

Init ==
    /\ LogInit /\ MailInit
    /\ settings \in Schedules \cup {Disabled}
    /\ changed = FALSE /\ phase = "look" /\ prev = None /\ next = 0 /\ counted = {}
    /\ from = 0 /\ reported = [e \in 1 .. MaxEntries |-> 0] /\ excused = {}

Next ==
    \/ Log \/ Queue
    \/ \E e \in Entries : Store(e)
    \/ \E enabled \in BOOLEAN, schedule \in Schedules : UpdateReport(enabled, schedule)
    \/ Look \/ WaitChanged \/ WaitReached
    \/ buildReceiverReport \/ buildJobReport \/ sendReport

Spec == Init /\ [][Next]_vars

----------------------------------------------------------------------------
(* Properties.                                                             *)

\* Between the first window and the last, what is in the log and was stored in
\* time is in one report and in no second one, however the schedule was edited,
\* disabled and enabled, and however late the loop woke.
ReportedOnce ==
    \A e \in Entries :
        /\ reported[e] <= 1
        /\ e \in Stored \ excused /\ prev # None /\ InWindow(e, from, prev) => reported[e] = 1
=============================================================================
