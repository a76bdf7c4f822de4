--------------------------- MODULE Reports_proofs ---------------------------
(***************************************************************************)
(* Every entry is reported once, pruning keeps what a restart reads, and   *)
(* no mail is lost, for any schedules, limits and numbers of entries.      *)
(*                                                                         *)
(* The invariant of the loop: windows follow one another and end in the    *)
(* past (InOrder); what was reported lies before the end of the last       *)
(* window, so that the next does not take it again (OnceOnly); and while   *)
(* a report is built, it holds what its window has so far (CountedSoFar).  *)
(* The invariant of the mails: each part of the queue holds a mail once    *)
(* and no two parts hold the same, and none is of a window to come.        *)
(***************************************************************************)
EXTENDS Reports, WellFoundedInduction, TLAPS

LogEntry == [kind : Kinds, at : Nat, in : {"memory", "stored", "gone"}]
Phases   == {"look", "idle", "wait", "receivers", "jobs", "send"}
Building == {"receivers", "jobs", "send"}

LogType ==
    /\ now \in Nat
    /\ log \in Seq(LogEntry) /\ Len(log) <= MaxEntries

LoopType ==
    /\ settings \in Schedules \cup {Disabled} /\ phase \in Phases
    /\ prev \in Nat \cup {None} /\ next \in Nat /\ from \in Int
    /\ reported \in [1 .. MaxEntries -> Nat]

MailType ==
    /\ items \in Seq(Nat) /\ pending \in Seq(Nat) /\ failing \in Seq(Nat)

InOrder ==
    /\ prev # None => prev <= now
    /\ phase \in Building \cup {"wait"} /\ prev # None => prev < next
    /\ phase \in Building => next <= now

OnceOnly ==
    \A e \in 1 .. MaxEntries :
        /\ reported[e] <= 1
        /\ reported[e] = 1 => e \in Entries /\ prev # None /\ log[e].at < prev

AllReported ==
    \A e \in Stored \ excused : prev # None /\ InWindow(e, from, prev) => reported[e] = 1

CountedSoFar ==
    /\ phase \in Building => counted \subseteq {e \in Entries : InWindow(e, Start, next)}
    /\ phase = "jobs" => {e \in Stored \ excused : e \in Events /\ InWindow(e, Start, next)} \subseteq counted
    /\ phase = "send" => {e \in Stored \ excused : InWindow(e, Start, next)} \subseteq counted

LoopInv == LogType /\ LoopType /\ InOrder /\ OnceOnly /\ AllReported /\ CountedSoFar

----------------------------------------------------------------------------
(* The log.                                                                *)

\* The constants are natural numbers.
LEMMA ConstantTypes ==
    /\ MaxTime \in Nat /\ MaxEntries \in Nat /\ EventRetention \in Nat /\ Day \in Nat
    /\ \A limits \in Retentions : limits.days \in Nat /\ limits.rows \in Nat
    /\ \A s \in Schedules : s.every \in Nat /\ s.every > 0
    /\ None \notin Nat
BY RunLogAssumption, ReportsAssumption DEF None

\* The entries are numbered, and each has its fields.
LEMMA EntryTypes ==
    ASSUME LogType
    PROVE  /\ Entries = 1 .. Len(log) /\ Len(log) \in Nat
           /\ Entries \subseteq 1 .. MaxEntries
           /\ \A e \in Entries : log[e] \in LogEntry /\ log[e].at \in Nat
           /\ Stored \subseteq Entries /\ JobRuns \subseteq Entries /\ Events \subseteq Entries
<1>1. log \in Seq(LogEntry) /\ Len(log) \in Nat /\ Len(log) <= MaxEntries
  BY DEF LogType
<1>2. Entries = 1 .. Len(log) /\ \A e \in 1 .. Len(log) : log[e] \in LogEntry
  BY <1>1 DEF Entries
<1>3. \A e \in Entries : log[e].at \in Nat
  BY <1>2 DEF LogEntry
<1>4. Entries \subseteq 1 .. MaxEntries
  BY <1>1, <1>2, ConstantTypes
<1> QED BY <1>1, <1>2, <1>3, <1>4 DEF Stored, JobRuns, Events

\* A function over the entries is a log.
LEMMA MapLog ==
    ASSUME NEW n \in Nat, NEW f \in [1 .. n -> LogEntry]
    PROVE  f \in Seq(LogEntry) /\ Len(f) = n
OBVIOUS

\* What the steps on the log do to it: entries stay what and when they were,
\* and only the storing of an entry makes one stored.
SameEntries ==
    /\ Entries \subseteq Entries'
    /\ \A e \in Entries : log'[e].at = log[e].at /\ log'[e].kind = log[e].kind

LEMMA HappenLog ==
    ASSUME LogType, NEW kind \in Kinds, Happen(kind)
    PROVE  LogType' /\ SameEntries /\ Stored' = Stored /\ now' = now
<1> DEFINE new == [kind |-> kind, at |-> now, in |-> "memory"]
<1>1. /\ Len(log) < MaxEntries /\ log' = Append(log, new) /\ now' = now
  BY DEF Happen
<1>2. new \in LogEntry /\ new.in = "memory"
  BY DEF LogEntry, LogType
<1> HIDE DEF new
<1>3. /\ log' \in Seq(LogEntry) /\ Len(log') = Len(log) + 1
      /\ \A e \in 1 .. Len(log) : log'[e] = log[e]
      /\ log'[Len(log) + 1] = new
  BY <1>1, <1>2 DEF LogType
<1>4. LogType'
  BY <1>1, <1>3, ConstantTypes, EntryTypes DEF LogType
<1>5. Entries = 1 .. Len(log) /\ Entries' = 1 .. Len(log')
  BY <1>3, EntryTypes DEF Entries
<1>6. SameEntries
  BY <1>3, <1>5, EntryTypes DEF SameEntries
<1>7. Stored' = Stored
  BY <1>2, <1>3, <1>5, EntryTypes DEF Stored
<1> QED BY <1>1, <1>4, <1>6, <1>7

LEMMA DeleteLog ==
    ASSUME LogType, NEW es, Delete(es)
    PROVE  /\ log' \in Seq(LogEntry) /\ Len(log') = Len(log)
           /\ SameEntries /\ Stored' = Stored \ es /\ Entries' = Entries /\ JobRuns' = JobRuns
<1>1. log' = [e \in Entries |-> IF e \in es THEN [log[e] EXCEPT !.in = "gone"] ELSE log[e]]
  BY DEF Delete
<1>2. Entries = 1 .. Len(log) /\ Len(log) \in Nat /\ \A e \in Entries : log[e] \in LogEntry
  BY EntryTypes
<1>3. \A e \in Entries : /\ log'[e] \in LogEntry /\ log'[e].at = log[e].at /\ log'[e].kind = log[e].kind
                         /\ e \in es => log'[e].in = "gone"
                         /\ e \notin es => log'[e].in = log[e].in
  BY <1>1, <1>2 DEF LogEntry
<1>4. log' \in [1 .. Len(log) -> LogEntry]
  BY <1>1, <1>2, <1>3
<1>5. log' \in Seq(LogEntry) /\ Len(log') = Len(log)
  BY <1>2, <1>4, MapLog
<1>6. Entries' = Entries
  BY <1>1 DEF Entries
<1> QED BY <1>3, <1>5, <1>6 DEF SameEntries, Stored, JobRuns

LEMMA SaveLog ==
    ASSUME LogType, NEW e \in Entries, SaveJobRun(e) \/ SaveReceiverEvent(e)
    PROVE  /\ LogType' /\ SameEntries /\ now' = now
           /\ Stored \subseteq Stored' /\ Stored' \subseteq Stored \cup {e}
<1>1. PICK in \in {"stored", "gone"} : log' = [log EXCEPT ![e].in = in]
  BY DEF SaveJobRun, SaveReceiverEvent
<1>2. now' = now
  BY DEF SaveJobRun, SaveReceiverEvent
<1>3. Entries = 1 .. Len(log) /\ \A f \in Entries : log[f] \in LogEntry
  BY EntryTypes
<1>4. log' = [log EXCEPT ![e] = [log[e] EXCEPT !.in = in]]
  BY <1>1
<1>5. [log[e] EXCEPT !.in = in] \in LogEntry
  BY <1>3 DEF LogEntry
<1>6. log' \in Seq(LogEntry) /\ Len(log') = Len(log)
  BY <1>3, <1>4, <1>5 DEF LogType
<1>7. LogType'
  BY <1>2, <1>6 DEF LogType
<1>8. Entries' = Entries
  BY <1>4 DEF Entries
<1>9. \A f \in Entries : /\ f # e => log'[f] = log[f]
                         /\ log'[f].at = log[f].at /\ log'[f].kind = log[f].kind
  BY <1>3, <1>4 DEF LogEntry, LogType
<1>10. e \notin Stored
  BY DEF SaveJobRun, SaveReceiverEvent, Stored
<1> QED BY <1>2, <1>7, <1>8, <1>9, <1>10 DEF SameEntries, Stored

LEMMA LogTime ==
    ASSUME LogType, Log
    PROVE  /\ LogType' /\ SameEntries /\ Stored' \subseteq Stored
           /\ now' \in Nat /\ now <= now'
<1>1. ASSUME NEW kind \in Kinds, Happen(kind)
      PROVE  LogType' /\ SameEntries /\ Stored' \subseteq Stored /\ now' = now
  BY <1>1, HappenLog
<1>2. ASSUME NEW es, Delete(es), now' = now
      PROVE  LogType' /\ SameEntries /\ Stored' \subseteq Stored /\ now' = now
  BY <1>2, DeleteLog DEF LogType
<1>3. ASSUME Tick
      PROVE  LogType' /\ SameEntries /\ Stored' \subseteq Stored /\ now' = now + 1
  BY <1>3 DEF Tick, LogType, SameEntries, Stored, Entries, LogEntry
<1>4. ASSUME NEW limits \in Retentions, PruneRunLogs(limits)
      PROVE  Delete(DeleteOldJobRuns(limits)) /\ now' = now
  BY <1>4 DEF PruneRunLogs
<1>5. ASSUME PruneEventLogs
      PROVE  Delete(PruneEvents) /\ now' = now
  BY <1>5 DEF PruneEventLogs
<1>6. now \in Nat
  BY DEF LogType
<1>7. CASE \E kind \in Kinds : Happen(kind)
  BY <1>1, <1>6, <1>7
<1>8. CASE \E limits \in Retentions : PruneRunLogs(limits)
  BY <1>2, <1>4, <1>6, <1>8
<1>9. CASE PruneEventLogs
  BY <1>2, <1>5, <1>6, <1>9
<1>10. CASE Tick
  BY <1>3, <1>6, <1>10
<1> QED BY <1>7, <1>8, <1>9, <1>10 DEF Log

----------------------------------------------------------------------------
(* The loop.                                                               *)

\* A step on the log keeps the invariant of the loop, if what it stores late is
\* excused.
LEMMA LogKeeps ==
    ASSUME LoopInv, LogType', SameEntries, now' \in Nat, now <= now',
           UNCHANGED <<loopVars, from, reported>>,
           excused \subseteq excused', Stored' \subseteq Entries,
           \A e \in Stored' \ Stored : TooLate(e) => e \in excused'
    PROVE  LoopInv'
<1>1. /\ settings' = settings /\ phase' = phase /\ prev' = prev /\ next' = next
      /\ counted' = counted /\ from' = from /\ reported' = reported
  BY DEF loopVars
<1>2. /\ \A e \in Entries : log[e].at \in Nat
      /\ \A e \in Stored' \ excused' : e \in Entries /\ (e \in Stored \ excused \/ ~TooLate(e))
  BY EntryTypes DEF LoopInv
<1>3. /\ Entries \subseteq Entries'
      /\ \A e \in Entries : log'[e].at = log[e].at /\ log'[e].kind = log[e].kind
  BY DEF SameEntries
<1>4. Start' = Start
  BY <1>1 DEF Start
<1> USE DEF LoopInv
<1>5. LoopType'
  BY <1>1 DEF LoopType
<1>6. InOrder'
  BY <1>1, ConstantTypes DEF InOrder, LoopType, LogType, Building, Phases
<1>7. OnceOnly'
  BY <1>1, <1>3 DEF OnceOnly
<1>8. AllReported'
  <2> SUFFICES ASSUME NEW e \in Stored' \ excused', prev # None, log'[e].at >= from, log'[e].at < prev
               PROVE  reported[e] = 1
    BY <1>1 DEF AllReported, InWindow
  <2> QED BY <1>2, <1>3 DEF AllReported, InWindow, TooLate
<1>9. CountedSoFar'
  <2>1. phase \in Building => counted \subseteq {e \in Entries' : log'[e].at >= Start /\ log'[e].at < next}
    BY <1>3 DEF CountedSoFar, InWindow
  <2>2. ASSUME phase = "jobs", NEW e \in Stored' \ excused', e \in Events',
               log'[e].at >= Start, log'[e].at < next
        PROVE  e \in counted
    <3>1. e \in Entries /\ e \in Events
      BY <1>2, <1>3, <2>2 DEF Events, JobRuns
    <3> QED BY <1>2, <1>3, <2>2, <3>1 DEF CountedSoFar, InWindow, TooLate
  <2>3. ASSUME phase = "send", NEW e \in Stored' \ excused', log'[e].at >= Start, log'[e].at < next
        PROVE  e \in counted
    BY <1>2, <1>3, <2>3 DEF CountedSoFar, InWindow, TooLate
  <2> QED BY <1>1, <1>4, <2>1, <2>2, <2>3 DEF CountedSoFar, InWindow
<1> QED BY <1>5, <1>6, <1>7, <1>8, <1>9

LEMMA LoopInit == Init => LoopInv
<1> SUFFICES ASSUME Init PROVE LoopInv
  OBVIOUS
<1>1. LogType /\ Entries = {}
  BY ConstantTypes DEF Init, LogInit, LogType, Entries
<1>2. LoopType
  BY DEF Init, LoopType, Phases
<1> QED
  BY <1>1, <1>2, ConstantTypes
     DEF Init, LoopInv, InOrder, OnceOnly, AllReported, CountedSoFar, Building, Stored

LEMMA LoopStutter == LoopInv /\ UNCHANGED <<logVars, loopVars, historyVars>> => LoopInv'
BY DEF logVars, loopVars, historyVars, LoopInv, LogType, LoopType, InOrder, OnceOnly, AllReported,
       CountedSoFar, Entries, Stored, JobRuns, Events, InWindow, Start

LEMMA LoopLog == LoopInv /\ Log => LoopInv'
<1> SUFFICES ASSUME LoopInv, Log PROVE LoopInv'
  OBVIOUS
<1>1. /\ LogType' /\ SameEntries /\ Stored' \subseteq Stored
      /\ now' \in Nat /\ now <= now'
  BY LogTime DEF LoopInv
<1>2. UNCHANGED <<loopVars, from, reported>> /\ excused' = excused
  BY DEF Log, historyVars
<1>3. Stored' \subseteq Entries
  BY <1>1, EntryTypes DEF LoopInv
<1> QED BY <1>1, <1>2, <1>3, LogKeeps

LEMMA LoopStore == ASSUME LoopInv, NEW e \in Entries, Store(e) PROVE LoopInv'
<1>1. /\ LogType' /\ SameEntries /\ Stored' \subseteq Stored \cup {e}
      /\ now' = now /\ now \in Nat
  BY SaveLog DEF Store, LoopInv, LogType
<1>2. /\ UNCHANGED <<loopVars, from, reported>>
      /\ excused' = IF TooLate(e) THEN excused \cup {e} ELSE excused
  BY DEF Store
<1>3. Stored' \subseteq Entries
  BY <1>1, EntryTypes DEF LoopInv
<1> QED BY <1>1, <1>2, <1>3, LogKeeps

\* The steps of the loop leave the log alone.
LEMMA LogAlone ==
    ASSUME LogType, UNCHANGED logVars
    PROVE  /\ LogType' /\ Entries' = Entries /\ Stored' = Stored /\ JobRuns' = JobRuns /\ Events' = Events
           /\ now' = now /\ log' = log
BY DEF logVars, LogType, Entries, Stored, JobRuns, Events

LEMMA LoopUpdate ==
    ASSUME LoopInv, NEW enabled \in BOOLEAN, NEW schedule \in Schedules, UpdateReport(enabled, schedule)
    PROVE  LoopInv'
<1>1. ResolveSettings(enabled, schedule) \in Schedules \cup {Disabled}
  BY DEF ResolveSettings
<1>2. /\ settings' = ResolveSettings(enabled, schedule)
      /\ UNCHANGED <<phase, prev, next, counted, from, reported, excused, logVars>>
  BY DEF UpdateReport, Set, historyVars
<1>3. LogType' /\ Entries' = Entries /\ Stored' = Stored /\ Events' = Events /\ now' = now /\ log' = log
  BY <1>2, LogAlone DEF LoopInv
<1>4. LoopType'
  BY <1>1, <1>2 DEF LoopInv, LoopType
<1> QED
  BY <1>2, <1>3, <1>4 DEF LoopInv, InOrder, OnceOnly, AllReported, CountedSoFar, InWindow, Start

\* The moment a report is due lies ahead.
LEMMA DueLater ==
    ASSUME NEW schedule \in Schedules, now \in Nat
    PROVE  Due(schedule) \in Nat /\ now < Due(schedule)
<1>1. schedule.every \in Nat /\ schedule.every > 0
  BY ConstantTypes
<1>2. now % schedule.every \in 0 .. schedule.every - 1
  BY <1>1
<1> QED BY <1>1, <1>2 DEF Due

LEMMA LoopLook == LoopInv /\ Look => LoopInv'
<1> SUFFICES ASSUME LoopInv, Look PROVE LoopInv'
  OBVIOUS
<1>1. /\ phase = "look" /\ UNCHANGED <<settings, prev, counted, from, reported, excused, logVars>>
      /\ IF settings = Disabled THEN phase' = "idle" /\ next' = next ELSE phase' = "wait" /\ next' = Due(settings)
  BY DEF Look, historyVars
<1>2. LogType' /\ Entries' = Entries /\ Stored' = Stored /\ Events' = Events /\ now' = now /\ log' = log
  BY <1>1, LogAlone DEF LoopInv
<1>3. settings # Disabled => Due(settings) \in Nat /\ now < Due(settings)
  BY DueLater DEF LoopInv, LoopType, LogType
<1>4. LoopType'
  BY <1>1, <1>3 DEF LoopInv, LoopType, Phases
<1>5. phase' \notin Building
  BY <1>1 DEF Building
<1>6. InOrder'
  BY <1>1, <1>2, <1>3, <1>5, ConstantTypes DEF InOrder, LoopInv, LoopType, LogType
<1>7. OnceOnly' /\ AllReported'
  BY <1>1, <1>2 DEF LoopInv, OnceOnly, AllReported, InWindow
<1>8. CountedSoFar'
  BY <1>5 DEF CountedSoFar, Building
<1> QED BY <1>2, <1>4, <1>6, <1>7, <1>8 DEF LoopInv

LEMMA LoopChanged == LoopInv /\ WaitChanged => LoopInv'
<1> SUFFICES ASSUME LoopInv, WaitChanged PROVE LoopInv'
  OBVIOUS
<1>1. /\ phase' = "look"
      /\ UNCHANGED <<settings, prev, next, counted, from, reported, excused, logVars>>
  BY DEF WaitChanged, historyVars
<1>2. LogType' /\ Entries' = Entries /\ Stored' = Stored /\ Events' = Events /\ now' = now /\ log' = log
  BY <1>1, LogAlone DEF LoopInv
<1>3. LoopType'
  BY <1>1 DEF LoopInv, LoopType, Phases
<1> QED
  BY <1>1, <1>2, <1>3 DEF LoopInv, InOrder, OnceOnly, AllReported, CountedSoFar, InWindow, Building

LEMMA LoopReached == LoopInv /\ WaitReached => LoopInv'
<1> SUFFICES ASSUME LoopInv, WaitReached PROVE LoopInv'
  OBVIOUS
<1>1. /\ phase = "wait" /\ now >= next /\ phase' = "receivers" /\ counted' = {}
      /\ UNCHANGED <<settings, prev, next, from, reported, excused, logVars>>
  BY DEF WaitReached, historyVars
<1>2. LogType' /\ Entries' = Entries /\ Stored' = Stored /\ Events' = Events /\ now' = now /\ log' = log
  BY <1>1, LogAlone DEF LoopInv
<1>3. LoopType'
  BY <1>1 DEF LoopInv, LoopType, Phases
<1>4. InOrder'
  BY <1>1, <1>2 DEF LoopInv, InOrder, LoopType, LogType
<1>5. OnceOnly' /\ AllReported'
  BY <1>1, <1>2 DEF LoopInv, OnceOnly, AllReported, InWindow
<1>6. CountedSoFar'
  BY <1>1 DEF CountedSoFar
<1> QED BY <1>2, <1>3, <1>4, <1>5, <1>6 DEF LoopInv

\* What a section counts of its window is in the log.
LEMMA SectionsCount ==
    ASSUME LogType, NEW start \in Int, NEW end \in Nat
    PROVE  /\ SummarizeReceiverEvents(start, end) \subseteq {e \in Entries : InWindow(e, start, end)}
           /\ SummarizeJobRuns(start, end) \subseteq {e \in Entries : InWindow(e, start, end)}
           /\ \A e \in Stored : InWindow(e, start, end) =>
                IF e \in Events THEN e \in SummarizeReceiverEvents(start, end)
                ELSE e \in SummarizeJobRuns(start, end)
BY EntryTypes DEF SummarizeReceiverEvents, SummarizeJobRuns, Events

LEMMA StartType == LoopInv => Start \in Int
BY ConstantTypes DEF LoopInv, LoopType, Start

LEMMA LoopReceivers == LoopInv /\ buildReceiverReport => LoopInv'
<1> SUFFICES ASSUME LoopInv, buildReceiverReport PROVE LoopInv'
  OBVIOUS
<1>1. /\ phase = "receivers" /\ phase' = "jobs"
      /\ UNCHANGED <<settings, prev, next, from, reported, logVars>>
  BY DEF buildReceiverReport
<1>2. \/ counted' = SummarizeReceiverEvents(Start, next) /\ excused' = excused
      \/ counted' = counted /\ excused' = excused \cup {e \in Events : InWindow(e, Start, next)}
  BY DEF buildReceiverReport
<1>3. /\ LogType' /\ Entries' = Entries /\ Stored' = Stored /\ Events' = Events
      /\ now' = now /\ log' = log /\ Start' = Start
  BY <1>1, LogAlone DEF LoopInv, Start
<1>4. LoopType'
  BY <1>1 DEF LoopInv, LoopType, Phases
<1>5. InOrder'
  BY <1>1, <1>3 DEF LoopInv, InOrder, Building
<1>6. OnceOnly' /\ AllReported'
  BY <1>1, <1>2, <1>3 DEF LoopInv, OnceOnly, AllReported, InWindow
<1>7. counted \subseteq {e \in Entries : InWindow(e, Start, next)}
  BY <1>1 DEF LoopInv, CountedSoFar, Building
<1>8. /\ counted' \subseteq {e \in Entries : InWindow(e, Start, next)}
      /\ \A e \in Stored \ excused' : e \in Events /\ InWindow(e, Start, next) => e \in counted'
  BY <1>2, <1>7, SectionsCount, StartType DEF LoopInv, LoopType
<1>9. CountedSoFar'
  BY <1>1, <1>3, <1>8 DEF CountedSoFar, InWindow
<1> QED BY <1>3, <1>4, <1>5, <1>6, <1>9 DEF LoopInv

LEMMA LoopJobs == LoopInv /\ buildJobReport => LoopInv'
<1> SUFFICES ASSUME LoopInv, buildJobReport PROVE LoopInv'
  OBVIOUS
<1>1. /\ phase = "jobs" /\ phase' = "send"
      /\ UNCHANGED <<settings, prev, next, from, reported, logVars>>
  BY DEF buildJobReport
<1>2. \/ counted' = counted \cup SummarizeJobRuns(Start, next) /\ excused' = excused
      \/ counted' = counted /\ excused' = excused \cup {e \in JobRuns : InWindow(e, Start, next)}
  BY DEF buildJobReport
<1>3. /\ LogType' /\ Entries' = Entries /\ Stored' = Stored /\ Events' = Events
      /\ now' = now /\ log' = log /\ Start' = Start
  BY <1>1, LogAlone DEF LoopInv, Start
<1>4. LoopType'
  BY <1>1 DEF LoopInv, LoopType, Phases
<1>5. InOrder'
  BY <1>1, <1>3 DEF LoopInv, InOrder, Building
<1>6. OnceOnly' /\ AllReported'
  BY <1>1, <1>2, <1>3 DEF LoopInv, OnceOnly, AllReported, InWindow
<1>7. /\ counted \subseteq {e \in Entries : InWindow(e, Start, next)}
      /\ \A e \in Stored \ excused : e \in Events /\ InWindow(e, Start, next) => e \in counted
  BY <1>1 DEF LoopInv, CountedSoFar, Building
<1>8. Stored \subseteq Events \cup JobRuns
  BY EntryTypes DEF LoopInv, Events
<1>9. /\ counted' \subseteq {e \in Entries : InWindow(e, Start, next)}
      /\ \A e \in Stored \ excused' : InWindow(e, Start, next) => e \in counted'
  BY <1>2, <1>7, <1>8, SectionsCount, StartType DEF LoopInv, LoopType
<1>10. CountedSoFar'
  BY <1>1, <1>3, <1>9 DEF CountedSoFar, InWindow
<1> QED BY <1>3, <1>4, <1>5, <1>6, <1>10 DEF LoopInv

\* The report of a window: what it counts was in no report before.
LEMMA LoopSend == LoopInv /\ sendReport => LoopInv'
<1> SUFFICES ASSUME LoopInv, sendReport PROVE LoopInv'
  OBVIOUS
<1>1. /\ phase = "send" /\ phase' = "look" /\ prev' = next
      /\ from' = IF prev = None THEN Start ELSE from
      /\ reported' = [e \in 1 .. MaxEntries |-> reported[e] + (IF e \in counted THEN 1 ELSE 0)]
      /\ UNCHANGED <<settings, next, excused, logVars>>
  BY DEF sendReport
<1>2. LogType' /\ Entries' = Entries /\ Stored' = Stored /\ now' = now /\ log' = log
  BY <1>1, LogAlone DEF LoopInv
<1>3. /\ prev \in Nat \cup {None} /\ next \in Nat /\ from \in Int /\ next <= now
      /\ reported \in [1 .. MaxEntries -> Nat]
      /\ prev # None => prev < next
  BY <1>1 DEF LoopInv, LoopType, InOrder, Building
<1>4. /\ counted \subseteq {e \in Entries : InWindow(e, Start, next)}
      /\ \A e \in Stored \ excused : InWindow(e, Start, next) => e \in counted
  BY <1>1 DEF LoopInv, CountedSoFar, Building
<1>5. /\ \A e \in Entries : e \in 1 .. MaxEntries /\ log[e].at \in Nat
      /\ Stored \subseteq Entries
  BY EntryTypes DEF LoopInv
<1>6. LoopType'
  <2>1. from' \in Int
    BY <1>1, <1>3, StartType
  <2>2. reported' \in [1 .. MaxEntries -> Nat]
    BY <1>1, <1>3
  <2> QED BY <1>1, <1>3, <2>1, <2>2 DEF LoopInv, LoopType, Phases
<1>7. InOrder'
  BY <1>1, <1>2, <1>3, ConstantTypes DEF InOrder, Building
<1>8. \A e \in counted : e \in 1 .. MaxEntries /\ reported[e] = 0 /\ reported'[e] = 1 /\ log[e].at < next
  <2> SUFFICES ASSUME NEW e \in counted
               PROVE  e \in 1 .. MaxEntries /\ reported[e] = 0 /\ reported'[e] = 1 /\ log[e].at < next
    OBVIOUS
  <2>1. e \in 1 .. MaxEntries /\ log[e].at \in Nat /\ log[e].at >= Start /\ log[e].at < next
    BY <1>4, <1>5 DEF InWindow
  <2>2. reported[e] \in Nat /\ reported[e] <= 1
    BY <1>3, <2>1 DEF LoopInv, OnceOnly
  <2>3. reported[e] # 1
    BY <1>3, <2>1, ConstantTypes DEF LoopInv, OnceOnly, Start
  <2> QED BY <1>1, <2>1, <2>2, <2>3
<1>9. \A e \in (1 .. MaxEntries) \ counted : reported'[e] = reported[e]
  BY <1>1, <1>3
<1>10. OnceOnly'
  <2> SUFFICES ASSUME NEW e \in 1 .. MaxEntries
               PROVE  /\ reported'[e] <= 1
                      /\ reported'[e] = 1 => e \in Entries /\ next # None /\ log[e].at < next
    BY <1>1, <1>2 DEF OnceOnly
  <2>1. CASE e \in counted
    BY <1>3, <1>4, <1>8, <2>1, ConstantTypes
  <2>2. CASE e \notin counted
    BY <1>3, <1>5, <1>9, <2>2, ConstantTypes DEF LoopInv, OnceOnly
  <2> QED BY <2>1, <2>2
<1>11. AllReported'
  <2> SUFFICES ASSUME NEW e \in Stored \ excused, log[e].at >= from', log[e].at < next
               PROVE  reported'[e] = 1
    BY <1>1, <1>2 DEF AllReported, InWindow
  <2>1. e \in 1 .. MaxEntries /\ log[e].at \in Nat
    BY <1>5
  <2>2. CASE e \in counted
    BY <1>8, <2>2
  <2>3. CASE e \notin counted
    <3>1. ~(log[e].at >= Start)
      BY <1>4, <2>3 DEF InWindow
    <3>2. prev # None /\ log[e].at < prev /\ log[e].at >= from
      BY <1>1, <1>3, <2>1, <3>1 DEF Start
    <3>3. reported[e] = 1
      BY <3>2 DEF LoopInv, AllReported, InWindow
    <3> QED BY <1>9, <2>1, <2>3, <3>3
  <2> QED BY <2>2, <2>3
<1>12. CountedSoFar'
  BY <1>1 DEF CountedSoFar, Building
<1> QED BY <1>2, <1>6, <1>7, <1>10, <1>11, <1>12 DEF LoopInv

LEMMA LoopStep == LoopInv /\ [Next]_vars => LoopInv'
<1> SUFFICES ASSUME LoopInv, [Next]_vars PROVE LoopInv'
  OBVIOUS
<1>1. CASE Log
  BY <1>1, LoopLog
<1>2. CASE Queue
  BY <1>2, LoopStutter DEF Queue
<1>3. CASE \E e \in Entries : Store(e)
  BY <1>3, LoopStore
<1>4. CASE \E enabled \in BOOLEAN, schedule \in Schedules : UpdateReport(enabled, schedule)
  BY <1>4, LoopUpdate
<1>5. CASE Look \/ WaitChanged \/ WaitReached
  BY <1>5, LoopLook, LoopChanged, LoopReached
<1>6. CASE buildReceiverReport \/ buildJobReport \/ sendReport
  BY <1>6, LoopReceivers, LoopJobs, LoopSend
<1>7. CASE UNCHANGED vars
  BY <1>7, LoopStutter DEF vars
<1> QED BY <1>1, <1>2, <1>3, <1>4, <1>5, <1>6, <1>7 DEF Next

\* Every run and every request is in one report and in no second one, for any
\* schedules and however the loop is edited and delayed (reporter.go).
THEOREM ReportsOnce == Spec => []ReportedOnce
<1>1. LoopInv => ReportedOnce
  BY EntryTypes DEF LoopInv, OnceOnly, AllReported, ReportedOnce
<1> QED BY <1>1, LoopInit, LoopStep, PTL DEF Spec

----------------------------------------------------------------------------
(* Pruning.                                                                *)

\* Among some entries one is the newest.
LEMMA NewestExists ==
    ASSUME NEW n \in Nat, NEW S \in SUBSET (1 .. n), S # {}
    PROVE  \E e \in S : e \in Newest(S)
<1> DEFINE R == {ss \in Nat \X Nat : ss[1] < ss[2]}
           T == {n - e : e \in S}
<1>1. IsWellFoundedOn(R, Nat)
  <2>1. OpToRel(<, Nat) = R
    BY DEF OpToRel
  <2> QED BY <2>1, NatLessThanWellFounded
<1>2. T \in SUBSET Nat /\ T # {}
  <2>1. \A e \in S : n - e \in Nat
    OBVIOUS
  <2> QED BY <2>1
<1>3. PICK x \in T : \A y \in T : <<y, x>> \notin R
  <2> HIDE DEF R, T
  <2> QED BY <1>1, <1>2, WFMin
<1>4. PICK e \in S : x = n - e
  BY <1>3
<1>5. ASSUME NEW f \in S PROVE f <= e
  <2>1. n - f \in T /\ <<n - f, x>> \in Nat \X Nat
    BY <1>2, <1>3
  <2>2. ~(n - f < n - e)
    BY <1>3, <1>4, <2>1
  <2>3. e \in Nat /\ f \in Nat
    OBVIOUS
  <2> QED BY <2>2, <2>3
<1> QED BY <1>4, <1>5 DEF Newest

\* The newest of some entries stays the newest while it is there.
LEMMA NewestStays ==
    ASSUME NEW n \in Nat, NEW S \in SUBSET (1 .. n), NEW T \in SUBSET S, Newest(S) \subseteq T
    PROVE  Newest(T) = Newest(S)
<1>1. CASE S = {}
  BY <1>1
<1>2. CASE S # {}
  <2>1. PICK e \in S : e \in Newest(S)
    BY <1>2, NewestExists
  <2>2. \A f \in T : f \in Newest(T) => f = e
    BY <2>1 DEF Newest
  <2>3. \A f \in S : f \in Newest(S) => f = e
    BY <2>1 DEF Newest
  <2>4. e \in Newest(T)
    BY <2>1 DEF Newest
  <2>5. Newest(S) = {e} /\ Newest(T) = {e}
    BY <2>1, <2>2, <2>3, <2>4 DEF Newest
  <2> QED BY <2>5
<1> QED BY <1>1, <1>2

\* Neither limit deletes the newest run, nor the newest that succeeded.
LEMMA NewestSpared ==
    ASSUME LogType, NEW limits,
           NEW rows, rows = Stored \cap JobRuns,
           NEW oks, oks = {e \in rows : log[e].kind = "ok"}
    PROVE  (Newest(rows) \cup Newest(oks)) \cap DeleteOldJobRuns(limits) = {}
<1> DEFINE aged == ByAge(rows, limits.days)
           left == rows \ aged
           good == {e \in left : log[e].kind = "ok"}
<1>1. PICK n \in Nat : rows \in SUBSET (1 .. n) /\ oks \in SUBSET (1 .. n)
  BY EntryTypes
<1>2. (Newest(rows) \cup Newest(oks)) \cap aged = {}
  BY DEF ByAge, Keep
<1>3. DeleteOldJobRuns(limits) = aged \cup ByCount(left, limits.rows)
  BY DEF DeleteOldJobRuns
<1>4. (Newest(left) \cup Newest(good)) \cap ByCount(left, limits.rows) = {}
  BY DEF ByCount, Keep
<1>5. Newest(rows) \subseteq rows /\ Newest(oks) \subseteq oks
  BY DEF Newest
<1>6. /\ left \in SUBSET rows /\ good \in SUBSET oks
      /\ Newest(rows) \subseteq left /\ Newest(oks) \subseteq good
  BY <1>2, <1>5
<1>7. Newest(left) = Newest(rows) /\ Newest(good) = Newest(oks)
  <2> HIDE DEF left, good, aged
  <2> QED BY <1>1, <1>6, NewestStays
<1> QED BY <1>2, <1>3, <1>4, <1>7

\* What a restart reads, in two sets.
LEMMA LastRows ==
    /\ GetLastRun = Newest(Stored \cap JobRuns)
    /\ GetLastJobSuccess = Newest({e \in Stored \cap JobRuns : log[e].kind = "ok"})
<1>1. {e \in Stored : log[e].kind = "ok"} = {e \in Stored \cap JobRuns : log[e].kind = "ok"}
  BY DEF Stored, JobRuns
<1> QED BY <1>1 DEF GetLastRun, GetLastJobSuccess

\* Runs that stay in the log without the newest being deleted.
LEMMA SameLast ==
    ASSUME LogType, SameEntries, Stored' \subseteq Stored,
           (GetLastRun \cup GetLastJobSuccess) \subseteq Stored'
    PROVE  GetLastRun' = GetLastRun /\ GetLastJobSuccess' = GetLastJobSuccess
<1> DEFINE rows == Stored \cap JobRuns
           oks  == {e \in rows : log[e].kind = "ok"}
<1>1. PICK n \in Nat : rows \in SUBSET (1 .. n) /\ oks \in SUBSET (1 .. n)
  BY EntryTypes
<1>2. \A e \in Stored : e \in Entries /\ e \in Entries' /\ log'[e].kind = log[e].kind
  BY EntryTypes DEF SameEntries
<1>3. (Stored \cap JobRuns)' = {e \in rows : e \in Stored'}
  BY <1>2 DEF JobRuns
<1>4. {e \in Stored \cap JobRuns : log[e].kind = "ok"}' = {e \in oks : e \in Stored'}
  BY <1>2, <1>3
<1>5. GetLastRun = Newest(rows) /\ GetLastJobSuccess = Newest(oks)
  BY LastRows
<1>6. GetLastRun' = Newest((Stored \cap JobRuns)')
  BY DEF GetLastRun, Newest
<1>7. GetLastJobSuccess' = Newest({e \in Stored \cap JobRuns : log[e].kind = "ok"}')
  <2>1. (GetLastJobSuccess = Newest({e \in Stored \cap JobRuns : log[e].kind = "ok"}))'
    BY LastRows, PTL
  <2> QED BY <2>1 DEF Newest
<1>8. Newest(rows) \subseteq rows /\ Newest(oks) \subseteq oks
  BY DEF Newest
<1> HIDE DEF rows, oks
<1>9. Newest({e \in rows : e \in Stored'}) = Newest(rows)
  BY <1>1, <1>5, <1>8, NewestStays
<1>10. Newest({e \in oks : e \in Stored'}) = Newest(oks)
  BY <1>1, <1>5, <1>8, NewestStays
<1> QED BY <1>3, <1>4, <1>5, <1>6, <1>7, <1>9, <1>10

LEMMA PruneSpares ==
    ASSUME LogType, NEW es, Delete(es), (GetLastRun \cup GetLastJobSuccess) \cap es = {}
    PROVE  GetLastRun' = GetLastRun /\ GetLastJobSuccess' = GetLastJobSuccess
<1>1. SameEntries /\ Stored' = Stored \ es
  BY DeleteLog
<1>2. (GetLastRun \cup GetLastJobSuccess) \subseteq Stored
  BY DEF GetLastRun, GetLastJobSuccess, Newest
<1> QED BY <1>1, <1>2, SameLast

LEMMA StepSpares ==
    ASSUME LogType, [Next]_vars, log' # log, Stored' \subseteq Stored
    PROVE  GetLastRun' = GetLastRun /\ GetLastJobSuccess' = GetLastJobSuccess
<1>1. (GetLastRun \cup GetLastJobSuccess) \subseteq Stored \cap JobRuns
  BY LastRows DEF Newest
<1>2. ASSUME SameEntries, Stored \subseteq Stored'
      PROVE  GetLastRun' = GetLastRun /\ GetLastJobSuccess' = GetLastJobSuccess
  BY <1>1, <1>2, SameLast
<1>3. CASE \E kind \in Kinds : Happen(kind)
  BY <1>2, <1>3, HappenLog
<1>4. CASE \E limits \in Retentions : PruneRunLogs(limits)
  <2>1. PICK limits \in Retentions : Delete(DeleteOldJobRuns(limits))
    BY <1>4 DEF PruneRunLogs
  <2>2. (GetLastRun \cup GetLastJobSuccess) \cap DeleteOldJobRuns(limits) = {}
    BY LastRows, NewestSpared
  <2> QED BY <2>1, <2>2, PruneSpares
<1>5. CASE PruneEventLogs
  <2>1. Delete(PruneEvents)
    BY <1>5 DEF PruneEventLogs
  <2>2. (GetLastRun \cup GetLastJobSuccess) \cap PruneEvents = {}
    BY <1>1 DEF PruneEvents, Events
  <2> QED BY <2>1, <2>2, PruneSpares
<1>6. CASE \E e \in Entries : Store(e)
  BY <1>2, <1>6, SaveLog DEF Store
<1>7. ASSUME Log PROVE \/ \E kind \in Kinds : Happen(kind)
                       \/ \E limits \in Retentions : PruneRunLogs(limits)
                       \/ PruneEventLogs
  BY <1>7 DEF Log, Tick
<1>8. Next => Log \/ (\E e \in Entries : Store(e)) \/ UNCHANGED log
  BY DEF Next, Queue, UpdateReport, Look, WaitChanged, WaitReached, buildReceiverReport, buildJobReport,
         sendReport, logVars
<1> QED BY <1>3, <1>4, <1>5, <1>6, <1>7, <1>8 DEF vars, logVars

\* Whatever limits are set and whenever they are applied, a restart reads the
\* same last run and last success as before (log_retention.go).
THEOREM LastRunStays == Spec => LastRunKept
<1>1. LoopInv /\ [Next]_vars
      => [Stored' \subseteq Stored =>
            GetLastRun' = GetLastRun /\ GetLastJobSuccess' = GetLastJobSuccess]_log
  BY StepSpares DEF LoopInv
<1>2. Spec => []LoopInv
  BY LoopInit, LoopStep, PTL DEF Spec
<1> QED BY <1>1, <1>2, PTL DEF Spec, LastRunKept

----------------------------------------------------------------------------
(* The mails.                                                              *)

\* Each part of the queue holds a mail once and no two hold the same; together
\* they are what is owed, and that is of windows that are over.
Parts ==
    /\ IsInjective(failing) /\ IsInjective(pending) /\ IsInjective(items)
    /\ Range(failing) \cap Range(pending) = {}
    /\ Range(failing) \cap Range(items) = {}
    /\ Range(pending) \cap Range(items) = {}
    /\ owed = Range(failing) \cup Range(pending) \cup Range(items)

OfThePast == \A m \in owed : prev # None /\ m <= prev

MailInv == MailType /\ Parts /\ OfThePast

LEMMA JoinMails ==
    ASSUME NEW S, NEW s \in Seq(S), NEW t \in Seq(S)
    PROVE  /\ Range(s \o t) = Range(s) \cup Range(t)
           /\ IsInjective(s) /\ IsInjective(t) /\ Range(s) \cap Range(t) = {} => IsInjective(s \o t)
<1> DEFINE st == s \o t
<1>1. /\ Len(s) \in Nat /\ Len(t) \in Nat
      /\ DOMAIN s = 1 .. Len(s) /\ DOMAIN t = 1 .. Len(t) /\ DOMAIN st = 1 .. Len(s) + Len(t)
      /\ \A i \in 1 .. Len(s) : st[i] = s[i]
      /\ \A i \in 1 .. Len(t) : st[Len(s) + i] = t[i]
  OBVIOUS
<1> HIDE DEF st
<1>2. \A i \in DOMAIN st : \/ i \in DOMAIN s /\ st[i] = s[i]
                           \/ i - Len(s) \in DOMAIN t /\ st[i] = t[i - Len(s)]
  <2> TAKE i \in DOMAIN st
  <2>1. CASE i \in DOMAIN s
    BY <1>1, <2>1
  <2>2. CASE i \notin DOMAIN s
    <3>1. i - Len(s) \in 1 .. Len(t) /\ Len(s) + (i - Len(s)) = i
      BY <1>1, <2>2
    <3>2. st[i] = t[i - Len(s)]
      BY <1>1, <3>1
    <3> QED BY <1>1, <3>1, <3>2
  <2> QED BY <2>1, <2>2
<1>3. \A i \in DOMAIN t : Len(s) + i \in DOMAIN st /\ st[Len(s) + i] = t[i]
  BY <1>1
<1>4. \A i \in DOMAIN s : i \in DOMAIN st /\ st[i] = s[i]
  BY <1>1
<1>5. Range(st) = Range(s) \cup Range(t)
  BY <1>2, <1>3, <1>4 DEF Range
<1>6. ASSUME IsInjective(s), IsInjective(t), Range(s) \cap Range(t) = {},
             NEW i \in DOMAIN st, NEW j \in DOMAIN st, st[i] = st[j]
      PROVE  i = j
  <2>1. CASE i \in DOMAIN s /\ st[i] = s[i] /\ j \in DOMAIN s /\ st[j] = s[j]
    BY <1>6, <2>1 DEF IsInjective
  <2>2. CASE i - Len(s) \in DOMAIN t /\ st[i] = t[i - Len(s)] /\ j - Len(s) \in DOMAIN t /\ st[j] = t[j - Len(s)]
    <3>1. i - Len(s) = j - Len(s)
      BY <1>6, <2>2 DEF IsInjective
    <3> QED BY <1>1, <3>1
  <2>3. ~(st[i] \in Range(s) /\ st[j] \in Range(t)) /\ ~(st[i] \in Range(t) /\ st[j] \in Range(s))
    BY <1>6
  <2> QED BY <1>2, <2>1, <2>2, <2>3 DEF Range
<1>7. IsInjective(s) /\ IsInjective(t) /\ Range(s) \cap Range(t) = {} => IsInjective(st)
  BY <1>6 DEF IsInjective
<1> QED BY <1>5, <1>7 DEF st

LEMMA OneMail ==
    ASSUME NEW m
    PROVE  <<m>> \in Seq({m}) /\ Range(<<m>>) = {m} /\ IsInjective(<<m>>)
BY DEF Range, IsInjective

LEMMA NoMail == Range(<<>>) = {} /\ IsInjective(<<>>)
BY DEF Range, IsInjective

LEMMA AppendMail ==
    ASSUME NEW S, NEW s \in Seq(S), NEW m \in S
    PROVE  /\ Append(s, m) \in Seq(S) /\ Range(Append(s, m)) = Range(s) \cup {m}
           /\ IsInjective(s) /\ m \notin Range(s) => IsInjective(Append(s, m))
<1> DEFINE one == <<m>>
<1>1. Append(s, m) = s \o one /\ one \in Seq(S) /\ Append(s, m) \in Seq(S)
  OBVIOUS
<1>2. Range(one) = {m} /\ IsInjective(one)
  BY OneMail
<1> HIDE DEF one
<1>3. Range(s \o one) = Range(s) \cup {m}
  BY <1>1, <1>2, JoinMails
<1>4. IsInjective(s) /\ m \notin Range(s) => IsInjective(s \o one)
  BY <1>1, <1>2, JoinMails
<1> QED BY <1>1, <1>3, <1>4

LEMMA FirstMail ==
    ASSUME NEW S, NEW s \in Seq(S), s # <<>>, IsInjective(s)
    PROVE  /\ Head(s) \in S /\ Tail(s) \in Seq(S) /\ IsInjective(Tail(s))
           /\ Range(s) = {Head(s)} \cup Range(Tail(s)) /\ Head(s) \notin Range(Tail(s))
<1> DEFINE t == Tail(s)
<1>1. /\ Head(s) \in S /\ t \in Seq(S) /\ Head(s) = s[1]
      /\ Len(s) \in Nat /\ Len(s) >= 1 /\ DOMAIN s = 1 .. Len(s) /\ DOMAIN t = 1 .. Len(s) - 1
      /\ \A i \in 1 .. Len(s) - 1 : t[i] = s[i + 1]
  OBVIOUS
<1>2. \A i \in DOMAIN t : i + 1 \in DOMAIN s /\ i + 1 # 1 /\ t[i] = s[i + 1]
  BY <1>1
<1>3. \A i \in DOMAIN s : i = 1 \/ (i - 1 \in DOMAIN t /\ t[i - 1] = s[i])
  <2> SUFFICES ASSUME NEW i \in DOMAIN s, i # 1 PROVE i - 1 \in DOMAIN t /\ t[i - 1] = s[i]
    OBVIOUS
  <2>1. i - 1 \in 1 .. Len(s) - 1 /\ (i - 1) + 1 = i
    BY <1>1
  <2> QED BY <1>1, <2>1
<1>4. 1 \in DOMAIN s
  BY <1>1
<1> HIDE DEF t
<1>5. Range(s) = {s[1]} \cup Range(t)
  BY <1>2, <1>3, <1>4 DEF Range
<1>6. s[1] \notin Range(t)
  BY <1>2, <1>4 DEF Range, IsInjective
<1>7. IsInjective(t)
  <2> SUFFICES ASSUME NEW i \in DOMAIN t, NEW j \in DOMAIN t, t[i] = t[j] PROVE i = j
    BY DEF IsInjective
  <2>1. i + 1 = j + 1
    BY <1>2 DEF IsInjective
  <2> QED BY <1>1, <2>1
<1> QED BY <1>1, <1>5, <1>6, <1>7 DEF t

LEMMA MailsInit == Init => MailInv
BY NoMail DEF Init, MailInit, MailInv, MailType, Parts, OfThePast

LEMMA MailStutter == MailInv /\ UNCHANGED <<mailVars, prev>> => MailInv'
<1> SUFFICES ASSUME MailInv, UNCHANGED <<mailVars, prev>> PROVE MailInv'
  OBVIOUS
<1>1. items' = items /\ pending' = pending /\ failing' = failing /\ owed' = owed /\ prev' = prev
  BY DEF mailVars
<1> QED BY <1>1 DEF MailInv, MailType, Parts, OfThePast

\* The mail of a window that was not over before is not in the queue.
LEMMA MailSend == ASSUME LoopInv, MailInv, sendReport PROVE MailInv'
<1>1. /\ SendMailQueued(next) /\ prev' = next
      /\ next \in Nat /\ prev \in Nat \cup {None} /\ (prev # None => prev < next)
  BY DEF sendReport, LoopInv, LoopType, InOrder, Building
<1>2. \A m \in owed : m \in Nat /\ m < next
  <2>1. \A m \in owed : m \in Nat
    BY DEF MailInv, MailType, Parts, Range
  <2> QED BY <1>1, <2>1 DEF MailInv, OfThePast
<1>3. PICK err \in BOOLEAN :
         /\ owed' = IF err THEN owed \cup {next} ELSE owed \ {next}
         /\ items' = IF err THEN Append(items, next) ELSE items
         /\ pending' = pending /\ failing' = failing
  BY <1>1 DEF SendMailQueued, SendMail, enqueue
<1>4. next \notin owed
  BY <1>1, <1>2
<1>5. OfThePast'
  BY <1>1, <1>2, <1>3, ConstantTypes DEF OfThePast
<1>6. CASE err
  <2>1. /\ items' \in Seq(Nat) /\ Range(items') = Range(items) \cup {next}
        /\ IsInjective(items')
    BY <1>1, <1>3, <1>4, <1>6, AppendMail DEF MailInv, MailType, Parts
  <2> QED BY <1>3, <1>4, <1>5, <1>6, <2>1 DEF MailInv, MailType, Parts
<1>7. CASE ~err
  BY <1>3, <1>4, <1>5, <1>7 DEF MailInv, MailType, Parts
<1> QED BY <1>6, <1>7

LEMMA MailRetry ==
    ASSUME MailInv, Queue
    PROVE  MailInv'
<1>1. prev' = prev /\ (BeginRetry \/ Retry \/ EndRetry)
  BY DEF Queue, loopVars
<1> USE DEF MailInv, MailType
<1>2. CASE BeginRetry
  <2>1. /\ pending = <<>> /\ failing = <<>> /\ pending' = items /\ items' = <<>>
        /\ failing' = failing /\ owed' = owed
    BY <1>2 DEF BeginRetry
  <2> QED BY <1>1, <2>1, NoMail DEF Parts, OfThePast
<1>3. CASE Retry
  <2> DEFINE m == Head(pending)
  <2>1. PICK err \in BOOLEAN :
          /\ owed' = IF err THEN owed \cup {m} ELSE owed \ {m}
          /\ failing' = IF err THEN Append(failing, m) ELSE failing
    BY <1>3 DEF Retry, SendMail
  <2>2. pending # <<>> /\ pending' = Tail(pending) /\ items' = items
    BY <1>3 DEF Retry
  <2>3. /\ m \in Nat /\ pending' \in Seq(Nat) /\ IsInjective(pending')
        /\ Range(pending) = {m} \cup Range(pending') /\ m \notin Range(pending')
    BY <2>2, FirstMail DEF Parts
  <2> HIDE DEF m
  <2>4. m \in owed /\ m \notin Range(failing) /\ m \notin Range(items)
    BY <2>3 DEF Parts
  <2>5. OfThePast'
    BY <1>1, <2>1, <2>4 DEF OfThePast
  <2>6. CASE err
    <3>1. /\ failing' \in Seq(Nat) /\ Range(failing') = Range(failing) \cup {m}
          /\ IsInjective(failing')
      BY <2>1, <2>3, <2>4, <2>6, AppendMail DEF Parts
    <3> QED BY <2>1, <2>2, <2>3, <2>4, <2>5, <2>6, <3>1 DEF Parts
  <2>7. CASE ~err
    BY <2>1, <2>2, <2>3, <2>4, <2>5, <2>7 DEF Parts
  <2> QED BY <2>6, <2>7
<1>4. CASE EndRetry
  <2>1. /\ items' = failing \o items /\ failing' = <<>> /\ pending' = pending /\ owed' = owed
    BY <1>4 DEF EndRetry, PutBack
  <2>2. /\ items' \in Seq(Nat) /\ Range(items') = Range(failing) \cup Range(items)
        /\ IsInjective(items')
    BY <2>1, JoinMails DEF Parts
  <2> QED BY <1>1, <2>1, <2>2, NoMail DEF Parts, OfThePast
<1> QED BY <1>1, <1>2, <1>3, <1>4

LEMMA MailStep == LoopInv /\ MailInv /\ [Next]_vars => MailInv'
<1> SUFFICES ASSUME LoopInv, MailInv, [Next]_vars PROVE MailInv'
  OBVIOUS
<1>1. CASE Queue
  BY <1>1, MailRetry
<1>2. CASE sendReport
  BY <1>2, MailSend
<1>3. CASE UNCHANGED <<mailVars, prev>>
  BY <1>3, MailStutter
<1>4. Next => Queue \/ sendReport \/ UNCHANGED <<mailVars, prev>>
  BY DEF Next, Log, Store, UpdateReport, Look, WaitChanged, WaitReached, buildReceiverReport, buildJobReport,
         loopVars
<1> QED BY <1>1, <1>2, <1>3, <1>4 DEF vars, loopVars

\* The parts together are the mails that wait.
LEMMA MailParts == MailInv => MailNotLost
<1> SUFFICES ASSUME MailInv PROVE MailNotLost
  OBVIOUS
<1> USE DEF MailInv, MailType
<1> DEFINE first == failing \o pending
<1>1. /\ first \in Seq(Nat) /\ Range(first) = Range(failing) \cup Range(pending)
      /\ IsInjective(first)
  BY JoinMails DEF Parts
<1>2. Range(first) \cap Range(items) = {}
  BY <1>1 DEF Parts
<1> HIDE DEF first
<1>3. Range(first \o items) = Range(first) \cup Range(items) /\ IsInjective(first \o items)
  BY <1>1, <1>2, JoinMails DEF Parts
<1> QED BY <1>1, <1>3 DEF MailNotLost, Parts, first

\* A mail handed over is known delivered or waits for one more try, however
\* often one is queued while others are tried (notify/queue.go).
THEOREM MailWaits == Spec => []MailNotLost
<1>1. Spec => [](LoopInv /\ MailInv)
  BY LoopInit, LoopStep, MailsInit, MailStep, PTL DEF Spec
<1> QED BY <1>1, MailParts, PTL
=============================================================================
