------------------------ MODULE JobScheduler_proofs ------------------------
(***************************************************************************)
(* Theorems about JobScheduler: schedules hand over one after another, and *)
(* runs never overlap, for any number of edits and requests.               *)
(***************************************************************************)
EXTENDS JobScheduler, TLAPS

\* A schedule's watcher runs only while the schedule does.
WatcherInside ==
    \A i \in Numbers : schedule[i].pc \in {"none", "handover", "begin", "done"} => schedule[i].watcher = "off"

\* Only the newest schedule of an active job has not been stopped.
OthersStopped ==
    \A i \in Numbers : i <= newest /\ (i # newest \/ job = NoJob) => schedule[i].stopped

Inv == TypeOK /\ OneScheduler /\ WatcherInside /\ OthersStopped

\* The bounds are numbers.
LEMMA BoundsAreNat == MaxSchedules \in Nat \ {0} /\ MaxManual \in Nat
  BY JobSchedulerAssumption

\* Stopping a job's schedule changes nothing else.
LEMMA StoppedStops ==
    ASSUME TypeOK
    PROVE  /\ Stopped \in [Numbers -> Schedules]
           /\ \A i \in Numbers : /\ Stopped[i].def = schedule[i].def
                                 /\ Stopped[i].pc = schedule[i].pc
                                 /\ Stopped[i].watcher = schedule[i].watcher
                                 /\ Stopped[i].stopped <=> schedule[i].stopped \/ i = newest
<1> SUFFICES ASSUME NEW i \in Numbers
             PROVE  /\ Stopped[i] \in Schedules
                    /\ Stopped[i].def = schedule[i].def
                    /\ Stopped[i].pc = schedule[i].pc
                    /\ Stopped[i].watcher = schedule[i].watcher
                    /\ Stopped[i].stopped <=> schedule[i].stopped \/ i = newest
  BY DEF Stopped
<1>1. schedule[i] \in Schedules
  BY DEF TypeOK
<1>2. Stopped[i] = [schedule[i] EXCEPT !.stopped = schedule[i].stopped \/ i = newest]
  BY DEF Stopped
<1> QED BY <1>1, <1>2 DEF Schedules

\* Starting a schedule keeps the others and stops the one before.
LEMMA ScheduleLocked ==
    ASSUME TypeOK, NEW d \in Definitions, NEW resumed \in BOOLEAN, scheduleLocked(d, resumed)
    PROVE  /\ newest + 1 \in Numbers /\ newest' = newest + 1
           /\ schedule' \in [Numbers -> Schedules]
           /\ schedule'[newest + 1] = NewSchedule(d, resumed, IF newest = 0 THEN "begin" ELSE "handover")
           /\ \A i \in Numbers : i # newest + 1 =>
                 /\ schedule'[i].def = schedule[i].def
                 /\ schedule'[i].pc = schedule[i].pc
                 /\ schedule'[i].watcher = schedule[i].watcher
                 /\ schedule'[i].stopped <=> schedule[i].stopped \/ i = newest
<1>1. newest \in Nat /\ newest + 1 \in Numbers
  BY JobSchedulerAssumption DEF scheduleLocked, TypeOK, Numbers
<1>2. NewSchedule(d, resumed, IF newest = 0 THEN "begin" ELSE "handover") \in Schedules
  BY DEF NewSchedule, Schedules, Places
<1>3. /\ Stopped \in [Numbers -> Schedules]
      /\ \A i \in Numbers : /\ Stopped[i].def = schedule[i].def
                            /\ Stopped[i].pc = schedule[i].pc
                            /\ Stopped[i].watcher = schedule[i].watcher
                            /\ Stopped[i].stopped <=> schedule[i].stopped \/ i = newest
  BY StoppedStops
<1> HIDE DEF Stopped
<1> QED BY <1>1, <1>2, <1>3 DEF scheduleLocked

\* A definition tells whether it has a start-time.
LEMMA GridBoolean == \A d \in Definitions \cup {NoJob} : d.grid \in BOOLEAN
<1> SUFFICES ASSUME NEW d \in Definitions \cup {NoJob} PROVE d.grid \in BOOLEAN
  OBVIOUS
<1>1. CASE d \in Definitions
  BY <1>1, JobSchedulerAssumption DEF Definition
<1>2. CASE d = NoJob
  BY <1>2 DEF NoJob
<1> QED BY <1>1, <1>2

\* Initially at most the first schedule has begun.
LEMMA InvInit == Init => Inv
<1> SUFFICES ASSUME Init PROVE Inv
  OBVIOUS
<1>1. job \in Definitions \cup {NoJob} /\ nextRun \in BOOLEAN
  BY GridBoolean DEF Init
<1>2. /\ Unstarted \in Schedules /\ NewSchedule(job, FALSE, "begin") \in Schedules
      /\ Unstarted.pc = "none" /\ NewSchedule(job, FALSE, "begin").pc = "begin"
      /\ Unstarted.watcher = "off" /\ NewSchedule(job, FALSE, "begin").watcher = "off"
  BY <1>1 DEF NewSchedule, Unstarted, Schedules, Places
<1>3. newest \in {0, 1} /\ (newest = 1 <=> job # NoJob)
  BY DEF Init
<1>4. ASSUME NEW i \in Numbers
      PROVE  /\ schedule[i] \in Schedules /\ schedule[i].watcher = "off"
             /\ IF job # NoJob /\ i = 1 THEN schedule[i].pc = "begin" ELSE schedule[i].pc = "none"
  <2>1. schedule[i] = IF job # NoJob /\ i = 1 THEN NewSchedule(job, FALSE, "begin") ELSE Unstarted
    BY DEF Init
  <2>2. CASE job # NoJob /\ i = 1
    BY <1>2, <2>1, <2>2
  <2>3. CASE ~(job # NoJob /\ i = 1)
    BY <1>2, <2>1, <2>3
  <2> QED BY <2>2, <2>3
<1>5. schedule \in [Numbers -> Schedules]
  BY <1>4 DEF Init
<1>6. newest \in 0..MaxSchedules /\ \A i \in Numbers : i \in Nat /\ i >= 1
  BY <1>3, JobSchedulerAssumption DEF Numbers
<1>7. \A i \in Numbers : i > newest <=> schedule[i].pc = "none"
  <2> TAKE i \in Numbers
  <2>1. i > newest <=> ~(job # NoJob /\ i = 1)
    BY <1>3, <1>6
  <2> QED BY <1>4, <2>1
<1>8. claimed \in BOOLEAN /\ ran \in BOOLEAN /\ requests \in 0..MaxManual
  <2>1. claimed = FALSE /\ ran = FALSE /\ requests = 0
    BY DEF Init
  <2>2. 0 \in 0..MaxManual
    BY BoundsAreNat
  <2> QED BY <2>1, <2>2
<1>9. manual \in [pc : {"none", "claim", "run"}, old : BOOLEAN]
  BY DEF Init, NoRequest
<1>10. OneScheduler
  <2> SUFFICES ASSUME NEW i \in Numbers, NEW j \in Numbers, i < j, schedule[j].pc \notin {"none", "handover"}
               PROVE  FALSE
    BY DEF OneScheduler
  <2>1. j # 1
    BY <1>6
  <2> QED BY <1>4, <2>1
<1>11. WatcherInside
  BY <1>4 DEF WatcherInside
<1>12. OthersStopped
  <2> SUFFICES ASSUME NEW i \in Numbers, i <= newest, i # newest \/ job = NoJob
               PROVE  FALSE
    BY DEF OthersStopped
  <2> QED BY <1>3, <1>6
<1> QED BY <1>1, <1>3, <1>5, <1>6, <1>7, <1>8, <1>9, <1>10, <1>11, <1>12 DEF Inv, TypeOK

\* Steps of the manager.
LEMMA InvManager ==
    ASSUME Inv, deactivateJobLocked \/ \E d \in Definitions : activateJobLocked(d)
    PROVE  Inv'
<1> USE DEF Inv
<1>1. ASSUME NEW d \in Definitions, activateJobLocked(d), scheduledLocked(d) PROVE Inv'
  <2>1. UNCHANGED <<newest, schedule, claimed, manual, requests>> /\ job' = d
    BY <1>1 DEF activateJobLocked
  <2>2. TypeOK'
    <3>1. d.grid \in BOOLEAN
      BY GridBoolean
    <3>2. nextRun' \in BOOLEAN /\ ran' \in BOOLEAN
      BY <1>1, <3>1, Zenon DEF activateJobLocked, TypeOK
    <3> QED BY <2>1, <3>2 DEF TypeOK
  <2>3. newest # 0 /\ ~schedule[newest].stopped
    BY <1>1 DEF scheduledLocked
  <2>4. d # NoJob
    BY JobSchedulerAssumption
  <2>5. OthersStopped'
    <3> SUFFICES ASSUME NEW i \in Numbers, i <= newest, i # newest \/ d = NoJob
                 PROVE  schedule[i].stopped
      BY <2>1 DEF OthersStopped
    <3>1. i # newest
      BY <2>4
    <3> QED BY <3>1 DEF OthersStopped
  <2> QED BY <2>1, <2>2, <2>5 DEF OneScheduler, WatcherInside
<1>2. ASSUME NEW d \in Definitions, activateJobLocked(d), ~scheduledLocked(d) PROVE Inv'
  <2>1. PICK resumed \in BOOLEAN : scheduleLocked(d, resumed)
    BY <1>2 DEF activateJobLocked
  <2>2. UNCHANGED <<claimed, manual, requests>> /\ job' = d
    BY <1>2 DEF activateJobLocked
  <2> DEFINE i0 == newest + 1
  <2>3. /\ i0 \in Numbers /\ newest' = i0
        /\ schedule' \in [Numbers -> Schedules]
        /\ schedule'[i0].pc \in {"begin", "handover"}
        /\ schedule'[i0].pc = "begin" => newest = 0
        /\ schedule'[i0].watcher = "off"
    <3> DEFINE s0 == NewSchedule(d, resumed, IF newest = 0 THEN "begin" ELSE "handover")
    <3>1. /\ s0.pc = IF newest = 0 THEN "begin" ELSE "handover"
          /\ s0.watcher = "off"
      BY DEF NewSchedule
    <3>2. /\ i0 \in Numbers /\ newest' = i0 /\ schedule'[i0] = s0
          /\ schedule' \in [Numbers -> Schedules]
      BY <2>1, ScheduleLocked
    <3> QED BY <3>1, <3>2
  <2>4. \A i \in Numbers : i # i0 => /\ schedule'[i].pc = schedule[i].pc
                                     /\ schedule'[i].watcher = schedule[i].watcher
                                     /\ schedule'[i].stopped <=> schedule[i].stopped \/ i = newest
    BY <2>1, ScheduleLocked
  <2>5. newest \in Nat /\ \A i \in Numbers : i \in Nat /\ i >= 1
    BY DEF TypeOK, Numbers
  <2> HIDE DEF i0
  <2>6. i0 = newest + 1
    BY DEF i0
  <2>7. \A i \in Numbers : i > newest' <=> schedule'[i].pc = "none"
    BY <2>3, <2>5, <2>6, <2>4 DEF TypeOK
  <2>8. TypeOK'
    <3>1. d.grid \in BOOLEAN
      BY GridBoolean
    <3>2. nextRun' \in BOOLEAN /\ ran' \in BOOLEAN
      BY <1>2, <3>1, Zenon DEF activateJobLocked, TypeOK
    <3> QED BY <2>2, <2>3, <2>7, <3>2 DEF TypeOK, Numbers
  <2>9. OneScheduler'
    <3> SUFFICES ASSUME NEW i \in Numbers, NEW j \in Numbers, i < j,
                        schedule'[j].pc \notin {"none", "handover"}
                 PROVE  schedule'[i].pc = "done" /\ schedule'[i].watcher = "off"
      BY DEF OneScheduler
    <3>1. schedule[j].pc # "none" /\ j # i0
      BY <2>3, <2>5, <2>6, <2>7, <2>4
    <3>2. i # i0
      BY <2>5, <2>6, <3>1 DEF TypeOK
    <3> QED BY <2>4, <3>1, <3>2 DEF OneScheduler
  <2>10. WatcherInside'
    BY <2>3, <2>4 DEF WatcherInside
  <2>11. d # NoJob
    BY JobSchedulerAssumption
  <2>12. OthersStopped'
    <3> SUFFICES ASSUME NEW i \in Numbers, i <= newest', i # newest'
                 PROVE  schedule'[i].stopped
      BY <2>2, <2>11 DEF OthersStopped
    <3>1. i # i0 /\ i <= newest
      BY <2>3, <2>5, <2>6
    <3> QED BY <2>4, <3>1 DEF OthersStopped
  <2> QED BY <2>8, <2>9, <2>10, <2>12
<1>3. CASE deactivateJobLocked
  <2>1. /\ schedule' \in [Numbers -> Schedules]
        /\ \A i \in Numbers : /\ schedule'[i].pc = schedule[i].pc
                              /\ schedule'[i].watcher = schedule[i].watcher
                              /\ schedule'[i].stopped <=> schedule[i].stopped \/ i = newest
    BY <1>3, StoppedStops DEF deactivateJobLocked
  <2>2. TypeOK'
    BY <1>3, <2>1 DEF deactivateJobLocked, TypeOK
  <2>3. OneScheduler' /\ WatcherInside'
    BY <1>3, <2>1 DEF deactivateJobLocked, OneScheduler, WatcherInside
  <2>4. OthersStopped'
    BY <1>3, <2>1 DEF deactivateJobLocked, OthersStopped
  <2> QED BY <2>2, <2>3, <2>4
<1> QED BY <1>1, <1>2, <1>3

\* What a step of schedule i may do to the schedules.
Moves(i) ==
    /\ schedule' \in [Numbers -> Schedules]
    /\ \A j \in Numbers : j # i => schedule'[j] = schedule[j]
    /\ schedule'[i].stopped <=> schedule[i].stopped
    /\ schedule[i].pc \notin {"none", "done"} /\ schedule'[i].pc # "none"
    /\ schedule'[i].pc = "handover" => schedule[i].pc = "handover"
    /\ schedule[i].pc = "handover" => i # 1 /\ schedule[i - 1].pc = "done"
    /\ schedule'[i].pc \in {"handover", "begin", "done"} => schedule'[i].watcher = "off"

\* A step from one place to another changes nothing else.
LEMMA PlaceChanges ==
    ASSUME TypeOK, NEW i \in Numbers, NEW from, NEW to \in Places, Step(i, from, to)
    PROVE  /\ schedule' \in [Numbers -> Schedules]
           /\ \A j \in Numbers : j # i => schedule'[j] = schedule[j]
           /\ schedule'[i].stopped <=> schedule[i].stopped
           /\ schedule[i].pc = from /\ schedule'[i].pc = to
           /\ schedule'[i].watcher = schedule[i].watcher
           /\ schedule'[i].def = schedule[i].def
<1>1. schedule[i] \in Schedules
  BY DEF TypeOK
<1>2. schedule' = [schedule EXCEPT ![i] = [schedule[i] EXCEPT !.pc = to]] /\ schedule[i].pc = from
  BY DEF Step
<1>3. [schedule[i] EXCEPT !.pc = to] \in Schedules
  BY <1>1 DEF Schedules
<1>4. schedule'[i] = [schedule[i] EXCEPT !.pc = to]
  BY <1>2 DEF TypeOK
<1>5. /\ schedule'[i].pc = to /\ schedule'[i].watcher = schedule[i].watcher
      /\ schedule'[i].stopped = schedule[i].stopped /\ schedule'[i].def = schedule[i].def
  BY <1>1, <1>4 DEF Schedules
<1>6. schedule' \in [Numbers -> Schedules] /\ \A j \in Numbers : j # i => schedule'[j] = schedule[j]
  BY <1>2, <1>3 DEF TypeOK
<1> QED BY <1>2, <1>5, <1>6

\* A step of the watcher leaves its schedule where it is.
LEMMA WatcherChanges ==
    ASSUME Inv, NEW i \in Numbers, NEW s \in Schedules, schedule[i].watcher # "off",
           schedule' = [schedule EXCEPT ![i] = s],
           s.pc = schedule[i].pc, s.stopped <=> schedule[i].stopped
    PROVE  Moves(i)
<1>1. schedule'[i] = s /\ schedule' \in [Numbers -> Schedules] /\ \A j \in Numbers : j # i => schedule'[j] = schedule[j]
  BY DEF Inv, TypeOK
<1>2. schedule[i].pc \notin {"none", "handover", "begin", "done"}
  BY DEF Inv, WatcherInside
<1> QED BY <1>1, <1>2 DEF Moves

\* Every step of a schedule's two goroutines is such a move.
LEMMA GoroutinesMove ==
    ASSUME Inv, NEW i \in Numbers, Scheduler(i) \/ Watcher(i)
    PROVE  Moves(i)
<1> USE DEF Inv
<1>1. schedule[i] \in Schedules
  BY DEF TypeOK
<1>2. ASSUME NEW from, NEW to \in Places, Step(i, from, to),
             from \notin {"none", "done"}, to \notin {"none", "handover"},
             from = "handover" => i # 1 /\ schedule[i - 1].pc = "done",
             from = "handover" \/ schedule[i].watcher = "off" \/ to \notin {"begin", "done"}
      PROVE  Moves(i)
  BY <1>2, PlaceChanges DEF WatcherInside, Moves
<1>3. ASSUME NEW s \in Schedules, schedule' = [schedule EXCEPT ![i] = s], s.stopped <=> schedule[i].stopped,
             schedule[i].pc \notin {"none", "handover", "done"}, s.pc \notin {"none", "handover", "begin", "done"}
      PROVE  Moves(i)
  <2>1. schedule'[i] = s /\ schedule' \in [Numbers -> Schedules] /\ \A j \in Numbers : j # i => schedule'[j] = schedule[j]
    BY <1>3 DEF TypeOK
  <2> QED BY <1>3, <2>1 DEF Moves
<1>4. CASE HandOver(i)
  BY <1>2, <1>4 DEF HandOver, Places, Step
<1>5. CASE Begin(i)
  <2> DEFINE w == IF schedule[i].def.watch THEN "watch" ELSE "off"
             s == [schedule[i] EXCEPT !.pc = First(schedule[i]), !.watcher = w]
  <2>1. First(schedule[i]) \in {"check", "wait", "ended"}
    BY DEF First
  <2>2. s \in Schedules /\ s.pc = First(schedule[i]) /\ s.stopped = schedule[i].stopped
    BY <1>1, <2>1 DEF Schedules, Places
  <2>3. schedule' = [schedule EXCEPT ![i] = s] /\ schedule[i].pc = "begin"
    BY <1>5 DEF Begin
  <2> HIDE DEF s
  <2> QED BY <1>3, <2>1, <2>2, <2>3
<1>6. CASE Wait(i)
  BY <1>2, <1>6 DEF Wait, Places
<1>7. CASE CheckStop(i)
  BY <1>2, <1>7 DEF CheckStop, Places
<1>8. CASE LookUp(i)
  BY <1>2, <1>8 DEF LookUp, Places
<1>9. CASE Claim(i)
  BY <1>2, <1>9 DEF Claim, Places
<1>10. CASE FinishRun(i)
  BY <1>2, <1>10 DEF FinishRun, Places
<1>11. CASE Again(i)
  BY <1>2, <1>11 DEF Again, Places
<1>12. CASE Done(i)
  BY <1>2, <1>12 DEF Done, Places
<1>13. CASE Watcher(i)
  <2>1. PICK w \in {"off", "watch", "claim", "run"} : schedule' = [schedule EXCEPT ![i].watcher = w]
    BY <1>13 DEF Watcher, Flush, ClaimFlush, FinishFlush
  <2> DEFINE s == [schedule[i] EXCEPT !.watcher = w]
  <2>2. s \in Schedules /\ s.pc = schedule[i].pc /\ s.stopped = schedule[i].stopped
    BY <1>1 DEF Schedules
  <2>3. schedule' = [schedule EXCEPT ![i] = s] /\ schedule[i].watcher # "off"
    BY <1>13, <2>1 DEF Watcher, Flush, ClaimFlush, FinishFlush
  <2> HIDE DEF s
  <2> QED BY <2>2, <2>3, WatcherChanges
<1> QED BY <1>4, <1>5, <1>6, <1>7, <1>8, <1>9, <1>10, <1>11, <1>12, <1>13 DEF Scheduler

\* A schedule's steps leave the manager and the requests alone.
LEMMA GoroutinesLeave ==
    ASSUME TypeOK, NEW i \in Numbers, Scheduler(i) \/ Watcher(i)
    PROVE  /\ UNCHANGED <<job, newest, manual, requests>>
           /\ nextRun' \in BOOLEAN /\ claimed' \in BOOLEAN /\ ran' \in BOOLEAN
<1>1. UNCHANGED <<job, newest, manual, requests>>
  BY DEF Scheduler, HandOver, Begin, Wait, CheckStop, LookUp, Claim, FinishRun, Again, Done,
         Watcher, Flush, ClaimFlush, FinishFlush
<1>2. nextRun' \in BOOLEAN
  BY Zenon DEF Scheduler, HandOver, Begin, SetNextRun, Wait, CheckStop, LookUp, Claim, FinishRun, Again, Done,
               Watcher, Flush, ClaimFlush, FinishFlush, TypeOK
<1>3. claimed' \in BOOLEAN
  BY DEF Scheduler, HandOver, Begin, Wait, CheckStop, LookUp, Claim, FinishRun, Again, Done,
         Watcher, Flush, ClaimFlush, FinishFlush, claim, TypeOK
<1>4. ran' \in BOOLEAN
  BY Zenon DEF Scheduler, HandOver, Begin, Wait, CheckStop, LookUp, Claim, FinishRun, Again, Done,
               Watcher, Flush, ClaimFlush, FinishFlush, claim, TypeOK
<1> QED BY <1>1, <1>2, <1>3, <1>4

\* Steps of a schedule's two goroutines.
LEMMA InvSchedule ==
    ASSUME Inv, NEW i \in Numbers, Scheduler(i) \/ Watcher(i)
    PROVE  Inv'
<1> USE DEF Inv
<1>1. Moves(i)
  BY GoroutinesMove
<1>2. UNCHANGED <<job, newest, manual, requests>> /\ nextRun' \in BOOLEAN /\ claimed' \in BOOLEAN /\ ran' \in BOOLEAN
  BY GoroutinesLeave
<1>3. \A j \in Numbers : j \in Nat /\ j >= 1
  BY DEF Numbers
<1>4. TypeOK'
  BY <1>1, <1>2 DEF Moves, TypeOK
<1>5. WatcherInside'
  BY <1>1 DEF Moves, WatcherInside
<1>6. OneScheduler'
  <2> SUFFICES ASSUME NEW k \in Numbers, NEW j \in Numbers, k < j, schedule'[j].pc \notin {"none", "handover"}
               PROVE  schedule'[k].pc = "done" /\ schedule'[k].watcher = "off"
    BY DEF OneScheduler
  <2>1. CASE schedule[j].pc # "handover"
    <3>1. schedule[j].pc # "none"
      BY <1>1 DEF Moves
    <3>2. schedule[k].pc = "done" /\ schedule[k].watcher = "off"
      BY <2>1, <3>1 DEF OneScheduler
    <3> QED BY <1>1, <3>2 DEF Moves
  <2>2. CASE schedule[j].pc = "handover"
    <3>1. j = i /\ i # 1 /\ schedule[i - 1].pc = "done"
      BY <1>1, <2>2 DEF Moves
    <3>2. i - 1 \in Numbers /\ (k = i - 1 \/ k < i - 1)
      BY <3>1, BoundsAreNat DEF Numbers
    <3>3. schedule[k].pc = "done" /\ schedule[k].watcher = "off"
      BY <3>1, <3>2 DEF OneScheduler, WatcherInside
    <3> QED BY <1>1, <3>3 DEF Moves
  <2> QED BY <2>1, <2>2
<1>7. OthersStopped'
  BY <1>1, <1>2 DEF Moves, OthersStopped
<1> QED BY <1>4, <1>5, <1>6, <1>7

\* Requests to run now leave the schedules alone.
LEMMA InvManual ==
    ASSUME Inv, HandleRunJob \/ RunNow \/ FinishManual
    PROVE  Inv'
<1> USE DEF Inv
<1>1. UNCHANGED <<job, newest, schedule>>
  BY DEF HandleRunJob, RunNow, FinishManual
<1>2. UNCHANGED nextRun /\ claimed' \in BOOLEAN
  BY DEF HandleRunJob, RunNow, FinishManual, claim, TypeOK
<1>3. requests' = requests \/ (requests < MaxManual /\ requests' = requests + 1)
  BY DEF HandleRunJob, RunNow, FinishManual, claim
<1>4. requests' \in 0..MaxManual
  BY <1>3, BoundsAreNat DEF TypeOK
<1>5. ran' \in BOOLEAN
  BY Zenon DEF HandleRunJob, RunNow, FinishManual, claim, TypeOK
<1>6. manual' \in [pc : {"none", "claim", "run"}, old : BOOLEAN]
  <2>1. [manual EXCEPT !.pc = "run"] \in [pc : {"none", "claim", "run"}, old : BOOLEAN]
    BY DEF TypeOK
  <2>2. NoRequest \in [pc : {"none", "claim", "run"}, old : BOOLEAN]
    BY DEF NoRequest
  <2>3. [pc |-> "claim", old |-> FALSE] \in [pc : {"none", "claim", "run"}, old : BOOLEAN]
    OBVIOUS
  <2>4. manual' \in {NoRequest, [pc |-> "claim", old |-> FALSE], [manual EXCEPT !.pc = "run"]}
    BY DEF HandleRunJob, RunNow, FinishManual
  <2> QED BY <2>1, <2>4, <2>2, <2>3
<1>7. TypeOK'
  BY <1>1, <1>2, <1>5, <1>6, <1>4 DEF TypeOK
<1> QED BY <1>1, <1>7 DEF OneScheduler, WatcherInside, OthersStopped

\* The invariant is inductive.
LEMMA InvStep == Inv /\ [Next]_vars => Inv'
<1> SUFFICES ASSUME Inv, [Next]_vars PROVE Inv'
  OBVIOUS
<1>1. CASE UNCHANGED vars
  BY <1>1 DEF vars, Inv, TypeOK, OneScheduler, WatcherInside, OthersStopped
<1> QED BY <1>1, InvManager, InvSchedule, InvManual DEF Next

\* A schedule begins only after every earlier one, its watcher and the run it
\* was in are over, for any number of edits, deletions and re-creations.
THEOREM SchedulesHandOver == Spec => []OneScheduler
<1>1. Inv => OneScheduler
  BY DEF Inv
<1> QED BY <1>1, InvInit, InvStep, PTL DEF Spec

-----------------------------------------------------------------------------
(* A waiting schedule shows its next run *)

\* Steps of the manager: a job that comes or goes has no schedule waiting.
LEMMA ShownManager ==
    ASSUME Inv, NextRunShown, deactivateJobLocked \/ \E d \in Definitions : activateJobLocked(d)
    PROVE  NextRunShown'
<1> USE DEF Inv
<1> SUFFICES ASSUME NEW i \in Numbers, schedule'[i].pc = "wait", ~schedule'[i].stopped
             PROVE  nextRun'
  BY DEF NextRunShown
<1>1. CASE deactivateJobLocked
  <2>1. schedule[i].pc = "wait" /\ ~schedule[i].stopped /\ i # newest /\ job # NoJob
    BY <1>1, StoppedStops DEF deactivateJobLocked
  <2>2. i <= newest
    BY <2>1 DEF TypeOK, Numbers
  <2> QED BY <2>1, <2>2 DEF OthersStopped
<1>2. ASSUME NEW d \in Definitions, activateJobLocked(d) PROVE nextRun'
  <2>1. schedule[i].pc = "wait" /\ ~schedule[i].stopped
    <3>1. CASE scheduledLocked(d)
      BY <1>2, <3>1 DEF activateJobLocked
    <3>2. CASE ~scheduledLocked(d)
      <4>1. PICK resumed \in BOOLEAN : scheduleLocked(d, resumed)
        BY <1>2, <3>2 DEF activateJobLocked
      <4>2. NewSchedule(d, resumed, IF newest = 0 THEN "begin" ELSE "handover").pc # "wait"
        BY DEF NewSchedule
      <4> QED BY <4>1, <4>2, ScheduleLocked
    <3> QED BY <3>1, <3>2
  <2>2. i <= newest
    BY <2>1 DEF TypeOK, Numbers
  <2>3. job # NoJob
    BY <2>1, <2>2 DEF OthersStopped
  <2>4. nextRun' = nextRun
    BY <1>2, <2>3 DEF activateJobLocked
  <2> QED BY <2>1, <2>4 DEF NextRunShown
<1> QED BY <1>1, <1>2

\* Steps of a schedule: one that ends without a next run is alone.
LEMMA ShownSchedule ==
    ASSUME Inv, NextRunShown, NEW i \in Numbers, Scheduler(i) \/ Watcher(i)
    PROVE  NextRunShown'
<1> USE DEF Inv
<1> SUFFICES ASSUME NEW j \in Numbers, schedule'[j].pc = "wait", ~schedule'[j].stopped
             PROVE  nextRun'
  BY DEF NextRunShown
<1>1. Moves(i)
  BY GoroutinesMove
<1>2. ~schedule[j].stopped /\ schedule[j].pc # "none"
  BY <1>1 DEF Moves
<1>3. job # NoJob
  <2>1. j <= newest
    BY <1>2 DEF TypeOK, Numbers
  <2> QED BY <1>2, <2>1 DEF OthersStopped
<1>4. CASE Begin(i)
  <2>1. j = i
    <3>1. SUFFICES ASSUME j # i PROVE FALSE
      OBVIOUS
    <3>2. schedule[j].pc = "wait" /\ schedule[i].pc = "begin" /\ (i < j \/ j < i)
      BY <1>1, <1>4, <3>1 DEF Moves, Begin, Numbers
    <3> QED BY <3>2 DEF OneScheduler
  <2>2. schedule'[i].pc = First(schedule[i])
    BY <1>4 DEF Begin, TypeOK, Schedules
  <2>3. First(schedule[i]) = "wait"
    BY <2>1, <2>2
  <2> QED BY <1>3, <1>4, <2>3, Zenon DEF Begin, SetNextRun
<1>5. ASSUME nextRun' = nextRun, schedule'[i].pc # "wait" \/ schedule[i].pc = "wait" PROVE nextRun'
  <2>1. schedule[j].pc = "wait"
    BY <1>1, <1>5 DEF Moves
  <2> QED BY <1>2, <1>5, <2>1 DEF NextRunShown
<1>6. CASE Again(i)
  <2>1. CASE SetNextRun(TRUE)
    BY <1>3, <2>1, Zenon DEF SetNextRun
  <2>2. CASE ~SetNextRun(TRUE)
    <3>1. Step(i, "again", "ended") /\ nextRun' = nextRun
      BY <1>6, <2>2 DEF Again
    <3>2. schedule'[i].pc = "ended"
      BY <3>1, PlaceChanges DEF Places
    <3> QED BY <1>5, <3>1, <3>2
  <2> QED BY <2>1, <2>2
<1>7. ASSUME NEW from, NEW to \in Places, Step(i, from, to), to # "wait", nextRun' = nextRun PROVE nextRun'
  BY <1>5, <1>7, PlaceChanges
<1>8. CASE HandOver(i) \/ Wait(i) \/ CheckStop(i) \/ LookUp(i) \/ Claim(i) \/ FinishRun(i) \/ Done(i)
  BY <1>7, <1>8 DEF HandOver, Wait, CheckStop, LookUp, Claim, FinishRun, Done, Places
<1>9. CASE Watcher(i)
  <2>1. nextRun' = nextRun
    BY <1>9 DEF Watcher, Flush, ClaimFlush, FinishFlush
  <2>2. schedule'[i].pc # "wait" \/ schedule[i].pc = "wait"
    BY <1>9 DEF Watcher, Flush, ClaimFlush, FinishFlush, TypeOK, Schedules
  <2> QED BY <1>5, <2>1, <2>2
<1> QED BY <1>4, <1>6, <1>8, <1>9 DEF Scheduler

\* An unstopped schedule that waits shows a next run, whatever stopped
\* schedules, edits and deletions did to the status store before.
THEOREM WaitingIsShown == Spec => []NextRunShown
<1>1. Init => NextRunShown
  <2> SUFFICES ASSUME Init, NEW i \in Numbers PROVE schedule[i].pc # "wait"
    BY DEF NextRunShown
  <2>1. schedule[i] \in {NewSchedule(job, FALSE, "begin"), Unstarted}
    BY DEF Init
  <2> QED BY <2>1 DEF NewSchedule, Unstarted
<1>2. Inv /\ NextRunShown /\ [Next]_vars => NextRunShown'
  <2> SUFFICES ASSUME Inv, NextRunShown, [Next]_vars PROVE NextRunShown'
    OBVIOUS
  <2>1. CASE UNCHANGED vars
    BY <2>1 DEF vars, NextRunShown
  <2>2. CASE HandleRunJob \/ RunNow \/ FinishManual
    <3>1. UNCHANGED <<schedule, nextRun>>
      BY <2>2 DEF HandleRunJob, RunNow, FinishManual
    <3> QED BY <3>1 DEF NextRunShown
  <2> QED BY <2>1, <2>2, ShownManager, ShownSchedule DEF Next
<1> QED BY <1>1, <1>2, InvInit, InvStep, PTL DEF Spec

-----------------------------------------------------------------------------
(* Runs never overlap *)

\* A schedule, its watcher and the request are runners.
LEMMA WhoRuns ==
    /\ \A i \in Numbers : /\ <<i, "schedule">> \in Runners /\ <<i, "watcher">> \in Runners
                          /\ Running(<<i, "schedule">>) <=> schedule[i].pc = "run"
                          /\ Running(<<i, "watcher">>) <=> schedule[i].watcher = "run"
    /\ <<0, "manual">> \in Runners
    /\ Running(<<0, "manual">>) <=> manual.pc = "run"
<1>1. 0 \in 0..MaxSchedules /\ 0 \notin Numbers /\ \A i \in Numbers : i \in 0..MaxSchedules
  BY BoundsAreNat DEF Numbers
<1> QED BY <1>1 DEF Runners, Running

\* What a step of schedule i does to who runs.
LEMMA RunnersOfOne ==
    ASSUME NEW i \in Numbers, manual' = manual, \A j \in Numbers : j # i => schedule'[j] = schedule[j],
           NEW r \in Runners
    PROVE  /\ r = <<i, "schedule">> => (Running(r)' <=> schedule'[i].pc = "run")
           /\ r = <<i, "watcher">> => (Running(r)' <=> schedule'[i].watcher = "run")
           /\ r \notin {<<i, "schedule">>, <<i, "watcher">>} => (Running(r)' <=> Running(r))
<1>1. 0 \notin Numbers /\ \A n \in 0..MaxSchedules : n = 0 \/ n \in Numbers
  BY BoundsAreNat DEF Numbers
<1>2. PICK n \in 0..MaxSchedules, w \in {"schedule", "watcher", "manual"} : r = <<n, w>>
  BY DEF Runners
<1> QED BY <1>1, <1>2 DEF Running

\* The claim is left alone, and so are the runs.
LEMMA RunsStay ==
    ASSUME RunsExclusive, claimed' = claimed, \A r \in Runners : Running(r)' <=> Running(r)
    PROVE  RunsExclusive'
  BY DEF RunsExclusive, Runners

\* The claim is taken, and with it one run starts.
LEMMA RunStarts ==
    ASSUME RunsExclusive, NEW q \in Runners, ~claimed, claimed' = TRUE,
           \A r \in Runners : Running(r)' <=> Running(r) \/ r = q
    PROVE  RunsExclusive'
  BY DEF RunsExclusive, Runners

\* The run that holds the claim ends.
LEMMA RunEnds ==
    ASSUME RunsExclusive, NEW q \in Runners, Running(q), claimed' = FALSE,
           \A r \in Runners : Running(r)' <=> Running(r) /\ r # q
    PROVE  RunsExclusive'
  BY DEF RunsExclusive, Runners

\* A step of a schedule that neither starts nor ends a run.
LEMMA GoroutineQuiet ==
    ASSUME Inv, RunsExclusive, NEW i \in Numbers, Moves(i), manual' = manual, claimed' = claimed,
           schedule'[i].pc = "run" <=> schedule[i].pc = "run",
           schedule'[i].watcher = "run" <=> schedule[i].watcher = "run"
    PROVE  RunsExclusive'
<1>1. \A r \in Runners : Running(r)' <=> Running(r)
  BY RunnersOfOne, WhoRuns DEF Moves
<1> QED BY <1>1, RunsStay

\* Steps of a schedule's two goroutines start and end runs with the claim.
LEMMA ExclusiveSchedule ==
    ASSUME Inv, RunsExclusive, NEW i \in Numbers, Scheduler(i) \/ Watcher(i)
    PROVE  RunsExclusive'
<1>1. Moves(i) /\ manual' = manual /\ \A j \in Numbers : j # i => schedule'[j] = schedule[j]
  BY GoroutinesMove, GoroutinesLeave DEF Inv, Moves
<1>2. TypeOK /\ schedule[i] \in Schedules
  BY DEF Inv, TypeOK
<1>3. ASSUME NEW from, NEW to \in Places, Step(i, from, to), from # "run", to # "run", claimed' = claimed
      PROVE  RunsExclusive'
  <2>1. schedule[i].pc # "run" /\ schedule'[i].pc # "run" /\ schedule'[i].watcher = schedule[i].watcher
    BY <1>2, <1>3, PlaceChanges
  <2> QED BY <1>1, <1>3, <2>1, GoroutineQuiet
<1>4. CASE HandOver(i) \/ Wait(i) \/ CheckStop(i) \/ LookUp(i) \/ Again(i) \/ Done(i)
  BY <1>3, <1>4 DEF HandOver, Wait, CheckStop, LookUp, Again, Done, Places
<1>5. CASE Begin(i)
  <2>1. /\ schedule[i].pc = "begin" /\ schedule'[i].pc = First(schedule[i])
        /\ schedule'[i].watcher \in {"watch", "off"} /\ claimed' = claimed
    BY <1>2, <1>5 DEF Begin, TypeOK, Schedules
  <2>2. schedule[i].watcher = "off" /\ First(schedule[i]) # "run"
    BY <2>1 DEF Inv, WatcherInside, First
  <2> QED BY <1>1, <2>1, <2>2, GoroutineQuiet
<1>6. CASE Claim(i)
  <2>1. CASE Step(i, "claim", "run") /\ claim(~schedule[i].stopped)
    <3>1. /\ schedule'[i].pc = "run" /\ schedule'[i].watcher = schedule[i].watcher
          /\ ~claimed /\ claimed' = TRUE
      BY <1>2, <2>1, PlaceChanges DEF claim, Places
    <3>2. \A r \in Runners : Running(r)' <=> Running(r) \/ r = <<i, "schedule">>
      BY <1>1, <3>1, RunnersOfOne, WhoRuns
    <3> QED BY <3>1, <3>2, WhoRuns, RunStarts
  <2>2. CASE Step(i, "claim", "again") /\ UNCHANGED claimed
    BY <1>3, <2>2 DEF Places
  <2> QED BY <1>6, <2>1, <2>2 DEF Claim
<1>7. CASE FinishRun(i)
  <2>1. /\ schedule[i].pc = "run" /\ schedule'[i].pc = "again" /\ schedule'[i].watcher = schedule[i].watcher
        /\ claimed' = FALSE
    BY <1>2, <1>7, PlaceChanges DEF FinishRun, Places
  <2>2. \A r \in Runners : Running(r)' <=> Running(r) /\ r # <<i, "schedule">>
    BY <1>1, <2>1, RunnersOfOne, WhoRuns
  <2> QED BY <2>1, <2>2, WhoRuns, RunEnds
<1>8. CASE Flush(i)
  <2>1. /\ schedule[i].watcher = "watch" /\ schedule'[i].watcher \in {"off", "claim"}
        /\ schedule'[i].pc = schedule[i].pc /\ claimed' = claimed
    BY <1>2, <1>8 DEF Flush, TypeOK, Schedules
  <2> QED BY <1>1, <2>1, GoroutineQuiet
<1>9. CASE ClaimFlush(i)
  <2>1. schedule[i].watcher = "claim" /\ schedule'[i].pc = schedule[i].pc
    BY <1>2, <1>9 DEF ClaimFlush, TypeOK, Schedules
  <2>2. CASE claim(~schedule[i].stopped) /\ schedule' = [schedule EXCEPT ![i].watcher = "run"]
    <3>1. schedule'[i].watcher = "run" /\ ~claimed /\ claimed' = TRUE
      BY <1>2, <2>2 DEF claim, TypeOK, Schedules
    <3>2. \A r \in Runners : Running(r)' <=> Running(r) \/ r = <<i, "watcher">>
      BY <1>1, <2>1, <3>1, RunnersOfOne, WhoRuns
    <3> QED BY <3>1, <3>2, WhoRuns, RunStarts
  <2>3. CASE schedule' = [schedule EXCEPT ![i].watcher = "watch"] /\ UNCHANGED claimed
    <3>1. schedule'[i].watcher = "watch"
      BY <1>2, <2>3 DEF TypeOK, Schedules
    <3> QED BY <1>1, <2>1, <2>3, <3>1, GoroutineQuiet
  <2> QED BY <1>9, <2>2, <2>3 DEF ClaimFlush
<1>10. CASE FinishFlush(i)
  <2>1. /\ schedule[i].watcher = "run" /\ schedule'[i].watcher = "watch" /\ schedule'[i].pc = schedule[i].pc
        /\ claimed' = FALSE
    BY <1>2, <1>10 DEF FinishFlush, TypeOK, Schedules
  <2>2. \A r \in Runners : Running(r)' <=> Running(r) /\ r # <<i, "watcher">>
    BY <1>1, <2>1, RunnersOfOne, WhoRuns
  <2> QED BY <2>1, <2>2, WhoRuns, RunEnds
<1> QED BY <1>4, <1>5, <1>6, <1>7, <1>8, <1>9, <1>10 DEF Scheduler, Watcher

\* The manager's steps start and end no run.
LEMMA ExclusiveManager ==
    ASSUME Inv, RunsExclusive, deactivateJobLocked \/ \E d \in Definitions : activateJobLocked(d)
    PROVE  RunsExclusive'
<1> USE DEF Inv
<1>1. claimed' = claimed /\ manual'.pc = manual.pc
  BY DEF deactivateJobLocked, activateJobLocked, TypeOK
<1>2. ASSUME NEW i \in Numbers
      PROVE  /\ schedule'[i].pc = "run" <=> schedule[i].pc = "run"
             /\ schedule'[i].watcher = "run" <=> schedule[i].watcher = "run"
  <2>1. CASE schedule' = schedule
    BY <2>1
  <2>2. CASE deactivateJobLocked
    BY <2>2, StoppedStops DEF deactivateJobLocked
  <2>3. ASSUME NEW d \in Definitions, NEW resumed \in BOOLEAN, scheduleLocked(d, resumed), i = newest + 1
        PROVE  /\ schedule'[i].pc # "run" /\ schedule[i].pc # "run"
               /\ schedule'[i].watcher = "off" /\ schedule[i].watcher = "off"
    <3>1. schedule'[i] = NewSchedule(d, resumed, IF newest = 0 THEN "begin" ELSE "handover")
      BY <2>3, ScheduleLocked
    <3>2. schedule'[i].pc # "run" /\ schedule'[i].watcher = "off"
      BY <3>1 DEF NewSchedule
    <3>3. schedule[i].pc = "none"
      BY <2>3 DEF TypeOK
    <3> QED BY <3>2, <3>3 DEF WatcherInside
  <2>4. ASSUME NEW d \in Definitions, NEW resumed \in BOOLEAN, scheduleLocked(d, resumed), i # newest + 1
        PROVE  schedule'[i].pc = schedule[i].pc /\ schedule'[i].watcher = schedule[i].watcher
    BY <2>4, ScheduleLocked
  <2> QED BY <2>1, <2>2, <2>3, <2>4 DEF activateJobLocked
<1>3. ASSUME NEW r \in Runners PROVE Running(r)' <=> Running(r)
  <2>1. PICK n \in 0..MaxSchedules, w \in {"schedule", "watcher", "manual"} : r = <<n, w>>
    BY DEF Runners
  <2>2. n = 0 \/ n \in Numbers
    BY BoundsAreNat DEF Numbers
  <2> QED BY <1>1, <1>2, <2>1, <2>2 DEF Running
<1> QED BY <1>1, <1>3, RunsStay

\* A request's run starts and ends with the claim.
LEMMA ExclusiveManual ==
    ASSUME Inv, RunsExclusive, HandleRunJob \/ RunNow \/ FinishManual
    PROVE  RunsExclusive'
<1> DEFINE q == <<0, "manual">>
<1>1. ASSUME NEW r \in Runners, r # q PROVE Running(r)' <=> Running(r)
  <2>1. PICK n \in 0..MaxSchedules, w \in {"schedule", "watcher", "manual"} : r = <<n, w>>
    BY DEF Runners
  <2>2. schedule' = schedule
    BY DEF HandleRunJob, RunNow, FinishManual
  <2> QED BY <1>1, <2>1, <2>2 DEF Running
<1>2. q \in Runners /\ (Running(q) <=> manual.pc = "run") /\ (Running(q)' <=> manual'.pc = "run")
  BY BoundsAreNat DEF Runners, Running
<1>3. manual \in [pc : {"none", "claim", "run"}, old : BOOLEAN]
  BY DEF Inv, TypeOK
<1> HIDE DEF q
<1>4. CASE HandleRunJob
  <2>1. manual.pc # "run" /\ manual'.pc # "run" /\ claimed' = claimed
    BY <1>4 DEF HandleRunJob, NoRequest
  <2> QED BY <1>1, <1>2, <2>1, RunsStay
<1>5. CASE RunNow
  <2>1. CASE claim(~manual.old) /\ manual' = [manual EXCEPT !.pc = "run"]
    <3>1. manual'.pc = "run" /\ ~claimed /\ claimed' = TRUE
      BY <1>3, <2>1 DEF claim
    <3> QED BY <1>1, <1>2, <3>1, RunStarts
  <2>2. CASE manual' = NoRequest /\ UNCHANGED claimed
    <3>1. manual.pc # "run" /\ manual'.pc # "run"
      BY <1>5, <2>2 DEF RunNow, NoRequest
    <3> QED BY <1>1, <1>2, <2>2, <3>1, RunsStay
  <2> QED BY <1>5, <2>1, <2>2 DEF RunNow
<1>6. CASE FinishManual
  <2>1. manual.pc = "run" /\ manual'.pc # "run" /\ claimed' = FALSE
    BY <1>6 DEF FinishManual, NoRequest
  <2> QED BY <1>1, <1>2, <2>1, RunEnds
<1> QED BY <1>4, <1>5, <1>6

\* Runs of the job never overlap, whoever starts them, and the claim is never
\* left behind, for any number of schedules and requests.
THEOREM RunsNeverOverlap == Spec => []RunsExclusive
<1>1. Init => RunsExclusive
  <2> SUFFICES ASSUME Init PROVE ~claimed /\ \A r \in Runners : ~Running(r)
    BY DEF RunsExclusive, Init
  <2>1. \A i \in Numbers : schedule[i].pc # "run" /\ schedule[i].watcher # "run"
    <3> TAKE i \in Numbers
    <3>1. schedule[i] \in {NewSchedule(job, FALSE, "begin"), Unstarted}
      BY DEF Init
    <3> QED BY <3>1 DEF NewSchedule, Unstarted
  <2>2. manual.pc # "run" /\ ~claimed
    BY DEF Init, NoRequest
  <2>3. ASSUME NEW r \in Runners PROVE ~Running(r)
    <3>1. PICK n \in 0..MaxSchedules, w \in {"schedule", "watcher", "manual"} : r = <<n, w>>
      BY DEF Runners
    <3>2. n = 0 \/ n \in Numbers
      BY BoundsAreNat DEF Numbers
    <3> QED BY <2>1, <2>2, <3>1, <3>2 DEF Running
  <2> QED BY <2>2, <2>3
<1>2. Inv /\ RunsExclusive /\ [Next]_vars => RunsExclusive'
  <2> SUFFICES ASSUME Inv, RunsExclusive, [Next]_vars PROVE RunsExclusive'
    OBVIOUS
  <2>1. CASE UNCHANGED vars
    BY <2>1 DEF vars, RunsExclusive, Running
  <2> QED BY <2>1, ExclusiveManager, ExclusiveSchedule, ExclusiveManual DEF Next
<1> QED BY <1>1, <1>2, InvInit, InvStep, PTL DEF Spec

-----------------------------------------------------------------------------
(* An active job keeps a schedule *)

\* A schedule that repeats ends only if it was stopped.
RepeatsUntilStopped ==
    \A i \in Numbers : schedule[i].def.interval # 0 /\ schedule[i].pc \in {"ended", "done"} => schedule[i].stopped

\* The one schedule not stopped is the newest, if the job is active, and it is
\* for what the job is now defined as; if that repeats, it is not over.
AtWorkWhileActive ==
    /\ \A i \in Numbers : schedule[i].pc # "none" => (~schedule[i].stopped <=> i = newest /\ job # NoJob)
    /\ job # NoJob => /\ newest # 0
                      /\ sameSchedule(schedule[newest].def, job)
                      /\ job.interval # 0 => schedule[newest].pc \notin {"none", "ended", "done"}

\* An active job's newest schedule is its own and was not stopped.
NewestIsActive == job # NoJob => newest # 0 /\ ~schedule[newest].stopped /\ sameSchedule(schedule[newest].def, job)

\* The steps of the manager give the job a schedule for its new definition.
LEMMA ActiveManager ==
    ASSUME Inv, NewestIsActive, RepeatsUntilStopped,
           deactivateJobLocked \/ \E d \in Definitions : activateJobLocked(d)
    PROVE  NewestIsActive' /\ RepeatsUntilStopped'
<1>1. ASSUME NEW d \in Definitions, activateJobLocked(d), scheduledLocked(d)
      PROVE  NewestIsActive' /\ RepeatsUntilStopped'
  <2>1. UNCHANGED <<newest, schedule>> /\ job' = d
    BY <1>1 DEF activateJobLocked
  <2> QED BY <1>1, <2>1 DEF scheduledLocked, NewestIsActive, RepeatsUntilStopped
<1>2. ASSUME NEW d \in Definitions, activateJobLocked(d), ~scheduledLocked(d)
      PROVE  NewestIsActive' /\ RepeatsUntilStopped'
  <2>1. PICK resumed \in BOOLEAN : scheduleLocked(d, resumed)
    BY <1>2 DEF activateJobLocked
  <2> DEFINE s0 == NewSchedule(d, resumed, IF newest = 0 THEN "begin" ELSE "handover")
  <2>2. s0.def = d /\ s0.stopped = FALSE /\ s0.pc \in {"begin", "handover"}
    BY DEF NewSchedule
  <2>3. /\ newest + 1 \in Numbers /\ newest' = newest + 1 /\ job' = d
        /\ schedule'[newest + 1] = s0
        /\ \A i \in Numbers : i # newest + 1 =>
              /\ schedule'[i].def = schedule[i].def /\ schedule'[i].pc = schedule[i].pc
              /\ schedule'[i].stopped <=> schedule[i].stopped \/ i = newest
    BY <1>2, <2>1, ScheduleLocked DEF Inv, activateJobLocked
  <2> HIDE DEF s0
  <2>4. NewestIsActive'
    <3>1. newest + 1 # 0 /\ sameSchedule(d, d)
      BY <2>3, JobSchedulerAssumption DEF Numbers, sameSchedule
    <3> QED BY <2>2, <2>3, <3>1 DEF NewestIsActive
  <2>5. RepeatsUntilStopped'
    BY <2>2, <2>3 DEF RepeatsUntilStopped
  <2> QED BY <2>4, <2>5
<1>3. CASE deactivateJobLocked
  <2>1. job' = NoJob /\ schedule' = Stopped
    BY <1>3 DEF deactivateJobLocked
  <2>2. \A i \in Numbers : /\ schedule'[i].def = schedule[i].def /\ schedule'[i].pc = schedule[i].pc
                           /\ schedule'[i].stopped <=> schedule[i].stopped \/ i = newest
    BY <2>1, StoppedStops DEF Inv
  <2> QED BY <2>1, <2>2 DEF NewestIsActive, RepeatsUntilStopped
<1> QED BY <1>1, <1>2, <1>3

\* A schedule's steps change neither what it is for nor whether it was stopped,
\* and lead it to its end only if it was, or does not repeat, or its job went.
LEMMA EndsForAReason ==
    ASSUME Inv, NEW i \in Numbers, Scheduler(i) \/ Watcher(i)
    PROVE  /\ schedule'[i].def = schedule[i].def
           /\ schedule'[i].pc \in {"ended", "done"} =>
                \/ schedule[i].pc \in {"ended", "done"} \/ schedule[i].stopped
                \/ schedule[i].def.interval = 0 \/ job = NoJob
<1>1. schedule[i] \in Schedules /\ TypeOK
  BY DEF Inv, TypeOK
<1>2. ASSUME NEW from, NEW to \in Places, Step(i, from, to),
             to \in {"ended", "done"} => \/ from = "ended" \/ schedule[i].stopped
                                         \/ schedule[i].def.interval = 0 \/ job = NoJob
      PROVE  /\ schedule'[i].def = schedule[i].def
             /\ schedule'[i].pc \in {"ended", "done"} =>
                  \/ schedule[i].pc \in {"ended", "done"} \/ schedule[i].stopped
                  \/ schedule[i].def.interval = 0 \/ job = NoJob
  BY <1>1, <1>2, PlaceChanges
<1>3. CASE HandOver(i)
  BY <1>2, <1>3 DEF HandOver, Places
<1>4. CASE Begin(i)
  <2> DEFINE w == IF schedule[i].def.watch THEN "watch" ELSE "off"
             s == [schedule[i] EXCEPT !.pc = First(schedule[i]), !.watcher = w]
  <2>1. First(schedule[i]) = "ended" => schedule[i].def.interval = 0
    BY DEF First
  <2>2. First(schedule[i]) # "done"
    BY DEF First
  <2>3. s.pc = First(schedule[i]) /\ s.def = schedule[i].def
    BY <1>1 DEF Schedules
  <2>4. schedule'[i] = s
    BY <1>1, <1>4 DEF Begin, TypeOK
  <2> HIDE DEF s
  <2> QED BY <2>1, <2>2, <2>3, <2>4
<1>5. CASE Wait(i)
  BY <1>2, <1>5 DEF Wait, Places
<1>6. CASE CheckStop(i)
  BY <1>2, <1>6 DEF CheckStop, Places
<1>7. CASE LookUp(i)
  BY <1>2, <1>7 DEF LookUp, Places
<1>8. CASE Claim(i)
  BY <1>2, <1>8 DEF Claim, Places
<1>9. CASE FinishRun(i)
  BY <1>2, <1>9 DEF FinishRun, Places
<1>10. CASE Again(i)
  BY <1>2, <1>10 DEF Again, Places
<1>11. CASE Done(i)
  BY <1>2, <1>11 DEF Done, Places
<1>12. CASE Watcher(i)
  <2>1. PICK w \in {"off", "watch", "claim", "run"} : schedule' = [schedule EXCEPT ![i].watcher = w]
    BY <1>12 DEF Watcher, Flush, ClaimFlush, FinishFlush
  <2> DEFINE s == [schedule[i] EXCEPT !.watcher = w]
  <2>2. s.pc = schedule[i].pc /\ s.def = schedule[i].def
    BY <1>1 DEF Schedules
  <2>3. schedule'[i] = s
    BY <1>1, <2>1 DEF TypeOK
  <2> HIDE DEF s
  <2> QED BY <2>2, <2>3
<1> QED BY <1>3, <1>4, <1>5, <1>6, <1>7, <1>8, <1>9, <1>10, <1>11, <1>12 DEF Scheduler

\* So an unstopped schedule, whose job is active, goes on.
LEMMA ActiveSchedule ==
    ASSUME Inv, NewestIsActive, RepeatsUntilStopped, NEW i \in Numbers, Scheduler(i) \/ Watcher(i)
    PROVE  NewestIsActive' /\ RepeatsUntilStopped'
<1>1. Moves(i)
  BY GoroutinesMove
<1>2. UNCHANGED <<job, newest>>
  BY GoroutinesLeave DEF Inv
<1>3. ASSUME NEW j \in Numbers
      PROVE  schedule'[j].def = schedule[j].def /\ (schedule'[j].stopped <=> schedule[j].stopped)
  <2>1. CASE j = i
    BY <1>1, <2>1, EndsForAReason DEF Moves
  <2>2. CASE j # i
    BY <1>1, <2>2 DEF Moves
  <2> QED BY <2>1, <2>2
<1>4. NewestIsActive'
  <2> SUFFICES ASSUME job # NoJob
               PROVE  newest # 0 /\ ~schedule'[newest].stopped /\ sameSchedule(schedule'[newest].def, job)
    BY <1>2 DEF NewestIsActive
  <2>1. newest \in Numbers
    BY BoundsAreNat DEF NewestIsActive, Inv, TypeOK, Numbers
  <2> QED BY <1>3, <2>1 DEF NewestIsActive
<1>5. ASSUME NEW j \in Numbers, schedule'[j].def.interval # 0, schedule'[j].pc \in {"ended", "done"}
      PROVE  schedule'[j].stopped
  <2>1. CASE j = i
    <3>1. schedule[i].pc # "none"
      BY <1>1 DEF Moves
    <3>2. job = NoJob => schedule[i].stopped
      <4>1. i <= newest
        BY <3>1, BoundsAreNat DEF Inv, TypeOK, Numbers
      <4> QED BY <4>1 DEF Inv, OthersStopped
    <3> QED BY <1>3, <1>5, <2>1, <3>2, EndsForAReason DEF RepeatsUntilStopped
  <2>2. CASE j # i
    BY <1>1, <1>5, <2>2 DEF Moves, RepeatsUntilStopped
  <2> QED BY <2>1, <2>2
<1> QED BY <1>4, <1>5 DEF RepeatsUntilStopped

\* An active job is never left without its schedule, a deleted one never with
\* one, whatever was edited, deleted and created again (activateJobLocked,
\* scheduledLocked, deactivateJobLocked).
THEOREM ActiveIsScheduled == Spec => []AtWorkWhileActive
<1>1. Init => NewestIsActive /\ RepeatsUntilStopped
  <2> SUFFICES ASSUME Init PROVE NewestIsActive /\ RepeatsUntilStopped
    OBVIOUS
  <2>1. 1 \in Numbers
    BY BoundsAreNat DEF Numbers
  <2>2. \A i \in Numbers : schedule[i] = NewSchedule(job, FALSE, "begin") \/ schedule[i] = Unstarted
    BY DEF Init
  <2>3. \A i \in Numbers : schedule[i].pc \notin {"ended", "done"}
    BY <2>2 DEF NewSchedule, Unstarted
  <2>4. job # NoJob => newest = 1 /\ schedule[1] = NewSchedule(job, FALSE, "begin")
    BY <2>1 DEF Init
  <2> QED BY <2>3, <2>4 DEF NewestIsActive, RepeatsUntilStopped, NewSchedule, sameSchedule
<1>2. Inv /\ NewestIsActive /\ RepeatsUntilStopped /\ [Next]_vars => (NewestIsActive /\ RepeatsUntilStopped)'
  <2> SUFFICES ASSUME Inv, NewestIsActive, RepeatsUntilStopped, [Next]_vars
               PROVE  NewestIsActive' /\ RepeatsUntilStopped'
    OBVIOUS
  <2>1. CASE UNCHANGED vars \/ HandleRunJob \/ RunNow \/ FinishManual
    <3>1. UNCHANGED <<job, newest, schedule>>
      BY <2>1 DEF vars, HandleRunJob, RunNow, FinishManual
    <3> QED BY <3>1 DEF NewestIsActive, RepeatsUntilStopped
  <2> QED BY <2>1, ActiveManager, ActiveSchedule DEF Next
<1>3. Inv /\ NewestIsActive /\ RepeatsUntilStopped => AtWorkWhileActive
  <2> SUFFICES ASSUME Inv, NewestIsActive, RepeatsUntilStopped PROVE AtWorkWhileActive
    OBVIOUS
  <2>1. newest \in 0..MaxSchedules /\ MaxSchedules \in Nat
    BY BoundsAreNat DEF Inv, TypeOK
  <2>2. ASSUME NEW i \in Numbers, schedule[i].pc # "none"
        PROVE  ~schedule[i].stopped <=> i = newest /\ job # NoJob
    <3>1. i <= newest
      BY <2>1, <2>2 DEF Inv, TypeOK, Numbers
    <3> QED BY <3>1 DEF Inv, OthersStopped, NewestIsActive
  <2>3. ASSUME job # NoJob, job.interval # 0 PROVE schedule[newest].pc \notin {"none", "ended", "done"}
    <3>1. newest \in Numbers
      BY <2>1, <2>3 DEF NewestIsActive, Numbers
    <3>2. schedule[newest].pc # "none"
      BY <2>1, <3>1 DEF Inv, TypeOK
    <3> QED BY <2>3, <3>1, <3>2 DEF NewestIsActive, RepeatsUntilStopped, sameSchedule
  <2> QED BY <2>2, <2>3 DEF AtWorkWhileActive, NewestIsActive
<1> QED BY <1>1, <1>2, <1>3, InvInit, InvStep, PTL DEF Spec

=============================================================================
