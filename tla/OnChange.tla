------------------------------ MODULE OnChange ------------------------------
(***************************************************************************)
(* One on-change job (internal/backup/pipeline: onchange.go, watch.go,     *)
(* runner_onchange.go): a source directory whose files are uploaded, each  *)
(* on its own, to the directory receivers of the job's targets when their  *)
(* content changes.                                                        *)
(*                                                                         *)
(* A run lists files with their size and modification time, and the rows   *)
(* of the state database that say what each target has.  Workers then take *)
(* the files one by one: read and hash, read again and encrypt, upload.    *)
(* The source's users write to the files all the while.  Full scans come   *)
(* with the interval, on startup and on request; a watcher collects the    *)
(* file system's events and starts runs of just the files they name.       *)
(*                                                                         *)
(* Simplifications:                                                        *)
(*  - A file's size and modification time are one stamp, which every       *)
(*    change of the file changes.  An edit that keeps both is not seen by  *)
(*    the code either.                                                     *)
(*  - A run takes all its stamps at once.  The code walks the tree, so a   *)
(*    later file's stamp may be newer; nothing relates the stamps of two   *)
(*    files.  Directories and excluded paths are left out.                 *)
(*  - The targets of a file are uploaded to in any order, and any number   *)
(*    of workers is busy; the code has an order and four workers.          *)
(*  - What a run shows of its targets is left to JobStatus; a retry may be *)
(*    one of any targets.                                                  *)
(*  - Time is left out: the watcher may flush whenever its timer may be    *)
(*    set, a scan may begin whenever the job is not running.               *)
(***************************************************************************)
EXTENDS FileVersions

CONSTANTS Files,        \* the paths below the source
          Targets,      \* the job's targets, each with a receiver of its own
          Contents,     \* what a file may contain
          Absent,       \* what a path contains when there is no file
          MaxPending,   \* how many changed paths the watcher lists
          MaxChanges,   \* bound: changes of files
          MaxLost,      \* bound: uploads left unanswered
          MaxRestarts   \* bound: restarts, new schedules and deletions of the job

ASSUME OnChangeAssumption ==
    /\ Absent \notin Contents
    /\ MaxPending \in Nat
    /\ MaxChanges \in Nat
    /\ MaxLost \in Nat
    /\ MaxRestarts \in Nat

Stamps == 0..MaxChanges
Pairs == Targets \X Files

\* A row of onchange_files.  NoRow stands for its absence.
Row == [stamp : Stamps, content : Contents]
NoRow == [stamp |-> 0, content |-> Absent]

\* Nobody works on the file.
Unlisted == [pc |-> "none", stamp |-> 0, plain |-> Absent, left |-> {}]

\* A run is a full scan ("scan") or the watcher's batch ("batch").
NoRun == [kind |-> "none", targets |-> {}]

\* What the operating system reports when it dropped events.
Overflow == "overflow"

\* A watcher that has not started.
NotWatching == [on |-> FALSE, pending |-> {}, full |-> FALSE]

VARIABLES
    source,     \* every path's stamp and content
    changes,    \* the last stamp given
    rows,       \* database: what each target is recorded as having
    versions,   \* the versions of each path on each target's receiver
    net,        \* uploads the sender has given up and the receiver has not seen
    run,        \* the run that holds the job's claim
    known,      \* the rows it read
    work,       \* where it is with each file
    watcher,    \* the watcher's batch
    events,     \* the file system events it has not read
    lost,       \* how many uploads were left unanswered
    restarts,   \* how many restarts, new schedules and deletions there were
    unsure,     \* history: an upload went unrecorded since the last recorded one
    excused     \* history: nobody noticed the change, or acting on it failed

workVars == <<run, known, work>>
watchVars == <<watcher, events>>
vars == <<source, changes, rows, versions, net, workVars, watchVars,
          lost, restarts, unsure, excused>>

-----------------------------------------------------------------------------
(* The source *)

Init ==
    /\ source \in [Files -> [stamp : {0}, content : Contents]]
    /\ changes = 0
    /\ rows = [p \in Pairs |-> NoRow]
    /\ versions = [p \in Pairs |-> {}]
    /\ net = {}
    /\ run = NoRun
    /\ known = [p \in Pairs |-> NoRow]
    /\ work = [f \in Files |-> Unlisted]
    /\ watcher = NotWatching
    /\ events = {}
    /\ lost = 0
    /\ restarts = 0
    /\ unsure = {}
    /\ excused = Pairs

\* A file is written, touched, removed or created.
Change(f, content) ==
    /\ changes < MaxChanges
    /\ {content, source[f].content} # {Absent}
    /\ changes' = changes + 1
    /\ source' = [source EXCEPT ![f] = [stamp |-> changes + 1, content |-> content]]
    /\ events' = IF watcher.on THEN events \union {f} ELSE events
    /\ excused' = IF watcher.on THEN excused ELSE excused \union (Targets \X {f})
    /\ UNCHANGED <<rows, versions, net, workVars, watcher, lost, restarts, unsure>>

-----------------------------------------------------------------------------
(* A run *)

\* A row that is missing, or differs by stamp, or by content.
DiffersByStamp(row, stamp) == row = NoRow \/ row.stamp # stamp

\* Mutant of DiffersByContent: a target that has some content has this one.
DiffersIfNew(row, plain) == row = NoRow

DiffersByContent(row, plain) == row = NoRow \/ row.content # plain

\* collectSourceFiles and loadOnChangeState: the stamps of the files and what
\* the targets are recorded as having.  A file whose stamp is the recorded one
\* is not considered any further.
Begin(kind, targets, paths) ==
    /\ run.kind = "none"
    /\ run' = [kind |-> kind, targets |-> targets]
    /\ known' = [p \in Pairs |-> IF p[1] \in targets THEN rows[p] ELSE NoRow]
    /\ work' = [f \in Files |->
                   IF f \in paths /\ source[f].content # Absent
                       /\ \E t \in targets : DiffersByStamp(rows[<<t, f>>], source[f].stamp)
                   THEN [Unlisted EXCEPT !.pc = "listed", !.stamp = source[f].stamp]
                   ELSE Unlisted]
    /\ excused' = excused \ (targets \X paths)
    /\ UNCHANGED <<source, changes, rows, versions, net, watchVars, lost, restarts, unsure>>

\* The interval, the start of the job and "run now" scan for all targets,
\* RetryFailedTargets for those that failed.  A scan that cannot read the
\* source or the database does nothing.
Scan == Begin("scan", Targets, Files)
Retry == \E targets \in SUBSET Targets \ {{}} : Begin("scan", targets, Files)

\* Where the file's stamp is not the recorded one.
Touched(f) == {t \in run.targets : DiffersByStamp(known[<<t, f>>], work[f].stamp)}

Finished(f) == work' = [work EXCEPT ![f] = Unlisted]

\* fileFailed: nothing is recorded, the targets' outcome is a failure.
FileFailed(f, targets) ==
    /\ excused' = excused \union (targets \X {f})
    /\ UNCHANGED <<source, changes, rows, versions, net, run, known, watchVars,
                   lost, restarts, unsure>>

\* The file is read.  A target that has its content gets the new stamp in its
\* row, unless the database fails; the file goes on for the others.
Hash(f) ==
    LET plain == source[f].content
        needed == {t \in run.targets : DiffersByContent(known[<<t, f>>], plain)}
    IN  /\ work[f].pc = "listed"
        /\ plain # Absent
        /\ \E saved \in SUBSET (Touched(f) \ needed) :
               rows' = [p \in Pairs |-> IF p \in saved \X {f}
                                        THEN [stamp |-> work[f].stamp, content |-> plain]
                                        ELSE rows[p]]
        /\ work' = [work EXCEPT ![f] = IF needed = {} THEN Unlisted
                                       ELSE [@ EXCEPT !.pc = "hashed", !.left = needed]]
        /\ UNCHANGED <<source, changes, versions, net, run, known, watchVars,
                       lost, restarts, unsure, excused>>

\* The file is gone or cannot be read.
HashFails(f) ==
    /\ work[f].pc = "listed"
    /\ Finished(f)
    /\ FileFailed(f, Touched(f))

\* The file is read again: its hash is that of the very bytes encrypted.
Encrypt(f) ==
    /\ work[f].pc = "hashed"
    /\ source[f].content # Absent
    /\ work' = [work EXCEPT ![f].pc = "staged", ![f].plain = source[f].content]
    /\ UNCHANGED <<source, changes, rows, versions, net, run, known, watchVars,
                   lost, restarts, unsure, excused>>

EncryptFails(f) ==
    /\ work[f].pc = "hashed"
    /\ Finished(f)
    /\ FileFailed(f, work[f].left)

\* The file is done with target t, and with all of them if t was the last.
DoneWith(f, t) ==
    work' = [work EXCEPT ![f] = IF @.left = {t} THEN Unlisted ELSE [@ EXCEPT !.left = work[f].left \ {t}]]

Receive(t, f, content) ==
    versions' = [versions EXCEPT ![<<t, f>>] = WriteFileVersion(@, content)]

Lost(t, f) == \E m \in net : m.target = t /\ m.file = f

\* Mutant of SaveState: the stamp is taken after the upload.
SaveStateLate(f, t) ==
    rows' = [rows EXCEPT ![<<t, f>>] = [stamp |-> source[f].stamp, content |-> work[f].plain]]

\* saveState: the row has the listed stamp and the encrypted content.
SaveState(f, t) ==
    rows' = [rows EXCEPT ![<<t, f>>] = [stamp |-> work[f].stamp, content |-> work[f].plain]]

Answered(f, t) ==
    /\ work[f].pc = "staged"
    /\ t \in work[f].left
    /\ DoneWith(f, t)
    /\ Receive(t, f, work[f].plain)
    /\ UNCHANGED <<source, changes, net, run, known, watchVars, lost, restarts>>

\* The upload is confirmed and recorded.
Upload(f, t) ==
    /\ Answered(f, t)
    /\ SaveState(f, t)
    /\ unsure' = IF Lost(t, f) THEN unsure ELSE unsure \ {<<t, f>>}
    /\ UNCHANGED excused

\* The upload is confirmed and the database fails.
UploadUnrecorded(f, t) ==
    /\ Answered(f, t)
    /\ unsure' = unsure \union {<<t, f>>}
    /\ excused' = excused \union {<<t, f>>}
    /\ UNCHANGED rows

\* The receiver refuses the upload or is out of reach.
UploadFails(f, t) ==
    /\ work[f].pc = "staged"
    /\ t \in work[f].left
    /\ DoneWith(f, t)
    /\ FileFailed(f, {t})

\* The connection breaks when the request is on its way.
UploadUnanswered(f, t) ==
    /\ work[f].pc = "staged"
    /\ t \in work[f].left
    /\ lost < MaxLost
    /\ lost' = lost + 1
    /\ DoneWith(f, t)
    /\ net' = net \union {[target |-> t, file |-> f, content |-> work[f].plain]}
    /\ unsure' = unsure \union {<<t, f>>}
    /\ excused' = excused \union {<<t, f>>}
    /\ UNCHANGED <<source, changes, rows, versions, run, known, watchVars, restarts>>

\* The run is over.  The watcher forgets its batch.
End ==
    /\ run.kind # "none"
    /\ work = [f \in Files |-> Unlisted]
    /\ run' = NoRun
    /\ known' = [p \in Pairs |-> NoRow]
    /\ watcher' = IF run.kind = "batch" THEN [watcher EXCEPT !.pending = {}, !.full = FALSE]
                  ELSE watcher
    /\ UNCHANGED <<source, changes, rows, versions, net, work, events, lost, restarts,
                   unsure, excused>>

-----------------------------------------------------------------------------
(* The receivers *)

\* An upload the sender has given up arrives after all.
Arrive ==
    \E m \in net :
        /\ net' = net \ {m}
        /\ Receive(m.target, m.file, m.content)
        /\ UNCHANGED <<source, changes, rows, workVars, watchVars, lost, restarts,
                       unsure, excused>>

\* The retention sweep of one path's versions; a deletion may fail.
SweepFileVersions(p) ==
    \E aged \in 0..NextVersion(versions[p]) :
        \E removed \in SUBSET expiredVersions(versions[p], aged) :
            /\ removed # {}
            /\ versions' = [versions EXCEPT ![p] = @ \ removed]
            /\ UNCHANGED <<source, changes, rows, net, workVars, watchVars, lost,
                           restarts, unsure, excused>>

-----------------------------------------------------------------------------
(* The watcher *)

\* It reads events unless it is in the run of its batch.
Reading == watcher.on /\ run.kind # "batch"
HasPending == watcher.full \/ watcher.pending # {}

StartWatch ==
    /\ ~watcher.on
    /\ watcher' = [NotWatching EXCEPT !.on = TRUE]
    /\ UNCHANGED <<source, changes, rows, versions, net, workVars, events, lost,
                   restarts, unsure, excused>>

\* The operating system's queue overflows.
DropEvents ==
    /\ events \ {Overflow} # {}
    /\ events' = {Overflow}
    /\ UNCHANGED <<source, changes, rows, versions, net, workVars, watcher, lost,
                   restarts, unsure, excused>>

MarkFull(w) == [w EXCEPT !.full = TRUE, !.pending = {}]

\* Add one path to the batch; too many make it a full scan.
Add(w, f) ==
    IF w.full THEN w
    ELSE IF Cardinality(w.pending \union {f}) > MaxPending THEN MarkFull(w)
    ELSE [w EXCEPT !.pending = @ \union {f}]

Handle(e) ==
    /\ Reading
    /\ e \in events
    /\ events' = events \ {e}
    /\ watcher' = IF e = Overflow THEN MarkFull(watcher) ELSE Add(watcher, e)
    /\ UNCHANGED <<source, changes, rows, versions, net, workVars, lost, restarts,
                   unsure, excused>>

Batch == IF watcher.full THEN Files ELSE watcher.pending

\* Mutant of Flush: the batch is dropped when the job is not free.
FlushOnce ==
    /\ Reading /\ HasPending
    /\ IF run.kind = "none" THEN Begin("batch", Targets, Batch)
       ELSE /\ watcher' = [watcher EXCEPT !.pending = {}, !.full = FALSE]
            /\ UNCHANGED <<source, changes, rows, versions, net, workVars, events,
                           lost, restarts, unsure, excused>>

\* The timer fires: the batch runs if the job is free, and waits otherwise.
Flush == Reading /\ HasPending /\ Begin("batch", Targets, Batch)

\* The same, but the run cannot read the source or the database.
FlushFails ==
    /\ Reading /\ HasPending /\ run.kind = "none"
    /\ watcher' = [watcher EXCEPT !.pending = {}, !.full = FALSE]
    /\ excused' = excused \union (Targets \X Batch)
    /\ UNCHANGED <<source, changes, rows, versions, net, workVars, events, lost, restarts, unsure>>

-----------------------------------------------------------------------------
(* The job's schedule, its deletion, the process *)

\* The watcher goes, with the events it has not acted upon.
Unwatch ==
    /\ watcher' = NotWatching
    /\ events' = {}

Noticed == IF watcher.full \/ Overflow \in events THEN Files ELSE watcher.pending \union events

\* The schedule changes: the watcher stops once its batch is done, and the
\* next schedule starts another.
Reschedule ==
    /\ restarts < MaxRestarts
    /\ restarts' = restarts + 1
    /\ Reading
    /\ Unwatch
    /\ excused' = excused \union (Targets \X Noticed)
    /\ UNCHANGED <<source, changes, rows, versions, net, workVars, lost, unsure>>

\* The job is deleted and created again: its rows go.  A run in flight goes
\* on, with the rows it has read; the watcher stops unless the run is its own.
Recreate ==
    /\ restarts < MaxRestarts
    /\ restarts' = restarts + 1
    /\ rows' = [p \in Pairs |-> NoRow]
    /\ excused' = Pairs
    /\ IF run.kind = "batch" THEN UNCHANGED watchVars ELSE Unwatch
    /\ UNCHANGED <<source, changes, versions, net, workVars, lost, unsure>>

\* The process is killed and started again: the run and the watcher are gone.
Restart ==
    /\ restarts < MaxRestarts
    /\ restarts' = restarts + 1
    /\ run' = NoRun
    /\ known' = [p \in Pairs |-> NoRow]
    /\ work' = [f \in Files |-> Unlisted]
    /\ Unwatch
    /\ excused' = Pairs
    /\ UNCHANGED <<source, changes, rows, versions, net, lost, unsure>>

-----------------------------------------------------------------------------

Process(f) ==
    \/ Hash(f) \/ HashFails(f)
    \/ Encrypt(f) \/ EncryptFails(f)
    \/ \E t \in Targets :
           Upload(f, t) \/ UploadUnrecorded(f, t) \/ UploadFails(f, t) \/ UploadUnanswered(f, t)

Watcher == StartWatch \/ (\E e \in events : Handle(e)) \/ Flush \/ FlushFails

Next ==
    \/ \E f \in Files, content \in Contents \union {Absent} : Change(f, content)
    \/ Scan \/ Retry
    \/ \E f \in Files : Process(f)
    \/ End
    \/ Arrive
    \/ \E p \in Pairs : SweepFileVersions(p)
    \/ Watcher
    \/ DropEvents
    \/ Reschedule \/ Recreate \/ Restart

Spec == Init /\ [][Next]_vars

\* A run goes on, a scan finds the job free again and again, and whatever may
\* fail does not always fail: reading the source, gpg, the receivers, the
\* database.  Nothing is assumed of the watcher.
Fairness ==
    /\ SF_vars(Scan)
    /\ WF_vars(End)
    /\ \A f \in Files :
           /\ WF_vars(Process(f))
           /\ SF_vars(Hash(f))
           /\ SF_vars(Encrypt(f))
           /\ \A t \in Targets : SF_vars(Upload(f, t))

FairSpec == Spec /\ Fairness

-----------------------------------------------------------------------------
(* Properties *)

Recorded(p) == rows[p] # NoRow
Exists(f) == source[f].content # Absent

\* A file whose stamp is the recorded one has the recorded content, although
\* it was read, twice, long after its stamp was taken: a scan that skips it
\* unread (targetsNeeding) skips nothing that changed.
SkipIsSound ==
    \A p \in Pairs :
        Recorded(p) /\ Exists(p[2]) /\ rows[p].stamp = source[p[2]].stamp
            => rows[p].content = source[p[2]].content

\* What a target is recorded as having is its newest version, whatever was
\* swept or arrived late, unless an upload of the file went unrecorded since:
\* its answer was lost, or the database failed (saveState).
ConfirmedIsNewest ==
    \A p \in Pairs \ unsure :
        Recorded(p) => /\ versions[p] # {}
                       /\ Newest(versions[p]).content = rows[p].content

\* A file some target is not recorded as having is on its way through the
\* watcher or the run: no event is dropped between the queue, the batch that
\* waits while the job runs, and the run of that batch.  Excused are changes
\* while nobody watched and uploads that failed: they wait for the next scan.
Owed(t, f) == Exists(f) /\ rows[<<t, f>>].content # source[f].content

InRun(t, f) ==
    /\ t \in run.targets
    /\ work[f].pc = "listed" \/ t \in work[f].left

OwedIsKnown ==
    \A t \in Targets, f \in Files :
        Owed(t, f) => f \in Noticed \/ InRun(t, f) \/ <<t, f>> \in excused

\* The scans bring every target up to date with every file, as recorded,
\* whatever failed, was lost, or was changed, deleted or restarted before.
EventuallyRecorded == <>[](\A t \in Targets, f \in Files : ~Owed(t, f))

\* onchange.go:65-68 says that every file "whose content a target doesn't
\* have yet is encrypted on its own and uploaded to it": a content a run
\* reads and does not upload is one the target holds.
SkippedIsHeld ==
    [][\A t \in Targets, f \in Files :
          Hash(f) /\ t \in run.targets \ work'[f].left
              => \E v \in versions[<<t, f>>] : v.content = source[f].content]_vars

=============================================================================
