--------------------------- MODULE BackupReceiver ---------------------------
(***************************************************************************)
(* One backup receiver (internal/backup/receiver) and the object layout    *)
(* below it (internal/backup/objectstore).                                 *)
(*                                                                         *)
(* Each upload is a request of its own: it looks at what is there, writes  *)
(* a temporary file, renames or links it into place, dates it, and records *)
(* it for retention in the state database.  A monitor lists the expired    *)
(* rows and removes file, row, and the folder of a multi-file backup, one  *)
(* after another.  Another monitor alerts when nothing has arrived for too *)
(* long.  No lock keeps any of them apart.                                 *)
(*                                                                         *)
(* Simplifications:                                                        *)
(*  - A backup is the time it was created at, which senders always name.   *)
(*    Two backups of one path and one time are the same bytes.             *)
(*  - Every complete file counts one for the quota, a file that is being   *)
(*    written counts nothing; max-object-size is left out.                 *)
(*  - Walks of the directory (the quota's, the stale monitor's, the        *)
(*    emptiness of a folder) are one step.                                 *)
(*  - Authentication is left out, and so are the log of events and the     *)
(*    dashboard's last activity, which are written last and which nothing  *)
(*    here reads.  The receiver's settings do not change.                  *)
(*  - The clock's unit is long enough for a stale check to run in each,    *)
(*    and durations are rounded down to it: what is one unit older than    *)
(*    allowed is too old.                                                  *)
(*  - Removing a file never fails, only removing its row may.              *)
(***************************************************************************)
EXTENDS Naturals, FiniteSets

CONSTANTS Paths,        \* where objects are stored: a key, or a key and a file
          Folders,      \* the keys of multi-file backups
          FolderOf,     \* the folder of a path, None for a flat object
          None,
          Receivers,    \* the settings a receiver may have
          Retention,    \* how long an object is kept
          StaleAfter,   \* how long nothing may arrive before the alert
          MaxTime,      \* bound: the clock
          MaxUploads,   \* bound: upload requests
          MaxFailures   \* bound: restarts and failing database statements

Times == 0..MaxTime
Uploads == 1..MaxUploads

\* quota 0 is none.
Receiver == [immutable : BOOLEAN, quota : Nat]

\* A file's content and its modification time.
Object == [backup : Times, mtime : Times]

ASSUME BackupReceiverAssumption ==
    /\ None \notin Paths \union Folders \union Times
    /\ None \notin Object
    /\ Paths \intersect Folders = {}
    /\ FolderOf \in [Paths -> Folders \union {None}]
    /\ Receivers \subseteq Receiver
    /\ IsFiniteSet(Paths)
    /\ Retention \in Nat
    /\ StaleAfter \in Nat
    /\ MaxTime \in Nat
    /\ MaxUploads \in Nat
    /\ MaxFailures \in Nat

VARIABLES
    recv,       \* the receiver's settings
    now,        \* the clock
    object,     \* disk: the object at each path
    folders,    \* disk: the folders that exist
    marked,     \* disk: the folders with the multi-file marker
    rows,       \* database: when the object at each path was written
    upload,     \* every request: where it is, and its temporary file
    sweep,      \* the retention monitor
    notified,   \* the stale monitor has alerted for the current gap
    checked,    \* the stale monitor has run at this time
    failures,   \* how many restarts and failing statements there were
    raced,      \* history: paths and folders two of them worked on at once
    untracked,  \* history: paths whose last upload was not recorded
    crowded,    \* history: a quota was measured while another upload was on
    arrived,    \* history: the newest backup since the last that came late
    alerted     \* history: the stale monitor has alerted

diskVars == <<object, folders, marked>>
monitorVars == <<notified, checked, alerted>>
historyVars == <<raced, untracked, crowded, arrived>>
vars == <<recv, now, diskVars, rows, upload, sweep, monitorVars, failures, historyVars>>

NewUpload == [pc |-> "new", path |-> None, backup |-> 0, temp |-> "none"]
Ended == [NewUpload EXCEPT !.pc = "ended"]
Idle == [pc |-> "idle", left |-> {}, cur |-> None]

\* Mutants of Expired: an off-by-one, and the other.
ExpiredSoon(written) == written + Retention <= now
ExpiredLate(written) == written + Retention + 1 < now

Expired(written) == written + Retention < now

Stored(p) == object[p] # None

InFolder(u, f) == FolderOf[upload[u].path] = f

\* Requests that have, or are about to have, changed a path and have not
\* recorded it yet.
Placing(p) == {u \in Uploads : upload[u].path = p /\ upload[u].pc \in {"date", "record"}}

\* The sweep has listed the path and is not done with it.
Sweeping(p) == p \in sweep.left \union {sweep.cur}

\* The sweep has found the folder empty, and is about to remove its marker.
Clearing(f) == sweep.pc = "marker" /\ FolderOf[sweep.cur] = f

Goto(u, pc) == upload' = [upload EXCEPT ![u].pc = pc]
End(u) == upload' = [upload EXCEPT ![u] = Ended]

Init ==
    /\ recv \in Receivers
    /\ now = 0
    /\ object = [p \in Paths |-> None]
    /\ folders = {}
    /\ marked = {}
    /\ rows = [p \in Paths |-> None]
    /\ upload = [u \in Uploads |-> NewUpload]
    /\ sweep = Idle
    /\ notified = FALSE
    /\ checked = FALSE
    /\ failures = 0
    /\ raced = {}
    /\ untracked = {}
    /\ crowded = FALSE
    /\ arrived = None
    /\ alerted = FALSE

Tick ==
    /\ now < MaxTime
    /\ checked
    /\ now' = now + 1
    /\ checked' = FALSE
    /\ UNCHANGED <<recv, diskVars, rows, upload, sweep, notified, alerted, failures, historyVars>>

-----------------------------------------------------------------------------
(* An upload *)

\* What an upload leaves alone before it writes below the receiver's path.
BeforeWriting == UNCHANGED <<recv, now, diskVars, rows, sweep, monitorVars, failures,
                             raced, untracked, arrived>>

\* A sender uploads a backup, a new one or once more one of the past, whose
\* time of creation must not lie ahead.  An
\* immutable receiver looks for an object first.
Request(u, p, backup) ==
    /\ upload[u] = NewUpload
    /\ backup <= now
    /\ upload' = [upload EXCEPT ![u] = [pc |-> IF recv.immutable THEN "exists" ELSE "measure",
                                        path |-> p, backup |-> backup, temp |-> "none"]]
    /\ UNCHANGED crowded
    /\ BeforeWriting

\* answerExistingObject: the same object is fine, another one refused.
AnswerExisting(u) ==
    /\ upload[u].pc \in {"exists", "conflict"}
    /\ Stored(upload[u].path)
    /\ End(u)
    /\ UNCHANGED crowded
    /\ BeforeWriting

\* There is none to answer with: go on, or fail if there was one just now.
NothingExists(u) ==
    /\ upload[u].pc \in {"exists", "conflict"}
    /\ ~Stored(upload[u].path)
    /\ IF upload[u].pc = "exists" THEN Goto(u, "measure") ELSE End(u)
    /\ UNCHANGED crowded
    /\ BeforeWriting

DirSize ==
    Cardinality({p \in Paths : Stored(p)})
        + Cardinality({u \in Uploads : upload[u].temp = "written"})

\* Mutant of Free: replacing is counted twice over.
FreeAnyway(p) == recv.quota + 1 - DirSize

\* What an upload may use of the quota: what is free, and the size of the
\* object it replaces.
Free(p) ==
    IF Stored(p) /\ ~recv.immutable THEN recv.quota + 1 - DirSize ELSE recv.quota - DirSize

\* Requests that have measured the quota and not placed their file.
Measured == {u \in Uploads : upload[u].pc \in {"mkdir", "mark", "temp", "body", "place"}}

Measure(u) ==
    /\ upload[u].pc = "measure"
    /\ IF recv.quota = 0 \/ Free(upload[u].path) >= 1 THEN Goto(u, "mkdir") ELSE End(u)
    /\ crowded' = (crowded \/ Measured # {})
    /\ BeforeWriting

\* What an upload leaves alone while it writes.
Writing == UNCHANGED <<recv, now, rows, sweep, monitorVars, failures, untracked, crowded>>

\* MkdirAll.  A flat object's folder is of no interest.
MakeFolder(u) ==
    LET f == FolderOf[upload[u].path] IN
    /\ upload[u].pc = "mkdir"
    /\ IF f = None
       THEN UNCHANGED folders /\ Goto(u, "temp")
       ELSE folders' = folders \union {f} /\ Goto(u, "mark")
    /\ UNCHANGED <<object, marked, raced, arrived>>
    /\ Writing

\* writeMultiFileMarker, which needs the folder.
Mark(u) ==
    LET f == FolderOf[upload[u].path] IN
    /\ upload[u].pc = "mark"
    /\ IF f \in folders
       THEN /\ marked' = marked \union {f}
            /\ raced' = IF Clearing(f) THEN raced \union {f} ELSE raced \ {f}
            /\ Goto(u, "temp")
       ELSE UNCHANGED <<marked, raced>> /\ End(u)
    /\ UNCHANGED <<object, folders, arrived>>
    /\ Writing

\* The temporary file, in the folder of the object.
CreateTemp(u) ==
    /\ upload[u].pc = "temp"
    /\ IF FolderOf[upload[u].path] \in folders \union {None}
       THEN upload' = [upload EXCEPT ![u].pc = "body", ![u].temp = "open"]
       ELSE End(u)
    /\ UNCHANGED <<diskVars, raced, arrived>>
    /\ Writing

ReceiveBody(u) ==
    /\ upload[u].pc = "body"
    /\ upload' = [upload EXCEPT ![u].pc = "place", ![u].temp = "written"]
    /\ UNCHANGED <<diskVars, raced, arrived>>
    /\ Writing

\* The sender is gone, or the body is not the one it announced.
BodyFails(u) ==
    /\ upload[u].pc = "body"
    /\ End(u)
    /\ UNCHANGED <<diskVars, raced, arrived>>
    /\ Writing

\* The file appears at its path and the temporary one is gone.  If nobody else
\* is at work on the path, whatever happened to it before is of no interest.
Place(u) ==
    LET p == upload[u].path
        backup == upload[u].backup IN
    /\ object' = [object EXCEPT ![p] = [backup |-> backup, mtime |-> now]]
    /\ upload' = [upload EXCEPT ![u].pc = "date", ![u].temp = "none"]
    /\ raced' = IF Sweeping(p) \/ Placing(p) # {} THEN raced \union {p} ELSE raced \ {p}
    /\ arrived' = IF backup + StaleAfter < now THEN None
                  ELSE IF arrived = None \/ backup > arrived THEN backup ELSE arrived
    /\ UNCHANGED <<folders, marked>>

\* WriteLocalObject renames the file; WriteNewLocalObject links it, which an
\* existing object prevents.
Rename(u) ==
    /\ upload[u].pc = "place"
    /\ ~recv.immutable
    /\ Place(u)
    /\ Writing

\* Mutant of Link: the check before the body is relied on.
LinkOverwriting(u) ==
    /\ upload[u].pc = "place"
    /\ recv.immutable
    /\ Place(u)
    /\ Writing

Link(u) ==
    /\ upload[u].pc = "place"
    /\ recv.immutable
    /\ IF Stored(upload[u].path)
       THEN /\ upload' = [upload EXCEPT ![u].pc = "conflict", ![u].temp = "none"]
            /\ UNCHANGED <<diskVars, raced, arrived>>
       ELSE Place(u)
    /\ Writing

\* SetObjectModTime, of whatever is there.
Date(u) ==
    LET p == upload[u].path IN
    /\ upload[u].pc = "date"
    /\ object' = IF Stored(p) THEN [object EXCEPT ![p].mtime = upload[u].backup] ELSE object
    /\ Goto(u, "record")
    /\ UNCHANGED <<recv, now, folders, marked, rows, sweep, monitorVars, failures, historyVars>>

\* Mutant of Record: a row that exists is kept.
RecordFirst(u) ==
    LET p == upload[u].path IN
    /\ upload[u].pc = "record"
    /\ rows' = IF rows[p] = None THEN [rows EXCEPT ![p] = upload[u].backup] ELSE rows
    /\ End(u)
    /\ untracked' = untracked \ {p}
    /\ UNCHANGED <<recv, now, diskVars, sweep, monitorVars, failures, raced, crowded, arrived>>

\* RecordObjectWrite.
Record(u) ==
    LET p == upload[u].path IN
    /\ upload[u].pc = "record"
    /\ rows' = [rows EXCEPT ![p] = upload[u].backup]
    /\ End(u)
    /\ untracked' = untracked \ {p}
    /\ UNCHANGED <<recv, now, diskVars, sweep, monitorVars, failures, raced, crowded, arrived>>

\* The upload is answered all the same.
RecordFails(u) ==
    /\ upload[u].pc = "record"
    /\ failures < MaxFailures
    /\ failures' = failures + 1
    /\ untracked' = untracked \union {upload[u].path}
    /\ End(u)
    /\ UNCHANGED <<recv, now, diskVars, rows, sweep, monitorVars, raced, crowded, arrived>>

HandleReceiveObject(u) ==
    \/ \E p \in Paths, backup \in Times : Request(u, p, backup)
    \/ AnswerExisting(u)
    \/ NothingExists(u)
    \/ Measure(u)
    \/ MakeFolder(u)
    \/ Mark(u)
    \/ CreateTemp(u)
    \/ ReceiveBody(u)
    \/ BodyFails(u)
    \/ Rename(u)
    \/ Link(u)
    \/ Date(u)
    \/ Record(u)
    \/ RecordFails(u)

-----------------------------------------------------------------------------
(* The retention monitor *)

\* What the sweep leaves alone in every step.
SweepOthers == UNCHANGED <<recv, now, upload, monitorVars, crowded, arrived>>

\* ExpiredObjectPaths.
ListExpired ==
    LET expired == {p \in Paths : rows[p] # None /\ Expired(rows[p])} IN
    /\ sweep = Idle
    /\ expired # {}
    /\ sweep' = [Idle EXCEPT !.left = expired]
    /\ raced' = raced \union {p \in expired : Placing(p) # {}}
    /\ UNCHANGED <<diskVars, rows, failures, untracked>>
    /\ SweepOthers

\* removeExpiredObject: the file, then its row, then its folder.
RemoveFile(p) ==
    /\ sweep.pc = "idle"
    /\ p \in sweep.left
    /\ object' = [object EXCEPT ![p] = None]
    /\ sweep' = [pc |-> "row", left |-> sweep.left \ {p}, cur |-> p]
    /\ UNCHANGED <<folders, marked, rows, failures, raced, untracked>>
    /\ SweepOthers

NextExpired == sweep' = [sweep EXCEPT !.pc = "idle", !.cur = None]

DeleteRow ==
    /\ sweep.pc = "row"
    /\ rows' = [rows EXCEPT ![sweep.cur] = None]
    /\ IF FolderOf[sweep.cur] = None
       THEN NextExpired
       ELSE sweep' = [sweep EXCEPT !.pc = "folder"]
    /\ UNCHANGED <<diskVars, failures, raced, untracked>>
    /\ SweepOthers

\* The row stays for the next sweep.
DeleteRowFails ==
    /\ sweep.pc = "row"
    /\ failures < MaxFailures
    /\ failures' = failures + 1
    /\ NextExpired
    /\ UNCHANGED <<diskVars, rows, raced, untracked>>
    /\ SweepOthers

\* removeEmptyMultiFileDir.
OnlyMarkerIn(f) ==
    /\ f \in marked
    /\ \A p \in Paths : FolderOf[p] = f => ~Stored(p)
    /\ \A u \in Uploads : upload[u].temp # "none" => ~InFolder(u, f)

\* An upload may have found the marker before, or find it after.
CheckFolder ==
    LET f == FolderOf[sweep.cur] IN
    /\ sweep.pc = "folder"
    /\ IF OnlyMarkerIn(f)
       THEN /\ sweep' = [sweep EXCEPT !.pc = "marker"]
            /\ raced' = IF \E u \in Uploads : upload[u].pc = "temp" /\ InFolder(u, f)
                        THEN raced \union {f} ELSE raced
       ELSE NextExpired /\ UNCHANGED raced
    /\ UNCHANGED <<diskVars, rows, failures, untracked>>
    /\ SweepOthers

RemoveMarker ==
    /\ sweep.pc = "marker"
    /\ marked' = marked \ {FolderOf[sweep.cur]}
    /\ sweep' = [sweep EXCEPT !.pc = "rmdir"]
    /\ UNCHANGED <<object, folders, rows, failures, raced, untracked>>
    /\ SweepOthers

\* Remove, which fails unless the folder is empty.
RemoveFolder ==
    LET f == FolderOf[sweep.cur] IN
    /\ sweep.pc = "rmdir"
    /\ folders' = IF /\ f \notin marked
                     /\ \A p \in Paths : FolderOf[p] = f => ~Stored(p)
                     /\ \A u \in Uploads : upload[u].temp # "none" => ~InFolder(u, f)
                  THEN folders \ {f} ELSE folders
    /\ NextExpired
    /\ UNCHANGED <<object, marked, rows, failures, raced, untracked>>
    /\ SweepOthers

MonitorReceiverRetention ==
    \/ ListExpired
    \/ \E p \in Paths : RemoveFile(p)
    \/ DeleteRow
    \/ DeleteRowFails
    \/ CheckFolder
    \/ RemoveMarker
    \/ RemoveFolder

-----------------------------------------------------------------------------
(* The stale monitor, and restarts *)

\* Mutant of Stale: an off-by-one.
StaleLater ==
    /\ \E p \in Paths : Stored(p)
    /\ \A p \in Paths : Stored(p) => object[p].mtime + StaleAfter + 1 < now

\* LastReceivedAt: an object, and none newer than StaleAfter.
Stale ==
    /\ \E p \in Paths : Stored(p)
    /\ \A p \in Paths : Stored(p) => object[p].mtime + StaleAfter < now

CheckStale ==
    /\ checked' = TRUE
    /\ notified' = Stale
    /\ alerted' = (alerted \/ (Stale /\ ~notified))
    /\ UNCHANGED <<recv, now, diskVars, rows, upload, sweep, failures, historyVars>>

\* Requests and monitors end where they are.  Temporary files stay for good;
\* an object in place whose row was not written is not recorded.
Restart ==
    /\ failures < MaxFailures
    /\ failures' = failures + 1
    /\ upload' = [u \in Uploads |->
                    CASE upload[u].pc = "new" -> NewUpload
                      [] upload[u].temp # "none" -> [upload[u] EXCEPT !.pc = "dead"]
                      [] OTHER -> Ended]
    /\ untracked' = untracked \union {p \in Paths : Placing(p) # {}}
    /\ sweep' = Idle
    /\ notified' = FALSE
    /\ UNCHANGED <<recv, now, diskVars, rows, checked, alerted, raced, crowded, arrived>>

Next ==
    \/ Tick
    \/ \E u \in Uploads : HandleReceiveObject(u)
    \/ MonitorReceiverRetention
    \/ CheckStale
    \/ Restart

Spec == Init /\ [][Next]_vars

\* Every goroutine takes its next step, the clock goes on, and both monitors'
\* timers fire.  Nothing makes a sender upload.
FairSpec ==
    /\ Spec
    /\ WF_vars(Tick)
    /\ \A u \in Uploads : WF_vars(upload[u].pc # "new" /\ HandleReceiveObject(u))
    /\ WF_vars(MonitorReceiverRetention)
    /\ WF_vars(CheckStale)

-----------------------------------------------------------------------------
(* Properties *)

UploadPcs == {"new", "exists", "measure", "mkdir", "mark", "temp", "body", "place",
              "conflict", "date", "record", "ended", "dead"}

\* A request has a path from its beginning to its end, and a temporary file
\* while it receives the body, or for good if the process ended then.
Requests ==
    {r \in [pc : UploadPcs, path : Paths \union {None}, backup : Times, temp : {"none", "open", "written"}] :
        /\ (r.path = None) = (r.pc \in {"new", "ended"})
        /\ r.pc = "body" => r.temp = "open"
        /\ r.pc = "place" => r.temp = "written"
        /\ r.temp # "none" => r.pc \in {"body", "place", "dead"}}

\* The sweep has a path while it removes one.
Sweeps ==
    {s \in [pc : {"idle", "row", "folder", "marker", "rmdir"}, left : SUBSET Paths, cur : Paths \union {None}] :
        (s.cur = None) = (s.pc = "idle")}

\* Every variable keeps its type, and objects, markers and temporary files lie
\* in folders that exist, whatever the sweep removes.
TypeOK ==
    /\ recv \in Receivers
    /\ now \in Times
    /\ object \in [Paths -> Object \union {None}]
    /\ folders \subseteq Folders
    /\ marked \subseteq folders
    /\ rows \in [Paths -> Times \union {None}]
    /\ upload \in [Uploads -> Requests]
    /\ \A p \in Paths : Stored(p) => FolderOf[p] \in folders \union {None}
    /\ \A u \in Uploads : upload[u].temp # "none" => FolderOf[upload[u].path] \in folders \union {None}
    /\ sweep \in Sweeps
    /\ notified \in BOOLEAN
    /\ checked \in BOOLEAN
    /\ alerted \in BOOLEAN
    /\ failures \in 0..MaxFailures
    /\ raced \subseteq Paths \union Folders
    /\ untracked \subseteq Paths
    /\ crowded \in BOOLEAN
    /\ arrived \in Times \union {None}

\* An object is listed and recorded for retention as of the time its backup
\* was created: its modification time and its row say the same, whatever
\* became of earlier uploads of the path.  Between an upload's rename and its
\* row it need not be, nor after the row could not be written, nor where the
\* sweep or another upload of the same path was at work meanwhile.
TrackedAsCreated ==
    \A p \in Paths :
        Stored(p) /\ Placing(p) = {} /\ p \notin raced \union untracked
            => object[p].mtime = object[p].backup /\ rows[p] = object[p].backup

\* A file of a multi-file backup lies in a folder with the marker that makes
\* listings show it as one, even where an earlier backup's folder was
\* removed, unless an upload had seen the marker before the sweep took it.
GroupedByMarker ==
    \A p \in Paths : Stored(p) /\ FolderOf[p] # None => FolderOf[p] \in marked \union raced

\* What is stored does not exceed the quota, unless uploads measured it side
\* by side.  What a restart left of others counts, and only adds to it.
WithinQuota ==
    recv.quota # 0 /\ ~crowded => Cardinality({p \in Paths : Stored(p)}) <= recv.quota

\* An immutable receiver never replaces an object, whatever uploads of its
\* path are on at the same time; only the sweep removes it.
NeverOverwritten ==
    [][recv.immutable =>
          \A p \in Paths : Stored(p) =>
              object'[p] = None \/ object'[p].backup = object[p].backup]_vars

\* An object is older than the receiver's retention.
OutOfDate(p) == object[p].backup + Retention < now

\* Retention removes only what is older than it, whenever that was uploaded.
SweptOnlyExpired ==
    [][\A p \in Paths : Stored(p) /\ object'[p] = None => OutOfDate(p)]_vars

\* The same, where the sweep and an upload were not at work on the same path
\* and the row is that of the object: a new backup whose row could not be
\* written goes by the row of the one it replaced.
SweptOnlyExpiredAlone ==
    [][\A p \in Paths \ (raced \union untracked) :
          Stored(p) /\ object'[p] = None => OutOfDate(p)]_vars

\* An expired object goes, even if removing it fails or is interrupted, unless
\* it was never recorded.
EventuallySwept ==
    \A p \in Paths :
        (Stored(p) /\ OutOfDate(p))
            ~> (~Stored(p) \/ ~OutOfDate(p) \/ p \in raced \union untracked)

Overdue == arrived # None /\ arrived + StaleAfter < now

\* When backups stop arriving there is an alert, before retention has removed
\* the last of them.  One that arrives long after it was created, which the
\* file's time says, opens no new gap and is left out, and so is the case that
\* SweptOnlyExpiredAlone excuses.
EventuallyAlerted ==
    Overdue ~> (alerted \/ ~Overdue \/ raced \union untracked # {})

\* A path that every run of a job writes holds the most recent backup, also
\* when the upload of an earlier one is repeated after it.
NeverOlder ==
    [][\A p \in Paths : Stored(p) /\ object'[p] # None
                            => object'[p].backup >= object[p].backup]_vars

=============================================================================
