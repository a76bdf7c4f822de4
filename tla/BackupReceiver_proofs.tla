----------------------- MODULE BackupReceiver_proofs -----------------------
(***************************************************************************)
(* Theorems about BackupReceiver, for any number of objects, folders,      *)
(* uploads, restarts and failing statements, and any receiver.             *)
(***************************************************************************)
EXTENDS BackupReceiver, FiniteSetTheorems, TLAPS

\* None is neither a path nor a folder, and the bounds are numbers.
LEMMA Constants ==
    /\ None \notin Paths /\ None \notin Folders /\ None \notin Times /\ None \notin Object
    /\ FolderOf \in [Paths -> Folders \union {None}]
    /\ \A p \in Paths : p \notin Folders
    /\ MaxTime \in Nat /\ MaxUploads \in Nat /\ MaxFailures \in Nat /\ Retention \in Nat /\ StaleAfter \in Nat
  BY BackupReceiverAssumption

\* A request that has not begun, or is over.
LEMMA EndedRequests ==
    /\ NewUpload \in Requests /\ NewUpload.temp = "none" /\ NewUpload.pc = "new" /\ NewUpload.path = None
    /\ Ended \in Requests /\ Ended.temp = "none" /\ Ended.pc = "ended" /\ Ended.path = None
<1>1. 0 \in Times
  BY Constants DEF Times
<1>2. Ended = [pc |-> "ended", path |-> None, backup |-> 0, temp |-> "none"]
  BY DEF Ended, NewUpload
<1> QED BY <1>1, <1>2, Constants DEF NewUpload, Requests, UploadPcs

\* A step of one request changes that one only.
LEMMA OneRequest ==
    ASSUME TypeOK, NEW u \in Uploads, NEW r \in Requests, upload' = [upload EXCEPT ![u] = r]
    PROVE  /\ upload' \in [Uploads -> Requests]
           /\ upload'[u] = r
           /\ \A v \in Uploads : v # u => upload'[v] = upload[v]
  BY DEF TypeOK

\* A request goes on to a place where it has the temporary file it has now.
LEMMA GoOn ==
    ASSUME TypeOK, NEW u \in Uploads, NEW pc \in UploadPcs \ {"new", "ended", "body", "place"},
           upload[u].pc \notin {"new", "ended"}, upload[u].temp = "none", Goto(u, pc)
    PROVE  /\ upload' \in [Uploads -> Requests]
           /\ upload'[u] = [upload[u] EXCEPT !.pc = pc]
           /\ upload'[u].temp = "none" /\ upload'[u].pc = pc
           /\ upload'[u].path = upload[u].path /\ upload'[u].backup = upload[u].backup
           /\ \A v \in Uploads : v # u => upload'[v] = upload[v]
<1> DEFINE r == [upload[u] EXCEPT !.pc = pc]
<1>1. upload[u] \in Requests
  BY DEF TypeOK
<1>2. r \in Requests /\ r.temp = "none" /\ r.pc = pc /\ r.path = upload[u].path /\ r.backup = upload[u].backup
  BY <1>1 DEF Requests
<1>3. upload' = [upload EXCEPT ![u] = r]
  BY DEF Goto
<1> HIDE DEF r
<1>4. /\ upload' \in [Uploads -> Requests]
      /\ upload'[u] = r
      /\ \A v \in Uploads : v # u => upload'[v] = upload[v]
  BY <1>2, <1>3, OneRequest
<1> QED BY <1>2, <1>4 DEF r

\* A request takes up, fills or gives up its temporary file.
LEMMA WithTemp ==
    ASSUME NEW q \in Requests, q.pc \notin {"new", "ended"},
           NEW pc \in {"body", "place", "date", "conflict"}, NEW temp \in {"open", "written", "none"},
           <<pc, temp>> \in {<<"body", "open">>, <<"place", "written">>, <<"date", "none">>, <<"conflict", "none">>}
    PROVE  LET r == [q EXCEPT !.pc = pc, !.temp = temp]
           IN  /\ r \in Requests /\ r.pc = pc /\ r.temp = temp
               /\ r.path = q.path /\ r.backup = q.backup /\ q.path \in Paths /\ q.backup \in Times
<1> DEFINE r == [q EXCEPT !.pc = pc, !.temp = temp]
           fields == [pc : UploadPcs, path : Paths \union {None}, backup : Times, temp : {"none", "open", "written"}]
<1>1. q \in fields /\ q.path \in Paths
  BY DEF Requests
<1>2. r \in fields
  BY <1>1 DEF UploadPcs
<1>3. r.pc = pc /\ r.temp = temp /\ r.path = q.path /\ r.backup = q.backup
  BY <1>1
<1>4. pc = "body" => temp = "open"
  OBVIOUS
<1>5. pc = "place" => temp = "written"
  OBVIOUS
<1>6. temp # "none" => pc \in {"body", "place"}
  OBVIOUS
<1> HIDE DEF r
<1>7. r \in Requests
  BY <1>1, <1>2, <1>3, <1>4, <1>5, <1>6, Constants DEF Requests
<1> QED BY <1>1, <1>3, <1>7 DEF r

\* A request that neither writes nor ends has no temporary file.
LEMMA NoTemp ==
    ASSUME TypeOK, NEW u \in Uploads, upload[u].pc \notin {"new", "ended", "body", "place", "dead"}
    PROVE  /\ upload[u].temp = "none" /\ upload[u].path \in Paths /\ upload[u].backup \in Times
           /\ FolderOf[upload[u].path] \in Folders \union {None}
<1>1. upload[u] \in Requests
  BY DEF TypeOK
<1>2. upload[u].temp = "none" /\ upload[u].path \in Paths /\ upload[u].backup \in Times
  BY <1>1 DEF Requests
<1> QED BY <1>2, Constants

\* A request ends.
LEMMA Over ==
    ASSUME TypeOK, NEW u \in Uploads, End(u)
    PROVE  /\ upload' \in [Uploads -> Requests]
           /\ upload'[u] = Ended
           /\ \A v \in Uploads : v # u => upload'[v] = upload[v]
  BY EndedRequests, OneRequest DEF End

\* Steps of a request before it writes keep the type.
LEMMA TypeBeforeWriting ==
    ASSUME TypeOK, NEW u \in Uploads,
           \/ \E p \in Paths, backup \in Times : Request(u, p, backup)
           \/ AnswerExisting(u) \/ NothingExists(u) \/ Measure(u)
    PROVE  TypeOK'
<1>1. /\ upload' \in [Uploads -> Requests]
      /\ upload'[u].temp = "none"
      /\ \A v \in Uploads : v # u => upload'[v] = upload[v]
  <2>1. ASSUME NEW p \in Paths, NEW backup \in Times, Request(u, p, backup) PROVE <1>1
    <3> DEFINE r == [pc |-> IF recv.immutable THEN "exists" ELSE "measure",
                     path |-> p, backup |-> backup, temp |-> "none"]
    <3>1. r \in Requests /\ r.temp = "none"
      BY Constants DEF Requests, UploadPcs
    <3>2. upload' = [upload EXCEPT ![u] = r]
      BY <2>1 DEF Request
    <3> HIDE DEF r
    <3> QED BY <3>1, <3>2, OneRequest
  <2>2. CASE End(u)
    BY <2>2, Over, EndedRequests
  <2>3. CASE NothingExists(u) /\ Goto(u, "measure")
    BY <2>3, NoTemp, GoOn DEF NothingExists, UploadPcs
  <2>4. CASE Measure(u) /\ Goto(u, "mkdir")
    BY <2>4, NoTemp, GoOn DEF Measure, UploadPcs
  <2> QED BY <2>1, <2>2, <2>3, <2>4 DEF AnswerExisting, NothingExists, Measure
<1>2. BeforeWriting /\ crowded' \in BOOLEAN
  BY DEF Request, AnswerExisting, NothingExists, Measure, TypeOK
<1> QED BY <1>1, <1>2 DEF BeforeWriting, TypeOK, diskVars, monitorVars, Stored

\* Steps of a request that writes keep the type: a folder with a temporary
\* file or an object in it exists.
LEMMA TypeMakeFolder == ASSUME TypeOK, NEW u \in Uploads, MakeFolder(u) PROVE TypeOK'
<1> DEFINE f == FolderOf[upload[u].path]
<1>1. upload[u].temp = "none" /\ f \in Folders \union {None}
  BY NoTemp DEF MakeFolder
<1>2. /\ upload' \in [Uploads -> Requests]
      /\ upload'[u].temp = "none"
      /\ \A v \in Uploads : v # u => upload'[v] = upload[v]
  BY <1>1, GoOn DEF MakeFolder, UploadPcs
<1>3. folders' \subseteq Folders /\ folders \subseteq folders'
  BY <1>1 DEF MakeFolder, TypeOK
<1> QED BY <1>2, <1>3 DEF MakeFolder, Writing, TypeOK, monitorVars, Stored

LEMMA TypeMark == ASSUME TypeOK, NEW u \in Uploads, Mark(u) PROVE TypeOK'
<1> DEFINE f == FolderOf[upload[u].path]
<1>1. upload[u].temp = "none"
  BY NoTemp DEF Mark
<1>2. /\ upload' \in [Uploads -> Requests]
      /\ upload'[u].temp = "none"
      /\ \A v \in Uploads : v # u => upload'[v] = upload[v]
  BY <1>1, GoOn, Over, EndedRequests DEF Mark, UploadPcs
<1>3. marked' \subseteq folders /\ raced' \subseteq Paths \union Folders
  BY DEF Mark, TypeOK
<1> QED BY <1>2, <1>3 DEF Mark, Writing, TypeOK, monitorVars, Stored

LEMMA TypeCreateTemp == ASSUME TypeOK, NEW u \in Uploads, CreateTemp(u) PROVE TypeOK'
<1> DEFINE r == [upload[u] EXCEPT !.pc = "body", !.temp = "open"]
<1>1. r \in Requests /\ r.path = upload[u].path
  <2>1. upload[u] \in Requests /\ upload[u].pc = "temp"
    BY DEF CreateTemp, TypeOK
  <2> QED BY <2>1, WithTemp
<1>2. CASE End(u)
  BY <1>2, Over, EndedRequests DEF CreateTemp, Writing, TypeOK, diskVars, monitorVars, Stored
<1>3. CASE FolderOf[upload[u].path] \in folders \union {None} /\ upload' = [upload EXCEPT ![u] = r]
  <2> HIDE DEF r
  <2>1. /\ upload' \in [Uploads -> Requests]
        /\ upload'[u] = r
        /\ \A v \in Uploads : v # u => upload'[v] = upload[v]
    BY <1>1, <1>3, OneRequest
  <2> QED BY <1>1, <1>3, <2>1 DEF CreateTemp, Writing, TypeOK, diskVars, monitorVars, Stored
<1> QED BY <1>2, <1>3 DEF CreateTemp

LEMMA TypeBody == ASSUME TypeOK, NEW u \in Uploads, ReceiveBody(u) \/ BodyFails(u) PROVE TypeOK'
<1> DEFINE r == [upload[u] EXCEPT !.pc = "place", !.temp = "written"]
<1>1. r \in Requests /\ r.path = upload[u].path /\ upload[u].temp # "none"
  <2>1. upload[u] \in Requests /\ upload[u].pc = "body"
    BY DEF ReceiveBody, BodyFails, TypeOK
  <2>2. upload[u].temp # "none"
    BY <2>1 DEF Requests
  <2> QED BY <2>1, <2>2, WithTemp
<1>2. CASE BodyFails(u)
  BY <1>2, Over, EndedRequests DEF BodyFails, Writing, TypeOK, diskVars, monitorVars, Stored
<1>3. CASE ReceiveBody(u) /\ upload' = [upload EXCEPT ![u] = r]
  <2> HIDE DEF r
  <2>1. /\ upload' \in [Uploads -> Requests]
        /\ upload'[u] = r
        /\ \A v \in Uploads : v # u => upload'[v] = upload[v]
    BY <1>1, <1>3, OneRequest
  <2> QED BY <1>1, <1>3, <2>1 DEF ReceiveBody, Writing, TypeOK, diskVars, monitorVars, Stored
<1> QED BY <1>2, <1>3 DEF ReceiveBody

\* What a request leaves where it places its file.
LEMMA Placed ==
    ASSUME TypeOK, NEW u \in Uploads, upload[u].pc = "place", Place(u)
    PROVE  LET p == upload[u].path IN
           /\ p \in Paths /\ FolderOf[p] \in folders \union {None} /\ upload[u].backup \in Times
           /\ object' \in [Paths -> Object \union {None}]
           /\ object'[p] \in Object /\ object'[p].backup = upload[u].backup
           /\ \A q \in Paths : q # p => object'[q] = object[q]
           /\ upload' \in [Uploads -> Requests]
           /\ upload'[u].temp = "none" /\ upload'[u].pc = "date"
           /\ upload'[u].path = p /\ upload'[u].backup = upload[u].backup
           /\ \A v \in Uploads : v # u => upload'[v] = upload[v]
<1> DEFINE p == upload[u].path
           r == [upload[u] EXCEPT !.pc = "date", !.temp = "none"]
           o == [backup |-> upload[u].backup, mtime |-> now]
<1>1. /\ r \in Requests /\ r.path = p /\ r.temp = "none" /\ r.pc = "date" /\ r.backup = upload[u].backup
      /\ p \in Paths /\ upload[u].backup \in Times /\ upload[u].temp = "written"
  <2>1. upload[u] \in Requests
    BY DEF TypeOK
  <2>2. upload[u].temp = "written"
    BY <2>1 DEF Requests
  <2> QED BY <2>1, <2>2, WithTemp
<1>2. FolderOf[p] \in folders \union {None}
  BY <1>1 DEF TypeOK
<1>3. o \in Object /\ o.backup = upload[u].backup
  BY <1>1 DEF Object, TypeOK
<1>4. upload' = [upload EXCEPT ![u] = r] /\ object' = [object EXCEPT ![p] = o]
  BY DEF Place
<1> HIDE DEF r
<1>5. /\ upload' \in [Uploads -> Requests]
      /\ upload'[u] = r
      /\ \A v \in Uploads : v # u => upload'[v] = upload[v]
  BY <1>1, <1>4, OneRequest
<1>6. /\ object' \in [Paths -> Object \union {None}] /\ object'[p] = o
      /\ \A q \in Paths : q # p => object'[q] = object[q]
  BY <1>1, <1>3, <1>4 DEF TypeOK
<1> QED BY <1>1, <1>2, <1>3, <1>5, <1>6

LEMMA TypePlace == ASSUME TypeOK, NEW u \in Uploads, Rename(u) \/ Link(u) PROVE TypeOK'
<1>1. upload[u].pc = "place" /\ Writing
  BY DEF Rename, Link
<1>2. CASE Place(u)
  <2> DEFINE p == upload[u].path
  <2>1. /\ p \in Paths /\ FolderOf[p] \in folders \union {None} /\ upload[u].backup \in Times
        /\ object' \in [Paths -> Object \union {None}]
        /\ \A q \in Paths : q # p => object'[q] = object[q]
        /\ upload' \in [Uploads -> Requests]
        /\ upload'[u].temp = "none"
        /\ \A v \in Uploads : v # u => upload'[v] = upload[v]
    BY <1>1, <1>2, Placed
  <2>2. /\ UNCHANGED <<folders, marked>> /\ raced' \subseteq Paths \union Folders
        /\ arrived' \in Times \union {None}
    BY <1>2, <2>1 DEF Place, TypeOK
  <2>3. \A q \in Paths : Stored(q)' => FolderOf[q] \in folders' \union {None}
    BY <2>1, <2>2 DEF TypeOK, Stored
  <2>4. \A v \in Uploads : upload'[v].temp # "none" => FolderOf[upload'[v].path] \in folders' \union {None}
    BY <2>1, <2>2 DEF TypeOK
  <2> QED BY <1>1, <2>1, <2>2, <2>3, <2>4 DEF Writing, TypeOK, monitorVars
<1>3. CASE Stored(upload[u].path) /\ Link(u)
  <2> DEFINE r == [upload[u] EXCEPT !.pc = "conflict", !.temp = "none"]
  <2>1. upload[u] \in Requests
    BY DEF TypeOK
  <2>2. r \in Requests /\ r.temp = "none"
    BY <1>1, <2>1, WithTemp
  <2>3. upload' = [upload EXCEPT ![u] = r]
    BY <1>3 DEF Link
  <2> HIDE DEF r
  <2>4. /\ upload' \in [Uploads -> Requests]
        /\ upload'[u] = r
        /\ \A v \in Uploads : v # u => upload'[v] = upload[v]
    BY <2>2, <2>3, OneRequest
  <2>5. UNCHANGED <<diskVars, raced, arrived>>
    BY <1>3 DEF Link
  <2> QED BY <1>1, <2>2, <2>4, <2>5 DEF Writing, TypeOK, diskVars, monitorVars, Stored
<1> QED BY <1>2, <1>3 DEF Rename, Link

\* What dating leaves: the object at the path, if any, with the backup's time.
LEMMA Dated ==
    ASSUME TypeOK, NEW u \in Uploads, Date(u)
    PROVE  LET p == upload[u].path IN
           /\ p \in Paths /\ upload[u].backup \in Times
           /\ object' \in [Paths -> Object \union {None}]
           /\ \A q \in Paths : q # p => object'[q] = object[q]
           /\ Stored(p) => /\ object'[p] \in Object
                           /\ object'[p].backup = object[p].backup
                           /\ object'[p].mtime = upload[u].backup
           /\ ~Stored(p) => object'[p] = None
           /\ upload' \in [Uploads -> Requests]
           /\ upload'[u].temp = "none" /\ upload'[u].pc = "record"
           /\ upload'[u].path = p /\ upload'[u].backup = upload[u].backup
           /\ \A v \in Uploads : v # u => upload'[v] = upload[v]
<1> DEFINE p == upload[u].path
           o == [object[p] EXCEPT !.mtime = upload[u].backup]
<1>1. /\ upload' \in [Uploads -> Requests]
      /\ upload'[u].temp = "none" /\ upload'[u].pc = "record"
      /\ upload'[u].path = p /\ upload'[u].backup = upload[u].backup
      /\ \A v \in Uploads : v # u => upload'[v] = upload[v]
      /\ p \in Paths /\ upload[u].backup \in Times
  BY NoTemp, GoOn DEF Date, UploadPcs
<1>2. CASE Stored(p)
  <2>1. object[p] \in Object
    BY <1>1, <1>2 DEF TypeOK, Stored
  <2>2. o \in Object /\ o.backup = object[p].backup /\ o.mtime = upload[u].backup
    BY <1>1, <2>1 DEF Object
  <2>3. object' = [object EXCEPT ![p] = o]
    BY <1>2 DEF Date
  <2> HIDE DEF o
  <2>4. /\ object' \in [Paths -> Object \union {None}] /\ object'[p] = o
        /\ \A q \in Paths : q # p => object'[q] = object[q]
    BY <1>1, <2>2, <2>3 DEF TypeOK
  <2> QED BY <1>1, <1>2, <2>2, <2>4
<1>3. CASE ~Stored(p)
  BY <1>1, <1>3 DEF Date, TypeOK, Stored
<1> QED BY <1>2, <1>3

LEMMA TypeDate == ASSUME TypeOK, NEW u \in Uploads, Date(u) PROVE TypeOK'
<1> DEFINE p == upload[u].path
<1>1. /\ p \in Paths
      /\ object' \in [Paths -> Object \union {None}]
      /\ \A q \in Paths : q # p => object'[q] = object[q]
      /\ ~Stored(p) => object'[p] = None
      /\ upload' \in [Uploads -> Requests]
      /\ upload'[u].temp = "none"
      /\ \A v \in Uploads : v # u => upload'[v] = upload[v]
  BY Dated
<1>2. UNCHANGED <<recv, now, folders, marked, rows, sweep, monitorVars, failures, historyVars>>
  BY DEF Date
<1>3. \A q \in Paths : Stored(q)' => FolderOf[q] \in folders' \union {None}
  BY <1>1, <1>2 DEF TypeOK, Stored
<1>4. \A v \in Uploads : upload'[v].temp # "none" => FolderOf[upload'[v].path] \in folders' \union {None}
  BY <1>1, <1>2 DEF TypeOK
<1> QED BY <1>1, <1>2, <1>3, <1>4 DEF TypeOK, monitorVars, historyVars

LEMMA TypeRecord == ASSUME TypeOK, NEW u \in Uploads, Record(u) \/ RecordFails(u) PROVE TypeOK'
<1>1. /\ upload' \in [Uploads -> Requests]
      /\ upload'[u].temp = "none"
      /\ \A v \in Uploads : v # u => upload'[v] = upload[v]
      /\ upload[u].path \in Paths /\ upload[u].backup \in Times
  BY Over, EndedRequests, NoTemp DEF Record, RecordFails
<1>2. /\ rows' \in [Paths -> Times \union {None}] /\ untracked' \subseteq Paths
      /\ UNCHANGED <<recv, now, diskVars, sweep, monitorVars, raced, crowded, arrived>>
  BY <1>1 DEF Record, RecordFails, TypeOK
<1>3. failures' = failures \/ (failures < MaxFailures /\ failures' = failures + 1)
  BY DEF Record, RecordFails
<1>4. failures' \in 0..MaxFailures
  BY <1>3, Constants DEF TypeOK
<1> QED BY <1>1, <1>2, <1>4 DEF TypeOK, diskVars, monitorVars, Stored

LEMMA TypeUpload == ASSUME TypeOK, NEW u \in Uploads, HandleReceiveObject(u) PROVE TypeOK'
  BY TypeBeforeWriting, TypeMakeFolder, TypeMark, TypeCreateTemp, TypeBody, TypePlace, TypeDate, TypeRecord
     DEF HandleReceiveObject

-----------------------------------------------------------------------------
(* The sweep, the clock and restarts keep the type *)

\* A sweep that has a path goes on with it, or with the next.
LEMMA SweepGoesOn ==
    ASSUME TypeOK, sweep.pc # "idle",
           \/ NextExpired
           \/ \E pc \in {"folder", "marker", "rmdir"} : sweep' = [sweep EXCEPT !.pc = pc]
    PROVE  /\ sweep' \in Sweeps /\ sweep'.left = sweep.left
           /\ sweep'.cur = sweep.cur \/ sweep'.cur = None
           /\ sweep.cur \in Paths
<1> DEFINE fields == [pc : {"idle", "row", "folder", "marker", "rmdir"}, left : SUBSET Paths, cur : Paths \union {None}]
<1>1. sweep \in fields /\ sweep.cur \in Paths
  BY DEF TypeOK, Sweeps
<1>2. CASE NextExpired
  <2> DEFINE s == [sweep EXCEPT !.pc = "idle", !.cur = None]
  <2>1. s \in fields
    BY <1>1
  <2>2. s.pc = "idle" /\ s.cur = None /\ s.left = sweep.left
    BY <1>1
  <2>3. sweep' = s
    BY <1>2 DEF NextExpired
  <2> HIDE DEF s
  <2> QED BY <1>1, <2>1, <2>2, <2>3 DEF Sweeps
<1>3. ASSUME NEW pc \in {"folder", "marker", "rmdir"}, sweep' = [sweep EXCEPT !.pc = pc]
      PROVE  sweep' \in Sweeps /\ sweep'.left = sweep.left /\ sweep'.cur = sweep.cur
  <2> DEFINE s == [sweep EXCEPT !.pc = pc]
  <2>1. s \in fields /\ s.pc = pc /\ s.cur = sweep.cur /\ s.left = sweep.left
    BY <1>1
  <2> HIDE DEF s
  <2>2. sweep' = s
    BY <1>3 DEF s
  <2> QED BY <1>1, <2>1, <2>2, Constants DEF Sweeps
<1> QED BY <1>1, <1>2, <1>3

\* A sweep lists expired paths.
LEMMA SweepListed ==
    ASSUME TypeOK, ListExpired
    PROVE  LET expired == {p \in Paths : rows[p] # None /\ Expired(rows[p])} IN
           /\ sweep' \in Sweeps /\ sweep'.pc = "idle" /\ sweep'.cur = None /\ sweep'.left = expired
<1> DEFINE expired == {p \in Paths : rows[p] # None /\ Expired(rows[p])}
           s == [pc |-> "idle", left |-> expired, cur |-> None]
<1>1. s \in Sweeps /\ s.pc = "idle" /\ s.cur = None /\ s.left = expired
  BY Constants DEF Sweeps
<1>2. sweep' = s
  BY DEF ListExpired, Idle
<1> QED BY <1>1, <1>2

\* A sweep removes the file of a listed path.
LEMMA SweepRemoves ==
    ASSUME TypeOK, NEW p \in Paths, RemoveFile(p)
    PROVE  /\ sweep' \in Sweeps /\ sweep'.pc = "row" /\ sweep'.cur = p /\ sweep'.left = sweep.left \ {p}
           /\ object' \in [Paths -> Object \union {None}]
           /\ object'[p] = None /\ \A q \in Paths : q # p => object'[q] = object[q]
<1> DEFINE s == [pc |-> "row", left |-> sweep.left \ {p}, cur |-> p]
<1>1. sweep.left \subseteq Paths
  BY DEF TypeOK, Sweeps
<1>2. s \in Sweeps
  BY <1>1, Constants DEF Sweeps
<1>3. sweep' = s
  BY DEF RemoveFile
<1>4. /\ object' \in [Paths -> Object \union {None}]
      /\ object'[p] = None /\ \A q \in Paths : q # p => object'[q] = object[q]
  BY DEF RemoveFile, TypeOK
<1> QED BY <1>2, <1>3, <1>4

LEMMA TypeSweep == ASSUME TypeOK, MonitorReceiverRetention PROVE TypeOK'
<1>1. SweepOthers
  BY DEF MonitorReceiverRetention, ListExpired, RemoveFile, DeleteRow, DeleteRowFails, CheckFolder, RemoveMarker, RemoveFolder
<1>2. CASE ListExpired
  <2>1. sweep' \in Sweeps
    BY <1>2, SweepListed
  <2>2. raced' \subseteq Paths \union Folders
    BY <1>2 DEF ListExpired, TypeOK
  <2> QED BY <1>1, <1>2, <2>1, <2>2 DEF ListExpired, SweepOthers, TypeOK, diskVars, monitorVars, Stored
<1>3. ASSUME NEW p \in Paths, RemoveFile(p) PROVE TypeOK'
  <2>1. /\ sweep' \in Sweeps
        /\ object' \in [Paths -> Object \union {None}]
        /\ object'[p] = None /\ \A q \in Paths : q # p => object'[q] = object[q]
    BY <1>3, SweepRemoves
  <2>2. UNCHANGED <<folders, marked, rows, failures, raced, untracked>>
    BY <1>3 DEF RemoveFile
  <2>3. \A q \in Paths : Stored(q)' => FolderOf[q] \in folders' \union {None}
    BY <2>1, <2>2 DEF TypeOK, Stored
  <2> QED BY <1>1, <2>1, <2>2, <2>3 DEF SweepOthers, TypeOK, monitorVars
<1>4. CASE DeleteRow
  <2>1. sweep' \in Sweeps /\ sweep.cur \in Paths
    BY <1>4, SweepGoesOn DEF DeleteRow
  <2>2. rows' \in [Paths -> Times \union {None}]
    BY <1>4, <2>1 DEF DeleteRow, TypeOK
  <2> QED BY <1>1, <1>4, <2>1, <2>2 DEF DeleteRow, SweepOthers, TypeOK, diskVars, monitorVars, Stored
<1>5. CASE DeleteRowFails
  <2>1. sweep' \in Sweeps
    BY <1>5, SweepGoesOn DEF DeleteRowFails
  <2>2. failures' \in 0..MaxFailures
    BY <1>5, Constants DEF DeleteRowFails, TypeOK
  <2> QED BY <1>1, <1>5, <2>1, <2>2 DEF DeleteRowFails, SweepOthers, TypeOK, diskVars, monitorVars, Stored
<1>6. CASE CheckFolder
  <2>1. sweep' \in Sweeps
    BY <1>6, SweepGoesOn DEF CheckFolder
  <2>2. raced' \subseteq Paths \union Folders
    <3>1. FolderOf[sweep.cur] \in marked => FolderOf[sweep.cur] \in Folders
      BY DEF TypeOK
    <3> QED BY <1>6, <3>1 DEF CheckFolder, OnlyMarkerIn, TypeOK
  <2> QED BY <1>1, <1>6, <2>1, <2>2 DEF CheckFolder, SweepOthers, TypeOK, diskVars, monitorVars, Stored
<1>7. CASE RemoveMarker
  <2>1. sweep' \in Sweeps
    BY <1>7, SweepGoesOn DEF RemoveMarker
  <2>2. marked' \subseteq folders
    BY <1>7 DEF RemoveMarker, TypeOK
  <2> QED BY <1>1, <1>7, <2>1, <2>2 DEF RemoveMarker, SweepOthers, TypeOK, monitorVars, Stored
<1>8. CASE RemoveFolder
  <2> DEFINE f == FolderOf[sweep.cur]
  <2>1. sweep' \in Sweeps
    BY <1>8, SweepGoesOn DEF RemoveFolder
  <2>2. \/ folders' = folders
        \/ /\ folders' = folders \ {f}
           /\ f \notin marked
           /\ \A p \in Paths : FolderOf[p] = f => ~Stored(p)
           /\ \A u \in Uploads : upload[u].temp # "none" => ~InFolder(u, f)
    BY <1>8 DEF RemoveFolder
  <2>3. UNCHANGED <<object, marked, rows, failures, raced, untracked, upload>>
    BY <1>1, <1>8 DEF RemoveFolder, SweepOthers
  <2> HIDE DEF f
  <2>4. folders' \subseteq Folders /\ marked' \subseteq folders'
    BY <2>2, <2>3 DEF TypeOK
  <2>5. \A p \in Paths : Stored(p)' => FolderOf[p] \in folders' \union {None}
    BY <2>2, <2>3 DEF TypeOK, Stored
  <2>6. \A u \in Uploads : upload'[u].temp # "none" => FolderOf[upload'[u].path] \in folders' \union {None}
    BY <2>2, <2>3 DEF TypeOK, InFolder
  <2> QED BY <1>1, <2>1, <2>3, <2>4, <2>5, <2>6 DEF SweepOthers, TypeOK, monitorVars
<1> QED BY <1>2, <1>3, <1>4, <1>5, <1>6, <1>7, <1>8 DEF MonitorReceiverRetention

\* What a restart leaves of a request: nothing, or its temporary file.
LEMMA Restarted ==
    ASSUME TypeOK, Restart, NEW u \in Uploads
    PROVE  /\ upload'[u] \in Requests /\ upload' = [v \in Uploads |-> upload'[v]]
           /\ upload'[u].pc \in {"new", "ended", "dead"}
           /\ upload'[u].temp # "none" => upload'[u].path = upload[u].path /\ upload[u].temp # "none"
<1>1. upload'[u] = CASE upload[u].pc = "new" -> NewUpload
                     [] upload[u].temp # "none" -> [upload[u] EXCEPT !.pc = "dead"]
                     [] OTHER -> Ended
  BY DEF Restart
<1>2. upload[u] \in Requests
  BY DEF TypeOK
<1>3. upload' = [v \in Uploads |-> upload'[v]]
  BY DEF Restart
<1>4. CASE upload[u].pc = "new"
  <2>1. upload[u].temp = "none"
    BY <1>2, <1>4 DEF Requests
  <2> QED BY <1>1, <1>3, <1>4, <2>1, EndedRequests
<1>5. CASE upload[u].pc # "new" /\ upload[u].temp = "none"
  BY <1>1, <1>3, <1>5, EndedRequests
<1>6. CASE upload[u].pc # "new" /\ upload[u].temp # "none"
  <2> DEFINE r == [upload[u] EXCEPT !.pc = "dead"]
  <2>1. r \in Requests /\ r.pc = "dead" /\ r.path = upload[u].path
    BY <1>2, <1>6 DEF Requests, UploadPcs
  <2>2. upload'[u] = r
    BY <1>1, <1>6
  <2> QED BY <1>3, <1>6, <2>1, <2>2
<1> QED BY <1>4, <1>5, <1>6

LEMMA TypeRestart == ASSUME TypeOK, Restart PROVE TypeOK'
<1>1. upload' \in [Uploads -> Requests]
  <2>1. upload' = [v \in Uploads |-> upload'[v]]
    BY DEF Restart
  <2> QED BY <2>1, Restarted
<1>2. \A u \in Uploads : upload'[u].temp # "none" => FolderOf[upload'[u].path] \in folders' \union {None}
  BY Restarted DEF Restart, TypeOK, diskVars
<1>3. sweep' \in Sweeps
  BY Constants DEF Restart, Idle, Sweeps
<1>4. failures' \in 0..MaxFailures /\ untracked' \subseteq Paths
  BY Constants DEF Restart, TypeOK
<1> QED BY <1>1, <1>2, <1>3, <1>4 DEF Restart, TypeOK, diskVars, Stored

LEMMA TypeInit == Init => TypeOK
<1> SUFFICES ASSUME Init PROVE TypeOK
  OBVIOUS
<1>1. now \in Times /\ 0 \in 0..MaxFailures
  BY Constants DEF Init, Times
<1>2. upload \in [Uploads -> Requests] /\ \A u \in Uploads : upload[u].temp = "none"
  BY EndedRequests DEF Init
<1>3. sweep \in Sweeps
  BY Constants DEF Init, Idle, Sweeps
<1>4. object \in [Paths -> Object \union {None}] /\ \A p \in Paths : ~Stored(p)
  BY DEF Init, Stored
<1> QED BY <1>1, <1>2, <1>3, <1>4 DEF Init, TypeOK

LEMMA TypeStep == TypeOK /\ [Next]_vars => TypeOK'
<1> SUFFICES ASSUME TypeOK, [Next]_vars PROVE TypeOK'
  OBVIOUS
<1>1. CASE Tick
  <2>1. now' \in Times
    BY <1>1, Constants DEF Tick, TypeOK, Times
  <2> QED BY <1>1, <2>1 DEF Tick, TypeOK, diskVars, historyVars, Stored
<1>2. CASE CheckStale
  <2>1. Stale \in BOOLEAN
    BY DEF Stale
  <2> HIDE DEF Stale
  <2> QED BY <1>2, <2>1 DEF CheckStale, TypeOK, diskVars, historyVars, Stored
<1>3. CASE UNCHANGED vars
  BY <1>3 DEF vars, diskVars, monitorVars, historyVars, TypeOK, Stored
<1> QED BY <1>1, <1>2, <1>3, TypeUpload, TypeSweep, TypeRestart DEF Next

\* Every variable keeps its type, and no file, marker or temporary file is
\* ever left without its folder, for any number of uploads and sweeps.
THEOREM TypeCorrect == Spec => []TypeOK
  BY TypeInit, TypeStep, PTL DEF Spec

-----------------------------------------------------------------------------
(* What happens to an object *)

\* An object appears when a request places its file, is dated by that
\* request, and goes when the sweep removes it.
LEMMA ObjectSteps ==
    ASSUME [Next]_vars
    PROVE  \/ UNCHANGED object
           \/ \E u \in Uploads : /\ upload[u].pc = "place" /\ Place(u)
                                 /\ recv.immutable => ~Stored(upload[u].path)
           \/ \E u \in Uploads : Date(u)
           \/ \E p \in Paths : RemoveFile(p)
<1>1. CASE Tick \/ CheckStale \/ Restart \/ UNCHANGED vars
  BY <1>1 DEF Tick, CheckStale, Restart, vars, diskVars
<1>2. ASSUME NEW u \in Uploads, HandleReceiveObject(u)
      PROVE  \/ UNCHANGED object
             \/ upload[u].pc = "place" /\ Place(u) /\ (recv.immutable => ~Stored(upload[u].path))
             \/ Date(u)
  <2>1. CASE \/ \E p \in Paths, backup \in Times : Request(u, p, backup)
             \/ AnswerExisting(u) \/ NothingExists(u) \/ Measure(u)
    BY <2>1 DEF Request, AnswerExisting, NothingExists, Measure, BeforeWriting, diskVars
  <2>2. CASE MakeFolder(u) \/ Mark(u) \/ CreateTemp(u) \/ ReceiveBody(u) \/ BodyFails(u) \/ Record(u) \/ RecordFails(u)
    BY <2>2 DEF MakeFolder, Mark, CreateTemp, ReceiveBody, BodyFails, Record, RecordFails, diskVars
  <2>3. CASE Rename(u) \/ Link(u)
    BY <2>3 DEF Rename, Link, diskVars
  <2> QED BY <1>2, <2>1, <2>2, <2>3 DEF HandleReceiveObject
<1>3. CASE MonitorReceiverRetention
  BY <1>3 DEF MonitorReceiverRetention, ListExpired, DeleteRow, DeleteRowFails, CheckFolder, RemoveMarker, RemoveFolder, diskVars
<1> QED BY <1>1, <1>2, <1>3 DEF Next

\* An immutable receiver never replaces an object.
LEMMA StepNeverOverwrites ==
    ASSUME TypeOK, [Next]_vars, recv.immutable, NEW p \in Paths, Stored(p)
    PROVE  object'[p] = None \/ object'[p].backup = object[p].backup
<1>1. ASSUME NEW u \in Uploads, upload[u].pc = "place", Place(u), ~Stored(upload[u].path)
      PROVE  object'[p] = object[p]
  BY <1>1, Placed
<1>2. ASSUME NEW u \in Uploads, Date(u)
      PROVE  object'[p].backup = object[p].backup
  BY <1>2, Dated
<1>3. ASSUME NEW q \in Paths, RemoveFile(q)
      PROVE  object'[p] = None \/ object'[p] = object[p]
  BY <1>3, SweepRemoves
<1> QED BY <1>1, <1>2, <1>3, ObjectSteps

\* However many uploads of a path are on at once, and whenever each looked,
\* an immutable receiver's object is the one that came first until the sweep
\* removes it.
THEOREM ObjectsStay == Spec => NeverOverwritten
<1>1. TypeOK /\ [Next]_vars
         => [recv.immutable =>
                \A p \in Paths : Stored(p) => object'[p] = None \/ object'[p].backup = object[p].backup]_vars
  BY StepNeverOverwrites
<1> QED BY <1>1, TypeCorrect, PTL DEF Spec, NeverOverwritten

-----------------------------------------------------------------------------
(* What an object's row says of it *)

\* A request has placed its file at a path where neither the sweep nor
\* another request is at work: the object is its own.
PlacedAlone ==
    \A p \in Paths : p \notin raced => \A u \in Placing(p) :
        /\ ~Sweeping(p)
        /\ \A v \in Placing(p) : v = u
        /\ Stored(p) => /\ object[p].backup = upload[u].backup
                        /\ upload[u].pc = "record" => object[p].mtime = upload[u].backup

\* The sweep deletes the row, and looks at the folder, of a file it removed.
SweptGone == \A p \in Paths : sweep.cur = p /\ p \notin raced => ~Stored(p)

\* What the sweep listed was expired and still is.
ListedOld ==
    \A p \in sweep.left : p \notin raced \union untracked /\ Stored(p) => OutOfDate(p)

Tracking == TrackedAsCreated /\ PlacedAlone /\ SweptGone /\ ListedOld

\* Steps that leave objects, rows and requests with a file in place alone.
LEMMA TrackQuiet ==
    ASSUME TypeOK, TypeOK', Tracking, UNCHANGED <<object, rows, untracked>>, now <= now',
           \A p \in Paths : p \in raced' <=> p \in raced,
           sweep'.left = sweep.left, sweep'.cur = sweep.cur \/ sweep'.cur = None,
           \A v \in Uploads : upload[v].pc \in {"date", "record"} => upload'[v] = upload[v],
           \A v \in Uploads : upload'[v].pc \in {"date", "record"} => upload'[v] = upload[v]
    PROVE  Tracking'
<1>1. \A p \in Paths : Stored(p)' <=> Stored(p)
  BY DEF Stored
<1>2. \A p \in Paths : Placing(p)' = Placing(p)
  BY DEF Placing
<1>3. \A p \in Paths : Sweeping(p)' => Sweeping(p)
  BY Constants DEF Sweeping
<1>4. \A p \in Paths : \A u \in Placing(p) : upload'[u] = upload[u]
  BY DEF Placing
<1>5. TrackedAsCreated'
  BY <1>1, <1>2 DEF Tracking, TrackedAsCreated
<1>6. PlacedAlone'
  BY <1>1, <1>2, <1>3, <1>4 DEF Tracking, PlacedAlone
<1>7. SweptGone'
  BY <1>1, Constants DEF Tracking, SweptGone
<1>8. ListedOld'
  <2> SUFFICES ASSUME NEW p \in sweep.left, p \notin raced \union untracked, Stored(p)
               PROVE  OutOfDate(p)'
    <3>1. sweep.left \subseteq Paths
      BY DEF TypeOK, Sweeps
    <3> QED BY <1>1, <3>1 DEF ListedOld
  <2>1. p \in Paths /\ object[p] \in Object
    BY DEF TypeOK, Sweeps, Stored
  <2>2. object[p].backup + Retention < now
    BY DEF Tracking, ListedOld, OutOfDate
  <2>3. object[p].backup \in Nat /\ now \in Nat /\ now' \in Nat
    BY <2>1, Constants DEF Object, Times, TypeOK
  <2> QED BY <2>2, <2>3, Constants DEF OutOfDate
<1> QED BY <1>5, <1>6, <1>7, <1>8 DEF Tracking

\* A file placed while neither the sweep nor another request is at work on
\* the path is its request's own; what happened there before is past.
LEMMA TrackPlace ==
    ASSUME TypeOK, TypeOK', Tracking, NEW u \in Uploads, upload[u].pc = "place", Place(u),
           UNCHANGED <<now, rows, sweep, untracked>>
    PROVE  Tracking'
<1>0. PICK p \in Paths : p = upload[u].path
  BY Placed
<1>1. /\ p \in Paths
      /\ object'[p].backup = upload[u].backup
      /\ \A q \in Paths : q # p => object'[q] = object[q]
      /\ upload'[u].pc = "date" /\ upload'[u].path = p /\ upload'[u].backup = upload[u].backup
      /\ \A v \in Uploads : v # u => upload'[v] = upload[v]
  BY <1>0, Placed
<1>2. raced' = IF Sweeping(p) \/ Placing(p) # {} THEN raced \union {p} ELSE raced \ {p}
  BY <1>0 DEF Place
<1>3. Placing(p)' = Placing(p) \union {u} /\ u \notin Placing(p)
  BY <1>0, <1>1 DEF Placing
<1>4. ASSUME NEW q \in Paths, q # p
      PROVE  /\ Placing(q)' = Placing(q) /\ (Stored(q)' <=> Stored(q)) /\ (q \in raced' <=> q \in raced)
             /\ \A v \in Placing(q) : upload'[v] = upload[v]
  BY <1>0, <1>1, <1>2, <1>4 DEF Placing, Stored
<1>5. \A q \in Paths : Sweeping(q)' <=> Sweeping(q)
  BY DEF Sweeping
<1>6. p \notin raced' => ~Sweeping(p) /\ Placing(p) = {}
  BY <1>2
<1>7. TrackedAsCreated'
  BY <1>1, <1>3, <1>4 DEF Tracking, TrackedAsCreated
<1>8. PlacedAlone'
  BY <1>1, <1>3, <1>4, <1>5, <1>6 DEF Tracking, PlacedAlone
<1>9. SweptGone'
  BY <1>4, <1>6 DEF Tracking, SweptGone, Sweeping
<1>10. ListedOld'
  <2> SUFFICES ASSUME NEW q \in sweep.left, q \notin raced' \union untracked, Stored(q)'
               PROVE  OutOfDate(q)'
    BY DEF ListedOld
  <2>1. q \in Paths /\ q # p
    BY <1>6 DEF Sweeping, TypeOK, Sweeps
  <2>2. object'[q] = object[q] /\ OutOfDate(q)
    BY <1>1, <1>4, <2>1 DEF Tracking, ListedOld
  <2> QED BY <2>2 DEF OutOfDate
<1> QED BY <1>7, <1>8, <1>9, <1>10 DEF Tracking

\* Dating an object says when its backup was created.
LEMMA TrackDate ==
    ASSUME TypeOK, TypeOK', Tracking, NEW u \in Uploads, Date(u)
    PROVE  Tracking'
<1>0. PICK p \in Paths : p = upload[u].path
  BY Dated
<1>1. /\ p \in Paths
      /\ \A q \in Paths : q # p => object'[q] = object[q]
      /\ Stored(p) => /\ object'[p] \in Object
                      /\ object'[p].backup = object[p].backup
                      /\ object'[p].mtime = upload[u].backup
      /\ ~Stored(p) => object'[p] = None
      /\ upload'[u].pc = "record" /\ upload'[u].path = p /\ upload'[u].backup = upload[u].backup
      /\ \A v \in Uploads : v # u => upload'[v] = upload[v]
  BY <1>0, Dated
<1>2. UNCHANGED <<now, rows, sweep, raced, untracked>> /\ upload[u].pc = "date"
  BY DEF Date, historyVars
<1>3. u \in Placing(p) /\ Placing(p)' = Placing(p)
  BY <1>0, <1>1, <1>2 DEF Placing
<1>4. ASSUME NEW q \in Paths
      PROVE  Placing(q)' = Placing(q) /\ (Stored(q)' <=> Stored(q)) /\ (Sweeping(q)' <=> Sweeping(q))
  BY <1>0, <1>1, <1>2, <1>3, Constants DEF Placing, Stored, Sweeping
<1>5. ASSUME NEW q \in Paths, q # p
      PROVE  \A v \in Placing(q) : upload'[v] = upload[v]
  BY <1>0, <1>1, <1>5 DEF Placing
<1>6. TrackedAsCreated'
  BY <1>1, <1>2, <1>3, <1>4 DEF Tracking, TrackedAsCreated
<1>7. PlacedAlone'
  BY <1>1, <1>2, <1>3, <1>4, <1>5 DEF Tracking, PlacedAlone
<1>8. SweptGone'
  BY <1>2, <1>4 DEF Tracking, SweptGone
<1>9. ListedOld'
  <2> SUFFICES ASSUME NEW q \in sweep.left, q \notin raced \union untracked, Stored(q)'
               PROVE  OutOfDate(q)'
    BY <1>2 DEF ListedOld
  <2>1. q \in Paths /\ Stored(q)
    BY <1>4 DEF TypeOK, Sweeps
  <2>2. object'[q].backup = object[q].backup /\ OutOfDate(q)
    BY <1>1, <2>1 DEF Tracking, ListedOld
  <2> QED BY <1>2, <2>2 DEF OutOfDate
<1> QED BY <1>6, <1>7, <1>8, <1>9 DEF Tracking

\* The row says so as well, or the path is known not to be recorded.
LEMMA TrackRecord ==
    ASSUME TypeOK, TypeOK', Tracking, NEW u \in Uploads, Record(u) \/ RecordFails(u)
    PROVE  Tracking'
<1>0. PICK p \in Paths : p = upload[u].path
  BY NoTemp DEF Record, RecordFails
<1>1. /\ p \in Paths /\ upload[u].pc = "record" /\ upload'[u].pc = "ended" /\ upload[u].backup \in Times
      /\ \A v \in Uploads : v # u => upload'[v] = upload[v]
  BY <1>0, NoTemp, Over, EndedRequests DEF Record, RecordFails
<1>2. UNCHANGED <<now, object, sweep, raced>>
  BY DEF Record, RecordFails, diskVars
<1>3. /\ \A q \in Paths : q # p => rows'[q] = rows[q] /\ (q \in untracked' <=> q \in untracked)
      /\ p \notin untracked' => rows'[p] = upload[u].backup
  BY <1>0, <1>1 DEF Record, RecordFails, TypeOK
<1>4. u \in Placing(p) /\ Placing(p)' = Placing(p) \ {u}
  BY <1>0, <1>1, EndedRequests DEF Placing
<1>5. ASSUME NEW q \in Paths
      PROVE  /\ (Stored(q)' <=> Stored(q)) /\ (Sweeping(q)' <=> Sweeping(q))
             /\ \A v \in Placing(q)' : upload'[v] = upload[v] /\ v \in Placing(q)
  BY <1>0, <1>1, <1>2, <1>4 DEF Placing, Stored, Sweeping
<1>6. ASSUME NEW q \in Paths, q # p
      PROVE  Placing(q)' = Placing(q)
  BY <1>0, <1>1, <1>6 DEF Placing
<1>7. TrackedAsCreated'
  BY <1>1, <1>2, <1>3, <1>4, <1>5, <1>6 DEF Tracking, TrackedAsCreated, PlacedAlone
<1>8. PlacedAlone'
  BY <1>1, <1>2, <1>4, <1>5, <1>6 DEF Tracking, PlacedAlone
<1>9. SweptGone'
  BY <1>2, <1>5 DEF Tracking, SweptGone
<1>10. ListedOld'
  <2> SUFFICES ASSUME NEW q \in sweep.left, q \notin raced \union untracked', Stored(q)
               PROVE  OutOfDate(q)
    BY <1>2 DEF ListedOld, Stored, OutOfDate
  <2>1. q \in Paths /\ Sweeping(q)
    BY DEF TypeOK, Sweeps, Sweeping
  <2>2. q # p
    BY <1>4, <2>1 DEF Tracking, PlacedAlone
  <2> QED BY <1>3, <2>1, <2>2 DEF Tracking, ListedOld
<1> QED BY <1>7, <1>8, <1>9, <1>10 DEF Tracking

\* What the sweep lists by a row is expired by its object as well.
LEMMA TrackList == ASSUME TypeOK, TypeOK', Tracking, ListExpired PROVE Tracking'
<1> DEFINE expired == {p \in Paths : rows[p] # None /\ Expired(rows[p])}
<1>1. sweep'.cur = None /\ sweep'.left = expired
  BY SweepListed
<1>2. /\ UNCHANGED <<now, object, rows, upload, untracked>>
      /\ raced' = raced \union {p \in expired : Placing(p) # {}}
  BY DEF ListExpired, SweepOthers, diskVars
<1>3. \A p \in Paths : (Stored(p)' <=> Stored(p)) /\ Placing(p)' = Placing(p)
  BY <1>2 DEF Stored, Placing
<1>4. TrackedAsCreated'
  BY <1>2, <1>3 DEF Tracking, TrackedAsCreated
<1>5. PlacedAlone'
  <2>1. \A p \in Paths : Sweeping(p)' <=> p \in expired
    BY <1>1, Constants DEF Sweeping
  <2> HIDE DEF expired
  <2> QED BY <1>2, <1>3, <2>1 DEF Tracking, PlacedAlone
<1>6. SweptGone'
  BY <1>1, Constants DEF SweptGone
<1>7. ListedOld'
  <2> SUFFICES ASSUME NEW p \in expired, p \notin raced' \union untracked, Stored(p)
               PROVE  OutOfDate(p)
    BY <1>1, <1>2 DEF ListedOld, Stored, OutOfDate
  <2>1. p \in Paths /\ Expired(rows[p])
    OBVIOUS
  <2>2. p \notin raced /\ Placing(p) = {}
    BY <1>2
  <2>3. rows[p] = object[p].backup
    BY <2>1, <2>2 DEF Tracking, TrackedAsCreated
  <2> QED BY <2>1, <2>3 DEF Expired, OutOfDate
<1> QED BY <1>4, <1>5, <1>6, <1>7 DEF Tracking

\* The sweep removes a file, and the path stays the sweep's.
LEMMA TrackRemove == ASSUME TypeOK, TypeOK', Tracking, NEW p \in Paths, RemoveFile(p) PROVE Tracking'
<1>1. /\ sweep'.cur = p /\ sweep'.left = sweep.left \ {p}
      /\ object'[p] = None /\ \A q \in Paths : q # p => object'[q] = object[q]
  BY SweepRemoves
<1>2. UNCHANGED <<now, rows, upload, raced, untracked>> /\ p \in sweep.left
  BY DEF RemoveFile, SweepOthers
<1>3. \A q \in Paths : /\ Stored(q)' => Stored(q) /\ q # p /\ object'[q] = object[q]
                       /\ Placing(q)' = Placing(q)
                       /\ Sweeping(q)' => Sweeping(q)
  BY <1>1, <1>2 DEF Stored, Placing, Sweeping
<1>4. TrackedAsCreated'
  BY <1>2, <1>3 DEF Tracking, TrackedAsCreated
<1>5. PlacedAlone'
  BY <1>2, <1>3 DEF Tracking, PlacedAlone
<1>6. SweptGone'
  BY <1>1, <1>3 DEF SweptGone
<1>7. ListedOld'
  <2> SUFFICES ASSUME NEW q \in sweep'.left, q \notin raced \union untracked, Stored(q)'
               PROVE  OutOfDate(q)'
    BY <1>2 DEF ListedOld
  <2>1. q \in sweep.left /\ q \in Paths /\ Stored(q) /\ object'[q] = object[q]
    BY <1>1, <1>3 DEF TypeOK, Sweeps
  <2> QED BY <1>2, <2>1 DEF Tracking, ListedOld, OutOfDate
<1> QED BY <1>4, <1>5, <1>6, <1>7 DEF Tracking

\* The sweep deletes the row of a file that is gone.
LEMMA TrackDelete == ASSUME TypeOK, TypeOK', Tracking, DeleteRow PROVE Tracking'
<1>1. /\ sweep'.left = sweep.left /\ (sweep'.cur = sweep.cur \/ sweep'.cur = None)
      /\ sweep.cur \in Paths
  BY SweepGoesOn DEF DeleteRow
<1>2. /\ UNCHANGED <<now, object, upload, raced, untracked>>
      /\ \A q \in Paths : q # sweep.cur => rows'[q] = rows[q]
  BY DEF DeleteRow, SweepOthers, diskVars, TypeOK
<1>3. \A q \in Paths : /\ (Stored(q)' <=> Stored(q))
                       /\ Placing(q)' = Placing(q)
                       /\ Sweeping(q)' => Sweeping(q)
  BY <1>1, <1>2, Constants DEF Stored, Placing, Sweeping
<1>4. TrackedAsCreated'
  BY <1>2, <1>3 DEF Tracking, TrackedAsCreated, SweptGone
<1>5. PlacedAlone'
  BY <1>2, <1>3 DEF Tracking, PlacedAlone
<1>6. SweptGone'
  BY <1>1, <1>2, <1>3, Constants DEF Tracking, SweptGone
<1>7. ListedOld'
  BY <1>1, <1>2 DEF Tracking, ListedOld, Stored, OutOfDate
<1> QED BY <1>4, <1>5, <1>6, <1>7 DEF Tracking

\* A restart leaves what was placed and not recorded untracked.
LEMMA TrackRestart == ASSUME TypeOK, TypeOK', Tracking, Restart PROVE Tracking'
<1>1. sweep'.cur = None /\ sweep'.left = {}
  BY DEF Restart, Idle
<1>2. /\ UNCHANGED <<object, rows, raced>>
      /\ untracked' = untracked \union {p \in Paths : Placing(p) # {}}
  BY DEF Restart, diskVars
<1>3. \A p \in Paths : Placing(p)' = {} /\ (Stored(p)' <=> Stored(p))
  BY <1>2, Restarted DEF Placing, Stored
<1>4. TrackedAsCreated'
  BY <1>2, <1>3 DEF Tracking, TrackedAsCreated
<1>5. PlacedAlone'
  BY <1>3 DEF PlacedAlone
<1>6. SweptGone'
  BY <1>1, Constants DEF SweptGone
<1>7. ListedOld'
  BY <1>1 DEF ListedOld
<1> QED BY <1>4, <1>5, <1>6, <1>7 DEF Tracking

\* Requests before their file is in place.
LEMMA TrackBefore ==
    ASSUME TypeOK, TypeOK', Tracking, NEW u \in Uploads,
           \/ \E p \in Paths, backup \in Times : Request(u, p, backup)
           \/ AnswerExisting(u) \/ NothingExists(u) \/ Measure(u)
           \/ MakeFolder(u) \/ Mark(u) \/ CreateTemp(u) \/ ReceiveBody(u) \/ BodyFails(u)
           \/ Stored(upload[u].path) /\ Link(u)
    PROVE  Tracking'
<1>1. UNCHANGED <<now, object, rows, sweep, untracked>>
  BY DEF Request, AnswerExisting, NothingExists, Measure, BeforeWriting, diskVars,
         MakeFolder, Mark, CreateTemp, ReceiveBody, BodyFails, Link, Writing
<1>2. \A p \in Paths : p \in raced' <=> p \in raced
  <2>1. CASE Mark(u)
    <3>1. FolderOf[upload[u].path] \in folders => FolderOf[upload[u].path] \notin Paths
      BY Constants DEF TypeOK
    <3> QED BY <2>1, <3>1 DEF Mark
  <2>2. CASE raced' = raced
    BY <2>2
  <2> QED BY <2>1, <2>2 DEF Request, AnswerExisting, NothingExists, Measure, BeforeWriting,
         MakeFolder, CreateTemp, ReceiveBody, BodyFails, Link
<1>3. /\ upload[u].pc \notin {"date", "record"} /\ upload'[u].pc \notin {"date", "record"}
      /\ \A v \in Uploads : v # u => upload'[v] = upload[v]
  <2> USE DEF TypeOK
  <2>1. ASSUME NEW p \in Paths, NEW backup \in Times, Request(u, p, backup) PROVE <1>3
    BY <2>1, EndedRequests DEF Request
  <2>2. CASE AnswerExisting(u) \/ BodyFails(u)
    BY <2>2, EndedRequests DEF AnswerExisting, BodyFails, End
  <2>3. CASE NothingExists(u) \/ Measure(u)
    BY <2>3, EndedRequests DEF NothingExists, Measure, End, Goto, Requests
  <2>4. CASE MakeFolder(u) \/ Mark(u)
    BY <2>4, EndedRequests DEF MakeFolder, Mark, End, Goto, Requests
  <2>5. CASE CreateTemp(u) \/ ReceiveBody(u)
    BY <2>5, EndedRequests DEF CreateTemp, ReceiveBody, End, Requests
  <2>6. CASE Stored(upload[u].path) /\ Link(u)
    BY <2>6 DEF Link, Requests
  <2> QED BY <2>1, <2>2, <2>3, <2>4, <2>5, <2>6
<1>4. now <= now'
  BY <1>1, Constants DEF TypeOK, Times
<1> QED BY <1>1, <1>2, <1>3, <1>4, TrackQuiet

LEMMA TrackInit == Init => Tracking
<1> SUFFICES ASSUME Init PROVE Tracking
  OBVIOUS
<1>1. \A p \in Paths : ~Stored(p) /\ Placing(p) = {}
  BY EndedRequests DEF Init, Stored, Placing
<1>2. sweep.left = {} /\ sweep.cur = None
  BY DEF Init, Idle
<1> QED BY <1>1, <1>2, Constants DEF Tracking, TrackedAsCreated, PlacedAlone, SweptGone, ListedOld

LEMMA TrackStep == TypeOK /\ TypeOK' /\ Tracking /\ [Next]_vars => Tracking'
<1> SUFFICES ASSUME TypeOK, TypeOK', Tracking, [Next]_vars PROVE Tracking'
  OBVIOUS
<1>1. now \in Nat
  BY Constants DEF TypeOK, Times
<1>2. CASE Tick
  <2>1. UNCHANGED <<object, rows, upload, sweep, untracked, raced>> /\ now <= now'
    BY <1>1, <1>2 DEF Tick, diskVars, historyVars
  <2> QED BY <2>1, TrackQuiet
<1>3. CASE CheckStale \/ UNCHANGED vars
  <2>1. UNCHANGED <<object, rows, upload, sweep, untracked, raced, now>>
    BY <1>3 DEF CheckStale, vars, diskVars, historyVars
  <2> QED BY <1>1, <2>1, TrackQuiet
<1>4. ASSUME NEW u \in Uploads, HandleReceiveObject(u) PROVE Tracking'
  <2>1. CASE upload[u].pc = "place" /\ Place(u) /\ Writing
    <3>1. UNCHANGED <<now, rows, sweep, untracked>>
      BY <2>1 DEF Writing
    <3> QED BY <2>1, <3>1, TrackPlace
  <2>2. CASE Rename(u) \/ Link(u)
    BY <2>1, <2>2, TrackBefore DEF Rename, Link
  <2> QED BY <1>4, <2>2, TrackBefore, TrackDate, TrackRecord DEF HandleReceiveObject
<1>5. CASE DeleteRowFails \/ CheckFolder \/ RemoveMarker \/ RemoveFolder
  <2>1. /\ sweep'.left = sweep.left
        /\ sweep'.cur = sweep.cur \/ sweep'.cur = None
    BY <1>5, SweepGoesOn DEF DeleteRowFails, CheckFolder, RemoveMarker, RemoveFolder
  <2>2. UNCHANGED <<object, rows, upload, untracked, now>>
    BY <1>5 DEF DeleteRowFails, CheckFolder, RemoveMarker, RemoveFolder, SweepOthers, diskVars
  <2>3. \A p \in Paths : p \in raced' <=> p \in raced
    <3>1. CASE CheckFolder
      <4>1. FolderOf[sweep.cur] \in marked => FolderOf[sweep.cur] \notin Paths
        BY Constants DEF TypeOK
      <4> QED BY <3>1, <4>1 DEF CheckFolder, OnlyMarkerIn
    <3> QED BY <1>5, <3>1 DEF DeleteRowFails, RemoveMarker, RemoveFolder
  <2> QED BY <1>1, <2>1, <2>2, <2>3, TrackQuiet
<1> QED BY <1>2, <1>3, <1>4, <1>5, TrackList, TrackRemove, TrackDelete, TrackRestart
        DEF Next, MonitorReceiverRetention

LEMMA TrackingHolds == Spec => [](TypeOK /\ Tracking)
<1>1. Init => TypeOK /\ Tracking
  BY TypeInit, TrackInit
<1>2. TypeOK /\ Tracking /\ [Next]_vars => (TypeOK /\ Tracking)'
  BY TypeStep, TrackStep
<1> QED BY <1>1, <1>2, PTL DEF Spec

\* An object's time and its row are those of its backup, whatever became of
\* earlier uploads of its path, sweeps and restarts.
THEOREM ObjectsTracked == Spec => []TrackedAsCreated
<1>1. TypeOK /\ Tracking => TrackedAsCreated
  BY DEF Tracking
<1> QED BY <1>1, TrackingHolds, PTL

\* The list a sweep begins with holds the objects that are older than the
\* retention and no others, though it is made of rows alone.
ListsWhatExpired ==
    [][ListExpired =>
          \A p \in Paths \ (raced \union untracked) :
              Stored(p) /\ Placing(p) = {} => (p \in sweep'.left <=> OutOfDate(p))]_vars

\* No expired object is passed over, and none that is not is taken, where the
\* row was written and nobody else was at work on the path (ExpiredObjectPaths,
\* RecordObjectWrite).
THEOREM SweepListsExpired == Spec => ListsWhatExpired
<1>1. TypeOK /\ Tracking /\ [Next]_vars
         => [ListExpired =>
                \A p \in Paths \ (raced \union untracked) :
                    Stored(p) /\ Placing(p) = {} => (p \in sweep'.left <=> OutOfDate(p))]_vars
  <2> SUFFICES ASSUME TypeOK, Tracking, ListExpired, NEW p \in Paths \ (raced \union untracked),
                      Stored(p), Placing(p) = {}
               PROVE  p \in sweep'.left <=> OutOfDate(p)
    OBVIOUS
  <2>1. rows[p] = object[p].backup
    BY DEF Tracking, TrackedAsCreated
  <2>2. object[p].backup \in Times /\ None \notin Times
    BY Constants DEF TypeOK, Stored, Object
  <2>3. sweep'.left = {q \in Paths : rows[q] # None /\ Expired(rows[q])}
    BY DEF ListExpired, Idle
  <2> QED BY <2>1, <2>2, <2>3 DEF Expired, OutOfDate
<1> QED BY <1>1, TrackingHolds, PTL DEF Spec, ListsWhatExpired

\* What goes was expired.
LEMMA StepSweepsExpired ==
    ASSUME TypeOK, Tracking, [Next]_vars, NEW p \in Paths, p \notin raced \union untracked,
           Stored(p), object'[p] = None
    PROVE  OutOfDate(p)
<1>1. ASSUME NEW u \in Uploads, upload[u].pc = "place", Place(u) PROVE FALSE
  BY <1>1, Placed, Constants DEF Stored
<1>2. ASSUME NEW u \in Uploads, Date(u) PROVE FALSE
  BY <1>2, Dated, Constants DEF Stored
<1>3. ASSUME NEW q \in Paths, RemoveFile(q) PROVE OutOfDate(p)
  <2>1. p = q
    BY <1>3, SweepRemoves DEF Stored
  <2> QED BY <1>3, <2>1 DEF RemoveFile, Tracking, ListedOld
<1>4. CASE UNCHANGED object
  BY <1>4 DEF Stored
<1> QED BY <1>1, <1>2, <1>3, <1>4, ObjectSteps

\* Retention removes only backups that are older than it, where the sweep and
\* an upload were not at work on the same path and the row was written.
THEOREM OnlyExpiredSwept == Spec => SweptOnlyExpiredAlone
<1>1. TypeOK /\ Tracking /\ [Next]_vars
         => [\A p \in Paths \ (raced \union untracked) :
                Stored(p) /\ object'[p] = None => OutOfDate(p)]_vars
  BY StepSweepsExpired
<1> QED BY <1>1, TrackingHolds, PTL DEF Spec, SweptOnlyExpiredAlone

-----------------------------------------------------------------------------
(* The folder of a multi-file backup keeps its marker *)

\* A request between marking its folder and placing its file there.
InMarked(u) == upload[u].pc = "temp" \/ upload[u].temp # "none"

\* A file is in the folder, or about to be.
Occupied(f) ==
    \/ \E p \in Paths : FolderOf[p] = f /\ Stored(p)
    \/ \E u \in Uploads : InMarked(u) /\ InFolder(u, f)

\* An occupied folder has its marker, and the sweep takes the marker from one
\* that is not.
Grouping ==
    \A f \in Folders :
        /\ Occupied(f) => f \in marked \union raced
        /\ Clearing(f) /\ f \notin raced => ~Occupied(f)

\* A request comes to occupy a folder by marking it.
LEMMA UploadOccupies ==
    ASSUME TypeOK, NEW u \in Uploads, HandleReceiveObject(u), NEW f \in Folders, Occupied(f)'
    PROVE  Occupied(f) \/ (Mark(u) /\ f = FolderOf[upload[u].path] /\ f \in folders)
<1> SUFFICES ASSUME ~Occupied(f) PROVE Mark(u) /\ f = FolderOf[upload[u].path] /\ f \in folders
  OBVIOUS
<1>1. f # None
  BY Constants
<1>2. CASE \/ \E p \in Paths, backup \in Times : Request(u, p, backup)
           \/ AnswerExisting(u) \/ NothingExists(u) \/ Measure(u)
           \/ BodyFails(u) \/ Record(u) \/ RecordFails(u)
  <2>1. UNCHANGED object
    BY <1>2 DEF Request, AnswerExisting, NothingExists, Measure, BeforeWriting, BodyFails, Record, RecordFails, diskVars
  <2>2. ~InMarked(u)' /\ \A v \in Uploads : v # u => upload'[v] = upload[v]
    <3>1. ASSUME NEW p \in Paths, NEW backup \in Times, Request(u, p, backup) PROVE <2>2
      BY <3>1 DEF Request, InMarked, TypeOK
    <3>2. CASE End(u)
      BY <3>2, Over, EndedRequests DEF InMarked
    <3>3. CASE (NothingExists(u) /\ Goto(u, "measure")) \/ (Measure(u) /\ Goto(u, "mkdir"))
      <4>1. upload[u].temp = "none" /\ upload[u].pc \notin {"new", "ended"}
        BY <3>3, NoTemp DEF NothingExists, Measure
      <4>2. /\ upload'[u].temp = "none" /\ upload'[u].pc \in {"measure", "mkdir"}
            /\ \A v \in Uploads : v # u => upload'[v] = upload[v]
        BY <3>3, <4>1, GoOn DEF UploadPcs
      <4> QED BY <4>2 DEF InMarked
    <3> QED BY <1>2, <3>1, <3>2, <3>3 DEF AnswerExisting, NothingExists, Measure, BodyFails, Record, RecordFails
  <2> QED BY <2>1, <2>2 DEF Occupied, Stored, InMarked, InFolder
<1>3. CASE MakeFolder(u)
  <2>1. UNCHANGED object /\ upload[u].path = upload'[u].path /\ \A v \in Uploads : v # u => upload'[v] = upload[v]
    BY <1>3, NoTemp, GoOn DEF MakeFolder, UploadPcs
  <2>2. InMarked(u)' => FolderOf[upload[u].path] = None
    <3>1. upload[u].temp = "none" /\ upload[u].pc = "mkdir"
      BY <1>3, NoTemp DEF MakeFolder
    <3>2. CASE Goto(u, "mark")
      <4>1. upload'[u].temp = "none" /\ upload'[u].pc = "mark"
        BY <3>1, <3>2, GoOn DEF UploadPcs
      <4> QED BY <4>1 DEF InMarked
    <3> QED BY <1>3, <3>2 DEF MakeFolder
  <2> QED BY <1>1, <2>1, <2>2 DEF Occupied, Stored, InMarked, InFolder
<1>4. CASE Mark(u)
  <2>1. UNCHANGED object /\ \A v \in Uploads : v # u => upload'[v] = upload[v]
    BY <1>4 DEF Mark, Goto, End, TypeOK
  <2>2. InMarked(u)' => upload'[u].path = upload[u].path /\ FolderOf[upload[u].path] \in folders
    BY <1>4, NoTemp, GoOn, Over, EndedRequests DEF Mark, InMarked, UploadPcs
  <2> QED BY <1>4, <2>1, <2>2 DEF Occupied, Stored, InMarked, InFolder
<1>5. CASE CreateTemp(u) \/ ReceiveBody(u) \/ (Stored(upload[u].path) /\ Link(u))
  <2>1. UNCHANGED object /\ \A v \in Uploads : v # u => upload'[v] = upload[v]
    BY <1>5 DEF CreateTemp, ReceiveBody, Link, End, TypeOK, diskVars
  <2>2. InMarked(u)' => InMarked(u) /\ upload'[u].path = upload[u].path
    <3>1. upload[u] \in Requests
      BY DEF TypeOK
    <3>2. InMarked(u)
      BY <1>5, <3>1 DEF CreateTemp, ReceiveBody, Link, Requests, InMarked
    <3>3. CASE End(u)
      BY <3>3, Over, EndedRequests DEF InMarked
    <3>4. CASE upload' = [upload EXCEPT ![u].pc = "body", ![u].temp = "open"]
      BY <3>1, <3>2, <3>4 DEF TypeOK, Requests
    <3>5. CASE upload' = [upload EXCEPT ![u].pc = "place", ![u].temp = "written"]
      BY <3>1, <3>2, <3>5 DEF TypeOK, Requests
    <3>6. CASE upload' = [upload EXCEPT ![u].pc = "conflict", ![u].temp = "none"]
      BY <3>1, <3>2, <3>6 DEF TypeOK, Requests
    <3> QED BY <1>5, <3>3, <3>4, <3>5, <3>6 DEF CreateTemp, ReceiveBody, Link
  <2> QED BY <2>1, <2>2 DEF Occupied, Stored, InMarked, InFolder
<1>6. CASE upload[u].pc = "place" /\ Place(u)
  <2>0. InMarked(u)
    BY <1>6 DEF TypeOK, Requests, InMarked
  <2>1. /\ ~InMarked(u)' /\ \A v \in Uploads : v # u => upload'[v] = upload[v]
        /\ \A p \in Paths : p # upload[u].path => object'[p] = object[p]
    BY <1>6, Placed DEF InMarked
  <2> QED BY <2>0, <2>1 DEF Occupied, Stored, InMarked, InFolder
<1>7. CASE Date(u)
  <2>1. /\ ~InMarked(u)' /\ \A v \in Uploads : v # u => upload'[v] = upload[v]
        /\ \A p \in Paths : Stored(p)' => Stored(p)
    BY <1>7, Dated DEF InMarked, Stored
  <2> QED BY <2>1 DEF Occupied, InMarked, InFolder
<1> QED BY <1>2, <1>3, <1>4, <1>5, <1>6, <1>7 DEF HandleReceiveObject, Rename, Link

\* Folders of which nothing changes that matters keep their markers.
LEMMA GroupQuiet ==
    ASSUME Grouping, NEW f \in Folders, Occupied(f)' => Occupied(f), Clearing(f)' => Clearing(f),
           f \in marked => f \in marked', f \in raced => f \in raced'
    PROVE  /\ Occupied(f)' => f \in marked' \union raced'
           /\ Clearing(f)' /\ f \notin raced' => ~Occupied(f)'
  BY DEF Grouping

LEMMA GroupUpload ==
    ASSUME TypeOK, Grouping, NEW u \in Uploads, HandleReceiveObject(u)
    PROVE  Grouping'
<1>1. UNCHANGED sweep
  BY DEF HandleReceiveObject, Request, AnswerExisting, NothingExists, Measure, BeforeWriting, MakeFolder, Mark,
         CreateTemp, ReceiveBody, BodyFails, Rename, Link, Writing, Date, Record, RecordFails
<1> SUFFICES ASSUME NEW f \in Folders
             PROVE  /\ Occupied(f)' => f \in marked' \union raced'
                    /\ Clearing(f)' /\ f \notin raced' => ~Occupied(f)'
  BY DEF Grouping
<1>2. Clearing(f)' <=> Clearing(f)
  BY <1>1 DEF Clearing
<1>3. CASE Mark(u)
  <2>1. CASE f = FolderOf[upload[u].path] /\ f \in folders
    BY <1>2, <1>3, <2>1 DEF Mark
  <2>2. CASE f # FolderOf[upload[u].path] \/ f \notin folders
    <3>1. Occupied(f)' => Occupied(f)
      BY <2>2, UploadOccupies
    <3>2. (f \in marked => f \in marked') /\ (f \in raced => f \in raced')
      BY <1>3, <2>2 DEF Mark
    <3> QED BY <1>2, <3>1, <3>2, GroupQuiet
  <2> QED BY <2>1, <2>2
<1>4. CASE ~Mark(u)
  <2>1. Occupied(f)' => Occupied(f)
    BY <1>4, UploadOccupies
  <2>2. UNCHANGED marked
    BY <1>4 DEF HandleReceiveObject, Request, AnswerExisting, NothingExists, Measure, BeforeWriting, MakeFolder,
         CreateTemp, ReceiveBody, BodyFails, Rename, Link, Place, Date, Record, RecordFails, diskVars
  <2>3. f \in raced => f \in raced'
    <3>1. CASE upload[u].pc = "place" /\ Place(u)
      <4>1. upload[u].path \in Paths
        BY <3>1, Placed
      <4>2. upload[u].path # f
        BY <4>1, Constants
      <4> QED BY <3>1, <4>2 DEF Place
    <3>2. CASE UNCHANGED raced
      BY <3>2
    <3> QED BY <1>4, <3>1, <3>2 DEF HandleReceiveObject, Request, AnswerExisting, NothingExists, Measure, BeforeWriting,
         MakeFolder, CreateTemp, ReceiveBody, BodyFails, Rename, Link, Date, Record, RecordFails, historyVars
  <2> QED BY <1>2, <2>1, <2>2, <2>3, GroupQuiet
<1> QED BY <1>3, <1>4

LEMMA GroupSweep ==
    ASSUME TypeOK, Grouping, MonitorReceiverRetention
    PROVE  Grouping'
<1> SUFFICES ASSUME NEW f \in Folders
             PROVE  /\ Occupied(f)' => f \in marked' \union raced'
                    /\ Clearing(f)' /\ f \notin raced' => ~Occupied(f)'
  BY DEF Grouping
<1>1. Occupied(f)' => Occupied(f)
  <2>1. UNCHANGED upload
    BY DEF MonitorReceiverRetention, ListExpired, RemoveFile, DeleteRow, DeleteRowFails, CheckFolder, RemoveMarker,
         RemoveFolder, SweepOthers
  <2>2. \A p \in Paths : Stored(p)' => Stored(p)
    <3>1. ASSUME NEW q \in Paths, RemoveFile(q) PROVE <2>2
      BY <3>1, SweepRemoves DEF Stored
    <3> QED BY <3>1 DEF MonitorReceiverRetention, ListExpired, DeleteRow, DeleteRowFails, CheckFolder, RemoveMarker,
         RemoveFolder, diskVars, Stored
  <2> QED BY <2>1, <2>2 DEF Occupied, InMarked, InFolder
<1>2. f \in raced => f \in raced'
  BY DEF MonitorReceiverRetention, ListExpired, RemoveFile, DeleteRow, DeleteRowFails, CheckFolder, RemoveMarker, RemoveFolder
<1>3. CASE CheckFolder
  <2>1. UNCHANGED marked
    BY <1>3 DEF CheckFolder, diskVars
  <2>2. CASE OnlyMarkerIn(FolderOf[sweep.cur]) /\ f = FolderOf[sweep.cur]
    <3>1. f \notin raced' => ~Occupied(f)
      BY <1>3, <2>2, Zenon DEF CheckFolder, OnlyMarkerIn, Occupied, InMarked, InFolder
    <3> QED BY <1>1, <2>1, <3>1, <1>2 DEF Grouping
  <2>3. CASE OnlyMarkerIn(FolderOf[sweep.cur]) /\ f # FolderOf[sweep.cur]
    <3>1. ~Clearing(f)'
      BY <1>3, <2>3 DEF CheckFolder, Clearing, TypeOK, Sweeps
    <3> QED BY <1>1, <1>2, <2>1, <3>1, GroupQuiet
  <2>4. CASE ~OnlyMarkerIn(FolderOf[sweep.cur])
    <3>1. ~Clearing(f)'
      BY <1>3, <2>4 DEF CheckFolder, NextExpired, Clearing, TypeOK, Sweeps
    <3> QED BY <1>1, <1>2, <2>1, <3>1, GroupQuiet
  <2> QED BY <2>2, <2>3, <2>4
<1>4. CASE RemoveMarker
  <2>1. ~Clearing(f)'
    BY <1>4 DEF RemoveMarker, Clearing, TypeOK, Sweeps
  <2>2. CASE f = FolderOf[sweep.cur]
    <3>1. Clearing(f)
      BY <1>4, <2>2 DEF RemoveMarker, Clearing
    <3> QED BY <1>1, <1>2, <2>1, <3>1 DEF Grouping
  <2>3. CASE f # FolderOf[sweep.cur]
    <3>1. f \in marked => f \in marked'
      BY <1>4, <2>3 DEF RemoveMarker
    <3> QED BY <1>1, <1>2, <2>1, <3>1, GroupQuiet
  <2> QED BY <2>2, <2>3
<1>5. CASE ListExpired \/ (\E p \in Paths : RemoveFile(p)) \/ DeleteRow \/ DeleteRowFails \/ RemoveFolder
  <2>1. UNCHANGED marked
    BY <1>5 DEF ListExpired, RemoveFile, DeleteRow, DeleteRowFails, RemoveFolder, diskVars
  <2>2. sweep'.pc # "marker"
    <3>1. sweep \in [pc : {"idle", "row", "folder", "marker", "rmdir"}, left : SUBSET Paths, cur : Paths \union {None}]
      BY DEF TypeOK, Sweeps
    <3>2. CASE ListExpired
      BY <3>2, SweepListed
    <3>3. CASE \E p \in Paths : RemoveFile(p)
      BY <3>3, SweepRemoves
    <3>4. CASE NextExpired
      BY <3>1, <3>4 DEF NextExpired
    <3>5. CASE sweep' = [sweep EXCEPT !.pc = "folder"]
      BY <3>1, <3>5
    <3> QED BY <1>5, <3>2, <3>3, <3>4, <3>5 DEF DeleteRow, DeleteRowFails, RemoveFolder
  <2> QED BY <1>1, <1>2, <2>1, <2>2, GroupQuiet DEF Clearing
<1> QED BY <1>3, <1>4, <1>5 DEF MonitorReceiverRetention

LEMMA GroupRestart == ASSUME TypeOK, Grouping, Restart PROVE Grouping'
<1>1. UNCHANGED <<object, marked, raced>> /\ sweep'.pc = "idle"
  BY DEF Restart, diskVars, Idle
<1>2. \A u \in Uploads : InMarked(u)' => InMarked(u) /\ upload'[u].path = upload[u].path
  BY Restarted DEF InMarked
<1>3. ASSUME NEW f \in Folders PROVE (Occupied(f)' => Occupied(f)) /\ ~Clearing(f)'
  BY <1>1, <1>2 DEF Occupied, Stored, InFolder, Clearing
<1> QED BY <1>1, <1>3 DEF Grouping

LEMMA GroupInit == Init => Grouping
<1> SUFFICES ASSUME Init, NEW f \in Folders PROVE ~Occupied(f) /\ ~Clearing(f)
  BY DEF Grouping
<1>1. \A p \in Paths : ~Stored(p)
  BY DEF Init, Stored
<1>2. \A u \in Uploads : ~InMarked(u)
  BY EndedRequests DEF Init, InMarked
<1>3. sweep.pc = "idle"
  BY DEF Init, Idle
<1> QED BY <1>1, <1>2, <1>3 DEF Occupied, Clearing

LEMMA GroupStep == TypeOK /\ Grouping /\ [Next]_vars => Grouping'
<1> SUFFICES ASSUME TypeOK, Grouping, [Next]_vars PROVE Grouping'
  OBVIOUS
<1>1. CASE Tick \/ CheckStale \/ UNCHANGED vars
  <2>1. UNCHANGED <<object, marked, upload, sweep, raced>>
    BY <1>1 DEF Tick, CheckStale, vars, diskVars, historyVars
  <2> QED BY <2>1 DEF Grouping, Occupied, Clearing, Stored, InMarked, InFolder
<1> QED BY <1>1, GroupUpload, GroupSweep, GroupRestart DEF Next

\* A file of a multi-file backup lies beside the marker that makes listings
\* show it as one, unless an upload had seen the marker before the sweep took
\* it, or came to the folder while it did.
THEOREM FilesGrouped == Spec => []GroupedByMarker
<1>1. TypeOK /\ Grouping => GroupedByMarker
  BY Constants DEF Grouping, GroupedByMarker, Occupied
<1>2. TypeOK /\ Grouping /\ [Next]_vars => (TypeOK /\ Grouping)'
  BY TypeStep, GroupStep
<1>3. Init => TypeOK /\ Grouping
  BY TypeInit, GroupInit
<1> QED BY <1>1, <1>2, <1>3, PTL DEF Spec

-----------------------------------------------------------------------------
(* The quota *)

StoredPaths == {p \in Paths : Stored(p)}

\* The one request that has measured the quota found room for its object.
Room ==
    recv.quota # 0 /\ ~crowded =>
        /\ Cardinality(StoredPaths) <= recv.quota
        /\ \A u, v \in Measured : u = v
        /\ \A u \in Measured : Cardinality(StoredPaths \union {upload[u].path}) <= recv.quota

\* Sets of paths have a size, and a smaller set a smaller one.
LEMMA Sizes ==
    ASSUME NEW S \in SUBSET Paths, NEW T \in SUBSET S
    PROVE  /\ IsFiniteSet(S) /\ Cardinality(S) \in Nat
           /\ Cardinality(T) \in Nat /\ Cardinality(T) <= Cardinality(S)
<1>1. IsFiniteSet(Paths)
  BY BackupReceiverAssumption
<1>2. IsFiniteSet(S)
  BY <1>1, FS_Subset
<1>3. IsFiniteSet(T) /\ Cardinality(T) <= Cardinality(S)
  BY <1>2, FS_Subset
<1> QED BY <1>2, <1>3, FS_CardinalityType

\* Nothing is stored and nobody measures.
LEMMA RoomQuiet ==
    ASSUME TypeOK, TypeOK', Room, recv' = recv, crowded' = crowded,
           \A p \in Paths : Stored(p)' => Stored(p),
           \A v \in Measured' : v \in Measured /\ upload'[v].path = upload[v].path
    PROVE  Room'
<1> SUFFICES ASSUME recv.quota # 0, ~crowded PROVE Room'
  BY DEF Room
<1>1. StoredPaths' \subseteq StoredPaths /\ StoredPaths \subseteq Paths
  BY DEF StoredPaths
<1>2. recv.quota \in Nat
  BY BackupReceiverAssumption DEF TypeOK, Receiver
<1>3. Cardinality(StoredPaths') <= recv.quota
  <2>1. Cardinality(StoredPaths) <= recv.quota
    BY DEF Room
  <2> QED BY <1>1, <1>2, <2>1, Sizes
<1>4. ASSUME NEW v \in Measured' PROVE Cardinality(StoredPaths' \union {upload'[v].path}) <= recv.quota
  <2>1. v \in Measured /\ upload'[v].path = upload[v].path /\ v \in Uploads
    BY <1>4 DEF Measured
  <2>2. upload[v].path \in Paths
    BY <2>1 DEF TypeOK, Requests, Measured
  <2>3. Cardinality(StoredPaths \union {upload[v].path}) <= recv.quota
    BY <2>1 DEF Room
  <2>4. /\ StoredPaths \union {upload[v].path} \in SUBSET Paths
        /\ StoredPaths' \union {upload[v].path} \in SUBSET (StoredPaths \union {upload[v].path})
    BY <1>1, <2>2
  <2> HIDE DEF StoredPaths
  <2>5. Cardinality(StoredPaths' \union {upload[v].path}) <= Cardinality(StoredPaths \union {upload[v].path})
    BY <2>4, Sizes
  <2>6. Cardinality(StoredPaths' \union {upload[v].path}) \in Nat /\ Cardinality(StoredPaths \union {upload[v].path}) \in Nat
    BY <2>4, Sizes
  <2> QED BY <1>2, <2>1, <2>3, <2>5, <2>6
<1>5. \A u, v \in Measured' : u = v
  BY DEF Room
<1> QED BY <1>3, <1>4, <1>5 DEF Room

\* A file is placed by the one request that found room for it.
LEMMA RoomPlace ==
    ASSUME TypeOK, TypeOK', Room, NEW u \in Uploads, upload[u].pc = "place", Place(u), recv' = recv, crowded' = crowded
    PROVE  Room'
<1> SUFFICES ASSUME recv.quota # 0, ~crowded PROVE Room'
  BY DEF Room
<1>1. upload[u].path \in Paths /\ u \in Measured
  BY DEF TypeOK, Requests, Measured
<1>2. StoredPaths' \subseteq StoredPaths \union {upload[u].path}
  BY <1>1 DEF StoredPaths, Stored, Place, TypeOK
<1>3. Measured' = {}
  <2>1. upload'[u].pc = "date"
    BY DEF Place, TypeOK
  <2>2. \A v \in Uploads : v # u => upload'[v] = upload[v]
    BY DEF Place, TypeOK
  <2>3. \A v \in Measured : v = u
    BY <1>1 DEF Room
  <2> QED BY <2>1, <2>2, <2>3 DEF Measured
<1>4. Cardinality(StoredPaths \union {upload[u].path}) <= recv.quota /\ recv.quota \in Nat
  BY <1>1, BackupReceiverAssumption DEF Room, TypeOK, Receiver
<1>5. /\ StoredPaths \union {upload[u].path} \in SUBSET Paths
      /\ StoredPaths' \in SUBSET (StoredPaths \union {upload[u].path})
  BY <1>1, <1>2 DEF StoredPaths
<1>6. /\ Cardinality(StoredPaths') <= Cardinality(StoredPaths \union {upload[u].path})
      /\ Cardinality(StoredPaths') \in Nat /\ Cardinality(StoredPaths \union {upload[u].path}) \in Nat
  BY <1>5, Sizes
<1> QED BY <1>3, <1>4, <1>6 DEF Room

\* A request finds room while no other has.
LEMMA RoomMeasure ==
    ASSUME TypeOK, TypeOK', Room, NEW u \in Uploads, Measure(u)
    PROVE  Room'
<1>1. /\ upload[u].pc = "measure" /\ crowded' = (crowded \/ Measured # {})
      /\ recv' = recv /\ object' = object
      /\ IF recv.quota = 0 \/ Free(upload[u].path) >= 1 THEN Goto(u, "mkdir") ELSE End(u)
  BY DEF Measure, BeforeWriting, diskVars
<1> SUFFICES ASSUME recv.quota # 0, ~crowded, Measured = {} PROVE Room'
  BY <1>1 DEF Room
<1> DEFINE p == upload[u].path
<1>2. p \in Paths
  BY <1>1, NoTemp
<1>3. StoredPaths' = StoredPaths /\ StoredPaths \in SUBSET Paths
  BY <1>1 DEF StoredPaths, Stored
<1>4. recv.quota \in Nat /\ Cardinality(StoredPaths) \in Nat /\ Cardinality(StoredPaths) <= recv.quota
  BY <1>3, Sizes, BackupReceiverAssumption DEF Room, TypeOK, Receiver
<1>5. CASE Free(p) >= 1
  <2>1. Goto(u, "mkdir")
    BY <1>1, <1>5
  <2>2. upload'[u].path = p /\ \A v \in Uploads : v # u => upload'[v] = upload[v]
    BY <1>1, <2>1, NoTemp, GoOn DEF UploadPcs
  <2>3. \A v \in Measured' : v = u
    BY <2>2 DEF Measured
  <2> DEFINE temps == Cardinality({v \in Uploads : upload[v].temp = "written"})
  <2>4. temps \in Nat
    <3>1. IsFiniteSet(Uploads)
      BY Constants, FS_Interval DEF Uploads
    <3>2. IsFiniteSet({v \in Uploads : upload[v].temp = "written"})
      BY <3>1, FS_Subset
    <3> QED BY <3>2, FS_CardinalityType
  <2>5. DirSize = Cardinality(StoredPaths) + temps
    BY DEF DirSize, StoredPaths
  <2> HIDE DEF temps
  <2>6. Cardinality(StoredPaths \union {p}) <= recv.quota
    <3>1. CASE Stored(p)
      <4>1. StoredPaths \union {p} = StoredPaths
        BY <1>2, <3>1 DEF StoredPaths
      <4> QED BY <1>4, <4>1
    <3>2. CASE ~Stored(p)
      <4>1. recv.quota - DirSize >= 1
        BY <1>5, <3>2 DEF Free
      <4>2. Cardinality(StoredPaths) + 1 <= recv.quota
        BY <1>4, <2>4, <2>5, <4>1
      <4>3. p \notin StoredPaths
        BY <3>2 DEF StoredPaths
      <4>4. IsFiniteSet(StoredPaths)
        BY <1>3, Sizes
      <4>5. Cardinality(StoredPaths \union {p}) = Cardinality(StoredPaths) + 1
        BY <4>3, <4>4, FS_AddElement
      <4> QED BY <4>2, <4>5
    <3> QED BY <3>1, <3>2
  <2> QED BY <1>1, <1>3, <1>4, <2>2, <2>3, <2>6 DEF Room
<1>6. CASE ~(Free(p) >= 1)
  <2>1. upload'[u] = Ended /\ \A v \in Uploads : v # u => upload'[v] = upload[v]
    BY <1>1, <1>6, Over
  <2>2. Measured' = {}
    BY <2>1, EndedRequests DEF Measured
  <2> QED BY <1>1, <1>3, <1>4, <2>2 DEF Room
<1> QED BY <1>5, <1>6

\* The other steps of a request measure nothing and place nothing.
LEMMA RoomRequest ==
    ASSUME TypeOK, TypeOK', Room, NEW u \in Uploads, HandleReceiveObject(u)
    PROVE  Room'
<1> DEFINE Same == \A v \in Uploads : v # u => upload'[v] = upload[v]
           Kept == u \in Measured' => u \in Measured /\ upload'[u].path = upload[u].path
<1>1. ASSUME Same, Kept, recv' = recv, crowded' = crowded, \A p \in Paths : Stored(p)' => Stored(p)
      PROVE  Room'
  <2>1. \A v \in Measured' : v \in Measured /\ upload'[v].path = upload[v].path
    BY <1>1 DEF Measured
  <2> QED BY <1>1, <2>1, RoomQuiet
<1>2. ASSUME recv' = recv, crowded' = crowded, object' = object, Same, Kept PROVE Room'
  BY <1>1, <1>2 DEF Stored
<1> USE DEF TypeOK, Measured
<1>3. ASSUME NEW p \in Paths, NEW backup \in Times, Request(u, p, backup) PROVE Room'
  <2>1. upload'[u].pc \in {"exists", "measure"} /\ Same
    BY <1>3, EndedRequests DEF Request
  <2> QED BY <1>2, <1>3, <2>1 DEF Request, BeforeWriting, diskVars
<1>4. CASE AnswerExisting(u)
  BY <1>2, <1>4, EndedRequests DEF AnswerExisting, End, BeforeWriting, diskVars
<1>5. CASE NothingExists(u)
  BY <1>2, <1>5, EndedRequests DEF NothingExists, Goto, End, BeforeWriting, diskVars, Requests
<1>6. CASE MakeFolder(u)
  BY <1>2, <1>6, EndedRequests DEF MakeFolder, Goto, End, Writing, Requests
<1>7. CASE Mark(u)
  BY <1>2, <1>7, EndedRequests DEF Mark, Goto, End, Writing, Requests
<1>8. CASE CreateTemp(u)
  BY <1>2, <1>8, EndedRequests DEF CreateTemp, End, Writing, diskVars, Requests
<1>9. CASE ReceiveBody(u)
  BY <1>2, <1>9 DEF ReceiveBody, Writing, diskVars, Requests
<1>10. CASE BodyFails(u)
  BY <1>2, <1>10, EndedRequests DEF BodyFails, End, Writing, diskVars
<1>11. CASE Rename(u)
  BY <1>11, RoomPlace DEF Rename, Writing
<1>12. CASE Link(u)
  <2>1. CASE Stored(upload[u].path)
    BY <1>2, <1>12, <2>1 DEF Link, Writing, diskVars, Requests
  <2> QED BY <1>12, <2>1, RoomPlace DEF Link, Writing
<1>13. CASE Date(u)
  <2>1. Same /\ Kept
    BY <1>13 DEF Date, Goto
  <2>2. \A p \in Paths : Stored(p)' => Stored(p)
    BY <1>13 DEF Date, Stored
  <2> QED BY <1>1, <1>13, <2>1, <2>2 DEF Date, historyVars
<1>14. CASE Record(u) \/ RecordFails(u)
  BY <1>2, <1>14, EndedRequests DEF Record, RecordFails, End, diskVars
<1> QED BY <1>3, <1>4, <1>5, <1>6, <1>7, <1>8, <1>9, <1>10, <1>11, <1>12, <1>13, <1>14, RoomMeasure
        DEF HandleReceiveObject

LEMMA RoomStep == TypeOK /\ TypeOK' /\ Room /\ [Next]_vars => Room'
<1> SUFFICES ASSUME TypeOK, TypeOK', Room, [Next]_vars PROVE Room'
  OBVIOUS
<1>1. CASE Tick \/ CheckStale \/ UNCHANGED vars
  <2>1. UNCHANGED <<recv, crowded, object, upload>>
    BY <1>1 DEF Tick, CheckStale, vars, diskVars, historyVars
  <2> QED BY <2>1, RoomQuiet DEF Stored, Measured
<1>2. CASE MonitorReceiverRetention
  <2>1. UNCHANGED <<recv, crowded, upload>>
    BY <1>2 DEF MonitorReceiverRetention, ListExpired, RemoveFile, DeleteRow, DeleteRowFails, CheckFolder,
                RemoveMarker, RemoveFolder, SweepOthers
  <2>2. \A p \in Paths : Stored(p)' => Stored(p)
    BY <1>2 DEF MonitorReceiverRetention, ListExpired, RemoveFile, DeleteRow, DeleteRowFails, CheckFolder,
                RemoveMarker, RemoveFolder, diskVars, Stored, TypeOK
  <2> QED BY <2>1, <2>2, RoomQuiet DEF Measured
<1>3. CASE Restart
  <2>1. UNCHANGED <<recv, crowded, object>>
    BY <1>3 DEF Restart, diskVars
  <2>2. Measured' = {}
    BY <1>3, EndedRequests DEF Restart, Measured
  <2> QED BY <2>1, <2>2, RoomQuiet DEF Stored
<1> QED BY <1>1, <1>2, <1>3, RoomRequest DEF Next

\* What is stored never exceeds the quota, for any number of paths and uploads
\* and any sweeps and restarts, unless two uploads measured it side by side.
THEOREM QuotaHolds == Spec => []WithinQuota
<1>1. Init => Room
  <2> SUFFICES ASSUME Init PROVE Room
    OBVIOUS
  <2>1. StoredPaths = {} /\ Measured = {}
    BY EndedRequests DEF Init, StoredPaths, Stored, Measured
  <2>2. Cardinality(StoredPaths) = 0 /\ recv.quota \in Nat
    BY <2>1, FS_EmptySet, BackupReceiverAssumption DEF Init, Receiver
  <2> QED BY <2>1, <2>2 DEF Room
<1>2. TypeOK /\ Room /\ [Next]_vars => (TypeOK /\ Room)'
  BY TypeStep, RoomStep
<1>3. Room => WithinQuota
  BY DEF Room, WithinQuota, StoredPaths
<1> QED BY <1>1, <1>2, <1>3, TypeInit, PTL DEF Spec

=============================================================================
