------------------------- MODULE References_proofs -------------------------
(***************************************************************************)
(* Nothing named is deleted, and what is active comes back, for any number *)
(* of notifications, trusted servers, receivers and requests at a time.    *)
(*                                                                         *)
(* The invariant follows the deletions on their way: what a request is     *)
(* about to delete is named by none of the users it has read already,      *)
(* unless they were stored since (NotDeleted).  A registry holds stored    *)
(* entries that resolve (Registered), and an active receiver or report is  *)
(* the stored one and names registered entries (ActiveIsStored).           *)
(***************************************************************************)
EXTENDS References, TLAPS

NoteOps    == {"deleteNote", "deleteNoteReport", "deleteNoteRow"}
StoringOps == {"create", "createWrite", "update", "updateWrite"}
StorableDefs == {d \in ReceiverDefs : d.peers # {}}

Request ==
    {Idle} \cup [op : {"deletePeer"}, id : Peers] \cup [op : NoteOps, id : Notes]
           \cup [op : StoringOps, id : Receivers, def : StorableDefs]

TypeInv ==
    /\ noteRows \in [Notes -> NoteKinds \cup {None}] /\ peerRows \subseteq Peers
    /\ receiverRows \in [Receivers -> ReceiverDefs \cup {None}]
    /\ receivers \in [Receivers -> ReceiverDefs \cup {None}]
    /\ reportRow \in ReportDefs \cup {None} /\ report \in ReportDefs \cup {None}
    /\ jobRefs \subseteq Notes
    /\ request \in [Requests -> Request]

Known == {n \in ListNotificationConfigs : NoteResolves(noteRows[n], smtp)}

Registered == notes \subseteq Known /\ peers \subseteq peerRows

NotDeleted ==
    \A q \in Requests :
        /\ Holds(q, {"deletePeer"}) =>
             \A r \in Receivers \ overlapped :
                 receiverRows[r] # None => request[q].id \notin receiverRows[r].peers
        /\ Holds(q, {"deleteNoteReport", "deleteNoteRow"}) =>
             \A r \in Receivers \ overlapped :
                 receiverRows[r] # None => request[q].id \notin receiverRows[r].notes
        /\ Holds(q, {"deleteNoteRow"}) /\ reportRow # None => request[q].id \notin reportRow.notes
        /\ Holds(q, NoteOps) /\ "job" \notin overlapped => request[q].id \notin jobRefs

ActiveIsStored ==
    /\ \A r \in Receivers \ overlapped :
         receivers[r] # None =>
           /\ receivers[r] = receiverRows[r]
           /\ receivers[r].peers # {}
           /\ receivers[r].peers \subseteq peers /\ receivers[r].notes \subseteq notes
    /\ report # None => /\ report = reportRow /\ report.enabled
                        /\ report.notes # {} /\ report.notes \subseteq notes

IInv == TypeInv /\ Registered /\ NotDeleted /\ NothingDangles /\ ActiveIsStored

----------------------------------------------------------------------------
(* Types.                                                                  *)

\* What a definition names.
LEMMA DefinitionTypes ==
    /\ \A d \in ReceiverDefs : d.peers \subseteq Peers /\ d.notes \subseteq Notes /\ d # None
    /\ \A d \in ReportDefs : d.notes \subseteq Notes /\ d.enabled \in BOOLEAN /\ d # None
    /\ \A ns \in JobRefs : ns \subseteq Notes
    /\ None \notin NoteKinds /\ "job" \notin Receivers
BY ReferencesAssumption DEF ReceiverDefinition, ReportDefinition

\* A request that holds an operation has the fields of it.
LEMMA RequestFields ==
    ASSUME TypeInv, NEW q \in Requests
    PROVE  /\ Holds(q, {"deletePeer"}) => request[q].id \in Peers
           /\ Holds(q, NoteOps) => request[q] \in [op : NoteOps, id : Notes]
           /\ Holds(q, StoringOps) =>
                request[q] \in [op : StoringOps, id : Receivers, def : StorableDefs]
<1>1. request[q] \in Request
  BY DEF TypeInv
<1> QED BY <1>1 DEF Request, Holds, NoteOps, StoringOps, Idle

\* A request answered is idle, one begun is what it was begun as.
LEMMA RequestChanges ==
    ASSUME TypeInv, NEW q \in Requests
    PROVE  /\ Answer(q) => /\ request' \in [Requests -> Request]
                           /\ request'[q] = Idle
                           /\ \A p \in Requests : p # q => request'[p] = request[p]
           /\ \A r \in Request : Begin(q, r) =>
                           /\ request' \in [Requests -> Request]
                           /\ request'[q] = r
                           /\ \A p \in Requests : p # q => request'[p] = request[p]
BY DEF TypeInv, Answer, Begin, Request

LEMMA InitIInv == Init => IInv
<1> SUFFICES ASSUME Init PROVE IInv
  OBVIOUS
<1>1. TypeInv
  BY DEF Init, TypeInv, Request
<1>2. NotDeleted
  BY DEF Init, NotDeleted, Holds, Idle, NoteOps
<1>3. Registered /\ NothingDangles /\ ActiveIsStored
  BY DEF Init, Registered, NothingDangles, ActiveIsStored
<1> QED BY <1>1, <1>2, <1>3 DEF IInv

----------------------------------------------------------------------------
(* Start, end, and the entries that are named.                             *)

\* A start registers what resolves.
LEMMA LoadKeeps == ASSUME IInv, Load PROVE IInv'
<1>1. PICK read \in [{"notes", "peers", "report", "receivers"} -> BOOLEAN] :
        /\ notes' = LoadNotes(read["notes"]) /\ peers' = LoadPeers(read["peers"])
        /\ report' \in {LoadReport(notes'), None}
        /\ receivers' \in {LoadReceivers(peers', notes'), NoReceivers}
  BY DEF Load
<1>2. UNCHANGED <<noteRows, peerRows, receiverRows, reportRow, jobRefs, request, overlapped>>
  BY DEF Load, tables
<1>3. TypeInv'
  BY <1>1, <1>2 DEF IInv, TypeInv, LoadReport, LiveReport, LoadReceivers, NoReceivers
<1>4. Registered'
  BY <1>1, <1>2 DEF Registered, Known, LoadNotes, LoadPeers, ListTrustedServers, ListNotificationConfigs, NoteResolves
<1>5. NotDeleted'
  BY <1>2 DEF IInv, NotDeleted, Holds
<1>6. NothingDangles'
  BY <1>2 DEF IInv, NothingDangles, ReceiverRefersTo, ListNotificationConfigs
<1>7. ActiveIsStored'
  <2>1. \A r \in Receivers : receivers'[r] # None =>
           /\ receivers'[r] = receiverRows[r]
           /\ receivers'[r].peers # {}
           /\ receivers'[r].peers \subseteq peers' /\ receivers'[r].notes \subseteq notes'
    BY <1>1, <1>2 DEF LoadReceivers, NoReceivers, ResolveReceiver, ResolveAllowedServers, CheckNotificationRefs
  <2>2. report' # None => /\ report' = reportRow /\ report'.enabled
                          /\ report'.notes # {} /\ report'.notes \subseteq notes'
    BY <1>1, <1>2, DefinitionTypes DEF LoadReport, ResolveReport, LiveReport, CheckNotificationRefs, IInv, TypeInv
  <2> QED BY <1>2, <2>1, <2>2 DEF ActiveIsStored
<1> QED BY <1>3, <1>4, <1>5, <1>6, <1>7 DEF IInv

\* The end of the process leaves the tables.
LEMMA StopKeeps == ASSUME IInv, Stop PROVE IInv'
<1>1. /\ notes' = {} /\ peers' = {} /\ receivers' = [r \in Receivers |-> None] /\ report' = None
      /\ request' = [q \in Requests |-> Idle]
      /\ UNCHANGED <<noteRows, peerRows, receiverRows, reportRow, jobRefs, smtp, overlapped>>
  BY DEF Stop, NoReceivers, tables
<1>2. TypeInv'
  BY <1>1 DEF IInv, TypeInv, Request
<1>3. NotDeleted'
  BY <1>1 DEF NotDeleted, Holds, Idle, NoteOps
<1>4. NothingDangles'
  BY <1>1 DEF IInv, NothingDangles, ReceiverRefersTo, ListNotificationConfigs
<1> QED BY <1>1, <1>2, <1>3, <1>4 DEF IInv, Registered, ActiveIsStored

\* A trusted server more.
LEMMA PeerKeeps == ASSUME IInv, NEW p \in Peers, CreatePeer(p) \/ UpdatePeer(p) PROVE IInv'
<1>1. /\ peerRows' = peerRows \cup {p} /\ peers' = peers \cup {p}
      /\ UNCHANGED <<noteRows, receiverRows, reportRow, jobRefs, notes, receivers, report, smtp, request, overlapped>>
  BY DEF CreatePeer, UpdatePeer, CreateTrustedServer, UpdateTrustedServer
<1>2. TypeInv'
  BY <1>1 DEF IInv, TypeInv
<1>3. NotDeleted'
  BY <1>1 DEF IInv, NotDeleted, Holds
<1>4. NothingDangles' /\ ActiveIsStored'
  BY <1>1 DEF IInv, NothingDangles, ReceiverRefersTo, ListNotificationConfigs, ActiveIsStored
<1>5. Registered'
  BY <1>1 DEF IInv, Registered, Known, ListNotificationConfigs, NoteResolves
<1> QED BY <1>2, <1>3, <1>4, <1>5 DEF IInv

\* A notification more, or another one under an id.
LEMMA NoteKeeps ==
    ASSUME IInv, NEW n \in Notes, NEW kind \in NoteKinds, CreateNote(n, kind) \/ UpdateNote(n, kind)
    PROVE  IInv'
<1>1. /\ noteRows' = [noteRows EXCEPT ![n] = kind] /\ notes' = notes \cup {n}
      /\ NoteResolves(kind, smtp)
      /\ UNCHANGED <<peerRows, receiverRows, reportRow, jobRefs, peers, receivers, report, smtp, request, overlapped>>
  BY DEF CreateNote, UpdateNote, CreateNotificationConfig, UpdateNotificationConfig, StoreNote, validateNotification
<1>2. TypeInv'
  BY <1>1 DEF IInv, TypeInv
<1>3. NotDeleted'
  BY <1>1 DEF IInv, NotDeleted, Holds
<1>4. ListNotificationConfigs' = ListNotificationConfigs \cup {n}
  BY <1>1, DefinitionTypes DEF IInv, TypeInv, ListNotificationConfigs
<1>5. NothingDangles'
  BY <1>1, <1>4 DEF IInv, NothingDangles, ReceiverRefersTo
<1>6. ActiveIsStored'
  BY <1>1 DEF IInv, ActiveIsStored
<1>7. Registered'
  <2> SUFFICES ASSUME NEW k \in notes' PROVE k \in Known'
    BY <1>1 DEF IInv, Registered
  <2>1. CASE k = n
    BY <1>1, <1>4, <2>1 DEF Known, NoteResolves, IInv, TypeInv
  <2>2. CASE k # n
    <3>1. k \in ListNotificationConfigs /\ NoteResolves(noteRows[k], smtp) /\ k \in Notes
      BY <1>1, <2>2 DEF IInv, Registered, Known, ListNotificationConfigs
    <3>2. noteRows'[k] = noteRows[k]
      BY <1>1, <2>2, <3>1 DEF IInv, TypeInv
    <3> QED BY <1>1, <1>4, <3>1, <3>2 DEF Known, NoteResolves
  <2> QED BY <2>1, <2>2
<1> QED BY <1>2, <1>3, <1>5, <1>6, <1>7 DEF IInv

----------------------------------------------------------------------------
(* Those that name them.                                                   *)

\* The report is stored while no notification is being deleted.
LEMMA ReportKeeps == ASSUME IInv, NEW d \in ReportDefs, UpdateReport(d) PROVE IInv'
<1>1. /\ SettingsLockFree /\ ResolveReport(d, notes)
      /\ reportRow' = d /\ report' = LiveReport(d)
      /\ UNCHANGED <<noteRows, peerRows, receiverRows, jobRefs, notes, peers, receivers, smtp, request, overlapped>>
  BY DEF UpdateReport
<1>2. TypeInv'
  BY <1>1 DEF IInv, TypeInv, LiveReport
<1>3. Registered'
  BY <1>1 DEF IInv, Registered, Known, ListNotificationConfigs, NoteResolves
<1>4. \A q \in Requests : ~Holds(q, NoteOps)
  BY <1>1 DEF SettingsLockFree, LockFree, NoteOps
<1>5. NotDeleted'
  BY <1>1, <1>4 DEF IInv, NotDeleted, Holds, NoteOps
<1>6. d.notes \subseteq notes /\ notes \subseteq ListNotificationConfigs /\ (d.enabled => d.notes # {})
  BY <1>1 DEF ResolveReport, CheckNotificationRefs, IInv, Registered, Known
<1>7. NothingDangles'
  BY <1>1, <1>6 DEF IInv, NothingDangles, ReceiverRefersTo, ListNotificationConfigs
<1>8. ActiveIsStored'
  BY <1>1, <1>6, DefinitionTypes DEF IInv, ActiveIsStored, LiveReport
<1> QED BY <1>2, <1>3, <1>5, <1>7, <1>8 DEF IInv

\* The job is marked if it was stored while what it names was being deleted.
LEMMA JobKeeps == ASSUME IInv, NEW ns \in JobRefs, UpdateJob(ns) PROVE IInv'
<1>1. /\ ns \subseteq notes /\ jobRefs' = ns
      /\ overlapped' = IF DeletedNow(ns, NoteOps) THEN overlapped \cup {"job"} ELSE overlapped \ {"job"}
      /\ UNCHANGED <<noteRows, peerRows, receiverRows, reportRow, notes, peers, receivers, report, smtp, request>>
  BY DEF UpdateJob, CheckNotificationRefs, registries, NoteOps
<1>2. TypeInv'
  BY <1>1, DefinitionTypes DEF IInv, TypeInv
<1>3. Registered'
  BY <1>1 DEF IInv, Registered, Known, ListNotificationConfigs, NoteResolves
<1>4. Receivers \ overlapped' = Receivers \ overlapped
  BY <1>1, DefinitionTypes
<1>5. NotDeleted'
  <2>1. "job" \notin overlapped' => \A q \in Requests : Holds(q, NoteOps) => request[q].id \notin ns
    BY <1>1 DEF DeletedNow
  <2> QED BY <1>1, <1>4, <2>1 DEF IInv, NotDeleted, Holds
<1>6. notes \subseteq ListNotificationConfigs
  BY DEF IInv, Registered, Known
<1>7. NothingDangles'
  BY <1>1, <1>4, <1>6 DEF IInv, NothingDangles, ReceiverRefersTo, ListNotificationConfigs
<1>8. ActiveIsStored'
  BY <1>1, <1>4 DEF IInv, ActiveIsStored
<1> QED BY <1>2, <1>3, <1>5, <1>7, <1>8 DEF IInv

\* A deleted receiver names nothing.
LEMMA DeleteReceiverKeeps == ASSUME IInv, NEW r \in Receivers, DeleteReceiver(r) PROVE IInv'
<1>1. /\ receiverRows' = [receiverRows EXCEPT ![r] = None] /\ receivers' = [receivers EXCEPT ![r] = None]
      /\ overlapped' = overlapped \ {r}
      /\ UNCHANGED <<noteRows, peerRows, reportRow, jobRefs, notes, peers, report, smtp, request>>
  BY DEF DeleteReceiver, DeleteReceiverConfig
<1>2. TypeInv'
  BY <1>1 DEF IInv, TypeInv
<1>3. Registered'
  BY <1>1 DEF IInv, Registered, Known, ListNotificationConfigs, NoteResolves
<1>4. \A k \in Receivers \ overlapped' :
        /\ receiverRows'[k] # None => k \in Receivers \ overlapped /\ receiverRows'[k] = receiverRows[k]
        /\ receivers'[k] # None => k \in Receivers \ overlapped /\ receivers'[k] = receivers[k]
                                   /\ receiverRows'[k] = receiverRows[k]
  BY <1>1 DEF IInv, TypeInv
<1>5. "job" \in overlapped' <=> "job" \in overlapped
  BY <1>1, DefinitionTypes
<1>6. NotDeleted'
  BY <1>1, <1>4, <1>5 DEF IInv, NotDeleted, Holds
<1>7. NothingDangles'
  BY <1>1, <1>4, <1>5 DEF IInv, NothingDangles, ReceiverRefersTo, ListNotificationConfigs
<1>8. ActiveIsStored'
  BY <1>1, <1>4 DEF IInv, ActiveIsStored
<1> QED BY <1>2, <1>3, <1>6, <1>7, <1>8 DEF IInv

----------------------------------------------------------------------------
(* Requests of several steps.                                              *)

\* A step that changes what a request is doing alone keeps the rest.
LEMMA RequestOnly ==
    ASSUME IInv, UNCHANGED <<tables, registries, smtp, overlapped>>,
           request' \in [Requests -> Request], NotDeleted'
    PROVE  IInv'
<1>1. UNCHANGED <<noteRows, peerRows, receiverRows, reportRow, jobRefs, notes, peers, receivers, report, smtp, overlapped>>
  BY DEF tables, registries
<1> QED BY <1>1 DEF IInv, TypeInv, Registered, Known, NothingDangles, ReceiverRefersTo, ListNotificationConfigs,
        NoteResolves, ActiveIsStored

\* A request that ends, or goes on with something that deletes nothing, leaves
\* the deletions of the others.
LEMMA DeletesNothing ==
    ASSUME IInv, UNCHANGED <<tables, registries, smtp, overlapped>>, NEW q \in Requests,
           request' \in [Requests -> Request],
           ~Holds(q, {"deletePeer"})', ~Holds(q, NoteOps)',
           \A p \in Requests : p # q => request'[p] = request[p]
    PROVE  IInv'
<1>1. UNCHANGED <<receiverRows, reportRow, jobRefs, overlapped>>
  BY DEF tables
<1>2. NotDeleted'
  BY <1>1 DEF IInv, NotDeleted, Holds, NoteOps
<1> QED BY <1>2, RequestOnly

\* A request answered deletes nothing.
LEMMA AnswerKeeps ==
    ASSUME IInv, UNCHANGED <<tables, registries, smtp, overlapped>>, NEW q \in Requests, Answer(q)
    PROVE  IInv'
<1>1. /\ request' \in [Requests -> Request] /\ request'[q] = Idle
      /\ \A p \in Requests : p # q => request'[p] = request[p]
  BY RequestChanges DEF IInv
<1> QED BY <1>1, DeletesNothing DEF Holds, Idle, NoteOps

\* A deletion of a trusted server begins without users.
LEMMA BeginDeletePeerKeeps ==
    ASSUME IInv, NEW q \in Requests, NEW p \in Peers, BeginDeletePeer(q, p)
    PROVE  IInv'
<1> DEFINE r == [op |-> "deletePeer", id |-> p]
<1>1. /\ Begin(q, r) /\ UNCHANGED <<tables, registries, smtp, overlapped>>
      /\ \A k \in Receivers : receiverRows[k] # None => p \notin receiverRows[k].peers
  BY DEF BeginDeletePeer, UsersOfPeer, ListReceiverConfigs
<1>2. r \in Request
  BY DEF Request
<1>3. /\ request' \in [Requests -> Request] /\ request'[q] = r
      /\ \A k \in Requests : k # q => request'[k] = request[k]
  BY <1>1, <1>2, RequestChanges DEF IInv
<1>4. UNCHANGED <<receiverRows, reportRow, jobRefs, overlapped>>
  BY <1>1 DEF tables
<1>5. NotDeleted'
  BY <1>1, <1>3, <1>4 DEF IInv, NotDeleted, Holds, NoteOps
<1> QED BY <1>1, <1>3, <1>5, RequestOnly

\* A deletion of a notification begins with the job not naming it.
LEMMA BeginDeleteNoteKeeps ==
    ASSUME IInv, NEW q \in Requests, NEW n \in Notes, BeginDeleteNote(q, n)
    PROVE  IInv'
<1> DEFINE r == [op |-> "deleteNote", id |-> n]
<1>1. /\ Begin(q, r) /\ UNCHANGED <<tables, registries, smtp, overlapped>>
      /\ n \notin jobRefs
  BY DEF BeginDeleteNote, jobNotificationRefs
<1>2. r \in Request
  BY DEF Request, NoteOps
<1>3. /\ request' \in [Requests -> Request] /\ request'[q] = r
      /\ \A k \in Requests : k # q => request'[k] = request[k]
  BY <1>1, <1>2, RequestChanges DEF IInv
<1>4. UNCHANGED <<receiverRows, reportRow, jobRefs, overlapped>>
  BY <1>1 DEF tables
<1>5. NotDeleted'
  BY <1>1, <1>3, <1>4 DEF IInv, NotDeleted, Holds, NoteOps
<1> QED BY <1>1, <1>3, <1>5, RequestOnly

\* Going on with a deletion changes the operation and not the notification.
LEMMA ToKeepsId ==
    ASSUME TypeInv, NEW q \in Requests, Holds(q, NoteOps), NEW op \in NoteOps, To(q, op)
    PROVE  /\ request' \in [Requests -> Request]
           /\ request'[q].op = op /\ request'[q].id = request[q].id
           /\ \A k \in Requests : k # q => request'[k] = request[k]
<1>1. request[q] \in [op : NoteOps, id : Notes]
  BY RequestFields
<1>2. request' = [request EXCEPT ![q] = [request[q] EXCEPT !.op = op]]
  BY DEF To
<1>3. [request[q] EXCEPT !.op = op] \in [op : NoteOps, id : Notes]
  BY <1>1
<1>4. [request[q] EXCEPT !.op = op].op = op /\ [request[q] EXCEPT !.op = op].id = request[q].id
  BY <1>1
<1>5. [request[q] EXCEPT !.op = op] \in Request
  BY <1>3 DEF Request
<1> HIDE DEF Request
<1> QED BY <1>2, <1>4, <1>5 DEF TypeInv

\* No receiver's row names it, then no report's.
LEMMA ReadReceiverUsersKeeps ==
    ASSUME IInv, NEW q \in Requests, ReadReceiverUsers(q)
    PROVE  IInv'
<1>1. /\ Holds(q, NoteOps) /\ UNCHANGED <<tables, registries, smtp, overlapped>>
      /\ Holds(q, {"deleteNote"})
  BY DEF ReadReceiverUsers, Holds, NoteOps
<1>2. CASE Answer(q)
  BY <1>1, <1>2, AnswerKeeps
<1>3. CASE To(q, "deleteNoteReport") /\ UsersOfNote(request[q].id) = {}
  <2>1. /\ request' \in [Requests -> Request]
        /\ request'[q].op = "deleteNoteReport" /\ request'[q].id = request[q].id
        /\ \A k \in Requests : k # q => request'[k] = request[k]
    BY <1>1, <1>3, ToKeepsId DEF IInv, NoteOps
  <2>2. \A k \in Receivers : receiverRows[k] # None => request[q].id \notin receiverRows[k].notes
    BY <1>3 DEF UsersOfNote, ListReceiverConfigs
  <2>3. UNCHANGED <<receiverRows, reportRow, jobRefs, overlapped>>
    BY <1>1 DEF tables
  <2>4. NotDeleted'
    BY <1>1, <2>1, <2>2, <2>3 DEF IInv, NotDeleted, Holds, NoteOps
  <2> QED BY <1>1, <2>1, <2>4, RequestOnly
<1> QED BY <1>2, <1>3 DEF ReadReceiverUsers

LEMMA ReadReportUserKeeps ==
    ASSUME IInv, NEW q \in Requests, ReadReportUser(q)
    PROVE  IInv'
<1>1. /\ Holds(q, NoteOps) /\ UNCHANGED <<tables, registries, smtp, overlapped>>
      /\ Holds(q, {"deleteNoteReport"})
  BY DEF ReadReportUser, Holds, NoteOps
<1>2. CASE Answer(q)
  BY <1>1, <1>2, AnswerKeeps
<1>3. CASE To(q, "deleteNoteRow") /\ ~ReportUses(request[q].id)
  <2>1. /\ request' \in [Requests -> Request]
        /\ request'[q].op = "deleteNoteRow" /\ request'[q].id = request[q].id
        /\ \A k \in Requests : k # q => request'[k] = request[k]
    BY <1>1, <1>3, ToKeepsId DEF IInv, NoteOps
  <2>2. reportRow # None => request[q].id \notin reportRow.notes
    BY <1>3 DEF ReportUses
  <2>3. UNCHANGED <<receiverRows, reportRow, jobRefs, overlapped>>
    BY <1>1 DEF tables
  <2>4. NotDeleted'
    BY <1>1, <2>1, <2>2, <2>3 DEF IInv, NotDeleted, Holds, NoteOps
  <2> QED BY <1>1, <2>1, <2>4, RequestOnly
<1> QED BY <1>2, <1>3 DEF ReadReportUser

\* What is deleted is named by nobody who was not stored meanwhile.
LEMMA DeletePeerKeeps ==
    ASSUME IInv, NEW q \in Requests, DeletePeer(q)
    PROVE  IInv'
<1> DEFINE p == request[q].id
<1>1. /\ Holds(q, {"deletePeer"}) /\ peerRows' = peerRows \ {p}
      /\ peers' = IF p \in peerRows THEN peers \ {p} ELSE peers
      /\ Answer(q)
      /\ UNCHANGED <<noteRows, receiverRows, reportRow, jobRefs, notes, receivers, report, smtp, overlapped>>
  BY DEF DeletePeer, DeleteTrustedServer
<1>2. /\ request' \in [Requests -> Request] /\ request'[q] = Idle
      /\ \A k \in Requests : k # q => request'[k] = request[k]
  BY <1>1, RequestChanges DEF IInv
<1>3. \A r \in Receivers \ overlapped : receiverRows[r] # None => p \notin receiverRows[r].peers
  BY <1>1 DEF IInv, NotDeleted
<1> HIDE DEF p
<1>4. TypeInv'
  BY <1>1, <1>2 DEF IInv, TypeInv
<1>5. Registered'
  BY <1>1 DEF IInv, Registered, Known, ListNotificationConfigs, NoteResolves
<1>6. NotDeleted'
  BY <1>1, <1>2 DEF IInv, NotDeleted, Holds, Idle, NoteOps
<1>7. NothingDangles'
  BY <1>1, <1>3 DEF IInv, NothingDangles, ReceiverRefersTo, ListNotificationConfigs
<1>8. ActiveIsStored'
  BY <1>1, <1>3 DEF IInv, ActiveIsStored
<1> QED BY <1>4, <1>5, <1>6, <1>7, <1>8 DEF IInv

LEMMA DeleteNoteKeeps ==
    ASSUME IInv, NEW q \in Requests, DeleteNote(q)
    PROVE  IInv'
<1> DEFINE n == request[q].id
<1>1. /\ Holds(q, {"deleteNoteRow"}) /\ noteRows' = [noteRows EXCEPT ![n] = None]
      /\ notes' = IF n \in ListNotificationConfigs THEN notes \ {n} ELSE notes
      /\ Answer(q)
      /\ UNCHANGED <<peerRows, receiverRows, reportRow, jobRefs, peers, receivers, report, smtp, overlapped>>
  BY DEF DeleteNote, DeleteNotificationConfig
<1>2. /\ request' \in [Requests -> Request] /\ request'[q] = Idle
      /\ \A k \in Requests : k # q => request'[k] = request[k]
  BY <1>1, RequestChanges DEF IInv
<1>3. /\ \A r \in Receivers \ overlapped : receiverRows[r] # None => n \notin receiverRows[r].notes
      /\ reportRow # None => n \notin reportRow.notes
      /\ "job" \notin overlapped => n \notin jobRefs
  BY <1>1 DEF IInv, NotDeleted, Holds, NoteOps
<1> HIDE DEF n
<1>4. /\ ListNotificationConfigs' = ListNotificationConfigs \ {n}
      /\ \A k \in ListNotificationConfigs' : noteRows'[k] = noteRows[k]
  BY <1>1 DEF IInv, TypeInv, ListNotificationConfigs
<1>5. TypeInv'
  BY <1>1, <1>2 DEF IInv, TypeInv
<1>6. notes \subseteq ListNotificationConfigs /\ notes' = notes \ {n}
  BY <1>1 DEF IInv, Registered, Known
<1>7. Registered'
  BY <1>1, <1>4, <1>6 DEF IInv, Registered, Known, NoteResolves
<1>8. NotDeleted'
  BY <1>1, <1>2 DEF IInv, NotDeleted, Holds, Idle, NoteOps
<1>9. NothingDangles'
  BY <1>1, <1>3, <1>4 DEF IInv, NothingDangles, ReceiverRefersTo
<1>10. ActiveIsStored'
  BY <1>1, <1>3, <1>6 DEF IInv, ActiveIsStored
<1> QED BY <1>5, <1>7, <1>8, <1>9, <1>10 DEF IInv

----------------------------------------------------------------------------
(* Storing a receiver.                                                     *)

\* What a receiver is checked for, it keeps until it is stored.
LEMMA BeginStoreKeeps ==
    ASSUME IInv, NEW q \in Requests, NEW r \in Receivers, NEW d \in ReceiverDefs,
           BeginCreate(q, r, d) \/ BeginUpdate(q, r, d)
    PROVE  IInv'
<1>1. PICK op \in {"create", "update"} : Begin(q, [op |-> op, id |-> r, def |-> d])
  BY DEF BeginCreate, BeginUpdate
<1> DEFINE s == [op |-> op, id |-> r, def |-> d]
<1>2. d.peers # {} /\ UNCHANGED <<tables, registries, smtp, overlapped>>
  BY DEF BeginCreate, BeginUpdate, ResolveAllowedServers
<1>3. s \in Request
  BY <1>2 DEF Request, StoringOps, StorableDefs
<1>4. /\ request' \in [Requests -> Request] /\ request'[q] = s
      /\ \A k \in Requests : k # q => request'[k] = request[k]
  BY <1>1, <1>3, RequestChanges DEF IInv
<1> QED BY <1>2, <1>4, DeletesNothing DEF Holds, NoteOps

LEMMA CheckNotesKeeps ==
    ASSUME IInv, NEW q \in Requests, CheckNotes(q)
    PROVE  IInv'
<1>1. UNCHANGED <<tables, registries, smtp, overlapped>> /\ Holds(q, StoringOps)
  BY DEF CheckNotes, Holds, StoringOps
<1>2. CASE Answer(q)
  BY <1>1, <1>2, AnswerKeeps
<1>3. ASSUME NEW op \in {"createWrite", "updateWrite"}, To(q, op)
      PROVE  IInv'
  <2>1. request[q] \in [op : StoringOps, id : Receivers, def : StorableDefs]
    BY <1>1, RequestFields DEF IInv
  <2>2. request' = [request EXCEPT ![q] = [request[q] EXCEPT !.op = op]]
    BY <1>3 DEF To
  <2>3. /\ [request[q] EXCEPT !.op = op] \in [op : StoringOps, id : Receivers, def : StorableDefs]
        /\ [request[q] EXCEPT !.op = op].op = op
    BY <2>1 DEF StoringOps
  <2>4. [request[q] EXCEPT !.op = op] \in Request
    BY <2>3 DEF Request
  <2>5. /\ request' \in [Requests -> Request] /\ request'[q].op = op
        /\ \A k \in Requests : k # q => request'[k] = request[k]
    <3> HIDE DEF Request
    <3> QED BY <2>2, <2>3, <2>4 DEF IInv, TypeInv
  <2> QED BY <1>1, <2>5, DeletesNothing DEF Holds, NoteOps
<1> QED BY <1>2, <1>3 DEF CheckNotes

LEMMA CreateTakenKeeps ==
    ASSUME IInv, NEW q \in Requests, CreateTaken(q)
    PROVE  IInv'
BY AnswerKeeps DEF CreateTaken

\* A receiver stored over a deletion is marked, any other names what is there.
LEMMA StoreKeeps ==
    ASSUME IInv, NEW q \in Requests, CreateReceiver(q) \/ UpdateReceiver(q)
    PROVE  IInv'
<1> DEFINE r == request[q].id
           d == request[q].def
<1>1. /\ Holds(q, StoringOps)
      /\ receiverRows' = [receiverRows EXCEPT ![r] = d] /\ receivers' = [receivers EXCEPT ![r] = d]
      /\ overlapped' = IF Overlaps(d) THEN overlapped \cup {r} ELSE overlapped \ {r}
      /\ Answer(q)
      /\ UNCHANGED <<noteRows, peerRows, reportRow, jobRefs, notes, peers, report, smtp>>
  BY DEF CreateReceiver, UpdateReceiver, CreateReceiverConfig, UpdateReceiverConfig, StoreReceiver, Holds, StoringOps
<1>2. r \in Receivers /\ d \in ReceiverDefs /\ d.peers # {} /\ d # None
  BY <1>1, RequestFields, DefinitionTypes DEF IInv, StorableDefs
<1>3. /\ request' \in [Requests -> Request] /\ request'[q] = Idle
      /\ \A k \in Requests : k # q => request'[k] = request[k]
  BY <1>1, RequestChanges DEF IInv
<1>4. r \notin overlapped' =>
        /\ d.peers \subseteq peers /\ d.notes \subseteq notes
        /\ \A p \in Requests : /\ Holds(p, {"deletePeer"}) => request[p].id \notin d.peers
                               /\ Holds(p, {"deleteNoteReport", "deleteNoteRow"}) => request[p].id \notin d.notes
  BY <1>1 DEF Overlaps, DeletedNow
<1>5. "job" \in overlapped' <=> "job" \in overlapped
  BY <1>1, <1>2, DefinitionTypes
<1> HIDE DEF r, d
<1>6. TypeInv'
  BY <1>1, <1>2, <1>3 DEF IInv, TypeInv
<1>7. Registered'
  BY <1>1 DEF IInv, Registered, Known, ListNotificationConfigs, NoteResolves
<1>8. \A k \in Receivers \ overlapped' :
        \/ k = r /\ receiverRows'[k] = d /\ receivers'[k] = d
        \/ /\ k # r /\ k \notin overlapped
           /\ receiverRows'[k] = receiverRows[k] /\ receivers'[k] = receivers[k]
  BY <1>1, <1>2 DEF IInv, TypeInv
<1>9. NotDeleted'
  <2> SUFFICES ASSUME NEW p \in Requests
               PROVE  /\ Holds(p, {"deletePeer"})' =>
                           \A k \in Receivers \ overlapped' :
                              receiverRows'[k] # None => request'[p].id \notin receiverRows'[k].peers
                      /\ Holds(p, {"deleteNoteReport", "deleteNoteRow"})' =>
                           \A k \in Receivers \ overlapped' :
                              receiverRows'[k] # None => request'[p].id \notin receiverRows'[k].notes
                      /\ Holds(p, {"deleteNoteRow"})' /\ reportRow' # None => request'[p].id \notin reportRow'.notes
                      /\ Holds(p, NoteOps)' /\ "job" \notin overlapped' => request'[p].id \notin jobRefs'
    BY DEF NotDeleted
  <2>1. CASE p = q
    BY <1>3, <2>1 DEF Holds, Idle, NoteOps
  <2>2. CASE p # q
    BY <1>1, <1>3, <1>4, <1>5, <1>8, <2>2 DEF IInv, NotDeleted, Holds
  <2> QED BY <2>1, <2>2
<1>10. notes \subseteq ListNotificationConfigs /\ peers \subseteq peerRows
  BY DEF IInv, Registered, Known
<1>11. NothingDangles'
  BY <1>1, <1>4, <1>5, <1>8, <1>10 DEF IInv, NothingDangles, ReceiverRefersTo, ListNotificationConfigs
<1>12. ActiveIsStored'
  BY <1>1, <1>2, <1>4, <1>8 DEF IInv, ActiveIsStored
<1> QED BY <1>6, <1>7, <1>9, <1>11, <1>12 DEF IInv

----------------------------------------------------------------------------
(* Every step.                                                             *)

LEMMA StepIInv == IInv /\ [Next]_vars => IInv'
<1> SUFFICES ASSUME IInv, [Next]_vars PROVE IInv'
  OBVIOUS
<1>1. CASE Load \/ Stop
  BY <1>1, LoadKeeps, StopKeeps
<1>2. CASE \E p \in Peers : CreatePeer(p) \/ UpdatePeer(p)
  BY <1>2, PeerKeeps
<1>3. CASE \E n \in Notes, kind \in NoteKinds : CreateNote(n, kind) \/ UpdateNote(n, kind)
  BY <1>3, NoteKeeps
<1>4. CASE \E d \in ReportDefs : UpdateReport(d)
  BY <1>4, ReportKeeps
<1>5. CASE \E ns \in JobRefs : UpdateJob(ns)
  BY <1>5, JobKeeps
<1>6. CASE \E r \in Receivers : DeleteReceiver(r)
  BY <1>6, DeleteReceiverKeeps
<1>7. ASSUME NEW q \in Requests,
             \/ \E p \in Peers : BeginDeletePeer(q, p)
             \/ \E n \in Notes : BeginDeleteNote(q, n)
             \/ \E r \in Receivers, d \in ReceiverDefs : BeginCreate(q, r, d) \/ BeginUpdate(q, r, d)
             \/ DeletePeer(q) \/ ReadReceiverUsers(q) \/ ReadReportUser(q) \/ DeleteNote(q)
             \/ CheckNotes(q) \/ CreateReceiver(q) \/ CreateTaken(q) \/ UpdateReceiver(q)
      PROVE  IInv'
  BY <1>7, BeginDeletePeerKeeps, BeginDeleteNoteKeeps, BeginStoreKeeps, DeletePeerKeeps, ReadReceiverUsersKeeps,
     ReadReportUserKeeps, DeleteNoteKeeps, CheckNotesKeeps, CreateTakenKeeps, StoreKeeps
<1>8. CASE UNCHANGED vars
  <2>1. UNCHANGED <<tables, registries, smtp, overlapped, request>>
    BY <1>8 DEF vars
  <2>2. UNCHANGED <<receiverRows, reportRow, jobRefs, overlapped, request>>
    BY <2>1 DEF tables
  <2>3. NotDeleted' /\ request' \in [Requests -> Request]
    BY <2>2 DEF IInv, NotDeleted, Holds, TypeInv
  <2> QED BY <2>1, <2>3, RequestOnly
<1> QED BY <1>1, <1>2, <1>3, <1>4, <1>5, <1>6, <1>7, <1>8 DEF Next

LEMMA IInvAlways == Spec => []IInv
<1> QED BY InitIInv, StepIInv, PTL DEF Spec

----------------------------------------------------------------------------
(* The theorems.                                                           *)

\* What a stored receiver, the report or the job names is stored, unless they
\* were stored while it was being deleted (settings.Delete, trust.Delete).
THEOREM NamedIsKept == Spec => []NothingDangles
<1>1. IInv => NothingDangles
  BY DEF IInv
<1> QED BY <1>1, IInvAlways, PTL

\* What is active is active after a restart (receiver.Load, settings.Load).
THEOREM ActiveComesBack == Spec => []ActiveSurvivesRestart
<1>1. IInv => ActiveSurvivesRestart
  <2> SUFFICES ASSUME IInv
               PROVE  /\ \A r \in Receivers \ overlapped :
                           receivers[r] # None => LoadReceivers(peerRows, Known)[r] = receivers[r]
                      /\ report # None => LoadReport(Known) = report
    BY DEF ActiveSurvivesRestart, Known
  <2>1. ASSUME NEW r \in Receivers \ overlapped, receivers[r] # None
        PROVE  LoadReceivers(peerRows, Known)[r] = receivers[r]
    BY <2>1 DEF IInv, ActiveIsStored, Registered, LoadReceivers, ListReceiverConfigs, ResolveReceiver,
       ResolveAllowedServers, CheckNotificationRefs
  <2>2. report # None => LoadReport(Known) = report
    BY DEF IInv, ActiveIsStored, Registered, LoadReport, LiveReport, ResolveReport, CheckNotificationRefs
  <2> QED BY <2>1, <2>2
<1> QED BY <1>1, IInvAlways, PTL
=============================================================================
