----------------------------- MODULE References -----------------------------
(***************************************************************************)
(* What refers to what among the things edited in the web UI: receivers    *)
(* name trusted servers and notifications, the report and the jobs name    *)
(* notifications (internal/backup/receiver/config.go, trust, settings,     *)
(* report, and the notification part of jobs).                             *)
(*                                                                         *)
(* Three managers own them, each with its own lock, its rows, and a        *)
(* registry of what is active that the others look into.  Deleting a       *)
(* trusted server or a notification first reads who uses it, in several    *)
(* reads; storing a receiver first checks what it names, and a creation    *)
(* does so before it takes the lock.  A check and a deletion are under     *)
(* different locks and may overlap.                                        *)
(*                                                                         *)
(* Whether an entry resolves is reduced to the one thing outside itself it *)
(* depends on: an email needs the smtp entry of the configuration file,    *)
(* which may change between two starts.  One job stands for all, one       *)
(* registry for stale and download notifications.                          *)
(***************************************************************************)
EXTENDS FiniteSets

CONSTANTS Notes, Peers, Receivers,   \* ids of notifications, trusted servers, receivers
          Requests,                  \* requests of the web UI at the same time
          None,
          ReceiverDefs, ReportDefs, JobRefs   \* what users may enter

NoteKinds          == {"webhook", "email"}
ReceiverDefinition == [peers : SUBSET Peers, notes : SUBSET Notes]
ReportDefinition   == [enabled : BOOLEAN, notes : SUBSET Notes]

ASSUME ReferencesAssumption ==
    /\ ReceiverDefs \subseteq ReceiverDefinition
    /\ ReportDefs \subseteq ReportDefinition
    /\ JobRefs \subseteq SUBSET Notes
    /\ None \notin NoteKinds /\ None \notin ReceiverDefs /\ None \notin ReportDefs
    /\ "job" \notin Receivers

VARIABLES
    noteRows, peerRows, receiverRows, reportRow,   \* the tables
    jobRefs,       \* failure-notifications of the job, stored and live
    notes, peers,  \* the registries of active notifications and trusted servers
    receivers,     \* the registry of active receivers
    report,        \* the live report settings; None while it is disabled
    smtp,          \* the configuration of this start has an smtp entry
    up,
    request,       \* what each request is doing
    overlapped     \* history: receivers, and "job", stored while something they
                   \* name was being deleted

tables     == <<noteRows, peerRows, receiverRows, reportRow, jobRefs>>
registries == <<notes, peers, receivers, report>>
vars       == <<tables, registries, smtp, up, request, overlapped>>

Idle == [op |-> "idle"]

Holds(q, ops) == request[q].op \in ops

\* Each manager's lock is held by at most one of the requests that hold it
\* over several steps; an operation of one step only finds it free.
LockFree(ops)    == \A q \in Requests : ~Holds(q, ops)
ReceiverLockFree == LockFree({"update", "updateWrite"})
TrustLockFree    == LockFree({"deletePeer"})
SettingsLockFree == LockFree({"deleteNote", "deleteNoteReport", "deleteNoteRow"})

Ready(q) == up /\ request[q] = Idle

To(q, op)  == request' = [request EXCEPT ![q].op = op]
Answer(q)  == request' = [request EXCEPT ![q] = Idle]
Begin(q, r) == request' = [request EXCEPT ![q] = r]

----------------------------------------------------------------------------
(* Resolution.                                                             *)

NoteResolves(kind, hasSMTP) == kind = "email" => hasSMTP

CheckNotificationRefs(ns, known) == ns \subseteq known

ResolveAllowedServers(d, known) == d.peers # {} /\ d.peers \subseteq known

ResolveReceiver(d, knownPeers, knownNotes) ==
    ResolveAllowedServers(d, knownPeers) /\ CheckNotificationRefs(d.notes, knownNotes)

\* A disabled report's notifications must exist as well.
ResolveReport(d, known) ==
    /\ CheckNotificationRefs(d.notes, known)
    /\ d.enabled => d.notes # {}

LiveReport(d) == IF d.enabled THEN d ELSE None

----------------------------------------------------------------------------
(* The tables.  An id taken, or not there, is an error.                    *)

ListNotificationConfigs == {n \in Notes : noteRows[n] # None}
ListReceiverConfigs     == {r \in Receivers : receiverRows[r] # None}
ListTrustedServers      == peerRows

CreateNotificationConfig(n, kind) ==
    n \notin ListNotificationConfigs /\ noteRows' = [noteRows EXCEPT ![n] = kind]
UpdateNotificationConfig(n, kind) ==
    n \in ListNotificationConfigs /\ noteRows' = [noteRows EXCEPT ![n] = kind]
DeleteNotificationConfig(n) == noteRows' = [noteRows EXCEPT ![n] = None]

CreateReceiverConfig(r, d) ==
    r \notin ListReceiverConfigs /\ receiverRows' = [receiverRows EXCEPT ![r] = d]
UpdateReceiverConfig(r, d) == receiverRows' = [receiverRows EXCEPT ![r] = d]
DeleteReceiverConfig(r) ==
    r \in ListReceiverConfigs /\ receiverRows' = [receiverRows EXCEPT ![r] = None]

CreateTrustedServer(p) == p \notin peerRows /\ peerRows' = peerRows \cup {p}
UpdateTrustedServer(p) == p \in peerRows /\ UNCHANGED peerRows
DeleteTrustedServer(p) == peerRows' = peerRows \ {p}

----------------------------------------------------------------------------
(* Start and end.  Notifications and the report load first, then trusted   *)
(* servers, then receivers; a table that cannot be read is taken as empty. *)

LoadNotes(read) == {n \in ListNotificationConfigs : read /\ NoteResolves(noteRows[n], smtp')}

LoadPeers(read) == IF read THEN ListTrustedServers ELSE {}

LoadReport(known) ==
    IF reportRow # None /\ ResolveReport(reportRow, known) THEN LiveReport(reportRow) ELSE None

LoadReceivers(knownPeers, knownNotes) ==
    [r \in Receivers |->
        IF r \in ListReceiverConfigs /\ ResolveReceiver(receiverRows[r], knownPeers, knownNotes)
        THEN receiverRows[r] ELSE None]

NoReceivers == [r \in Receivers |-> None]

Load ==
    /\ ~up
    /\ up' = TRUE
    /\ smtp' \in BOOLEAN
    /\ \E read \in [{"notes", "peers", "report", "receivers"} -> BOOLEAN] :
         /\ notes' = LoadNotes(read["notes"])
         /\ peers' = LoadPeers(read["peers"])
         /\ report' = IF read["report"] THEN LoadReport(notes') ELSE None
         /\ receivers' = IF read["receivers"] THEN LoadReceivers(peers', notes') ELSE NoReceivers
    /\ UNCHANGED <<tables, request, overlapped>>

Stop ==
    /\ up
    /\ up' = FALSE
    /\ notes' = {} /\ peers' = {}
    /\ receivers' = NoReceivers
    /\ report' = None
    /\ request' = [q \in Requests |-> Idle]
    /\ UNCHANGED <<tables, smtp, overlapped>>

----------------------------------------------------------------------------
(* Trusted servers.                                                        *)

CreatePeer(p) ==
    /\ up /\ TrustLockFree
    /\ CreateTrustedServer(p)
    /\ peers' = peers \cup {p}
    /\ UNCHANGED <<noteRows, receiverRows, reportRow, jobRefs, notes, receivers, report, smtp, up, request, overlapped>>

UpdatePeer(p) ==
    /\ up /\ TrustLockFree
    /\ UpdateTrustedServer(p)
    /\ peers' = peers \cup {p}
    /\ UNCHANGED <<noteRows, receiverRows, reportRow, jobRefs, notes, receivers, report, smtp, up, request, overlapped>>

UsersOfPeer(p) == {r \in ListReceiverConfigs : p \in receiverRows[r].peers}

BeginDeletePeer(q, p) ==
    /\ Ready(q) /\ TrustLockFree
    /\ UsersOfPeer(p) = {}
    /\ Begin(q, [op |-> "deletePeer", id |-> p])
    /\ UNCHANGED <<tables, registries, smtp, up, overlapped>>

DeletePeer(q) ==
    /\ Holds(q, {"deletePeer"})
    /\ DeleteTrustedServer(request[q].id)
    /\ peers' = IF request[q].id \in peerRows THEN peers \ {request[q].id} ELSE peers
    /\ Answer(q)
    /\ UNCHANGED <<noteRows, receiverRows, reportRow, jobRefs, notes, receivers, report, smtp, up, overlapped>>

----------------------------------------------------------------------------
(* Notifications and the report, under one lock.                           *)

\* Mutant of validateNotification: what does not resolve is stored.
notValidated(kind) == kind \in NoteKinds

validateNotification(kind) == NoteResolves(kind, smtp)

StoreNote(n) ==
    /\ notes' = notes \cup {n}
    /\ UNCHANGED <<peerRows, receiverRows, reportRow, jobRefs, peers, receivers, report, smtp, up, request, overlapped>>

CreateNote(n, kind) ==
    /\ up /\ SettingsLockFree
    /\ validateNotification(kind)
    /\ CreateNotificationConfig(n, kind)
    /\ StoreNote(n)

UpdateNote(n, kind) ==
    /\ up /\ SettingsLockFree
    /\ validateNotification(kind)
    /\ UpdateNotificationConfig(n, kind)
    /\ StoreNote(n)

jobNotificationRefs == jobRefs

\* The users are read one kind after another: the live jobs, ...
BeginDeleteNote(q, n) ==
    /\ Ready(q) /\ SettingsLockFree
    /\ n \notin jobNotificationRefs
    /\ Begin(q, [op |-> "deleteNote", id |-> n])
    /\ UNCHANGED <<tables, registries, smtp, up, overlapped>>

UsersOfNote(n) == {r \in ListReceiverConfigs : n \in receiverRows[r].notes}

\* ... the rows of the receivers, ...
ReadReceiverUsers(q) ==
    /\ Holds(q, {"deleteNote"})
    /\ IF UsersOfNote(request[q].id) = {} THEN To(q, "deleteNoteReport") ELSE Answer(q)
    /\ UNCHANGED <<tables, registries, smtp, up, overlapped>>

\* Mutant of ReportUses: a disabled report is no user.
enabledReportUses(n) == reportRow # None /\ reportRow.enabled /\ n \in reportRow.notes

ReportUses(n) == reportRow # None /\ n \in reportRow.notes

\* ... and the row of the report, enabled or not.
ReadReportUser(q) ==
    /\ Holds(q, {"deleteNoteReport"})
    /\ IF ReportUses(request[q].id) THEN Answer(q) ELSE To(q, "deleteNoteRow")
    /\ UNCHANGED <<tables, registries, smtp, up, overlapped>>

DeleteNote(q) ==
    /\ Holds(q, {"deleteNoteRow"})
    /\ DeleteNotificationConfig(request[q].id)
    /\ notes' = IF request[q].id \in ListNotificationConfigs THEN notes \ {request[q].id} ELSE notes
    /\ Answer(q)
    /\ UNCHANGED <<peerRows, receiverRows, reportRow, jobRefs, peers, receivers, report, smtp, up, overlapped>>

UpdateReport(d) ==
    /\ up /\ SettingsLockFree
    /\ ResolveReport(d, notes)
    /\ reportRow' = d
    /\ report' = LiveReport(d)
    /\ UNCHANGED <<noteRows, peerRows, receiverRows, jobRefs, notes, peers, receivers, smtp, up, request, overlapped>>

----------------------------------------------------------------------------
(* The job, under the jobs manager's lock.                                 *)

DeletedNow(ids, ops) == \E q \in Requests : Holds(q, ops) /\ request[q].id \in ids

UpdateJob(ns) ==
    /\ up
    /\ CheckNotificationRefs(ns, notes)
    /\ jobRefs' = ns
    /\ overlapped' = IF DeletedNow(ns, {"deleteNote", "deleteNoteReport", "deleteNoteRow"})
                     THEN overlapped \cup {"job"} ELSE overlapped \ {"job"}
    /\ UNCHANGED <<noteRows, peerRows, receiverRows, reportRow, registries, smtp, up, request>>

----------------------------------------------------------------------------
(* Receivers.                                                              *)

\* A creation is checked before the lock is taken.
BeginCreate(q, r, d) ==
    /\ Ready(q)
    /\ ResolveAllowedServers(d, peers)
    /\ Begin(q, [op |-> "create", id |-> r, def |-> d])
    /\ UNCHANGED <<tables, registries, smtp, up, overlapped>>

\* An update holds the lock from reading the stored receiver on.
BeginUpdate(q, r, d) ==
    /\ Ready(q) /\ ReceiverLockFree /\ r \in ListReceiverConfigs
    /\ ResolveAllowedServers(d, peers)
    /\ Begin(q, [op |-> "update", id |-> r, def |-> d])
    /\ UNCHANGED <<tables, registries, smtp, up, overlapped>>

CheckNotes(q) ==
    /\ Holds(q, {"create", "update"})
    /\ IF ~CheckNotificationRefs(request[q].def.notes, notes) THEN Answer(q)
       ELSE To(q, IF request[q].op = "create" THEN "createWrite" ELSE "updateWrite")
    /\ UNCHANGED <<tables, registries, smtp, up, overlapped>>

\* Something the receiver names has been deleted since it was checked, or is
\* about to be by a request that has read its users already.
Overlaps(d) ==
    \/ ~(d.peers \subseteq peers /\ d.notes \subseteq notes)
    \/ DeletedNow(d.peers, {"deletePeer"})
    \/ DeletedNow(d.notes, {"deleteNoteReport", "deleteNoteRow"})

StoreReceiver(q) ==
    LET r == request[q].id
        d == request[q].def
    IN /\ receivers' = [receivers EXCEPT ![r] = d]
       /\ overlapped' = IF Overlaps(d) THEN overlapped \cup {r} ELSE overlapped \ {r}
       /\ Answer(q)
       /\ UNCHANGED <<noteRows, peerRows, reportRow, jobRefs, notes, peers, report, smtp, up>>

CreateReceiver(q) ==
    /\ Holds(q, {"createWrite"}) /\ ReceiverLockFree
    /\ CreateReceiverConfig(request[q].id, request[q].def)
    /\ StoreReceiver(q)

\* The id was taken in the meantime, or before.
CreateTaken(q) ==
    /\ Holds(q, {"createWrite"}) /\ ReceiverLockFree
    /\ request[q].id \in ListReceiverConfigs
    /\ Answer(q)
    /\ UNCHANGED <<tables, registries, smtp, up, overlapped>>

UpdateReceiver(q) ==
    /\ Holds(q, {"updateWrite"})
    /\ UpdateReceiverConfig(request[q].id, request[q].def)
    /\ StoreReceiver(q)

DeleteReceiver(r) ==
    /\ up /\ ReceiverLockFree
    /\ DeleteReceiverConfig(r)
    /\ receivers' = [receivers EXCEPT ![r] = None]
    /\ overlapped' = overlapped \ {r}
    /\ UNCHANGED <<noteRows, peerRows, reportRow, jobRefs, notes, peers, report, smtp, up, request>>

----------------------------------------------------------------------------
Init ==
    /\ noteRows = [n \in Notes |-> None] /\ peerRows = {}
    /\ receiverRows = [r \in Receivers |-> None] /\ reportRow = None
    /\ jobRefs = {}
    /\ notes = {} /\ peers = {}
    /\ receivers = [r \in Receivers |-> None] /\ report = None
    /\ smtp \in BOOLEAN
    /\ up = FALSE
    /\ request = [q \in Requests |-> Idle]
    /\ overlapped = {}

Next ==
    \/ Load \/ Stop
    \/ \E p \in Peers : CreatePeer(p) \/ UpdatePeer(p)
    \/ \E n \in Notes, kind \in NoteKinds : CreateNote(n, kind) \/ UpdateNote(n, kind)
    \/ \E d \in ReportDefs : UpdateReport(d)
    \/ \E ns \in JobRefs : UpdateJob(ns)
    \/ \E r \in Receivers : DeleteReceiver(r)
    \/ \E q \in Requests :
         \/ \E p \in Peers : BeginDeletePeer(q, p)
         \/ \E n \in Notes : BeginDeleteNote(q, n)
         \/ \E r \in Receivers, d \in ReceiverDefs : BeginCreate(q, r, d) \/ BeginUpdate(q, r, d)
         \/ DeletePeer(q) \/ ReadReceiverUsers(q) \/ ReadReportUser(q) \/ DeleteNote(q)
         \/ CheckNotes(q) \/ CreateReceiver(q) \/ CreateTaken(q) \/ UpdateReceiver(q)

Spec == Init /\ [][Next]_vars

----------------------------------------------------------------------------
(* Properties.                                                             *)

ReceiverRefersTo(d) == d.peers \subseteq peerRows /\ d.notes \subseteq ListNotificationConfigs

\* A trusted server or notification that is still named by a stored receiver,
\* by the report or by a job is not deleted: what they name is stored, unless
\* they were stored while it was being deleted.
NothingDangles ==
    /\ \A r \in Receivers \ overlapped : receiverRows[r] # None => ReceiverRefersTo(receiverRows[r])
    /\ reportRow # None => reportRow.notes \subseteq ListNotificationConfigs
    /\ "job" \notin overlapped => jobRefs \subseteq ListNotificationConfigs

\* What is active is so after a restart with the same configuration file that
\* can read its tables: the same receivers, with the same definitions, and the
\* same report.
ActiveSurvivesRestart ==
    up => LET known == {n \in ListNotificationConfigs : NoteResolves(noteRows[n], smtp)}
              again == LoadReceivers(peerRows, known)
          IN /\ \A r \in Receivers \ overlapped : receivers[r] # None => again[r] = receivers[r]
             /\ report # None => LoadReport(known) = report

\* What trust/manager.go:194 says of a trusted server, "refusing (ErrInUse,
\* naming the receivers) while a stored receiver still allows it".
AllowedIsStored ==
    \A r \in Receivers : receiverRows[r] # None => receiverRows[r].peers \subseteq peerRows
=============================================================================
