------------------------------ MODULE PeerHub -------------------------------
(***************************************************************************)
(* The central side of the status push (internal/backup/peerstatus/hub.go, *)
(* status/peer.go, remoteauth) and the live dashboards that show it        *)
(* (webui/live.go).                                                        *)
(*                                                                         *)
(* A trusted instance numbers its pushes here, and signs each of them with *)
(* a token of its own.  A push arrives whenever the network likes, or      *)
(* never, or once more, and is handled by a goroutine of its own: it is    *)
(* kept in memory first and in the state database after.  An administrator *)
(* may forget an instance or withdraw its trust at any moment.             *)
(*                                                                         *)
(* Live clients share one encoded message.  Whoever asks takes the change  *)
(* channels of the stores, and only then what they hold.  Of the stores    *)
(* only that of the pushed statuses is modelled; the others work alike.  A *)
(* client that leaves is none, and those of a restart are connected again. *)
(***************************************************************************)
EXTENDS Integers, FiniteSets, TLC

CONSTANTS Peers, Clients,
          MaxPushes,     \* bounds the pushes of an instance
          MaxTrust,      \* bounds the changes of trust
          MaxRestarts    \* bounds the restarts of the central instance

ASSUME PeerHubAssumption == {MaxPushes, MaxTrust, MaxRestarts} \subseteq Nat

NoPush == 0
Push   == 1 .. MaxPushes
Token  == Peers \X Push

VARIABLES
    sent,        \* the pushes an instance has sent
    expired,     \* the tokens past their expiry and the leeway
    trusted, trustChanges,
    used,        \* usedTokens, the tokens that were accepted
    handling,    \* the pushes accepted and not yet stored
    peers,       \* the PeerStore: the last push recorded of each instance
    rows,        \* peer_statuses, the same in the state database
    forgetting,  \* the instances removed from memory and not yet from it
    late,        \* the pushes received longer ago than peerOfflineAfter
    step,        \* where each client is
    message,     \* what it was sent last, or is about to be, and is of use still
    open,        \* the channels it waits on, or will, are not closed
    payload,     \* the shared message, while its channels are the stores', and
                 \* whether it is young
    hubUp, restarts,
    accepted,    \* history: how often each push was, in this run
    disturbed    \* history: the instances whose memory and row may differ

senders     == <<sent, expired>>
trustVars   == <<trusted, trustChanges>>
hubVars     == <<used, handling, peers, rows, forgetting, late>>
liveVars    == <<step, message, open, payload>>
processVars == <<hubUp, restarts>>
hubHistory  == <<accepted, disturbed>>
centralVars == <<senders, trustVars, hubVars, liveVars, processVars, hubHistory>>

----------------------------------------------------------------------------
(* The change channel and the dashboard.                                   *)

\* The message of other channels than the stores' is never used again.
NoPayload == [content |-> <<>>, young |-> FALSE]

\* Closes the channel everybody holds.
notifyLocked ==
    /\ open' = [c \in Clients |-> FALSE]
    /\ payload' = NoPayload

\* peerOfflineAfter: it has missed a few.
Offline(p) == <<p, peers[p]>> \in late

\* Snapshot: trust is asked for at every look.
Dashboard == [p \in trusted |-> [push |-> peers[p], offline |-> Offline(p)]]

----------------------------------------------------------------------------
(* The pushing instances.                                                  *)

\* Each request has a token signed for it alone.
Signed == {t \in Token : t[2] <= sent[t[1]]}

\* A push follows when the one before it was answered or timed out.
SendPush(p) ==
    /\ sent[p] < MaxPushes
    /\ sent' = [sent EXCEPT ![p] = @ + 1]
    /\ UNCHANGED <<expired, trustVars, hubVars, liveVars, processVars, hubHistory>>

\* A token that is not in use and runs out is as good as lost.
Expire(t) ==
    /\ t \in used \ expired
    /\ expired' = expired \cup {t}
    /\ UNCHANGED <<sent, trustVars, hubVars, liveVars, processVars, hubHistory>>

----------------------------------------------------------------------------
(* Handling a push.                                                        *)

\* Mutant of Swept: the sweep drops every token.
sweepsAll(tokens) == {}

Swept(tokens) == tokens \ expired

\* The sweep runs when the last is long enough ago.  A token that ran out is
\* as good as forgotten, swept or not.
Use(t) ==
    \E remembered \in {used, Swept(used)} :
        /\ t \notin remembered \ expired
        /\ used' = remembered \cup {t}

\* The issuer a token names gives the key it is verified with.
Issuer(t) == t[1]

\* The token must be valid at this moment.
Verified(t) == t \notin expired

\* The rest of the request may still be refused: the body, its digest, its
\* version.
Received(t) == {handling, handling \cup {[token |-> t, at |-> "record"]}}

Authorize(t) ==
    /\ hubUp /\ t \in Signed
    /\ Issuer(t) \in trusted /\ Verified(t)
    /\ Use(t)
    /\ handling' \in Received(t)
    /\ accepted' = [accepted EXCEPT ![t] = @ + 1]
    /\ UNCHANGED <<senders, trustVars, peers, rows, forgetting, late, liveVars, processVars, disturbed>>

Handling(p) == {r \in handling : Issuer(r.token) = p}

\* Whoever comes between a change of the memory and that of the row may leave
\* the two apart.
Overlaps(p) == p \in forgetting \/ \E r \in Handling(p) : r.at = "save"

Upsert(p, n) ==
    /\ peers' = [peers EXCEPT ![p] = n]
    /\ late' = late \ {<<p, n>>}
    /\ notifyLocked

\* report: what a push says of the instance that signed it.
Report(r) == r.token[2]

Record(r) ==
    /\ hubUp /\ r \in handling /\ r.at = "record"
    /\ Upsert(Issuer(r.token), Report(r))
    /\ handling' = (handling \ {r}) \cup {[r EXCEPT !.at = "save"]}
    /\ disturbed' = IF Overlaps(Issuer(r.token)) THEN disturbed \cup {Issuer(r.token)} ELSE disturbed
    /\ UNCHANGED <<senders, trustVars, used, rows, forgetting, step, message, processVars, accepted>>

\* A push that cannot be stored is on the dashboard all the same.
SavePeerStatus(r) ==
    /\ hubUp /\ r \in handling /\ r.at = "save"
    /\ handling' = handling \ {r}
    /\ \/ /\ rows' = [rows EXCEPT ![Issuer(r.token)] = Report(r)]
          /\ UNCHANGED disturbed
       \/ /\ disturbed' = disturbed \cup {Issuer(r.token)}
          /\ UNCHANGED rows
    /\ UNCHANGED <<senders, trustVars, used, peers, forgetting, late, liveVars, processVars, accepted>>

----------------------------------------------------------------------------
(* The administrator.                                                      *)

\* Remove; nobody is told of an instance that was not there.
Forget(p) ==
    /\ hubUp /\ p \notin forgetting
    /\ forgetting' = forgetting \cup {p}
    /\ IF peers[p] = NoPush
       THEN UNCHANGED <<peers, open, payload>>
       ELSE peers' = [peers EXCEPT ![p] = NoPush] /\ notifyLocked
    /\ disturbed' = IF Overlaps(p) THEN disturbed \cup {p} ELSE disturbed
    /\ UNCHANGED <<senders, trustVars, used, handling, rows, late, step, message, processVars, accepted>>

\* Mutant of DeletePeerStatus: an instance that is not stored stays unmentioned,
\* and so does one that is.
forgetsMemoryOnly(p) ==
    /\ hubUp /\ p \in forgetting
    /\ forgetting' = forgetting \ {p}
    /\ UNCHANGED <<senders, trustVars, used, handling, peers, rows, late, liveVars, processVars, hubHistory>>

DeletePeerStatus(p) ==
    /\ hubUp /\ p \in forgetting
    /\ forgetting' = forgetting \ {p}
    /\ \/ /\ rows' = [rows EXCEPT ![p] = NoPush]
          /\ UNCHANGED disturbed
       \/ /\ disturbed' = disturbed \cup {p}
          /\ UNCHANGED rows
    /\ UNCHANGED <<senders, trustVars, used, handling, peers, late, liveVars, processVars, accepted>>

\* Neither is anybody told of a change of trust.
ChangeTrust(p) ==
    /\ hubUp /\ trustChanges < MaxTrust
    /\ trustChanges' = trustChanges + 1
    /\ trusted' = IF p \in trusted THEN trusted \ {p} ELSE trusted \cup {p}
    /\ UNCHANGED <<senders, hubVars, liveVars, processVars, hubHistory>>

\* The clock: an instance has missed its pushes.
FallBehind(p) ==
    /\ hubUp /\ peers[p] # NoPush /\ ~Offline(p)
    /\ late' = late \cup {<<p, peers[p]>>}
    /\ UNCHANGED <<senders, trustVars, used, handling, peers, rows, forgetting, liveVars, processVars, hubHistory>>

----------------------------------------------------------------------------
(* The live clients.                                                       *)

Building == \E c \in Clients : step[c] = "snapshot"

\* Mutant of Reusable: the message is good until a store says otherwise.
reusedUntilChanged == payload # NoPayload

Reusable == payload.young

\* get, up to the snapshots, which it takes with the lock held.
TakeChannels(c) ==
    /\ hubUp /\ step[c] = "channels" /\ ~Building
    /\ open' = [open EXCEPT ![c] = TRUE]
    /\ IF Reusable
       THEN /\ step' = [step EXCEPT ![c] = "write"]
            /\ message' = [message EXCEPT ![c] = payload.content]
       ELSE /\ step' = [step EXCEPT ![c] = "snapshot"]
            /\ UNCHANGED message
    /\ UNCHANGED <<senders, trustVars, hubVars, payload, processVars, hubHistory>>

Build(c) ==
    /\ hubUp /\ step[c] = "snapshot"
    /\ step' = [step EXCEPT ![c] = "write"]
    /\ message' = [message EXCEPT ![c] = Dashboard]
    /\ payload' = IF open[c] THEN [content |-> Dashboard, young |-> TRUE] ELSE NoPayload
    /\ UNCHANGED <<senders, trustVars, hubVars, open, processVars, hubHistory>>

\* Mutant of Write: the channels are those of the moment the message is sent.
channelsAfterWrite(c) ==
    /\ hubUp /\ step[c] = "write"
    /\ step' = [step EXCEPT ![c] = "wait"]
    /\ open' = [open EXCEPT ![c] = TRUE]
    /\ UNCHANGED <<senders, trustVars, hubVars, message, payload, processVars, hubHistory>>

Write(c) ==
    /\ hubUp /\ step[c] = "write"
    /\ step' = [step EXCEPT ![c] = "wait"]
    /\ UNCHANGED <<senders, trustVars, hubVars, message, open, payload, processVars, hubHistory>>

LetGo(c) ==
    /\ message' = [message EXCEPT ![c] = <<>>]
    /\ open' = [open EXCEPT ![c] = FALSE]

\* A change, after a moment for more of them, or the ping.
Wake(c) ==
    /\ hubUp /\ step[c] = "wait"
    /\ step' = [step EXCEPT ![c] = "channels"]
    /\ LetGo(c)
    /\ UNCHANGED <<senders, trustVars, hubVars, payload, processVars, hubHistory>>

\* livePayloadMaxAge
Age ==
    /\ payload.young
    /\ payload' = [payload EXCEPT !.young = FALSE]
    /\ UNCHANGED <<senders, trustVars, hubVars, step, message, open, processVars, hubHistory>>

----------------------------------------------------------------------------
(* Start and end of the process.                                           *)

StopHub ==
    /\ hubUp /\ restarts < MaxRestarts
    /\ hubUp' = FALSE
    /\ restarts' = restarts + 1
    /\ used' = {} /\ handling' = {} /\ forgetting' = {}
    /\ peers' = [p \in Peers |-> NoPush]
    /\ step' = [c \in Clients |-> "channels"]
    /\ message' = [c \in Clients |-> <<>>]
    /\ open' = [c \in Clients |-> FALSE]
    /\ payload' = NoPayload
    /\ accepted' = [t \in Token |-> 0]
    /\ disturbed' = {}
    /\ UNCHANGED <<senders, trustVars, rows, late>>

\* deleteStored, which may fail.
Deleted(ps) == {[p \in Peers |-> IF p \in gone THEN NoPush ELSE rows[p]] : gone \in SUBSET ps}

\* Load.  What was stored by another version of the program does not decode.
StartHub ==
    /\ ~hubUp
    /\ hubUp' = TRUE
    /\ \E unreadable \in SUBSET {p \in Peers : rows[p] # NoPush} :
         LET rejected == unreadable \cup {p \in Peers : rows[p] # NoPush /\ p \notin trusted}
         IN  /\ peers' = [p \in Peers |-> IF p \in rejected THEN NoPush ELSE rows[p]]
             /\ rows' \in Deleted(rejected)
    /\ disturbed' = {p \in Peers : rows'[p] # peers'[p]}
    /\ UNCHANGED <<senders, trustVars, used, handling, forgetting, late, liveVars, restarts, accepted>>

HubInit ==
    /\ sent = [p \in Peers |-> 0] /\ expired = {}
    /\ trusted = Peers /\ trustChanges = 0
    /\ used = {} /\ handling = {} /\ forgetting = {} /\ late = {}
    /\ peers = [p \in Peers |-> NoPush] /\ rows = peers
    /\ step = [c \in Clients |-> "channels"]
    /\ message = [c \in Clients |-> <<>>]
    /\ open = [c \in Clients |-> FALSE]
    /\ payload = NoPayload
    /\ hubUp = TRUE /\ restarts = 0
    /\ accepted = [t \in Token |-> 0] /\ disturbed = {}

HubNext ==
    \/ \E p \in Peers : \/ SendPush(p) \/ Forget(p) \/ DeletePeerStatus(p)
                        \/ ChangeTrust(p) \/ FallBehind(p)
    \/ \E t \in Token : Expire(t) \/ Authorize(t)
    \/ \E r \in handling : Record(r) \/ SavePeerStatus(r)
    \/ \E c \in Clients : TakeChannels(c) \/ Build(c) \/ Write(c) \/ Wake(c)
    \/ Age \/ StopHub \/ StartHub

HubSpec == HubInit /\ [][HubNext]_centralVars

\* The clock and the goroutines of the clients go on; a ping comes in time.
\* Nobody waits for the lock of the message for good.
Stream(c) == Build(c) \/ Write(c) \/ Wake(c)
FairHubSpec  ==
    /\ HubSpec /\ WF_centralVars(Age)
    /\ \A c \in Clients : WF_centralVars(Stream(c)) /\ SF_centralVars(TakeChannels(c))

----------------------------------------------------------------------------
(* Properties.                                                             *)

\* While the process runs a push is accepted once, however often it arrives and
\* whenever the used tokens are swept.
AcceptedOnce == \A t \in Token : accepted[t] <= 1

\* A client that waits on channels nothing has closed was sent what the store
\* holds of every instance it was shown: no change falls between the snapshot
\* and the wait, for it nor for the clients that share its message.
NothingMissed ==
    \A c \in Clients : step[c] = "wait" /\ open[c] =>
        \A p \in DOMAIN message[c] : message[c][p].push = peers[p]

\* Memory and state database part only where a store fails or two handlers of
\* one instance overlap, so a restart shows what was shown before.
RowsFollow ==
    \A p \in Peers : hubUp /\ ~Overlaps(p) /\ p \notin disturbed => rows[p] = peers[p]

\* What no channel tells of, an instance gone silent or no longer trusted,
\* reaches a client that stays too.
LiveCatchesUp ==
    \A c \in Clients : []<>(~hubUp \/ (step[c] = "wait" /\ message[c] = Dashboard))
=============================================================================
