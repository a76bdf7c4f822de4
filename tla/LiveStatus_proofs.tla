------------------------- MODULE LiveStatus_proofs -------------------------
(***************************************************************************)
(* The way of a status from an instance to a browser: the pusher of the    *)
(* instance, the central instance it pushes to, and the sign-in a live     *)
(* stream needs.  Three systems that share no variable, each with an       *)
(* inductive invariant of its own, for any numbers of stores, instances,   *)
(* clients, users and sessions and any delays.                             *)
(*                                                                         *)
(* Pusher.  The invariant adds the time still to come to the time gone by: *)
(* a request that lasts has so many ticks left, a push that waits has so   *)
(* many to its turn.  A change that came during a request is not noticed   *)
(* yet, but its channel is closed.  A loop that was told nothing new has   *)
(* read the settings in effect.                                            *)
(*                                                                         *)
(* Central instance.  Every token that may still verify is remembered once *)
(* accepted; of an instance whose store did not fail one handler at a time *)
(* is between memory and row; and every message agrees with the stores     *)
(* until a channel taken before its snapshot is closed.                    *)
(*                                                                         *)
(* Web sessions.  A logout comes after the last token of its session, so   *)
(* that what is condensed of it need only outlast the tokens it covers;    *)
(* and whatever is remembered is what some logout in effect said.          *)
(***************************************************************************)
EXTENDS StatusPusher, PeerHub, WebSessions, WellFoundedInduction, TLAPS

----------------------------------------------------------------------------
(* The pusher: the times to come.                                          *)

\* A change is on its way, within the request's time or the push's.
ChangeInTime ==
    owed # None =>
      IF request # None THEN closed # {} /\ owed + request <= PushTimeout
      ELSE \/ closed # {} /\ owed <= PushTimeout
           \/ owed + next <= LongestWait

\* So is the next push, by the settings in effect.
PushInTime ==
    /\ request # None => silent + request <= PushTimeout
    /\ request = None /\ ~told /\ settings.enabled /\ next > 0 =>
         silent + next <= settings.interval + PushTimeout

\* What was set is read unless the loop is told.
SettingsRead == ~told => sp = settings

PusherInv == TypeOK /\ SettingsRead /\ ChangeInTime /\ PushInTime

\* The constants are natural numbers, None is none.
LEMMA PusherConstants ==
    /\ Coalesce \in Nat \ {0} /\ MinGap \in Nat \ {0} /\ PushTimeout \in Nat \ {0}
    /\ None \notin Nat
    /\ \A i \in Intervals : i \in Nat
BY StatusPusherAssumption

\* A nonempty set of natural numbers has a smallest element.
LEMMA SmallestExists ==
    ASSUME NEW T \in SUBSET Nat, T # {}
    PROVE  \E x \in T : \A y \in T : x <= y
<1> DEFINE R == {ss \in Nat \X Nat : ss[1] < ss[2]}
<1>1. IsWellFoundedOn(R, Nat)
  BY NatLessThanWellFounded DEF OpToRel
<1>2. PICK x \in T : \A y \in T : <<y, x>> \notin R
  <2> HIDE DEF R
  <2> QED BY <1>1, WFMin
<1>3. ASSUME NEW y \in T PROVE x <= y
  <2>1. <<y, x>> \in Nat \X Nat /\ <<y, x>> \notin R
    BY <1>2
  <2>2. ~(y < x)
    BY <2>1
  <2> QED BY <2>2
<1> QED BY <1>3

\* There is a shortest interval, the one of the settings nobody saved.
LEMMA DisabledType == Disabled \in Settings /\ Disabled.enabled = FALSE
<1>1. Intervals \in SUBSET Nat /\ Intervals # {}
  BY StatusPusherAssumption
<1>2. (CHOOSE i \in Intervals : \A j \in Intervals : i <= j) \in Intervals
  BY <1>1, SmallestExists
<1> QED BY <1>2 DEF Disabled, Settings

\* The next push is brought forward only, to no later than the longest delay.
LEMMA SoonestType ==
    ASSUME TypeOK
    PROVE  Soonest \in Nat /\ Soonest <= next /\ Soonest <= Greatest(Coalesce, MinGap)
BY PusherConstants DEF Soonest, Least, Greatest, TypeOK

LEMMA WaitType ==
    /\ Greatest(Coalesce, MinGap) \in Nat
    /\ LongestWait \in Nat /\ LongestWait = PushTimeout + Greatest(Coalesce, MinGap)
BY PusherConstants DEF LongestWait, Greatest

----------------------------------------------------------------------------
(* The pusher: every step.                                                 *)

LEMMA PusherInit == Init => PusherInv
<1> SUFFICES ASSUME Init PROVE PusherInv
  OBVIOUS
<1>1. TypeOK
  BY DisabledType, PusherConstants DEF Init, TypeOK
<1>2. SettingsRead /\ ChangeInTime /\ PushInTime
  BY PusherConstants, DisabledType DEF Init, SettingsRead, ChangeInTime, PushInTime
<1> QED BY <1>1, <1>2 DEF PusherInv

\* New settings are stored and the loop is told.
LEMMA UpdateKeeps == ASSUME PusherInv, NEW p \in Settings, UpdateStatusPush(p) PROVE PusherInv'
<1>1. TypeOK'
  BY DEF PusherInv, TypeOK, UpdateStatusPush, Save, Tell, loopVars, historyVars
<1> QED BY <1>1 DEF PusherInv, UpdateStatusPush, Save, Tell, loopVars, historyVars, SettingsRead, ChangeInTime, PushInTime

\* A change begins to wait.
LEMMA ChangeKeeps == ASSUME PusherInv, NEW s \in Stores, Change(s) PROVE PusherInv'
<1>1. /\ closed' = closed \cup {s} /\ owed' = IF owed = None THEN 0 ELSE owed
      /\ UNCHANGED <<stored, settings, told, sp, next, last, request, server, up, silent>>
  BY DEF Change, Notify, settingsVars
<1>2. TypeOK'
  BY <1>1 DEF PusherInv, TypeOK
<1>3. ChangeInTime'
  BY <1>1, PusherConstants DEF PusherInv, TypeOK, ChangeInTime
<1> QED BY <1>1, <1>2, <1>3 DEF PusherInv, SettingsRead, PushInTime

\* The loop reads the settings and pushes at once.
LEMMA TakeSettingsKeeps == ASSUME PusherInv, TakeSettings PROVE PusherInv'
<1>1. /\ request = None /\ told' = FALSE /\ next' = 0 /\ sp' = settings
      /\ UNCHANGED <<stored, settings, closed, last, request, server, up, owed, silent>>
  BY DEF TakeSettings, Selecting, Turn, historyVars
<1>2. TypeOK'
  BY <1>1 DEF PusherInv, TypeOK
<1>3. ChangeInTime'
  BY <1>1, PusherConstants, WaitType DEF PusherInv, TypeOK, ChangeInTime
<1> QED BY <1>1, <1>2, <1>3 DEF PusherInv, SettingsRead, PushInTime

\* The loop notices a change and plans the push for it.
LEMMA TakeChangeKeeps == ASSUME PusherInv, NEW s \in Stores, TakeChange(s) PROVE PusherInv'
<1>1. /\ request = None /\ closed' = closed \ {s} /\ next' = Soonest /\ sp' = settings
      /\ UNCHANGED <<stored, settings, told, last, request, server, up, owed, silent>>
  BY DEF TakeChange, Selecting, Turn, Renew, settingsVars, historyVars
<1>2. Soonest \in Nat /\ Soonest <= next /\ Soonest <= Greatest(Coalesce, MinGap)
  BY SoonestType DEF PusherInv
<1>3. TypeOK'
  BY <1>1, <1>2 DEF PusherInv, TypeOK
<1>4. ChangeInTime'
  BY <1>1, <1>2, PusherConstants, WaitType DEF PusherInv, TypeOK, ChangeInTime
<1>5. PushInTime'
  <2>1. /\ next \in Nat /\ silent \in Nat /\ settings.interval \in Nat
        /\ next' <= next /\ next' \in Nat
    BY <1>1, <1>2, PusherConstants DEF PusherInv, TypeOK, Settings
  <2> QED BY <1>1, <2>1, PusherConstants DEF PusherInv, PushInTime
<1> QED BY <1>1, <1>3, <1>4, <1>5 DEF PusherInv, SettingsRead

\* A push begins: what waited is in it.
LEMMA BeginPushKeeps == ASSUME PusherInv, BeginPush PROVE PusherInv'
<1>1. /\ owed' = None /\ request' = PushTimeout /\ silent' = 0
      /\ UNCHANGED <<stored, settings, told, sp, closed, next, last, server, up>>
  BY DEF BeginPush, Payload, Post, settingsVars
<1>2. TypeOK'
  BY <1>1, PusherConstants DEF PusherInv, TypeOK
<1> QED BY <1>1, <1>2, PusherConstants DEF PusherInv, SettingsRead, ChangeInTime, PushInTime

\* A push ends, the next is an interval away.
LEMMA EndPushKeeps == ASSUME PusherInv, EndPush PROVE PusherInv'
<1>1. /\ request # None /\ request' = None /\ last' = 0 /\ next' = sp.interval /\ sp' = settings
      /\ UNCHANGED <<stored, settings, told, closed, server, up, owed, silent>>
  BY DEF EndPush, Pushed, Turn, settingsVars, historyVars
<1>2. sp.interval \in Nat /\ settings.interval \in Nat /\ request \in Nat
  BY <1>1, PusherConstants DEF PusherInv, TypeOK, Settings
<1>3. TypeOK'
  BY <1>1, <1>2, PusherConstants DEF PusherInv, TypeOK
<1>4. ChangeInTime'
  BY <1>1, <1>2, PusherConstants DEF PusherInv, TypeOK, ChangeInTime
<1>5. PushInTime'
  <2>1. silent <= PushTimeout /\ silent \in Nat
    BY <1>1, <1>2, PusherConstants DEF PusherInv, TypeOK, PushInTime
  <2>2. ~told => sp = settings
    BY DEF PusherInv, SettingsRead
  <2> QED BY <1>1, <1>2, <2>1, <2>2, PusherConstants DEF PushInTime
<1> QED BY <1>1, <1>3, <1>4, <1>5 DEF PusherInv, SettingsRead

\* A push without a server has failed at once.
LEMMA PushNowhereKeeps == ASSUME PusherInv, PushNowhere PROVE PusherInv'
<1>1. /\ owed' = None /\ silent' = 0 /\ last' = 0 /\ next' = sp.interval /\ sp' = settings
      /\ request = None
      /\ UNCHANGED <<stored, settings, told, closed, request, server, up>>
  BY DEF PushNowhere, Pushed, Turn, settingsVars, Selecting
<1>2. sp.interval \in Nat /\ settings.interval \in Nat
  BY PusherConstants DEF PusherInv, TypeOK, Settings
<1>3. TypeOK'
  BY <1>1, <1>2, PusherConstants DEF PusherInv, TypeOK
<1>4. PushInTime'
  <2>1. ~told => sp = settings
    BY DEF PusherInv, SettingsRead
  <2> QED BY <1>1, <1>2, <2>1, PusherConstants DEF PushInTime
<1> QED BY <1>1, <1>3, <1>4 DEF PusherInv, SettingsRead, ChangeInTime

\* A start pushes at once.
LEMMA StartKeeps == ASSUME PusherInv, Start PROVE PusherInv'
<1>1. /\ settings' \in Settings /\ sp' = settings' /\ told' = FALSE /\ closed' = {} /\ up' = TRUE
      /\ next' = 0 /\ last' = None /\ request' = None /\ owed' = None /\ silent' = 0
      /\ UNCHANGED <<stored, server>>
  BY DisabledType DEF Start, Loaded, PusherInv, TypeOK
<1>2. TypeOK'
  BY <1>1 DEF PusherInv, TypeOK
<1> QED BY <1>1, <1>2 DEF PusherInv, SettingsRead, ChangeInTime, PushInTime

\* A tick takes from what is to come what it adds to what has gone by.
LEMMA TickKeeps == ASSUME PusherInv, Tick PROVE PusherInv'
<1>1. /\ Waiting
      /\ next' = Greatest(next - 1, 0)
      /\ last' = IF last = None THEN None ELSE Least(last + 1, MinGap)
      /\ request' = IF request = None THEN None ELSE request - 1
      /\ owed' = IF owed = None \/ ~settings.enabled THEN owed ELSE owed + 1
      /\ silent' = IF settings.enabled THEN silent + 1 ELSE silent
      /\ UNCHANGED <<stored, settings, told, sp, closed, server, up>>
  BY DEF Tick, settingsVars
<1>2. /\ next \in Nat /\ silent \in Nat /\ settings.interval \in Nat
      /\ request # None => request \in Nat /\ request > 0 /\ request <= PushTimeout
      /\ owed # None => owed \in Nat
      /\ last # None => last \in 0 .. MinGap
  BY <1>1, PusherConstants DEF PusherInv, TypeOK, Settings, Waiting
<1>3. next' \in Nat /\ (next > 0 => next' = next - 1) /\ (next = 0 => next' = 0)
  BY <1>1, <1>2 DEF Greatest
<1>4. TypeOK'
  <2>1. last' \in (0 .. MinGap) \cup {None}
    BY <1>1, <1>2, PusherConstants DEF Least
  <2>2. request' \in (0 .. PushTimeout) \cup {None}
    BY <1>1, <1>2, PusherConstants
  <2>3. owed' \in Nat \cup {None} /\ silent' \in Nat
    BY <1>1, <1>2
  <2> QED BY <1>1, <1>3, <2>1, <2>2, <2>3 DEF PusherInv, TypeOK
<1>5. request = None => ~told /\ closed = {} /\ ~(sp.enabled /\ next = 0) /\ sp = settings
  BY <1>1 DEF Waiting, Due, PusherInv, SettingsRead
<1>6. ChangeInTime'
  <2> SUFFICES ASSUME owed' # None
               PROVE  IF request' # None THEN closed # {} /\ owed' + request' <= PushTimeout
                      ELSE \/ closed # {} /\ owed' <= PushTimeout
                           \/ owed' + next' <= LongestWait
    BY <1>1 DEF ChangeInTime
  <2>1. owed # None /\ owed' \in {owed, owed + 1} /\ (~settings.enabled => owed' = owed)
    BY <1>1
  <2>2. CASE request = None
    <3>1. owed + next <= LongestWait
      BY <1>5, <2>1, <2>2 DEF PusherInv, ChangeInTime
    <3> QED BY <1>1, <1>2, <1>3, <1>5, <2>1, <2>2, <3>1, WaitType
  <2>3. CASE request # None
    <3>1. closed # {} /\ owed + request <= PushTimeout
      BY <2>1, <2>3 DEF PusherInv, ChangeInTime
    <3> QED BY <1>1, <1>2, <2>1, <2>3, <3>1, PusherConstants
  <2> QED BY <2>2, <2>3
<1>7. PushInTime'
  <2>1. silent' \in {silent, silent + 1}
    BY <1>1
  <2>2. CASE request = None
    BY <1>1, <1>2, <1>3, <1>5, <2>2, PusherConstants DEF PusherInv, PushInTime
  <2>3. CASE request # None
    BY <1>1, <1>2, <2>1, <2>3, PusherConstants DEF PusherInv, PushInTime
  <2> QED BY <2>2, <2>3
<1> QED BY <1>1, <1>4, <1>6, <1>7 DEF PusherInv, SettingsRead

LEMMA PusherStep == PusherInv /\ [Next]_vars => PusherInv'
<1> SUFFICES ASSUME PusherInv, [Next]_vars PROVE PusherInv'
  OBVIOUS
<1>1. CASE Start
  BY <1>1, StartKeeps
<1>2. CASE Tick
  BY <1>2, TickKeeps
<1>3. CASE \E p \in Settings : UpdateStatusPush(p)
  BY <1>3, UpdateKeeps
<1>4. CASE \E s \in Stores : Change(s) \/ TakeChange(s)
  BY <1>4, ChangeKeeps, TakeChangeKeeps
<1>5. CASE TakeSettings \/ BeginPush \/ EndPush \/ PushNowhere
  BY <1>5, TakeSettingsKeeps, BeginPushKeeps, EndPushKeeps, PushNowhereKeeps
<1>6. CASE Stop \/ EditServer \/ UNCHANGED vars
  <2>1. /\ UNCHANGED <<stored, settings, told, sp, closed, next, last, request, owed, silent>>
        /\ up' \in {up, FALSE} /\ server' \in {server, ~server}
    BY <1>6 DEF Stop, EditServer, vars, settingsVars, loopVars, historyVars
  <2>2. TypeOK'
    BY <2>1 DEF PusherInv, TypeOK
  <2> QED BY <2>1, <2>2 DEF PusherInv, SettingsRead, ChangeInTime, PushInTime
<1> QED BY <1>1, <1>2, <1>3, <1>4, <1>5, <1>6 DEF Next

LEMMA PusherAlways == Spec => []PusherInv
<1> QED BY PusherInit, PusherStep, PTL DEF Spec

----------------------------------------------------------------------------
(* The pusher: the theorems.                                               *)

\* The loop's variables keep their types (pusher, RunPusher).
THEOREM PusherTypeCorrect == Spec => []TypeOK
<1>1. PusherInv => TypeOK
  BY DEF PusherInv
<1> QED BY <1>1, PusherAlways, PTL

\* No change is missed and none put off, whatever the delays (pusher.soonest).
THEOREM ChangesPushedSoon == Spec => []PushedSoon
<1>1. PusherInv => PushedSoon
  <2> SUFFICES ASSUME PusherInv, Waiting, owed # None PROVE owed <= LongestWait
    BY DEF PushedSoon
  <2>1. owed \in Nat /\ next \in Nat
    BY DEF PusherInv, TypeOK
  <2>2. CASE request = None
    <3>1. owed + next <= LongestWait
      BY <2>2 DEF PusherInv, ChangeInTime, Waiting
    <3> QED BY <2>1, <3>1, WaitType
  <2>3. CASE request # None
    <3>1. owed + request <= PushTimeout /\ request \in Nat
      BY <2>3 DEF PusherInv, ChangeInTime, TypeOK
    <3> QED BY <2>1, <3>1, WaitType, PusherConstants
  <2> QED BY <2>2, <2>3
<1> QED BY <1>1, PusherAlways, PTL

\* The central instance hears something once an interval (pusher.run).
THEOREM HeartbeatNeverLate == Spec => []HeartbeatKept
<1>1. PusherInv => HeartbeatKept
  <2> SUFFICES ASSUME PusherInv, Waiting, settings.enabled
               PROVE  silent <= settings.interval + PushTimeout
    BY DEF HeartbeatKept
  <2>1. silent \in Nat /\ next \in Nat /\ settings.interval \in Nat
    BY PusherConstants DEF PusherInv, TypeOK, Settings
  <2>2. CASE request = None
    <3>1. ~told /\ sp = settings /\ next # 0
      BY <2>2 DEF PusherInv, SettingsRead, Waiting, Due
    <3>2. silent + next <= settings.interval + PushTimeout
      BY <2>1, <2>2, <3>1 DEF PusherInv, PushInTime
    <3> QED BY <2>1, <3>2, PusherConstants
  <2>3. CASE request # None
    <3>1. silent + request <= PushTimeout /\ request \in Nat
      BY <2>3 DEF PusherInv, PushInTime, TypeOK
    <3> QED BY <2>1, <3>1, PusherConstants
  <2> QED BY <2>2, <2>3
<1> QED BY <1>1, PusherAlways, PTL

----------------------------------------------------------------------------
(* The central instance: its tokens, its rows and its live message.        *)

Steps == {"channels", "snapshot", "write", "wait"}

HubTypes ==
    /\ expired \subseteq Token
    /\ trusted \subseteq Peers
    /\ used \subseteq Token
    /\ handling \subseteq [token : Token, at : {"record", "save"}]
    /\ peers \in [Peers -> Nat] /\ rows \in [Peers -> Nat]
    /\ forgetting \subseteq Peers
    /\ step \in [Clients -> Steps] /\ open \in [Clients -> BOOLEAN]
    /\ message = [c \in Clients |-> message[c]]
    /\ payload = [content |-> payload.content, young |-> payload.young]
    /\ hubUp \in BOOLEAN
    /\ accepted \in [Token -> Nat]
    /\ disturbed \subseteq Peers

\* A process that is down handles nothing and holds no channel.
DownIsIdle ==
    ~hubUp => /\ handling = {} /\ forgetting = {}
              /\ payload = NoPayload /\ \A c \in Clients : ~open[c]

\* An accepted token is remembered until it no longer verifies.
Remembered ==
    \A t \in Token : accepted[t] <= 1 /\ (accepted[t] # 0 => t \in used \cup expired)

\* Of an instance that is not disturbed one handler is between memory and row,
\* and the memory is as that handler has left it.
OneHandler ==
    \A p \in Peers \ disturbed :
        /\ p \in forgetting => peers[p] = NoPush /\ \A r \in Handling(p) : r.at # "save"
        /\ \A r \in Handling(p) : r.at = "save" =>
              /\ peers[p] = Report(r)
              /\ \A q \in Handling(p) : q.at = "save" => q = r

\* A message of the stores' present content.
Agrees(m) == \A p \in DOMAIN m : m[p].push = peers[p]

\* The shared message is of that content, and so is a client's while nothing
\* has closed the channels it took before.
Current ==
    /\ Agrees(payload.content)
    /\ \A c \in Clients : open[c] /\ step[c] \in {"write", "wait"} => Agrees(message[c])

HubInv == HubTypes /\ DownIsIdle /\ Remembered /\ OneHandler /\ RowsFollow /\ Current

LEMMA TokenIs == \A t \in Token : Issuer(t) \in Peers /\ t[2] \in Nat /\ t[2] # NoPush
BY PeerHubAssumption DEF Token, Issuer, Push, NoPush

LEMMA NothingShown == DOMAIN <<>> = {}
OBVIOUS

\* The process starts with nothing recorded and nothing shown.
LEMMA HubInitInv == HubInit => HubInv
<1> SUFFICES ASSUME HubInit PROVE HubInv
  OBVIOUS
<1>1. HubTypes
  BY DEF HubInit, HubTypes, Steps, NoPush, NoPayload
<1>2. DownIsIdle /\ Remembered
  BY DEF HubInit, DownIsIdle, Remembered
<1>3. OneHandler /\ RowsFollow
  BY DEF HubInit, OneHandler, RowsFollow, Handling
<1>4. Current
  BY NothingShown DEF HubInit, Current, Agrees, NoPayload
<1> QED BY <1>1, <1>2, <1>3, <1>4 DEF HubInv

\* Steps that leave the process, its tokens, memory and rows alone.
LEMMA HubFrame ==
    ASSUME UNCHANGED <<peers, rows, handling, forgetting, hubUp, disturbed>>, OneHandler, RowsFollow
    PROVE  OneHandler' /\ RowsFollow'
BY DEF OneHandler, RowsFollow, Handling, Overlaps, Report, Issuer

LEMMA CurrentFrame ==
    ASSUME UNCHANGED <<peers, step, message, open, payload>>, Current
    PROVE  Current'
BY DEF Current, Agrees

\* Whoever closes the channels takes the message with them.
LEMMA Notified ==
    ASSUME notifyLocked
    PROVE  Current'
BY NothingShown DEF notifyLocked, Current, Agrees, NoPayload

\* A token is accepted while it verifies, so it was not accepted before.
LEMMA HubAuthorize ==
    ASSUME HubInv, NEW t \in Token, Authorize(t)
    PROVE  HubInv'
<1> USE DEF senders, trustVars, liveVars, processVars, hubHistory, HubInv
<1>1. PICK remembered \in {used, Swept(used)} : t \notin remembered \ expired /\ used' = remembered \cup {t}
  BY DEF Authorize, Use
<1>2. t \notin expired /\ t \notin used
  BY <1>1 DEF Authorize, Verified, Swept
<1>3. accepted[t] = 0
  BY <1>2 DEF Remembered, HubTypes
<1>4. handling' \subseteq handling \cup {[token |-> t, at |-> "record"]} /\ handling \subseteq handling'
  BY DEF Authorize, Received
<1>5. HubTypes'
  <2>1. used' \subseteq Token /\ handling' \subseteq [token : Token, at : {"record", "save"}]
    BY <1>1, <1>4 DEF HubTypes, Swept
  <2>2. accepted' \in [Token -> Nat]
    BY DEF Authorize, HubTypes
  <2> QED BY <2>1, <2>2 DEF Authorize, HubTypes
<1>6. DownIsIdle'
  BY DEF Authorize, DownIsIdle
<1>7. Remembered'
  <2> SUFFICES ASSUME NEW q \in Token
               PROVE  accepted'[q] <= 1 /\ (accepted'[q] # 0 => q \in used' \cup expired)
    BY DEF Remembered, Authorize
  <2>1. CASE q = t
    BY <1>1, <1>3, <2>1 DEF Authorize, HubTypes
  <2>2. CASE q # t
    <3>1. accepted'[q] = accepted[q]
      BY <2>2 DEF Authorize, HubTypes
    <3>2. used \subseteq used' \cup expired
      BY <1>1 DEF Swept
    <3> QED BY <3>1, <3>2 DEF Remembered
  <2> QED BY <2>1, <2>2
<1>8. OneHandler' /\ RowsFollow'
  <2>1. \A p \in Peers : {r \in Handling(p)' : r.at = "save"} = {r \in Handling(p) : r.at = "save"}
    BY <1>4 DEF Handling
  <2>2. UNCHANGED <<peers, rows, forgetting, hubUp, disturbed>>
    BY DEF Authorize
  <2> QED BY <2>1, <2>2 DEF OneHandler, RowsFollow, Overlaps, Report
<1>9. Current'
  BY CurrentFrame DEF Authorize
<1> QED BY <1>5, <1>6, <1>7, <1>8, <1>9

\* A push recorded while another handler of its instance is under way disturbs
\* the instance; alone it is the one handler.
LEMMA HubRecord ==
    ASSUME HubInv, NEW r \in handling, Record(r)
    PROVE  HubInv'
<1> USE DEF senders, trustVars, liveVars, processVars, hubHistory, HubInv
<1> DEFINE p == Issuer(r.token)
           s == [r EXCEPT !.at = "save"]
<1>1. r.token \in Token /\ p \in Peers /\ Report(r) \in Nat /\ r.at = "record"
  BY TokenIs DEF HubTypes, Report, Record
<1>2. s \in [token : Token, at : {"record", "save"}] /\ s.token = r.token /\ s.at = "save"
  BY <1>1 DEF HubTypes
<1>3. /\ handling' = (handling \ {r}) \cup {s}
      /\ peers' = [peers EXCEPT ![p] = Report(r)]
      /\ disturbed' = IF Overlaps(p) THEN disturbed \cup {p} ELSE disturbed
      /\ UNCHANGED <<used, rows, forgetting, step, message, hubUp, accepted, expired, trusted>>
      /\ hubUp
  BY DEF Record, Upsert
<1>4. notifyLocked
  BY DEF Record, Upsert
<1> HIDE DEF s, p
<1>5. HubTypes'
  <2>1. handling' \subseteq [token : Token, at : {"record", "save"}]
    BY <1>2, <1>3 DEF HubTypes
  <2>2. peers' \in [Peers -> Nat] /\ disturbed' \subseteq Peers
    BY <1>1, <1>3 DEF HubTypes
  <2>3. open' \in [Clients -> BOOLEAN] /\ payload' = [content |-> payload'.content, young |-> payload'.young]
    BY <1>4 DEF notifyLocked, NoPayload
  <2> QED BY <1>3, <2>1, <2>2, <2>3 DEF HubTypes
<1>6. DownIsIdle' /\ Remembered'
  BY <1>3 DEF DownIsIdle, Remembered
<1>7. ASSUME NEW q \in Peers \ disturbed'
      PROVE  /\ q \in forgetting' => peers'[q] = NoPush /\ \A x \in Handling(q)' : x.at # "save"
             /\ \A x \in Handling(q)' : x.at = "save" =>
                   /\ peers'[q] = Report(x)
                   /\ \A y \in Handling(q)' : y.at = "save" => y = x
             /\ hubUp' /\ ~Overlaps(q)' => rows'[q] = peers'[q]
  <2>1. q \in Peers \ disturbed
    BY <1>3
  <2>2. CASE q = p
    <3>1. ~Overlaps(p)
      BY <1>3, <2>2
    <3>2. p \notin forgetting' /\ \A x \in Handling(p)' : x.at = "save" => x = s
      BY <1>3, <3>1 DEF Overlaps, Handling
    <3>3. s \in Handling(p)' /\ peers'[p] = Report(r) /\ Report(s) = Report(r)
      BY <1>1, <1>2, <1>3 DEF Handling, Report, HubTypes, p
    <3>4. Overlaps(p)'
      BY <1>2, <3>3 DEF Overlaps
    <3> QED BY <2>2, <3>2, <3>3, <3>4
  <2>3. CASE q # p
    <3>1. Handling(q)' = Handling(q)
      BY <1>2, <1>3, <2>3 DEF Handling, p
    <3>2. peers'[q] = peers[q]
      BY <1>3, <2>3 DEF HubTypes
    <3>3. Overlaps(q)' = Overlaps(q)
      BY <1>3, <3>1 DEF Overlaps
    <3> QED BY <1>3, <2>1, <3>1, <3>2, <3>3 DEF OneHandler, RowsFollow, Report
  <2> QED BY <2>2, <2>3
<1>8. OneHandler'
  BY <1>7 DEF OneHandler, Report
<1>9. RowsFollow'
  BY <1>7 DEF RowsFollow
<1>10. Current'
  BY <1>4, Notified
<1> QED BY <1>5, <1>6, <1>8, <1>9, <1>10

\* Storing it brings the row to the memory, or disturbs the instance.
LEMMA HubSave ==
    ASSUME HubInv, NEW r \in handling, SavePeerStatus(r)
    PROVE  HubInv'
<1> USE DEF senders, trustVars, liveVars, processVars, hubHistory, HubInv
<1> DEFINE p == Issuer(r.token)
<1>1. r.token \in Token /\ p \in Peers /\ Report(r) \in Nat /\ r.at = "save" /\ r \in Handling(p)
  BY TokenIs DEF HubTypes, Report, SavePeerStatus, Handling
<1>2. /\ handling' = handling \ {r}
      /\ \/ rows' = [rows EXCEPT ![p] = Report(r)] /\ disturbed' = disturbed
         \/ disturbed' = disturbed \cup {p} /\ rows' = rows
      /\ UNCHANGED <<used, peers, forgetting, step, message, open, payload, hubUp, accepted, expired, trusted>>
      /\ hubUp
  BY DEF SavePeerStatus
<1> HIDE DEF p
<1>3. HubTypes'
  <2>1. rows' \in [Peers -> Nat] /\ disturbed' \subseteq Peers
    BY <1>1, <1>2 DEF HubTypes
  <2> QED BY <1>2, <2>1 DEF HubTypes
<1>4. DownIsIdle' /\ Remembered'
  BY <1>2 DEF DownIsIdle, Remembered
<1>5. ASSUME NEW q \in Peers \ disturbed'
      PROVE  /\ q \in forgetting' => peers'[q] = NoPush /\ \A x \in Handling(q)' : x.at # "save"
             /\ \A x \in Handling(q)' : x.at = "save" =>
                   /\ peers'[q] = Report(x)
                   /\ \A y \in Handling(q)' : y.at = "save" => y = x
             /\ hubUp' /\ ~Overlaps(q)' => rows'[q] = peers'[q]
  <2>1. q \in Peers \ disturbed
    BY <1>2
  <2>2. CASE q = p
    <3>1. rows'[p] = Report(r) /\ peers'[p] = Report(r)
      BY <1>1, <1>2, <2>1, <2>2 DEF OneHandler, HubTypes
    <3>2. p \notin forgetting' /\ \A x \in Handling(p)' : x.at # "save"
      BY <1>1, <1>2, <2>1, <2>2 DEF OneHandler, Handling
    <3> QED BY <2>2, <3>1, <3>2
  <2>3. CASE q # p
    <3>1. Handling(q)' = Handling(q)
      BY <1>2, <2>3 DEF Handling, p
    <3>2. rows'[q] = rows[q]
      BY <1>2, <2>3 DEF HubTypes
    <3>3. Overlaps(q)' = Overlaps(q)
      BY <1>2, <3>1 DEF Overlaps
    <3> QED BY <1>2, <2>1, <3>1, <3>2, <3>3 DEF OneHandler, RowsFollow, Report
  <2> QED BY <2>2, <2>3
<1>6. OneHandler'
  BY <1>5 DEF OneHandler, Report
<1>7. RowsFollow'
  BY <1>5 DEF RowsFollow
<1>8. Current'
  BY <1>2, CurrentFrame
<1> QED BY <1>3, <1>4, <1>6, <1>7, <1>8

\* An instance is forgotten in memory: while another handler is under way it is
\* disturbed, otherwise this is the one handler.
LEMMA HubForget ==
    ASSUME HubInv, NEW p \in Peers, Forget(p)
    PROVE  HubInv'
<1> USE DEF senders, trustVars, liveVars, processVars, hubHistory, HubInv
<1>1. /\ forgetting' = forgetting \cup {p}
      /\ peers' = [peers EXCEPT ![p] = NoPush]
      /\ disturbed' = IF Overlaps(p) THEN disturbed \cup {p} ELSE disturbed
      /\ UNCHANGED <<used, handling, rows, step, message, hubUp, accepted, expired, trusted>>
      /\ hubUp
  BY DEF Forget, HubTypes
<1>2. (UNCHANGED <<peers, open, payload>>) \/ notifyLocked
  BY DEF Forget
<1>3. HubTypes'
  <2>1. peers' \in [Peers -> Nat] /\ disturbed' \subseteq Peers /\ forgetting' \subseteq Peers
    BY <1>1 DEF HubTypes, NoPush
  <2>2. open' \in [Clients -> BOOLEAN] /\ payload' = [content |-> payload'.content, young |-> payload'.young]
    BY <1>2 DEF notifyLocked, NoPayload, HubTypes
  <2> QED BY <1>1, <2>1, <2>2 DEF HubTypes
<1>4. DownIsIdle' /\ Remembered'
  BY <1>1 DEF DownIsIdle, Remembered
<1>5. ASSUME NEW q \in Peers \ disturbed'
      PROVE  /\ q \in forgetting' => peers'[q] = NoPush /\ \A x \in Handling(q)' : x.at # "save"
             /\ \A x \in Handling(q)' : x.at = "save" =>
                   /\ peers'[q] = Report(x)
                   /\ \A y \in Handling(q)' : y.at = "save" => y = x
             /\ hubUp' /\ ~Overlaps(q)' => rows'[q] = peers'[q]
  <2>1. q \in Peers \ disturbed /\ Handling(q)' = Handling(q)
    BY <1>1 DEF Handling
  <2>2. CASE q = p
    <3>1. ~Overlaps(p) /\ peers'[p] = NoPush
      BY <1>1, <2>2 DEF HubTypes
    <3>2. Overlaps(p)' /\ \A x \in Handling(p)' : x.at # "save"
      BY <1>1, <2>1, <2>2, <3>1 DEF Overlaps
    <3> QED BY <2>2, <3>1, <3>2
  <2>3. CASE q # p
    <3>1. peers'[q] = peers[q]
      BY <1>1, <2>3 DEF HubTypes
    <3>2. Overlaps(q)' = Overlaps(q)
      BY <1>1, <2>1, <2>3 DEF Overlaps
    <3> QED BY <1>1, <2>1, <2>3, <3>1, <3>2 DEF OneHandler, RowsFollow, Report
  <2> QED BY <2>2, <2>3
<1>6. OneHandler'
  BY <1>5 DEF OneHandler, Report
<1>7. RowsFollow'
  BY <1>5 DEF RowsFollow
<1>8. Current'
  BY <1>1, <1>2, Notified, CurrentFrame
<1> QED BY <1>3, <1>4, <1>6, <1>7, <1>8

\* Deleting the row brings it to the memory, or disturbs the instance.
LEMMA HubDelete ==
    ASSUME HubInv, NEW p \in Peers, DeletePeerStatus(p)
    PROVE  HubInv'
<1> USE DEF senders, trustVars, liveVars, processVars, hubHistory, HubInv
<1>1. /\ forgetting' = forgetting \ {p} /\ p \in forgetting
      /\ \/ rows' = [rows EXCEPT ![p] = NoPush] /\ disturbed' = disturbed
         \/ disturbed' = disturbed \cup {p} /\ rows' = rows
      /\ UNCHANGED <<used, handling, peers, step, message, open, payload, hubUp, accepted, expired, trusted>>
      /\ hubUp
  BY DEF DeletePeerStatus
<1>2. HubTypes'
  <2>1. rows' \in [Peers -> Nat] /\ disturbed' \subseteq Peers
    BY <1>1 DEF HubTypes, NoPush
  <2> QED BY <1>1, <2>1 DEF HubTypes
<1>3. DownIsIdle' /\ Remembered'
  BY <1>1 DEF DownIsIdle, Remembered
<1>4. ASSUME NEW q \in Peers \ disturbed'
      PROVE  /\ q \in forgetting' => peers'[q] = NoPush /\ \A x \in Handling(q)' : x.at # "save"
             /\ \A x \in Handling(q)' : x.at = "save" =>
                   /\ peers'[q] = Report(x)
                   /\ \A y \in Handling(q)' : y.at = "save" => y = x
             /\ hubUp' /\ ~Overlaps(q)' => rows'[q] = peers'[q]
  <2>1. q \in Peers \ disturbed /\ Handling(q)' = Handling(q)
    BY <1>1 DEF Handling
  <2>2. CASE q = p
    <3>1. rows'[p] = NoPush /\ peers'[p] = NoPush /\ \A x \in Handling(p) : x.at # "save"
      BY <1>1, <2>1, <2>2 DEF HubTypes, OneHandler
    <3> QED BY <1>1, <2>1, <2>2, <3>1
  <2>3. CASE q # p
    <3>1. rows'[q] = rows[q]
      BY <1>1, <2>3 DEF HubTypes
    <3>2. Overlaps(q)' = Overlaps(q)
      BY <1>1, <2>1, <2>3 DEF Overlaps
    <3> QED BY <1>1, <2>1, <2>3, <3>1, <3>2 DEF OneHandler, RowsFollow, Report
  <2> QED BY <2>2, <2>3
<1>5. OneHandler'
  BY <1>4 DEF OneHandler, Report
<1>6. RowsFollow'
  BY <1>4 DEF RowsFollow
<1>7. Current'
  BY <1>1, CurrentFrame
<1> QED BY <1>2, <1>3, <1>5, <1>6, <1>7

\* A client takes the channels before it looks: what it is given, or looks up,
\* is of the stores' content as long as nothing closes them.
LEMMA HubClient ==
    ASSUME HubInv, NEW c \in Clients, TakeChannels(c) \/ Build(c) \/ Write(c) \/ Wake(c)
    PROVE  HubInv'
<1> USE DEF senders, trustVars, hubVars, liveVars, processVars, hubHistory, HubInv
<1>1. UNCHANGED <<expired, trusted, used, handling, peers, rows, forgetting, hubUp, accepted, disturbed>> /\ hubUp
  BY DEF TakeChannels, Build, Write, Wake
<1>2. HubTypes'
  <2>1. step' \in [Clients -> Steps] /\ open' \in [Clients -> BOOLEAN]
    BY DEF TakeChannels, Build, Write, Wake, LetGo, HubTypes, Steps
  <2>2. message' = [d \in Clients |-> message'[d]]
    BY DEF TakeChannels, Build, Write, Wake, LetGo, HubTypes
  <2>3. payload' = [content |-> payload'.content, young |-> payload'.young]
    BY DEF TakeChannels, Build, Write, Wake, NoPayload, HubTypes
  <2> QED BY <1>1, <2>1, <2>2, <2>3 DEF HubTypes
<1>3. DownIsIdle' /\ Remembered'
  BY <1>1 DEF DownIsIdle, Remembered
<1>4. OneHandler' /\ RowsFollow'
  BY <1>1, HubFrame
<1>5. Current'
  <2>1. Agrees(Dashboard)
    BY DEF Agrees, Dashboard
  <2>2. \A m : Agrees(m)' = Agrees(m)
    BY <1>1 DEF Agrees
  <2>3. Agrees(payload'.content)
    BY <2>1, NothingShown DEF TakeChannels, Build, Write, Wake, Current, NoPayload, Agrees
  <2>4. ASSUME NEW d \in Clients, open'[d], step'[d] \in {"write", "wait"}
        PROVE  Agrees(message'[d])
    <3>1. CASE d # c
      BY <2>4, <3>1 DEF TakeChannels, Build, Write, Wake, LetGo, Current, HubTypes
    <3>2. CASE d = c
      <4>1. CASE TakeChannels(c)
        BY <2>4, <3>2, <4>1 DEF TakeChannels, Current, HubTypes
      <4>2. CASE Build(c)
        BY <2>1, <3>2, <4>2 DEF Build, HubTypes
      <4>3. CASE Write(c)
        BY <2>4, <3>2, <4>3 DEF Write, Current, HubTypes
      <4>4. CASE Wake(c)
        BY <2>4, <3>2, <4>4 DEF Wake, HubTypes
      <4> QED BY <4>1, <4>2, <4>3, <4>4
    <3> QED BY <3>1, <3>2
  <2> QED BY <2>2, <2>3, <2>4 DEF Current
<1> QED BY <1>2, <1>3, <1>4, <1>5

\* The end of the process forgets tokens, memory and message together.
LEMMA HubStop ==
    ASSUME HubInv, StopHub
    PROVE  HubInv'
<1> USE DEF senders, trustVars, liveVars, processVars, hubHistory, HubInv
<1>1. HubTypes'
  BY DEF StopHub, HubTypes, NoPush, NoPayload, Steps
<1>2. DownIsIdle' /\ Remembered'
  BY DEF StopHub, DownIsIdle, Remembered
<1>3. OneHandler' /\ RowsFollow'
  BY DEF StopHub, OneHandler, RowsFollow, Handling
<1>4. Current'
  BY NothingShown DEF StopHub, Current, Agrees, NoPayload
<1> QED BY <1>1, <1>2, <1>3, <1>4

\* A start takes the rows into memory.
LEMMA HubStart ==
    ASSUME HubInv, StartHub
    PROVE  HubInv'
<1> USE DEF senders, trustVars, liveVars, processVars, hubHistory, HubInv
<1>1. /\ UNCHANGED <<expired, trusted, used, handling, forgetting, step, message, open, payload, accepted>>
      /\ hubUp' /\ handling = {} /\ forgetting = {}
      /\ payload = NoPayload /\ \A c \in Clients : ~open[c]
  BY DEF StartHub, DownIsIdle
<1>2. peers' \in [Peers -> Nat] /\ rows' \in [Peers -> Nat]
  BY DEF StartHub, Deleted, HubTypes, NoPush
<1>3. disturbed' = {p \in Peers : rows'[p] # peers'[p]} /\ hubUp' = TRUE
  BY DEF StartHub
<1>4. HubTypes'
  BY <1>1, <1>2, <1>3 DEF HubTypes
<1>5. DownIsIdle' /\ Remembered'
  BY <1>1 DEF DownIsIdle, Remembered
<1>6. OneHandler' /\ RowsFollow'
  BY <1>1, <1>3 DEF OneHandler, RowsFollow, Handling
<1>7. Current'
  BY <1>1, NothingShown DEF Current, Agrees, NoPayload
<1> QED BY <1>4, <1>5, <1>6, <1>7

LEMMA HubStep == HubInv /\ [HubNext]_centralVars => HubInv'
<1> SUFFICES ASSUME HubInv, [HubNext]_centralVars PROVE HubInv'
  OBVIOUS
<1> USE DEF senders, trustVars, hubVars, liveVars, processVars, hubHistory
<1>1. CASE \/ UNCHANGED centralVars
           \/ \E p \in Peers : SendPush(p) \/ ChangeTrust(p) \/ FallBehind(p)
           \/ \E t \in Token : Expire(t)
  <2>1. /\ UNCHANGED <<used, handling, peers, rows, forgetting, liveVars, hubUp, accepted, disturbed>>
        /\ expired \subseteq expired' /\ expired' \subseteq Token /\ trusted' \subseteq Peers
    BY <1>1 DEF centralVars, SendPush, ChangeTrust, FallBehind, Expire, HubInv, HubTypes
  <2>2. HubTypes' /\ DownIsIdle' /\ Remembered'
    BY <2>1 DEF HubInv, HubTypes, DownIsIdle, Remembered
  <2> QED BY <2>1, <2>2, HubFrame, CurrentFrame DEF HubInv
<1>2. CASE Age
  <2>1. /\ UNCHANGED <<expired, trusted, used, handling, peers, rows, forgetting, step, message, open, hubUp, accepted, disturbed>>
        /\ payload.young
        /\ payload' = [content |-> payload.content, young |-> FALSE]
    BY <1>2 DEF Age, HubInv, HubTypes
  <2>2. HubTypes' /\ Remembered'
    BY <2>1 DEF HubInv, HubTypes, Remembered
  <2>3. hubUp
    BY <2>1 DEF HubInv, DownIsIdle, NoPayload
  <2>4. Current'
    BY <2>1 DEF HubInv, Current, Agrees
  <2> QED BY <2>1, <2>2, <2>3, <2>4, HubFrame DEF HubInv, DownIsIdle
<1> QED BY <1>1, <1>2, HubAuthorize, HubRecord, HubSave, HubForget, HubDelete, HubClient, HubStop, HubStart
        DEF HubNext

LEMMA HubAlways == HubSpec => []HubInv
BY HubInitInv, HubStep, PTL DEF HubSpec

\* A signed request that arrives again, or arrives late, is not accepted again
\* while the process runs, whenever the used tokens are swept (ReplayCache.Use).
THEOREM TokensAreUsedOnce == HubSpec => []AcceptedOnce
<1>1. HubInv => AcceptedOnce
  BY DEF HubInv, Remembered, AcceptedOnce
<1> QED BY <1>1, HubAlways, PTL

\* No change falls between a snapshot and the wait for the next one, for the
\* client that built the message and those that share it (liveStatusCache.get).
THEOREM ClientsMissNothing == HubSpec => []NothingMissed
<1>1. HubInv => NothingMissed
  BY DEF HubInv, Current, Agrees, NothingMissed
<1> QED BY <1>1, HubAlways, PTL

\* The stored statuses are those in memory, but for an instance where a store
\* failed or two handlers overlapped since the start (Hub.record, Hub.Forget).
THEOREM MemoryIsStored == HubSpec => []RowsFollow
<1>1. HubInv => RowsFollow
  BY DEF HubInv
<1> QED BY <1>1, HubAlways, PTL

----------------------------------------------------------------------------
(* Web sessions: what is remembered and what it stands for.                *)

AccessToken  == [user : Users, sid : Sids \cup {Nil}, at : Nat \ {0}]
Logout == [user : Users \cup {Nil}, sid : Sids \cup {Nil}, at : Nat]
Row    == [user : Users \cup {Nil}, sid : Sids \cup {Nil}, at : Nat, expires : Nat]
Watched   == [session : AccessToken, woken : BOOLEAN, pc : {"takes", "checks", "waits", "cancelled"}]
Unwatched == [session : {Nil}, woken : BOOLEAN, pc : {"unwatched"}]

ClockTypes ==
    /\ now \in Nat \ {0}
    /\ provider \in [Sids -> {"new", "open", "closed"}]
    /\ tokens \subseteq AccessToken
    /\ announced \subseteq Logout
    /\ \A t \in tokens : t.at <= now /\ Unexpired(t)
    /\ \A l \in announced : l.at <= now

MemoryTypes ==
    /\ webUp \in BOOLEAN
    /\ sessions \in [Sids -> Nat]
    /\ subjects \in [Users -> [all : Nat, unscoped : Nat, expires : Nat]]
    /\ logouts \subseteq Row
    /\ known \subseteq Logout
    /\ \A r \in logouts : r.at + Retention <= r.expires /\ r.expires <= now + Retention
    /\ \A l \in known : l.at <= now

StreamTypes ==
    /\ tickets \in [Tickets -> {Nil} \cup [session : AccessToken \cup {Nil}, expires : Nat]]
    /\ streams \in [Tickets -> {Nil} \cup Watched \cup Unwatched]

\* The logout l of a session comes after every token that names the session.
EndsSession(l) ==
    l.sid # Nil => /\ provider[l.sid] = "closed"
                   /\ \A t \in tokens : t.sid = l.sid => t.at <= l.at

\* A logout ends what the provider had closed, on its way, in memory and stored.
LogoutsAreLast ==
    /\ \A l \in announced : EndsSession(l)
    /\ \A l \in known : EndsSession(l)
    /\ \A r \in logouts : EndsSession(r)

Outlasted(l) == l.at + Retention <= now

\* A logout in effect is remembered for as long as a token it covers may live,
\* with its session ...
SessionsRemember ==
    /\ \A l \in known : l.sid # Nil => Outlasted(l) \/ l.at + Retention <= sessions[l.sid]
    /\ \A s \in Sids : sessions[s] # 0 => \E l \in known : l.sid = s

Within(n, sub, l) ==
    l.user # Nil =>
      \/ l.at + Retention <= n
      \/ /\ l.at + Retention <= sub[l.user].expires
         /\ l.sid = Nil => l.at <= sub[l.user].all
         /\ l.sid # Nil => l.at <= sub[l.user].unscoped

Witnessed(sub, ls) ==
    \A u \in Users :
        /\ sub[u].all # 0 => \E l \in ls : l.user = u /\ l.sid = Nil /\ l.at = sub[u].all
        /\ sub[u].unscoped # 0 => \E l \in ls : l.user = u /\ l.sid # Nil /\ l.at = sub[u].unscoped

\* ... and with its user; and nothing is remembered that no logout said.
SubjectsRemember ==
    /\ \A l \in known : Within(now, subjects, l)
    /\ Witnessed(subjects, known)

\* A stream sleeps through no end of its session: one that waits, and was not
\* woken, looked after the last logout.
NoWakeUpIsLost ==
    \A k \in Tickets : At(k, "waits") /\ ~streams[k].woken => ~Ended(streams[k].session)

StreamsAreServed == ~webUp => \A k \in Tickets : streams[k] = Nil

SessionsInv ==
    /\ ClockTypes /\ MemoryTypes /\ StreamTypes
    /\ LogoutsAreLast /\ SessionsRemember /\ SubjectsRemember
    /\ StreamsAreServed /\ NoWakeUpIsLost

----------------------------------------------------------------------------
LEMMA SessionsConstants ==
    /\ Owner \in [Sids -> Users]
    /\ Nil \notin Users /\ Nil \notin Sids
    /\ Life \in Nat \ {0} /\ Retention \in Nat \ {0} /\ TicketLife \in Nat \ {0}
    /\ Life <= Retention
BY WebSessionsAssumption

\* The latest of some times is one of them, if there are any.
LEMMA LatestIsLargest ==
    ASSUME NEW S \in SUBSET Nat, NEW b \in Nat, \A x \in S : x <= b
    PROVE  /\ Latest(S) \in Nat
           /\ \A y \in S : y <= Latest(S)
           /\ Latest(S) # 0 => Latest(S) \in S
<1> DEFINE U == {n \in Nat : \A y \in S : y <= n}
<1>1. PICK m \in U : \A n \in U : m <= n
  <2>1. U \in SUBSET Nat /\ b \in U
    OBVIOUS
  <2> HIDE DEF U
  <2> QED BY <2>1, SmallestExists
<1>2. m \in S \cup {0}
  <2> SUFFICES ASSUME m \notin S, m # 0 PROVE FALSE
    OBVIOUS
  <2>1. m - 1 \in Nat
    BY <1>1
  <2>2. ASSUME NEW y \in S PROVE y <= m - 1
    BY <1>1, <2>1
  <2>3. m - 1 \in U
    BY <2>1, <2>2
  <2> QED BY <1>1, <2>1, <2>3
<1>3. \E x \in S \cup {0} : \A y \in S : y <= x
  BY <1>1, <1>2
<1>4. Latest(S) \in S \cup {0} /\ \A y \in S : y <= Latest(S)
  BY <1>3 DEF Latest
<1>5. Latest(S) \in S \/ Latest(S) = 0
  BY <1>4
<1> HIDE DEF U
<1>6. Latest(S) \in Nat
  <2>1. CASE Latest(S) \in S
    BY <2>1
  <2>2. CASE Latest(S) = 0
    BY <2>2
  <2> QED BY <1>5, <2>1, <2>2
<1> QED BY <1>4, <1>5, <1>6

\* What is condensed of the rows is no more than they say, and no less.
LEMMA SessionsOfRows ==
    ASSUME NEW rs \in SUBSET Row, NEW b \in Nat, \A r \in rs : r.expires <= b
    PROVE  /\ SessionsOf(rs) \in [Sids -> Nat]
           /\ \A r \in rs : r.sid # Nil => r.expires <= SessionsOf(rs)[r.sid]
           /\ \A s \in Sids : SessionsOf(rs)[s] # 0 => \E r \in rs : r.sid = s
<1> DEFINE E(s) == {r.expires : r \in {q \in rs : q.sid = s}}
<1>1. ASSUME NEW s \in Sids
      PROVE  /\ Latest(E(s)) \in Nat
             /\ \A y \in E(s) : y <= Latest(E(s))
             /\ Latest(E(s)) # 0 => Latest(E(s)) \in E(s)
  <2>1. E(s) \in SUBSET Nat /\ \A x \in E(s) : x <= b
    BY DEF Row
  <2> HIDE DEF E
  <2> QED BY <2>1, LatestIsLargest
<1>2. SessionsOf(rs) = [s \in Sids |-> Latest(E(s))]
  BY DEF SessionsOf
<1>3. SessionsOf(rs) \in [Sids -> Nat]
  <2> HIDE DEF E
  <2> QED BY <1>1, <1>2
<1>4. ASSUME NEW r \in rs, r.sid # Nil PROVE r.expires <= SessionsOf(rs)[r.sid]
  <2>1. r.sid \in Sids /\ r.expires \in E(r.sid)
    BY <1>4 DEF Row
  <2> HIDE DEF E
  <2> QED BY <1>1, <1>2, <2>1
<1>5. ASSUME NEW s \in Sids, SessionsOf(rs)[s] # 0 PROVE \E r \in rs : r.sid = s
  <2>1. SessionsOf(rs)[s] \in E(s)
    <3> HIDE DEF E
    <3> QED BY <1>1, <1>2, <1>5
  <2> QED BY <2>1
<1> QED BY <1>3, <1>4, <1>5

LEMMA SubjectsOfRows ==
    ASSUME NEW rs \in SUBSET Row, NEW b \in Nat, \A r \in rs : r.expires <= b /\ r.at <= b
    PROVE  /\ SubjectsOf(rs) \in [Users -> [all : Nat, unscoped : Nat, expires : Nat]]
           /\ \A r \in rs : r.user # Nil =>
                /\ r.expires <= SubjectsOf(rs)[r.user].expires
                /\ r.sid = Nil => r.at <= SubjectsOf(rs)[r.user].all
                /\ r.sid # Nil => r.at <= SubjectsOf(rs)[r.user].unscoped
           /\ Witnessed(SubjectsOf(rs), rs)
<1> DEFINE A(u) == {r.at : r \in {q \in {p \in rs : p.user = u} : q.sid = Nil}}
           S(u) == {r.at : r \in {q \in {p \in rs : p.user = u} : q.sid # Nil}}
           E(u) == {r.expires : r \in {p \in rs : p.user = u}}
           Greatest1(T) == /\ Latest(T) \in Nat
                           /\ \A y \in T : y <= Latest(T)
                           /\ Latest(T) # 0 => Latest(T) \in T
<1>1. ASSUME NEW u \in Users PROVE Greatest1(A(u)) /\ Greatest1(S(u)) /\ Greatest1(E(u))
  <2>1. A(u) \in SUBSET Nat /\ \A x \in A(u) : x <= b
    BY DEF Row
  <2>2. S(u) \in SUBSET Nat /\ \A x \in S(u) : x <= b
    BY DEF Row
  <2>3. E(u) \in SUBSET Nat /\ \A x \in E(u) : x <= b
    BY DEF Row
  <2> HIDE DEF A, S, E
  <2> QED BY <2>1, <2>2, <2>3, LatestIsLargest
<1>2. SubjectsOf(rs) = [u \in Users |-> [all |-> Latest(A(u)), unscoped |-> Latest(S(u)), expires |-> Latest(E(u))]]
  BY DEF SubjectsOf
<1>3. SubjectsOf(rs) \in [Users -> [all : Nat, unscoped : Nat, expires : Nat]]
  <2> HIDE DEF A, S, E
  <2> QED BY <1>1, <1>2
<1>4. ASSUME NEW r \in rs, r.user # Nil
      PROVE  /\ r.expires <= SubjectsOf(rs)[r.user].expires
             /\ r.sid = Nil => r.at <= SubjectsOf(rs)[r.user].all
             /\ r.sid # Nil => r.at <= SubjectsOf(rs)[r.user].unscoped
  <2>1. r.user \in Users /\ r.expires \in E(r.user)
    BY <1>4 DEF Row
  <2>2. r.sid = Nil => r.at \in A(r.user)
    OBVIOUS
  <2>3. r.sid # Nil => r.at \in S(r.user)
    OBVIOUS
  <2> HIDE DEF A, S, E
  <2> QED BY <1>1, <1>2, <2>1, <2>2, <2>3
<1>5. ASSUME NEW u \in Users
      PROVE  /\ SubjectsOf(rs)[u].all # 0 => SubjectsOf(rs)[u].all \in A(u)
             /\ SubjectsOf(rs)[u].unscoped # 0 => SubjectsOf(rs)[u].unscoped \in S(u)
  <2> HIDE DEF A, S, E
  <2> QED BY <1>1, <1>2
<1>6. Witnessed(SubjectsOf(rs), rs)
  <2> SUFFICES ASSUME NEW u \in Users
               PROVE  /\ SubjectsOf(rs)[u].all # 0 =>
                           \E l \in rs : l.user = u /\ l.sid = Nil /\ l.at = SubjectsOf(rs)[u].all
                      /\ SubjectsOf(rs)[u].unscoped # 0 =>
                           \E l \in rs : l.user = u /\ l.sid # Nil /\ l.at = SubjectsOf(rs)[u].unscoped
    BY DEF Witnessed
  <2> QED BY <1>5
<1> QED BY <1>3, <1>4, <1>6

\* Nothing is remembered of no rows.
LEMMA NothingOfNoRows ==
    /\ SessionsOf({}) \in [Sids -> Nat] /\ SubjectsOf({}) \in [Users -> [all : Nat, unscoped : Nat, expires : Nat]]
    /\ \A s \in Sids : SessionsOf({})[s] = 0
    /\ Witnessed(SubjectsOf({}), {})
<1>1. {} \in SUBSET Row /\ 0 \in Nat
  OBVIOUS
<1> QED BY <1>1, SessionsOfRows, SubjectsOfRows

----------------------------------------------------------------------------
(* Web sessions: one step of each kind.                                    *)

LEMMA SessionsInitInv == SessionsInit => SessionsInv
<1> SUFFICES ASSUME SessionsInit PROVE SessionsInv
  OBVIOUS
<1>1. ClockTypes
  BY DEF SessionsInit, ClockTypes
<1>2. MemoryTypes
  BY NothingOfNoRows DEF SessionsInit, MemoryTypes
<1>3. StreamTypes
  BY DEF SessionsInit, StreamTypes
<1>4. LogoutsAreLast /\ SessionsRemember /\ SubjectsRemember
  BY NothingOfNoRows DEF SessionsInit, LogoutsAreLast, SessionsRemember, SubjectsRemember
<1>5. StreamsAreServed /\ NoWakeUpIsLost
  BY DEF SessionsInit, StreamsAreServed, NoWakeUpIsLost, At
<1> QED BY <1>1, <1>2, <1>3, <1>4, <1>5 DEF SessionsInv

\* Nothing that matters changes.
LEMMA SessionsStutter == SessionsInv /\ UNCHANGED webVars => SessionsInv'
BY DEF SessionsInv, webVars, logoutVars, streamVars, externals, ClockTypes, MemoryTypes, StreamTypes,
       LogoutsAreLast, EndsSession, SessionsRemember, Outlasted, SubjectsRemember, StreamsAreServed,
       NoWakeUpIsLost, At, Ended, Unexpired

\* The parts about memory and streams do not depend on what the provider does.
LEMMA ProviderStep ==
    ASSUME SessionsInv, UNCHANGED <<now, webUp, logoutVars, streamVars>>, ClockTypes', LogoutsAreLast'
    PROVE  SessionsInv'
<1>1. MemoryTypes' /\ StreamTypes' /\ StreamsAreServed'
  BY DEF SessionsInv, MemoryTypes, StreamTypes, StreamsAreServed, logoutVars, streamVars
<1>2. SessionsRemember' /\ SubjectsRemember'
  BY DEF SessionsInv, SessionsRemember, Outlasted, SubjectsRemember, logoutVars
<1>3. NoWakeUpIsLost'
  BY DEF SessionsInv, NoWakeUpIsLost, At, Ended, logoutVars, streamVars
<1> QED BY <1>1, <1>2, <1>3 DEF SessionsInv

LEMMA SignInInv ==
    ASSUME SessionsInv, NEW s \in Sids, SignIn(s)
    PROVE  SessionsInv'
<1>1. ClockTypes'
  BY DEF SessionsInv, ClockTypes, SignIn, logoutVars, streamVars, Unexpired
<1>2. ASSUME NEW l \in Logout \cup Row, EndsSession(l) PROVE EndsSession(l)'
  BY <1>2 DEF SessionsInv, ClockTypes, SignIn, EndsSession, Logout, Row
<1>3. LogoutsAreLast'
  BY <1>2 DEF SessionsInv, LogoutsAreLast, ClockTypes, MemoryTypes, SignIn, logoutVars
<1> QED BY <1>1, <1>3, ProviderStep DEF SignIn

LEMMA IssueTokenInv ==
    ASSUME SessionsInv, NEW s \in Sids, NEW names \in BOOLEAN, IssueToken(s, names)
    PROVE  SessionsInv'
<1> DEFINE t == [user |-> Owner[s], sid |-> IF names THEN s ELSE Nil, at |-> now]
<1>1. t \in AccessToken /\ t.at = now /\ t.sid \in {s, Nil}
  BY SessionsConstants DEF SessionsInv, ClockTypes, AccessToken
<1>2. now < t.at + Life
  BY <1>1, SessionsConstants DEF SessionsInv, ClockTypes
<1>3. tokens' = tokens \cup {t}
  BY DEF IssueToken
<1> HIDE DEF t
<1>4. ClockTypes'
  BY <1>1, <1>2, <1>3 DEF SessionsInv, ClockTypes, IssueToken, logoutVars, streamVars, Unexpired
<1>5. ASSUME NEW l \in Logout \cup Row, EndsSession(l) PROVE EndsSession(l)'
  BY <1>1, <1>3, <1>5 DEF IssueToken, EndsSession
<1>6. LogoutsAreLast'
  BY <1>5 DEF SessionsInv, LogoutsAreLast, ClockTypes, MemoryTypes, IssueToken, logoutVars
<1> QED BY <1>4, <1>6, ProviderStep DEF IssueToken

LEMMA EndSessionInv ==
    ASSUME SessionsInv, NEW s \in Sids, NEW user \in Users \cup {Nil}, EndSession(s, user)
    PROVE  SessionsInv'
<1>1. [user |-> user, sid |-> s, at |-> now] \in Logout
  BY DEF SessionsInv, ClockTypes, Logout
<1>2. PICK m \in Logout : announced' = announced \cup {m} /\ m.at = now /\ m.sid = s
  BY <1>1 DEF EndSession
<1>3. ClockTypes'
  BY <1>2 DEF SessionsInv, ClockTypes, EndSession, logoutVars, streamVars, Unexpired
<1>4. ASSUME NEW l \in Logout \cup Row, EndsSession(l) PROVE EndsSession(l)'
  BY <1>4 DEF SessionsInv, ClockTypes, EndSession, EndsSession, Logout, Row
<1>5. EndsSession(m)'
  BY <1>2 DEF SessionsInv, ClockTypes, EndSession, EndsSession
<1>6. LogoutsAreLast'
  BY <1>2, <1>4, <1>5 DEF SessionsInv, LogoutsAreLast, ClockTypes, MemoryTypes, EndSession, logoutVars
<1> QED BY <1>3, <1>6, ProviderStep DEF EndSession

LEMMA EndSessionsOfInv ==
    ASSUME SessionsInv, NEW u \in Users, EndSessionsOf(u)
    PROVE  SessionsInv'
<1>1. [user |-> u, sid |-> Nil, at |-> now] \in Logout
  BY DEF SessionsInv, ClockTypes, Logout
<1>2. PICK m \in Logout : announced' = announced \cup {m} /\ m.at = now /\ m.sid = Nil
  BY <1>1 DEF EndSessionsOf
<1>3. ClockTypes'
  BY <1>2 DEF SessionsInv, ClockTypes, EndSessionsOf, logoutVars, streamVars, Unexpired
<1>4. ASSUME NEW l \in Logout \cup Row, EndsSession(l) PROVE EndsSession(l)'
  BY <1>4 DEF SessionsInv, ClockTypes, EndSessionsOf, EndsSession, Logout, Row
<1>5. EndsSession(m)'
  BY <1>2 DEF EndsSession
<1>6. LogoutsAreLast'
  BY <1>2, <1>4, <1>5 DEF SessionsInv, LogoutsAreLast, ClockTypes, MemoryTypes, EndSessionsOf, logoutVars
<1> QED BY <1>3, <1>6, ProviderStep DEF EndSessionsOf

\* What ended stays so; later it may be forgotten.
LEMMA AdvanceClockInv ==
    ASSUME SessionsInv, AdvanceClock
    PROVE  SessionsInv'
<1>0. now \in Nat \ {0} /\ now' = now + 1 /\ tokens' \subseteq tokens
  BY DEF SessionsInv, ClockTypes, AdvanceClock
<1>1. ClockTypes'
  <2>1. /\ now' \in Nat \ {0} /\ (provider \in [Sids -> {"new", "open", "closed"}])'
        /\ (tokens \subseteq AccessToken)' /\ (announced \subseteq Logout)'
    BY <1>0 DEF SessionsInv, ClockTypes, AdvanceClock, externals
  <2>2. ASSUME NEW t \in tokens' PROVE t.at <= now' /\ Unexpired(t)'
    BY <1>0 DEF SessionsInv, ClockTypes, AdvanceClock, Unexpired, AccessToken
  <2>3. ASSUME NEW l \in announced' PROVE l.at <= now'
    BY <1>0 DEF SessionsInv, ClockTypes, AdvanceClock, Logout
  <2> QED BY <2>1, <2>2, <2>3 DEF ClockTypes
<1>2. MemoryTypes'
  <2>1. ASSUME NEW r \in logouts PROVE r.expires <= now' + Retention
    BY <1>0, SessionsConstants DEF SessionsInv, MemoryTypes, Row
  <2>2. ASSUME NEW l \in known PROVE l.at <= now'
    BY <1>0 DEF SessionsInv, MemoryTypes, Logout
  <2> QED BY <2>1, <2>2 DEF SessionsInv, MemoryTypes, AdvanceClock, logoutVars
<1>3. StreamTypes' /\ StreamsAreServed'
  BY DEF SessionsInv, StreamTypes, StreamsAreServed, AdvanceClock, streamVars
<1>4. LogoutsAreLast'
  BY <1>0 DEF SessionsInv, LogoutsAreLast, EndsSession, AdvanceClock, logoutVars
<1>5. ASSUME NEW l \in Logout, Outlasted(l) PROVE Outlasted(l)'
  BY <1>0, <1>5, SessionsConstants DEF Outlasted, Logout
<1>6. SessionsRemember'
  BY <1>5 DEF SessionsInv, MemoryTypes, SessionsRemember, AdvanceClock, logoutVars
<1>7. SubjectsRemember'
  BY <1>5 DEF SessionsInv, MemoryTypes, SubjectsRemember, Within, Outlasted, AdvanceClock, logoutVars
<1>8. ASSUME NEW t \in AccessToken, Ended(t)' PROVE Ended(t)
  BY <1>0, <1>8 DEF SessionsInv, MemoryTypes, Ended, AccessToken, AdvanceClock, logoutVars
<1>9. ASSUME NEW k \in Tickets, At(k, "waits"), ~streams[k].woken PROVE ~Ended(streams[k].session)'
  <2>1. streams[k] \in Watched \cup Unwatched /\ streams[k].pc = "waits"
    BY <1>9 DEF SessionsInv, StreamTypes, At
  <2>2. streams[k].session \in AccessToken
    BY <2>1 DEF Watched, Unwatched
  <2>3. ~Ended(streams[k].session)
    BY <1>9 DEF SessionsInv, NoWakeUpIsLost
  <2>4. streams' = streams
    BY DEF AdvanceClock, streamVars
  <2> QED BY <1>8, <2>2, <2>3, <2>4
<1>10. NoWakeUpIsLost'
  BY <1>9 DEF NoWakeUpIsLost, At, AdvanceClock, streamVars
<1> QED BY <1>1, <1>2, <1>3, <1>4, <1>6, <1>7, <1>10 DEF SessionsInv

\* A logout comes in.
LEMMA BackchannelLogoutInv ==
    ASSUME SessionsInv, NEW l \in announced, NEW durable \in BOOLEAN, BackchannelLogout(l, durable)
    PROVE  SessionsInv'
<1>1. l \in Logout /\ l.at <= now /\ EndsSession(l) /\ now \in Nat \ {0}
  BY DEF SessionsInv, ClockTypes, LogoutsAreLast
<1>2. [user |-> l.user, sid |-> l.sid, at |-> l.at, expires |-> now + Retention] \in Row
  BY <1>1, SessionsConstants DEF Logout, Row
<1>3. PICK row \in Row :
        /\ row.user = l.user /\ row.sid = l.sid /\ row.at = l.at /\ row.expires = now + Retention
        /\ sessions' = ApplySession(PrunedSessions, row)
        /\ subjects' = ApplySubject(PrunedSubjects, row)
        /\ logouts' = IF durable THEN InEffect(logouts \cup {row}) ELSE logouts
  BY <1>2 DEF BackchannelLogout
<1>4. /\ UNCHANGED <<now, webUp, tickets, provider, tokens>>
      /\ known' = known \cup {l} /\ announced' = announced \ {l} /\ streams' = WakeAll(streams) /\ webUp
  BY DEF BackchannelLogout
<1>5. row.at + Retention <= row.expires /\ row.expires > now
  BY <1>1, <1>3, SessionsConstants DEF Logout
<1>6. PrunedSessions \in [Sids -> Nat] /\ PrunedSubjects \in [Users -> [all : Nat, unscoped : Nat, expires : Nat]]
  BY DEF SessionsInv, MemoryTypes, PrunedSessions, PrunedSubjects, NoLogout
<1>7. ClockTypes'
  BY <1>4 DEF SessionsInv, ClockTypes, Unexpired
<1>8. sessions' \in [Sids -> Nat]
  BY <1>3, <1>6 DEF ApplySession, Later, Row
<1>9. subjects' \in [Users -> [all : Nat, unscoped : Nat, expires : Nat]]
  BY <1>3, <1>6 DEF ApplySubject, Later, Row
<1>10. logouts' \subseteq logouts \cup {row}
  BY <1>3 DEF InEffect
<1>11. MemoryTypes'
  <2>1. logouts' \subseteq Row /\ known' \subseteq Logout
    BY <1>1, <1>4, <1>10 DEF SessionsInv, MemoryTypes
  <2>2. \A r \in logouts' : r.at + Retention <= r.expires /\ r.expires <= now' + Retention
    <3>1. row.at + Retention <= row.expires /\ row.expires <= now + Retention
      BY <1>1, <1>3, <1>5, SessionsConstants DEF Row
    <3>2. \A r \in logouts : r.at + Retention <= r.expires /\ r.expires <= now + Retention
      BY DEF SessionsInv, MemoryTypes
    <3> QED BY <1>4, <1>10, <3>1, <3>2
  <2>3. \A m \in known' : m.at <= now'
    BY <1>1, <1>4 DEF SessionsInv, MemoryTypes
  <2> QED BY <1>4, <1>8, <1>9, <2>1, <2>2, <2>3 DEF MemoryTypes, SessionsInv
<1>12. StreamTypes'
  <2>1. ASSUME NEW s \in {Nil} \cup Watched \cup Unwatched, s # Nil
        PROVE  [s EXCEPT !.woken = TRUE] \in Watched \cup Unwatched
    BY <2>1 DEF Watched, Unwatched
  <2>2. ASSUME NEW k \in Tickets PROVE streams'[k] \in {Nil} \cup Watched \cup Unwatched
    <3>1. CASE streams[k] = Nil
      BY <1>4, <3>1 DEF WakeAll
    <3>2. CASE streams[k] # Nil
      BY <1>4, <2>1, <3>2 DEF WakeAll, SessionsInv, StreamTypes
    <3> QED BY <3>1, <3>2
  <2>3. streams' = [k \in Tickets |-> streams'[k]]
    BY <1>4 DEF WakeAll
  <2> QED BY <1>4, <2>2, <2>3 DEF SessionsInv, StreamTypes
<1>13. LogoutsAreLast'
  <2>1. ASSUME NEW m \in Logout \cup Row, EndsSession(m) PROVE EndsSession(m)'
    BY <1>4, <2>1 DEF EndsSession
  <2>2. EndsSession(row)
    BY <1>1, <1>3 DEF EndsSession
  <2>3. \A m \in announced' : EndsSession(m)'
    BY <1>4, <2>1 DEF SessionsInv, ClockTypes, LogoutsAreLast
  <2>4. \A m \in known' : EndsSession(m)'
    BY <1>1, <1>4, <2>1 DEF SessionsInv, MemoryTypes, LogoutsAreLast
  <2>5. \A r \in logouts' : EndsSession(r)'
    BY <1>10, <2>1, <2>2 DEF SessionsInv, MemoryTypes, LogoutsAreLast
  <2> QED BY <2>3, <2>4, <2>5 DEF LogoutsAreLast
<1>14. SessionsRemember'
  <2>1. ASSUME NEW s \in Sids
        PROVE  /\ s # row.sid => sessions'[s] = PrunedSessions[s]
               /\ s = row.sid => sessions'[s] = Later(PrunedSessions[s], row.expires)
    BY <1>3, <1>6, SessionsConstants DEF ApplySession
  <2>2. ASSUME NEW s \in Sids PROVE PrunedSessions[s] <= sessions'[s] /\ (s = row.sid => row.expires <= sessions'[s])
    BY <1>6, <2>1 DEF Later, Row
  <2>3. ASSUME NEW m \in known, m.sid # Nil, ~Outlasted(m) PROVE m.at + Retention <= sessions'[m.sid]
    <3>1. m \in Logout /\ m.sid \in Sids /\ m.at + Retention <= sessions[m.sid]
      BY <2>3 DEF SessionsInv, MemoryTypes, SessionsRemember, Logout
    <3>2. sessions[m.sid] \in Nat /\ m.at + Retention > now
      BY <1>1, <2>3, <3>1, SessionsConstants DEF SessionsInv, MemoryTypes, Outlasted, Logout
    <3>3. PrunedSessions[m.sid] = sessions[m.sid]
      BY <1>1, <3>1, <3>2, SessionsConstants DEF PrunedSessions, Logout
    <3> QED BY <1>8, <2>2, <3>1, <3>2, <3>3, SessionsConstants DEF Logout
  <2>4. ASSUME l.sid # Nil PROVE l.at + Retention <= sessions'[l.sid]
    <3>1. l.sid \in Sids /\ row.expires <= sessions'[l.sid]
      BY <1>1, <1>3, <2>2, <2>4 DEF Logout
    <3> QED BY <1>1, <1>3, <1>5, <1>8, <3>1, SessionsConstants DEF Logout, Row
  <2>5. ASSUME NEW s \in Sids, sessions'[s] # 0 PROVE \E m \in known' : m.sid = s
    <3>1. CASE s = row.sid
      BY <1>3, <1>4, <3>1
    <3>2. CASE s # row.sid
      <4>1. sessions[s] # 0
        BY <2>1, <2>5, <3>2 DEF PrunedSessions
      <4> QED BY <1>4, <4>1 DEF SessionsInv, SessionsRemember
    <3> QED BY <3>1, <3>2
  <2>6. ASSUME NEW m \in known', m.sid # Nil PROVE Outlasted(m)' \/ m.at + Retention <= sessions'[m.sid]
    BY <1>4, <2>3, <2>4, <2>6 DEF Outlasted
  <2> QED BY <2>5, <2>6 DEF SessionsRemember
<1>15. SubjectsRemember'
  <2>1. ASSUME NEW u \in Users
        PROVE  /\ u # row.user => subjects'[u] = PrunedSubjects[u]
               /\ u = row.user =>
                    /\ subjects'[u].all = IF row.sid = Nil THEN Later(PrunedSubjects[u].all, row.at) ELSE PrunedSubjects[u].all
                    /\ subjects'[u].unscoped = IF row.sid = Nil THEN PrunedSubjects[u].unscoped
                                               ELSE Later(PrunedSubjects[u].unscoped, row.at)
                    /\ subjects'[u].expires = Later(PrunedSubjects[u].expires, row.expires)
    BY <1>3, <1>6, SessionsConstants DEF ApplySubject
  <2>2. ASSUME NEW u \in Users
        PROVE  /\ PrunedSubjects[u].all \in Nat /\ PrunedSubjects[u].unscoped \in Nat /\ PrunedSubjects[u].expires \in Nat
               /\ subjects'[u].all \in Nat /\ subjects'[u].unscoped \in Nat /\ subjects'[u].expires \in Nat
    BY <1>6, <1>9
  <2>3. row.at \in Nat /\ row.expires \in Nat /\ row.at = l.at
    BY <1>3 DEF Row
  <2>4. ASSUME NEW u \in Users
        PROVE  /\ PrunedSubjects[u].all <= subjects'[u].all
               /\ PrunedSubjects[u].unscoped <= subjects'[u].unscoped
               /\ PrunedSubjects[u].expires <= subjects'[u].expires
               /\ u = row.user => /\ row.sid = Nil => row.at <= subjects'[u].all
                                  /\ row.sid # Nil => row.at <= subjects'[u].unscoped
                                  /\ row.expires <= subjects'[u].expires
    BY <2>1, <2>2, <2>3 DEF Later
  <2>5. ASSUME NEW m \in known PROVE Within(now', subjects', m)
    <3> SUFFICES ASSUME m.user # Nil, ~(m.at + Retention <= now)
                 PROVE  /\ m.at + Retention <= subjects'[m.user].expires
                        /\ m.sid = Nil => m.at <= subjects'[m.user].all
                        /\ m.sid # Nil => m.at <= subjects'[m.user].unscoped
      BY <1>4 DEF Within
    <3>1. m \in Logout /\ m.user \in Users /\ m.at \in Nat
      BY DEF SessionsInv, MemoryTypes, Logout
    <3>2. /\ m.at + Retention <= subjects[m.user].expires
          /\ m.sid = Nil => m.at <= subjects[m.user].all
          /\ m.sid # Nil => m.at <= subjects[m.user].unscoped
      BY DEF SessionsInv, SubjectsRemember, Within
    <3>3. subjects[m.user].expires \in Nat
      BY <3>1 DEF SessionsInv, MemoryTypes
    <3>4. PrunedSubjects[m.user] = subjects[m.user]
      BY <1>1, <3>1, <3>2, <3>3, SessionsConstants DEF PrunedSubjects
    <3> QED BY <2>2, <2>4, <3>1, <3>2, <3>4, SessionsConstants
  <2>6. Within(now', subjects', l)
    <3> SUFFICES ASSUME l.user # Nil
                 PROVE  /\ l.at + Retention <= subjects'[l.user].expires
                        /\ l.sid = Nil => l.at <= subjects'[l.user].all
                        /\ l.sid # Nil => l.at <= subjects'[l.user].unscoped
      BY DEF Within
    <3>1. l.user \in Users /\ l.user = row.user /\ l.sid = row.sid
      BY <1>1, <1>3 DEF Logout
    <3> QED BY <1>5, <2>2, <2>3, <2>4, <3>1, SessionsConstants
  <2>7. ASSUME NEW u \in Users
        PROVE  /\ PrunedSubjects[u].all # 0 => subjects[u].all = PrunedSubjects[u].all
               /\ PrunedSubjects[u].unscoped # 0 => subjects[u].unscoped = PrunedSubjects[u].unscoped
    BY DEF PrunedSubjects, NoLogout
  <2>8. ASSUME NEW u \in Users, subjects'[u].all # 0
        PROVE  \E m \in known' : m.user = u /\ m.sid = Nil /\ m.at = subjects'[u].all
    <3>1. CASE subjects'[u].all = PrunedSubjects[u].all
      BY <1>4, <2>7, <2>8, <3>1 DEF SessionsInv, SubjectsRemember, Witnessed
    <3>2. CASE subjects'[u].all # PrunedSubjects[u].all
      BY <1>3, <1>4, <2>1, <3>2 DEF Later
    <3> QED BY <3>1, <3>2
  <2>9. ASSUME NEW u \in Users, subjects'[u].unscoped # 0
        PROVE  \E m \in known' : m.user = u /\ m.sid # Nil /\ m.at = subjects'[u].unscoped
    <3>1. CASE subjects'[u].unscoped = PrunedSubjects[u].unscoped
      BY <1>4, <2>7, <2>9, <3>1 DEF SessionsInv, SubjectsRemember, Witnessed
    <3>2. CASE subjects'[u].unscoped # PrunedSubjects[u].unscoped
      BY <1>3, <1>4, <2>1, <3>2 DEF Later
    <3> QED BY <3>1, <3>2
  <2>10. \A m \in known' : Within(now', subjects', m)
    BY <1>4, <2>5, <2>6
  <2>11. Witnessed(subjects', known')
    BY <2>8, <2>9 DEF Witnessed
  <2> QED BY <2>10, <2>11 DEF SubjectsRemember
<1>16. StreamsAreServed'
  BY <1>4 DEF StreamsAreServed
<1>17. NoWakeUpIsLost'
  <2>1. ASSUME NEW s \in {Nil} \cup Watched \cup Unwatched, s # Nil
        PROVE  [s EXCEPT !.woken = TRUE].woken = TRUE
    BY <2>1 DEF Watched, Unwatched
  <2>2. ASSUME NEW k \in Tickets, streams'[k] # Nil PROVE streams'[k].woken = TRUE
    <3>1. streams[k] # Nil /\ streams'[k] = [streams[k] EXCEPT !.woken = TRUE]
      BY <1>4, <2>2 DEF WakeAll
    <3> QED BY <2>1, <3>1 DEF SessionsInv, StreamTypes
  <2> QED BY <2>2 DEF NoWakeUpIsLost, At
<1> QED BY <1>7, <1>11, <1>12, <1>13, <1>14, <1>15, <1>16, <1>17 DEF SessionsInv

\* The parts about the provider do not depend on what the web UI does.
LEMMA ExternalsStay ==
    ASSUME SessionsInv, UNCHANGED <<now, externals>>
    PROVE  ClockTypes' /\ \A l \in Logout \cup Row : EndsSession(l) => EndsSession(l)'
BY DEF SessionsInv, ClockTypes, EndsSession, externals, Unexpired

LEMMA StartUIInv == SessionsInv /\ StartUI => SessionsInv'
<1> SUFFICES ASSUME SessionsInv, StartUI PROVE SessionsInv'
  OBVIOUS
<1>1. PICK loaded \in SUBSET logouts :
        /\ logouts' \subseteq logouts
        /\ sessions' = SessionsOf(loaded)
        /\ subjects' = SubjectsOf(loaded)
        /\ known' = {[user |-> r.user, sid |-> r.sid, at |-> r.at] : r \in loaded}
  BY DEF StartUI, InEffect
<1>2. webUp' = TRUE /\ ~webUp /\ UNCHANGED <<now, streamVars, externals>>
  BY DEF StartUI
<1>3. logouts \subseteq Row /\ loaded \subseteq Row /\ now \in Nat \ {0}
  BY <1>1 DEF SessionsInv, MemoryTypes, ClockTypes
<1>4. \A r \in loaded : r.expires <= now + Retention /\ r.at <= now + Retention
                          /\ r.at <= now /\ r.at + Retention <= r.expires
  BY <1>1, <1>3, SessionsConstants DEF SessionsInv, MemoryTypes, Row
<1>5. /\ sessions' \in [Sids -> Nat]
      /\ \A r \in loaded : r.sid # Nil => r.expires <= sessions'[r.sid]
      /\ \A s \in Sids : sessions'[s] # 0 => \E r \in loaded : r.sid = s
  <2>1. now + Retention \in Nat
    BY <1>3, SessionsConstants
  <2> QED BY <1>1, <1>3, <1>4, <2>1, SessionsOfRows
<1>6. /\ subjects' \in [Users -> [all : Nat, unscoped : Nat, expires : Nat]]
      /\ \A r \in loaded : r.user # Nil =>
           /\ r.expires <= subjects'[r.user].expires
           /\ r.sid = Nil => r.at <= subjects'[r.user].all
           /\ r.sid # Nil => r.at <= subjects'[r.user].unscoped
      /\ Witnessed(subjects', loaded)
  <2>1. now + Retention \in Nat
    BY <1>3, SessionsConstants
  <2> QED BY <1>1, <1>3, <1>4, <2>1, SubjectsOfRows
<1>7. \A r \in loaded : \E l \in known' : l.user = r.user /\ l.sid = r.sid /\ l.at = r.at
  <2> SUFFICES ASSUME NEW r \in loaded
               PROVE  \E l \in known' : l.user = r.user /\ l.sid = r.sid /\ l.at = r.at
    OBVIOUS
  <2> DEFINE l == [user |-> r.user, sid |-> r.sid, at |-> r.at]
  <2>1. l \in known'
    BY <1>1
  <2>2. l.user = r.user /\ l.sid = r.sid /\ l.at = r.at
    OBVIOUS
  <2> QED BY <2>1, <2>2
<1>8. \A l \in known' : l \in Logout /\ \E r \in loaded : l.user = r.user /\ l.sid = r.sid /\ l.at = r.at
  BY <1>1, <1>3 DEF Row, Logout
<1>9. ClockTypes' /\ StreamTypes' /\ StreamsAreServed' /\ UNCHANGED externals
  BY <1>2, ExternalsStay DEF SessionsInv, StreamTypes, StreamsAreServed, streamVars
<1>10. MemoryTypes'
  BY <1>1, <1>2, <1>3, <1>4, <1>5, <1>6, <1>8 DEF SessionsInv, MemoryTypes
<1>11. LogoutsAreLast'
  <2>1. \A r \in logouts : EndsSession(r)'
    BY <1>2, <1>3, ExternalsStay DEF SessionsInv, LogoutsAreLast
  <2>2. \A l \in known' : EndsSession(l)'
    BY <1>1, <1>8, <2>1 DEF EndsSession
  <2>3. \A l \in announced' : EndsSession(l)'
    BY <1>2, ExternalsStay DEF SessionsInv, LogoutsAreLast, ClockTypes, externals
  <2> QED BY <1>1, <2>1, <2>2, <2>3 DEF LogoutsAreLast
<1>12. SessionsRemember'
  <2>1. ASSUME NEW l \in known', l.sid # Nil PROVE l.at + Retention <= sessions'[l.sid]
    <3>1. PICK r \in loaded : l.sid = r.sid /\ l.at = r.at
      BY <1>8, <2>1
    <3>2. r \in Row /\ r.sid \in Sids
      BY <1>3, <2>1, <3>1 DEF Row
    <3> QED BY <1>4, <1>5, <2>1, <3>1, <3>2, SessionsConstants DEF Row
  <2> QED BY <1>5, <1>7, <2>1 DEF SessionsRemember
<1>13. SubjectsRemember'
  <2>1. ASSUME NEW l \in known' PROVE Within(now', subjects', l)
    <3> SUFFICES ASSUME l.user # Nil
                 PROVE  /\ l.at + Retention <= subjects'[l.user].expires
                        /\ l.sid = Nil => l.at <= subjects'[l.user].all
                        /\ l.sid # Nil => l.at <= subjects'[l.user].unscoped
      BY DEF Within
    <3>1. PICK r \in loaded : l.user = r.user /\ l.sid = r.sid /\ l.at = r.at
      BY <1>8
    <3>2. r \in Row /\ r.user \in Users
      BY <1>3, <3>1 DEF Row
    <3>3. subjects'[r.user].expires \in Nat /\ r.at \in Nat /\ r.expires \in Nat
      BY <1>6, <3>2 DEF Row
    <3>4. r.at + Retention <= r.expires
      BY <1>4
    <3> QED BY <1>6, <3>1, <3>3, <3>4, SessionsConstants
  <2>2. Witnessed(subjects', known')
    BY <1>6, <1>7 DEF Witnessed
  <2> QED BY <2>1, <2>2 DEF SubjectsRemember
<1>14. NoWakeUpIsLost'
  BY <1>2 DEF SessionsInv, StreamsAreServed, NoWakeUpIsLost, At, streamVars
<1> QED BY <1>9, <1>10, <1>11, <1>12, <1>13, <1>14 DEF SessionsInv

LEMMA StopUIInv == SessionsInv /\ StopUI => SessionsInv'
<1> SUFFICES ASSUME SessionsInv, StopUI PROVE SessionsInv'
  OBVIOUS
<1>1. ClockTypes' /\ \A l \in Logout \cup Row : EndsSession(l) => EndsSession(l)'
  BY ExternalsStay DEF StopUI
<1>2. MemoryTypes'
  BY NothingOfNoRows DEF SessionsInv, MemoryTypes, StopUI
<1>3. StreamTypes' /\ StreamsAreServed'
  BY DEF StreamTypes, StreamsAreServed, StopUI
<1>4. LogoutsAreLast'
  BY <1>1 DEF SessionsInv, ClockTypes, MemoryTypes, LogoutsAreLast, StopUI, externals
<1>5. SessionsRemember' /\ SubjectsRemember'
  BY NothingOfNoRows DEF SessionsRemember, SubjectsRemember, StopUI
<1>6. NoWakeUpIsLost'
  BY DEF NoWakeUpIsLost, At, StopUI
<1> QED BY <1>1, <1>2, <1>3, <1>4, <1>5, <1>6 DEF SessionsInv

\* A step of a ticket or a stream leaves the logouts alone.
LEMMA StreamStep ==
    ASSUME SessionsInv, UNCHANGED <<now, webUp, logoutVars, externals>>,
           StreamTypes', StreamsAreServed', NoWakeUpIsLost'
    PROVE  SessionsInv'
<1>1. ClockTypes' /\ \A l \in Logout \cup Row : EndsSession(l) => EndsSession(l)'
  BY ExternalsStay
<1>2. MemoryTypes' /\ SessionsRemember' /\ SubjectsRemember'
  BY DEF SessionsInv, MemoryTypes, SessionsRemember, Outlasted, SubjectsRemember, logoutVars
<1>3. LogoutsAreLast'
  BY <1>1 DEF SessionsInv, ClockTypes, MemoryTypes, LogoutsAreLast, logoutVars, externals
<1> QED BY <1>1, <1>2, <1>3 DEF SessionsInv

\* A stream that does not start to wait is none that sleeps.
LEMMA OneStream ==
    ASSUME SessionsInv, UNCHANGED <<webUp, now, logoutVars>>, NEW k \in Tickets, webUp \/ streams[k] # Nil,
           NEW s \in {Nil} \cup Watched \cup Unwatched, streams' = [streams EXCEPT ![k] = s],
           s = Nil \/ s.pc # "waits" \/ ~Ended(s.session)
    PROVE  StreamsAreServed' /\ NoWakeUpIsLost' /\ (streams \in [Tickets -> {Nil} \cup Watched \cup Unwatched])'
<1>1. streams' \in [Tickets -> {Nil} \cup Watched \cup Unwatched] /\ webUp
  BY DEF SessionsInv, StreamTypes, StreamsAreServed
<1>2. \A t : Ended(t)' = Ended(t)
  BY DEF Ended, logoutVars
<1>3. ASSUME NEW j \in Tickets, At(j, "waits")', ~streams'[j].woken PROVE ~Ended(streams'[j].session)
  <2>1. CASE j = k
    BY <1>3, <2>1 DEF SessionsInv, StreamTypes, At
  <2>2. CASE j # k
    BY <1>3, <2>2 DEF SessionsInv, StreamTypes, NoWakeUpIsLost, At
  <2> QED BY <2>1, <2>2
<1>4. NoWakeUpIsLost'
  BY <1>2, <1>3 DEF NoWakeUpIsLost
<1> QED BY <1>1, <1>4 DEF StreamsAreServed

LEMMA MintTicketInv ==
    ASSUME SessionsInv, NEW k \in Tickets, NEW p \in tokens \cup {Nil}, MintTicket(k, p)
    PROVE  SessionsInv'
<1>1. NewTicket(p) \in [session : AccessToken \cup {Nil}, expires : Nat]
  BY SessionsConstants DEF SessionsInv, ClockTypes, NewTicket
<1>2. StreamTypes'
  BY <1>1 DEF SessionsInv, StreamTypes, MintTicket
<1>3. StreamsAreServed' /\ NoWakeUpIsLost'
  BY DEF SessionsInv, StreamsAreServed, NoWakeUpIsLost, At, Ended, MintTicket, logoutVars
<1> QED BY <1>2, <1>3, StreamStep DEF MintTicket

LEMMA OpenStreamInv ==
    ASSUME SessionsInv, NEW k \in Tickets, OpenStream(k)
    PROVE  SessionsInv'
<1>1. tickets[k] \in [session : AccessToken \cup {Nil}, expires : Nat] /\ tickets' = [tickets EXCEPT ![k] = Nil] /\ webUp
  BY DEF SessionsInv, StreamTypes, OpenStream
<1>2. UNCHANGED <<now, webUp, logoutVars, externals>>
  BY DEF OpenStream
<1>3. CASE Redeems(k)
  <2> DEFINE s == [session |-> tickets[k].session, woken |-> FALSE, pc |-> FirstStep(tickets[k].session)]
  <2>1. s \in Watched \cup Unwatched /\ s.pc # "waits"
    BY <1>1 DEF FirstStep, Watched, Unwatched
  <2>2. streams' = [streams EXCEPT ![k] = s]
    BY <1>3 DEF OpenStream
  <2> HIDE DEF s
  <2>3. StreamsAreServed' /\ NoWakeUpIsLost' /\ (streams \in [Tickets -> {Nil} \cup Watched \cup Unwatched])'
    BY <1>1, <1>2, <2>1, <2>2, OneStream
  <2>4. StreamTypes'
    BY <1>1, <2>3 DEF SessionsInv, StreamTypes
  <2> QED BY <1>2, <2>3, <2>4, StreamStep
<1>4. CASE ~Redeems(k)
  <2>1. streams' = streams
    BY <1>4 DEF OpenStream
  <2>2. StreamTypes'
    BY <1>1, <2>1 DEF SessionsInv, StreamTypes
  <2>3. StreamsAreServed' /\ NoWakeUpIsLost'
    BY <1>2, <2>1 DEF SessionsInv, StreamsAreServed, NoWakeUpIsLost, At, Ended, logoutVars
  <2> QED BY <1>2, <2>2, <2>3, StreamStep
<1> QED BY <1>3, <1>4

LEMMA WatchInv ==
    ASSUME SessionsInv, NEW k \in Tickets, Watch(k) \/ LeaveStream(k)
    PROVE  SessionsInv'
<1>1. UNCHANGED <<now, webUp, logoutVars, tickets, externals>>
  BY DEF Watch, TakeChannel, CheckEnded, Woken, CloseStream, LeaveStream
<1>2. streams[k] \in Watched \cup Unwatched /\ streams[k] # Nil
  BY DEF SessionsInv, StreamTypes, Watch, TakeChannel, CheckEnded, Woken, CloseStream, LeaveStream, At
<1>3. \E s \in {Nil} \cup Watched \cup Unwatched :
        /\ streams' = [streams EXCEPT ![k] = s]
        /\ s = Nil \/ s.pc # "waits" \/ ~Ended(s.session)
  <2>1. CASE TakeChannel(k)
    <3>1. streams[k] \in Watched
      BY <1>2, <2>1 DEF TakeChannel, At, Unwatched
    <3>2. [streams[k] EXCEPT !.pc = "checks", !.woken = FALSE] \in Watched
      BY <3>1 DEF Watched
    <3>3. [streams[k] EXCEPT !.pc = "checks", !.woken = FALSE].pc # "waits"
      BY <3>1 DEF Watched
    <3>4. streams' = [streams EXCEPT ![k] = [streams[k] EXCEPT !.pc = "checks", !.woken = FALSE]]
      BY <2>1 DEF TakeChannel, SessionsInv, StreamTypes
    <3> QED BY <3>2, <3>3, <3>4
  <2>2. CASE CheckEnded(k)
    <3> DEFINE e == IF Ended(streams[k].session) THEN "cancelled" ELSE "waits"
    <3>1. streams[k] \in Watched
      BY <1>2, <2>2 DEF CheckEnded, At, Unwatched
    <3>2. [streams[k] EXCEPT !.pc = e] \in Watched
      BY <3>1 DEF Watched
    <3>3. [streams[k] EXCEPT !.pc = e].pc = e /\ [streams[k] EXCEPT !.pc = e].session = streams[k].session
      BY <3>1 DEF Watched
    <3>4. streams' = [streams EXCEPT ![k] = [streams[k] EXCEPT !.pc = e]]
      BY <2>2 DEF CheckEnded, SessionsInv, StreamTypes
    <3> DEFINE s == [streams[k] EXCEPT !.pc = e]
    <3>5. s \in Watched /\ streams' = [streams EXCEPT ![k] = s]
      BY <3>2, <3>4
    <3>6. s.pc # "waits" \/ ~Ended(s.session)
      BY <3>3
    <3> HIDE DEF s
    <3> QED BY <3>5, <3>6
  <2>3. CASE Woken(k)
    <3>1. streams[k] \in Watched
      BY <1>2, <2>3 DEF Woken, At, Unwatched
    <3>2. [streams[k] EXCEPT !.pc = "takes"] \in Watched /\ [streams[k] EXCEPT !.pc = "takes"].pc # "waits"
      BY <3>1 DEF Watched
    <3>3. streams' = [streams EXCEPT ![k] = [streams[k] EXCEPT !.pc = "takes"]]
      BY <2>3 DEF Woken, SessionsInv, StreamTypes
    <3> QED BY <3>2, <3>3
  <2>4. CASE CloseStream(k) \/ LeaveStream(k)
    BY <2>4 DEF CloseStream, LeaveStream
  <2> QED BY <2>1, <2>2, <2>3, <2>4 DEF Watch
<1>4. StreamsAreServed' /\ NoWakeUpIsLost' /\ (streams \in [Tickets -> {Nil} \cup Watched \cup Unwatched])'
  BY <1>1, <1>2, <1>3, OneStream
<1>5. StreamTypes'
  BY <1>1, <1>4 DEF SessionsInv, StreamTypes
<1> QED BY <1>1, <1>4, <1>5, StreamStep

LEMMA SessionsNextInv == SessionsInv /\ [SessionsNext]_webVars => SessionsInv'
<1> SUFFICES ASSUME SessionsInv, [SessionsNext]_webVars PROVE SessionsInv'
  OBVIOUS
<1>1. ASSUME NEW s \in Sids, \/ SignIn(s)
                             \/ \E names \in BOOLEAN : IssueToken(s, names)
                             \/ \E user \in Users \cup {Nil} : EndSession(s, user)
      PROVE  SessionsInv'
  BY <1>1, SignInInv, IssueTokenInv, EndSessionInv
<1>2. ASSUME NEW k \in Tickets, \/ \E p \in tokens \cup {Nil} : MintTicket(k, p)
                                \/ OpenStream(k) \/ Watch(k) \/ LeaveStream(k)
      PROVE  SessionsInv'
  BY <1>2, MintTicketInv, OpenStreamInv, WatchInv
<1>3. ASSUME NEW u \in Users, EndSessionsOf(u) PROVE SessionsInv'
  BY <1>3, EndSessionsOfInv
<1>4. ASSUME NEW l \in announced, NEW durable \in BOOLEAN, BackchannelLogout(l, durable) PROVE SessionsInv'
  BY <1>4, BackchannelLogoutInv
<1>5. CASE AdvanceClock \/ StartUI \/ StopUI
  BY <1>5, AdvanceClockInv, StartUIInv, StopUIInv
<1>6. CASE UNCHANGED webVars
  BY <1>6, SessionsStutter
<1> QED BY <1>1, <1>2, <1>3, <1>4, <1>5, <1>6 DEF SessionsNext

LEMMA SessionsAlways == SessionsSpec => []SessionsInv
BY SessionsInitInv, SessionsNextInv, PTL DEF SessionsSpec

----------------------------------------------------------------------------
(* Web sessions: the theorems.                                             *)

\* What is condensed says of every token what the logouts in effect say.
LEMMA CondensedIsExact == SessionsInv => EndedIsExact
<1> SUFFICES ASSUME SessionsInv, NEW t \in tokens
             PROVE  Ended(t) <=> \E l \in known : Covers(l, t)
  BY DEF EndedIsExact
<1>1. t \in AccessToken /\ t.user \in Users /\ t.at \in Nat \ {0} /\ now < t.at + Life /\ now \in Nat
  BY DEF SessionsInv, ClockTypes, AccessToken, Unexpired
<1>2. /\ subjects[t.user].all \in Nat /\ subjects[t.user].unscoped \in Nat /\ subjects[t.user].expires \in Nat
      /\ t.sid # Nil => t.sid \in Sids /\ sessions[t.sid] \in Nat
  BY <1>1 DEF SessionsInv, MemoryTypes, AccessToken
<1>3. ASSUME Ended(t) PROVE \E l \in known : Covers(l, t)
  <2>1. CASE t.sid # Nil /\ sessions[t.sid] > now
    BY <1>1, <1>2, <2>1 DEF SessionsInv, SessionsRemember, Covers
  <2>2. CASE t.at <= subjects[t.user].all
    <3>1. PICK l \in known : l.user = t.user /\ l.sid = Nil /\ l.at = subjects[t.user].all
      BY <1>1, <1>2, <2>2 DEF SessionsInv, SubjectsRemember, Witnessed
    <3> QED BY <2>2, <3>1 DEF Covers
  <2>3. CASE t.sid = Nil /\ t.at <= subjects[t.user].unscoped
    <3>1. PICK l \in known : l.user = t.user /\ l.at = subjects[t.user].unscoped
      BY <1>1, <1>2, <2>3 DEF SessionsInv, SubjectsRemember, Witnessed
    <3> QED BY <2>3, <3>1 DEF Covers
  <2> QED BY <1>3, <2>1, <2>2, <2>3 DEF Ended
<1>4. ASSUME NEW l \in known, Covers(l, t) PROVE Ended(t)
  <2>1. l \in Logout /\ l.at \in Nat
    BY DEF SessionsInv, MemoryTypes, Logout
  <2>2. CASE l.sid # Nil /\ t.sid = l.sid
    <3>1. t.at <= l.at
      BY <2>2 DEF SessionsInv, LogoutsAreLast, EndsSession
    <3>2. ~Outlasted(l) /\ l.at + Retention > now
      BY <1>1, <2>1, <3>1, SessionsConstants DEF Outlasted
    <3>3. l.at + Retention <= sessions[l.sid]
      BY <2>2, <3>2 DEF SessionsInv, SessionsRemember
    <3> QED BY <1>1, <1>2, <2>1, <2>2, <3>2, <3>3, SessionsConstants DEF Ended
  <2>3. CASE l.user = t.user /\ (l.sid = Nil \/ t.sid = Nil) /\ t.at <= l.at
    <3>1. l.at + Retention > now /\ l.user # Nil
      BY <1>1, <2>1, <2>3, SessionsConstants
    <3>2. /\ l.at + Retention <= subjects[t.user].expires
          /\ l.sid = Nil => l.at <= subjects[t.user].all
          /\ l.sid # Nil => l.at <= subjects[t.user].unscoped
      BY <1>1, <2>1, <2>3, <3>1, SessionsConstants DEF SessionsInv, SubjectsRemember, Within
    <3> QED BY <1>1, <1>2, <2>1, <2>3, <3>1, <3>2, SessionsConstants DEF Ended
  <2> QED BY <1>4, <2>2, <2>3 DEF Covers
<1> QED BY <1>3, <1>4

\* A token that has not expired is rejected if, and as long as, a logout in
\* effect covers it, whatever was pruned, stored, lost or read back since
\* (ssoLogouts of backchannel.go, Logouts of sso_logouts.go).
THEOREM LogoutsAreHonoured == SessionsSpec => []EndedIsExact
BY SessionsAlways, CondensedIsExact, PTL

\* No live stream sleeps on after its session ended: the goroutine that watches
\* it takes the channel before it looks, so a logout falls before the look or
\* wakes it (watchSession of live.go).
THEOREM NoStreamOversleeps == SessionsSpec => []NoWakeUpIsLost
BY SessionsAlways, PTL DEF SessionsInv

\* A rejected token is rejected as long as it has not expired and the process
\* runs, whatever is recorded, pruned and condensed meanwhile.
RejectedStaysRejected ==
    [][webUp /\ webUp' => \A t \in tokens \cap tokens' : Ended(t) => Ended(t)']_webVars

\* While the process runs no logout in effect is dropped.
LEMMA LogoutsAccumulate ==
    ASSUME SessionsInv, [SessionsNext]_webVars, webUp, webUp'
    PROVE  known \subseteq known'
<1> USE DEF logoutVars, streamVars, externals
<1>1. CASE AdvanceClock \/ StartUI \/ StopUI
  BY <1>1 DEF AdvanceClock, StartUI, StopUI
<1>2. ASSUME NEW s \in Sids, \/ SignIn(s)
                             \/ \E names \in BOOLEAN : IssueToken(s, names)
                             \/ \E user \in Users \cup {Nil} : EndSession(s, user)
      PROVE  known \subseteq known'
  BY <1>2 DEF SignIn, IssueToken, EndSession
<1>3. ASSUME NEW u \in Users, EndSessionsOf(u) PROVE known \subseteq known'
  BY <1>3 DEF EndSessionsOf
<1>4. ASSUME NEW l \in announced, NEW durable \in BOOLEAN, BackchannelLogout(l, durable) PROVE known \subseteq known'
  BY <1>4 DEF BackchannelLogout
<1>5. ASSUME NEW k \in Tickets, \/ \E p \in tokens \cup {Nil} : MintTicket(k, p)
                                \/ OpenStream(k) \/ Watch(k) \/ LeaveStream(k)
      PROVE  known \subseteq known'
  BY <1>5 DEF MintTicket, OpenStream, Watch, TakeChannel, CheckEnded, Woken, CloseStream, LeaveStream
<1>6. CASE UNCHANGED webVars
  BY <1>6 DEF webVars
<1> QED BY <1>1, <1>2, <1>3, <1>4, <1>5, <1>6 DEF SessionsNext

\* Who was signed out is not let in again by a later logout, a pruning or the
\* passing of time (ssoLogouts.apply, prune and ended).
THEOREM SignedOutForGood == SessionsSpec => RejectedStaysRejected
<1>1. SessionsInv /\ SessionsInv' /\ [SessionsNext]_webVars =>
        [webUp /\ webUp' => \A t \in tokens \cap tokens' : Ended(t) => Ended(t)']_webVars
  <2> SUFFICES ASSUME SessionsInv, SessionsInv', [SessionsNext]_webVars, webUp, webUp',
                      NEW t \in tokens \cap tokens', Ended(t)
               PROVE  Ended(t)'
    OBVIOUS
  <2>1. PICK l \in known : Covers(l, t)
    BY CondensedIsExact DEF EndedIsExact
  <2>2. l \in known'
    BY LogoutsAccumulate
  <2>3. EndedIsExact'
    BY CondensedIsExact, PTL
  <2> QED BY <2>1, <2>2, <2>3 DEF EndedIsExact, Covers
<1> QED BY <1>1, SessionsAlways, PTL DEF SessionsSpec, RejectedStaysRejected
=============================================================================
