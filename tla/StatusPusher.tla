---------------------------- MODULE StatusPusher ----------------------------
(***************************************************************************)
(* How an instance pushes its status to a central one                      *)
(* (internal/backup/peerstatus/pusher.go, settings/status_push.go and the  *)
(* sending half of remoteclient).                                          *)
(*                                                                         *)
(* One goroutine waits for whatever comes first: new settings, a change of *)
(* a status store, or the time of the next push.  A change brings the next *)
(* push forward; pushes keep a least distance, and changes that keep       *)
(* coming must not put a push off for good.  The stores and the settings   *)
(* only leave a sign that something changed: what it is is read later.     *)
(*                                                                         *)
(* Time is counted in ticks, from now: how long until the next push, how   *)
(* long since the last.  The goroutine takes no time but for the request   *)
(* itself, so a tick passes only when it has nothing to do.                *)
(***************************************************************************)
EXTENDS Integers, FiniteSets, TLC

CONSTANTS Stores,        \* the status stores, of jobs and of receivers
          Intervals,     \* StatusPush.Interval, as users may set it
          Coalesce,      \* pushCoalesceDelay
          MinGap,        \* pushMinGap
          PushTimeout,   \* pushTimeout
          None

ASSUME StatusPusherAssumption ==
    /\ Intervals \subseteq Nat /\ Intervals # {}
    /\ {Coalesce, MinGap, PushTimeout} \subseteq Nat \ {0}
    /\ \A i \in Intervals : MinGap <= i /\ Coalesce <= i
    /\ None \notin Nat

VARIABLES
    stored,      \* the row of the settings, None before the first update
    settings,    \* the settings in effect
    told,        \* a value is in statusPushChanged, which holds one
    sp,          \* the settings as the loop read them last
    server,      \* the server of the push resolves, to a remote one, and the status
                 \* is not too large to push
    closed,      \* the stores whose channel the loop holds is closed
    next,        \* ticks to the next push, 0 when it is due
    last,        \* ticks since the last push ended, None before the first
    request,     \* ticks left of the request being sent, or None
    up,
    owed,        \* history: ticks since the first change no push has tried to send
    silent       \* history: ticks since a push was last tried

settingsVars == <<stored, settings, told>>
loopVars     == <<sp, closed, next, last, request>>
historyVars  == <<owed, silent>>
vars         == <<settingsVars, loopVars, server, up, historyVars>>

\* What the state database and the web UI hold of the settings.
Settings == [enabled : BOOLEAN, interval : Intervals]

\* Nothing saved yet leaves the push off.
Disabled == [enabled |-> FALSE, interval |-> CHOOSE i \in Intervals : \A j \in Intervals : i <= j]
Least(a, b)    == IF a <= b THEN a ELSE b
Greatest(a, b) == IF a <= b THEN b ELSE a

\* The longest a change may wait for the next push to begin.
LongestWait == PushTimeout + Greatest(Coalesce, MinGap)

----------------------------------------------------------------------------
(* The settings and the stores.                                            *)

\* resolveServer: a type: remote server has the name.
Resolves == server

\* An enabled push is checked against the servers of this moment.
Valid(p) == p.enabled => Resolves

\* The one row, replaced as a whole.
Save(p) == stored' = p

\* The stored settings are taken without looking at the server.  A row that
\* cannot be read leaves the push off until the next start.
Loaded(read) == IF read /\ stored # None THEN stored ELSE Disabled

\* The channel keeps a value that is not taken yet.
Tell == told' = TRUE

\* The settings in effect change before the loop is told.
UpdateStatusPush(p) ==
    /\ up /\ Valid(p)
    /\ Save(p)
    /\ settings' = p
    /\ Tell
    /\ UNCHANGED <<loopVars, server, up, historyVars>>

\* An edited server is resolved at the next push only.
EditServer ==
    /\ up
    /\ server' = ~server
    /\ UNCHANGED <<settingsVars, loopVars, up, historyVars>>

\* The channel others wait on is closed, and the next one made.
Notify(s) == closed' = closed \cup {s}

Change(s) ==
    /\ up
    /\ Notify(s)
    /\ owed' = IF owed = None THEN 0 ELSE owed
    /\ UNCHANGED <<settingsVars, sp, next, last, request, server, up, silent>>

----------------------------------------------------------------------------
(* The loop.                                                               *)

Selecting == up /\ request = None

\* Every turn of the loop begins by reading the settings.
Turn == sp' = settings

\* Mutant of TakeSettings: the push stays when it was.
takeSettingsOnly ==
    /\ Selecting /\ told
    /\ told' = FALSE
    /\ Turn
    /\ UNCHANGED <<stored, settings, closed, next, last, request, server, up, historyVars>>

TakeSettings ==
    /\ Selecting /\ told
    /\ told' = FALSE
    /\ next' = 0
    /\ Turn
    /\ UNCHANGED <<stored, settings, closed, last, request, server, up, historyVars>>

\* Mutant of Soonest: every change puts the push off again.
postponed == Greatest(Coalesce, IF last = None THEN 0 ELSE MinGap - last)

\* After the coalescing delay and the least gap, but no later than planned.
Soonest == Least(next, Greatest(Coalesce, IF last = None THEN 0 ELSE MinGap - last))

\* The channel of the next change is taken at once.
Renew(s) == closed' = closed \ {s}

TakeChange(s) ==
    /\ Selecting /\ s \in closed
    /\ Renew(s)
    /\ next' = Soonest
    /\ Turn
    /\ UNCHANGED <<settingsVars, last, request, server, up, historyVars>>

Due == sp.enabled /\ next = 0

\* The payload is built first, of what the stores hold at this moment and
\* with the settings this turn began with.
Payload == owed' = None

Post == request' = PushTimeout

BeginPush ==
    /\ Selecting /\ Due /\ Resolves
    /\ Payload
    /\ Post
    /\ silent' = 0
    /\ UNCHANGED <<settingsVars, sp, closed, next, last, server, up>>

Pushed ==
    /\ last' = 0
    /\ next' = sp.interval
    /\ Turn

\* Answered, refused or timed out: the next push is an interval away.
EndPush ==
    /\ up /\ request # None
    /\ request' = None
    /\ Pushed
    /\ UNCHANGED <<settingsVars, closed, server, up, historyVars>>

\* Without a server to push to it has failed at once.
PushNowhere ==
    /\ Selecting /\ Due /\ ~Resolves
    /\ Pushed
    /\ owed' = None /\ silent' = 0
    /\ UNCHANGED <<settingsVars, closed, request, server, up>>

----------------------------------------------------------------------------
(* Start, end and time.                                                    *)

Start ==
    /\ ~up
    /\ up' = TRUE
    /\ \E read \in BOOLEAN : settings' = Loaded(read)
    /\ sp' = settings'
    /\ told' = FALSE /\ closed' = {}
    /\ next' = 0 /\ last' = None /\ request' = None
    /\ owed' = None /\ silent' = 0
    /\ UNCHANGED <<stored, server>>

Stop ==
    /\ up
    /\ up' = FALSE
    /\ UNCHANGED <<settingsVars, loopVars, server, historyVars>>

Waiting ==
    /\ up
    /\ IF request = None THEN ~told /\ closed = {} /\ ~Due ELSE request > 0

Tick ==
    /\ Waiting
    /\ next' = Greatest(next - 1, 0)
    /\ last' = IF last = None THEN None ELSE Least(last + 1, MinGap)
    /\ request' = IF request = None THEN None ELSE request - 1
    /\ owed' = IF owed = None \/ ~settings.enabled THEN owed ELSE owed + 1
    /\ silent' = IF settings.enabled THEN silent + 1 ELSE silent
    /\ UNCHANGED <<settingsVars, sp, closed, server, up>>

Init ==
    /\ stored = None /\ settings = Disabled /\ told = FALSE
    /\ sp = Disabled /\ closed = {} /\ next = 0 /\ last = None /\ request = None
    /\ server \in BOOLEAN
    /\ up = FALSE
    /\ owed = None /\ silent = 0

Next ==
    \/ Start \/ Stop \/ Tick
    \/ \E p \in Settings : UpdateStatusPush(p)
    \/ EditServer
    \/ \E s \in Stores : Change(s) \/ TakeChange(s)
    \/ TakeSettings \/ BeginPush \/ EndPush \/ PushNowhere

Spec == Init /\ [][Next]_vars

----------------------------------------------------------------------------
(* Properties.                                                             *)

TypeOK ==
    /\ stored \in Settings \cup {None} /\ settings \in Settings /\ sp \in Settings
    /\ told \in BOOLEAN /\ server \in BOOLEAN /\ up \in BOOLEAN
    /\ closed \subseteq Stores
    /\ next \in Nat /\ last \in (0 .. MinGap) \cup {None}
    /\ request \in (0 .. PushTimeout) \cup {None}
    /\ owed \in Nat \cup {None} /\ silent \in Nat

\* While the push is on, every change is sent, or tried to be, within the
\* longest delay and the longest request: none is missed while another push is
\* on its way, and a run of changes does not put the push off.
PushedSoon == Waiting /\ owed # None => owed <= LongestWait

\* While the push is on, the central instance hears something once an interval,
\* by the interval set last, give or take one request.
HeartbeatKept == Waiting /\ settings.enabled => silent <= settings.interval + PushTimeout
=============================================================================
