---------------------------- MODULE WebSessions ----------------------------
(***************************************************************************)
(* Who is signed in to the web UI, and until when (internal/backup/webui:  *)
(* auth.go, backchannel.go and the tickets and streams of live.go; the     *)
(* table of store/sso_logouts.go).                                         *)
(*                                                                         *)
(* The identity provider issues access tokens, which the web UI accepts    *)
(* without asking again; when it ends a session it sends a logout.  What   *)
(* the web UI remembers of the logouts is condensed: an expiry per         *)
(* session, and per user the latest logout of all sessions, the latest of  *)
(* one, and one expiry for both.  A browser opens a live stream with a     *)
(* ticket minted before, and a goroutine beside each stream waits for a    *)
(* logout that ends its session.                                           *)
(*                                                                         *)
(* One provider, and one instance on the state database.  The signatures,  *)
(* claims and permissions of a token are reduced to who it is for, when it *)
(* was issued and which session it names, if any.                          *)
(***************************************************************************)
EXTENDS Naturals, FiniteSets

CONSTANTS Users, Sids,        \* users and sessions of the provider
          Owner,              \* Owner[s]: the user of session s
          Tickets,            \* ids of live tickets and of the streams they open
          Nil,
          Life,               \* of an access token
          Retention,          \* ssoLogoutRetention
          TicketLife,         \* liveTicketTTL
          MaxTime, MaxTokens   \* bounds

ASSUME WebSessionsAssumption ==
    /\ Owner \in [Sids -> Users]
    /\ Nil \notin Users \cup Sids
    /\ {Life, Retention, TicketLife, MaxTime, MaxTokens} \subseteq Nat \ {0}
    /\ Life <= Retention

VARIABLES
    now,
    provider,      \* provider[s]: session s was not opened yet, is open, or closed
    tokens,        \* access tokens issued and not expired
    announced,     \* logouts on their way here
    webUp,
    sessions,      \* ssoLogouts.sessions: the expiry of the logout of a session, 0 if none
    subjects,      \* ssoLogouts.subjects
    logouts,       \* sso_logouts
    known,         \* history: logouts in effect here, as the provider sent them
    tickets,       \* live tickets not redeemed
    streams        \* live streams, with the goroutine that watches their session

logoutVars  == <<sessions, subjects, logouts, known>>
streamVars  == <<tickets, streams>>
externals   == <<provider, tokens, announced>>
webVars     == <<now, webUp, logoutVars, streamVars, externals>>

Later(a, b) == IF b > a THEN b ELSE a

----------------------------------------------------------------------------
(* The provider.                                                           *)

SignIn(s) ==
    /\ provider[s] = "new"
    /\ provider' = [provider EXCEPT ![s] = "open"]
    /\ UNCHANGED <<now, webUp, logoutVars, streamVars, tokens, announced>>

\* A provider may leave the session out of its access tokens.
IssueToken(s, names) ==
    /\ provider[s] = "open"
    /\ Cardinality(tokens) < MaxTokens
    /\ tokens' = tokens \cup {[user |-> Owner[s], sid |-> IF names THEN s ELSE Nil, at |-> now]}
    /\ UNCHANGED <<now, webUp, logoutVars, streamVars, provider, announced>>

\* The logout of one session may or may not name its user.
EndSession(s, user) ==
    /\ provider[s] = "open" /\ user \in {Owner[s], Nil}
    /\ provider' = [provider EXCEPT ![s] = "closed"]
    /\ announced' = announced \cup {[user |-> user, sid |-> s, at |-> now]}
    /\ UNCHANGED <<now, webUp, logoutVars, streamVars, tokens>>

EndSessionsOf(u) ==
    /\ \E s \in Sids : Owner[s] = u /\ provider[s] = "open"
    /\ provider' = [s \in Sids |-> IF Owner[s] = u /\ provider[s] = "open" THEN "closed" ELSE provider[s]]
    /\ announced' = announced \cup {[user |-> u, sid |-> Nil, at |-> now]}
    /\ UNCHANGED <<now, webUp, logoutVars, streamVars, tokens>>

----------------------------------------------------------------------------
(* Logouts.                                                                *)

NoLogout == [all |-> 0, unscoped |-> 0, expires |-> 0]

\* Mutant of ApplySubject: the times of the two kinds are not told apart.
everyLogoutOfAll(sub, l) ==
    IF l.user = Nil THEN sub
    ELSE [sub EXCEPT ![l.user] = [all      |-> Later(@.all, l.at),
                                  unscoped |-> @.unscoped,
                                  expires  |-> Later(@.expires, l.expires)]]

ApplySubject(sub, l) ==
    IF l.user = Nil THEN sub
    ELSE [sub EXCEPT ![l.user] = [all      |-> IF l.sid = Nil THEN Later(@.all, l.at) ELSE @.all,
                                  unscoped |-> IF l.sid = Nil THEN @.unscoped ELSE Later(@.unscoped, l.at),
                                  expires  |-> Later(@.expires, l.expires)]]

ApplySession(ses, l) ==
    IF l.sid = Nil THEN ses ELSE [ses EXCEPT ![l.sid] = Later(@, l.expires)]

PrunedSessions == [s \in Sids |-> IF sessions[s] > now THEN sessions[s] ELSE 0]
PrunedSubjects == [u \in Users |-> IF subjects[u].expires > now THEN subjects[u] ELSE NoLogout]

\* ssoLogouts.ended, for what a token or a stream carries of its session.
Ended(t) ==
    \/ t.sid # Nil /\ sessions[t.sid] > now
    \/ LET s == subjects[t.user]
       IN /\ s.expires > now
          /\ t.at <= s.all \/ (t.sid = Nil /\ t.at <= s.unscoped)

\* Closing the channel wakes whoever took it, waiting already or not yet.
WakeAll(ss) ==
    [k \in Tickets |-> IF ss[k] # Nil THEN [ss[k] EXCEPT !.woken = TRUE] ELSE ss[k]]

InEffect(rs) == {r \in rs : r.expires > now}

\* The logout takes effect in memory first.  Storing it may fail, or a stop may
\* come before it, which is the same: it then applies until the next start.
\* now is never 0, which stands for no time.
BackchannelLogout(l, stored) ==
    LET row == [user |-> l.user, sid |-> l.sid, at |-> l.at, expires |-> now + Retention]
    IN /\ webUp /\ l \in announced
       /\ sessions' = ApplySession(PrunedSessions, row)
       /\ subjects' = ApplySubject(PrunedSubjects, row)
       /\ streams' = WakeAll(streams)
       /\ logouts' = IF stored THEN InEffect(logouts \cup {row}) ELSE logouts
       /\ known' = known \cup {l}
       /\ announced' = announced \ {l}
       /\ UNCHANGED <<now, webUp, tickets, provider, tokens>>

----------------------------------------------------------------------------
(* Start and end.                                                          *)

\* apply over all rows, in whatever order.
Latest(S) == CHOOSE x \in S \cup {0} : \A y \in S : y <= x

SessionsOf(rs) == [s \in Sids |-> Latest({r.expires : r \in {q \in rs : q.sid = s}})]

SubjectsOf(rs) ==
    [u \in Users |->
        LET mine == {r \in rs : r.user = u}
        IN [all      |-> Latest({r.at : r \in {q \in mine : q.sid = Nil}}),
            unscoped |-> Latest({r.at : r \in {q \in mine : q.sid # Nil}}),
            expires  |-> Latest({r.expires : r \in mine})]]

\* If the logouts cannot be read, none is in effect.
StartUI ==
    /\ ~webUp
    /\ webUp' = TRUE
    /\ \E read \in BOOLEAN :
         LET loaded == IF read THEN InEffect(logouts) ELSE {}
         IN /\ logouts' = IF read THEN loaded ELSE logouts
            /\ sessions' = SessionsOf(loaded)
            /\ subjects' = SubjectsOf(loaded)
            /\ known' = {[user |-> r.user, sid |-> r.sid, at |-> r.at] : r \in loaded}
    /\ UNCHANGED <<now, streamVars, externals>>

StopUI ==
    /\ webUp
    /\ webUp' = FALSE
    /\ sessions' = SessionsOf({}) /\ subjects' = SubjectsOf({})
    /\ known' = {}
    /\ tickets' = [k \in Tickets |-> Nil]
    /\ streams' = [k \in Tickets |-> Nil]
    /\ UNCHANGED <<now, logouts, externals>>

----------------------------------------------------------------------------
(* Requests and live streams.                                              *)

Unexpired(t) == now < t.at + Life

\* requireUser; an API token is of no session, and always accepted here.
Accepts(p) == webUp /\ (p # Nil => Unexpired(p) /\ ~Ended(p))

NewTicket(p) == [session |-> p, expires |-> now + TicketLife]

Redeems(k) == tickets[k] # Nil /\ now <= tickets[k].expires

\* A ticket is for the session of the token.
MintTicket(k, p) ==
    /\ Accepts(p)
    /\ tickets[k] = Nil /\ streams[k] = Nil
    /\ tickets' = [tickets EXCEPT ![k] = NewTicket(p)]
    /\ UNCHANGED <<now, webUp, logoutVars, streams, externals>>

\* Mutant of FirstStep: the session is looked at after the next logout only.
waitFirst(p) == IF p = Nil THEN "unwatched" ELSE "waits"

\* The stream of an API token has no goroutine to watch its session.
FirstStep(p) == IF p = Nil THEN "unwatched" ELSE "takes"

OpenStream(k) ==
    /\ webUp /\ tickets[k] # Nil
    /\ tickets' = [tickets EXCEPT ![k] = Nil]
    /\ streams' = IF ~Redeems(k) THEN streams
                  ELSE [streams EXCEPT ![k] = [session |-> tickets[k].session, woken |-> FALSE,
                                               pc |-> FirstStep(tickets[k].session)]]
    /\ UNCHANGED <<now, webUp, logoutVars, externals>>

At(k, pc) == streams[k] # Nil /\ streams[k].pc = pc

TakeChannel(k) ==
    /\ At(k, "takes")
    /\ streams' = [streams EXCEPT ![k].pc = "checks", ![k].woken = FALSE]
    /\ UNCHANGED <<now, webUp, logoutVars, tickets, externals>>

CheckEnded(k) ==
    /\ At(k, "checks")
    /\ streams' = [streams EXCEPT ![k].pc = IF Ended(streams[k].session) THEN "cancelled" ELSE "waits"]
    /\ UNCHANGED <<now, webUp, logoutVars, tickets, externals>>

Woken(k) ==
    /\ At(k, "waits") /\ streams[k].woken
    /\ streams' = [streams EXCEPT ![k].pc = "takes"]
    /\ UNCHANGED <<now, webUp, logoutVars, tickets, externals>>

CloseStream(k) ==
    /\ At(k, "cancelled")
    /\ streams' = [streams EXCEPT ![k] = Nil]
    /\ UNCHANGED <<now, webUp, logoutVars, tickets, externals>>

LeaveStream(k) ==
    /\ streams[k] # Nil
    /\ streams' = [streams EXCEPT ![k] = Nil]
    /\ UNCHANGED <<now, webUp, logoutVars, tickets, externals>>

----------------------------------------------------------------------------
\* Access tokens that expired are forgotten, for the bound on their number.
AdvanceClock ==
    /\ now < MaxTime
    /\ now' = now + 1
    /\ tokens' = {t \in tokens : now + 1 < t.at + Life}
    /\ UNCHANGED <<webUp, logoutVars, streamVars, provider, announced>>

SessionsInit ==
    /\ now = 1
    /\ provider = [s \in Sids |-> "new"]
    /\ tokens = {} /\ announced = {}
    /\ webUp = FALSE
    /\ sessions = SessionsOf({}) /\ subjects = SubjectsOf({})
    /\ logouts = {} /\ known = {}
    /\ tickets = [k \in Tickets |-> Nil]
    /\ streams = [k \in Tickets |-> Nil]

Watch(k) == TakeChannel(k) \/ CheckEnded(k) \/ Woken(k) \/ CloseStream(k)

SessionsNext ==
    \/ AdvanceClock \/ StartUI \/ StopUI
    \/ \E s \in Sids :
         \/ SignIn(s)
         \/ \E names \in BOOLEAN : IssueToken(s, names)
         \/ \E user \in Users \cup {Nil} : EndSession(s, user)
    \/ \E u \in Users : EndSessionsOf(u)
    \/ \E l \in announced, stored \in BOOLEAN : BackchannelLogout(l, stored)
    \/ \E k \in Tickets :
         \/ \E p \in tokens \cup {Nil} : MintTicket(k, p)
         \/ OpenStream(k) \/ Watch(k) \/ LeaveStream(k)

SessionsSpec == SessionsInit /\ [][SessionsNext]_webVars

FairSessionsSpec == SessionsSpec /\ \A k \in Tickets : WF_webVars(Watch(k))

----------------------------------------------------------------------------
(* Properties.                                                             *)

\* The comment at the head of backchannel.go.
Covers(l, t) ==
    \/ l.sid # Nil /\ t.sid = l.sid
    \/ l.user = t.user /\ (l.sid = Nil \/ t.sid = Nil) /\ t.at <= l.at

\* An access token is rejected if, and until it expires as long as, a logout in
\* effect covers it: condensing, pruning and reloading the logouts forget none
\* and cut off nobody else.
EndedIsExact ==
    \A t \in tokens : webUp => (Ended(t) <=> \E l \in known : Covers(l, t))

\* A live stream is closed once its session ends, however the logout falls
\* between the minting of its ticket and the steps of the goroutine that
\* watches it.
EndedStreamCloses ==
    \A k \in Tickets :
        LET over == streams[k] # Nil /\ streams[k].session # Nil /\ Ended(streams[k].session)
        IN over ~> ~over
=============================================================================
