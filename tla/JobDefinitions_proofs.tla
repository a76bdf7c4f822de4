----------------------- MODULE JobDefinitions_proofs -----------------------
(***************************************************************************)
(* What the jobs manager keeps in memory agrees with itself and with the   *)
(* tables, for any jobs, servers, commands and definitions.                *)
(*                                                                         *)
(* The invariant: each job is live as its definition in memory resolves    *)
(* now, and called invalid exactly if it does not (Exact); a definition in *)
(* memory is the stored one or missing (FromRows), and none is missing     *)
(* when all tables were read (AllRead); a process that is down holds       *)
(* nothing.                                                                *)
(***************************************************************************)
EXTENDS JobDefinitions, TLAPS

Resolved == [definition : Offered, server : ServerKinds, commands : SUBSET CommandKinds]

Exact(j, defs, s, c) ==
    /\ live[j] = LiveAs(j, defs[j], s, c)
    /\ j \in invalid <=> defs[j] # None /\ ~Resolves(defs[j], s, c)

AllExact == \A j \in Jobs : Exact(j, jobDefs, serverDefs, commandDefs)

FromRows ==
    /\ \A s \in Servers : serverDefs[s] \in {None, serverRows[s]}
    /\ \A c \in Commands : commandDefs[c] \in {None, commandRows[c]}
    /\ \A j \in Jobs : jobDefs[j] \in {None, jobRows[j]}

AllRead ==
    phase # "down" /\ lost = {} =>
        serverDefs = serverRows /\ commandDefs = commandRows /\ jobDefs = jobRows

DownIsEmpty == phase = "down" => \A j \in Jobs : jobDefs[j] = None

IInv == TypeOK /\ AllExact /\ FromRows /\ AllRead /\ DownIsEmpty /\ SchedulesAreLive

----------------------------------------------------------------------------
(* Resolution.                                                             *)

\* None is no definition and no resolution.
LEMMA NoneApart ==
    /\ None \notin Offered /\ None \notin Resolved
    /\ None \notin ServerKinds /\ None \notin CommandKinds
    /\ None \notin Servers /\ None \notin Commands /\ None \notin STRING
<1>1. None \notin STRING /\ None \notin Offered /\ None \notin Servers /\ None \notin Commands
  BY JobDefinitionsAssumption
<1>2. None \notin Resolved
  BY JobDefinitionsAssumption DEF Resolved
<1> QED BY <1>1, <1>2, JobDefinitionsAssumption

\* The fields of a definition that is offered.
LEMMA DefinitionFields ==
    ASSUME NEW d \in Offered
    PROVE  /\ d.server \in Servers
           /\ d.file \in Commands \cup {None}
           /\ d.hook \in Commands \cup {None}
           /\ d.times \in STRING
BY JobDefinitionsAssumption DEF JobDefinition

\* What resolves has a resolution.
LEMMA ResolutionType ==
    ASSUME NEW d \in Offered, NEW s, NEW c, Resolves(d, s, c)
    PROVE  Resolution(d, s, c) \in Resolved /\ Resolution(d, s, c) # None
<1>1. s[d.server] \in ServerKinds
  BY DEF Resolves, TargetResolves, ResolvesServer
<1>2. d.file # None => c[d.file] \in CommandKinds
  BY DEF Resolves, SourceResolves, ResolvesCommand
<1>3. d.hook # None => c[d.hook] \in CommandKinds
  BY DEF Resolves, HookResolves, CommandKinds
<1>4. {c[k] : k \in {d.file, d.hook} \ {None}} \in SUBSET CommandKinds
  BY <1>2, <1>3
<1>5. Resolution(d, s, c) \in Resolved
  BY <1>1, <1>4 DEF Resolution, Resolved
<1> QED BY <1>5, NoneApart

\* A job that is live, was resolved.
LEMMA LiveAsType ==
    ASSUME NEW j \in Jobs, NEW d \in JobRow, NEW s, NEW c
    PROVE  /\ LiveAs(j, d, s, c) \in Resolved \cup {None}
           /\ LiveAs(j, d, s, c) # None <=> d # None /\ Resolves(d, s, c) /\ PassesFilter(j)
           /\ LiveAs(j, d, s, c) # None => LiveAs(j, d, s, c).definition = d
<1>1. CASE d # None /\ Resolves(d, s, c)
  <2>1. d \in Offered
    BY <1>1 DEF JobRow
  <2>2. Resolution(d, s, c) \in Resolved /\ Resolution(d, s, c) # None
    BY <1>1, <2>1, ResolutionType
  <2>3. Resolution(d, s, c).definition = d
    BY DEF Resolution
  <2> QED BY <1>1, <2>2, <2>3 DEF LiveAs
<1>2. CASE ~(d # None /\ Resolves(d, s, c))
  BY <1>2 DEF LiveAs
<1> QED BY <1>1, <1>2

\* A definition resolves by the server and the commands it names alone.
LEMMA ResolvesByNamed ==
    ASSUME NEW d, NEW s, NEW t, NEW c, NEW e,
           s[d.server] = t[d.server],
           d.file # None => c[d.file] = e[d.file],
           d.hook # None => c[d.hook] = e[d.hook]
    PROVE  /\ Resolves(d, s, c) <=> Resolves(d, t, e)
           /\ Resolution(d, s, c) = Resolution(d, t, e)
<1>1. Resolves(d, s, c) <=> Resolves(d, t, e)
  BY DEF Resolves, TargetResolves, ResolvesServer, HookResolves, SourceResolves,
         ResolvesCommand, ChecksAsBackup, ChecksAsOnChange
<1>2. {c[k] : k \in {d.file, d.hook} \ {None}} = {e[k] : k \in {d.file, d.hook} \ {None}}
  OBVIOUS
<1> QED BY <1>1, <1>2 DEF Resolution

\* So a change of another server or command leaves the job as it is.
LEMMA ExactByNamed ==
    ASSUME NEW j \in Jobs, NEW s, NEW t, NEW c, NEW e, NEW defs,
           Exact(j, defs, s, c),
           defs[j] # None =>
             /\ s[defs[j].server] = t[defs[j].server]
             /\ defs[j].file # None => c[defs[j].file] = e[defs[j].file]
             /\ defs[j].hook # None => c[defs[j].hook] = e[defs[j].hook]
    PROVE  Exact(j, defs, t, e)
<1>1. CASE defs[j] = None
  BY <1>1 DEF Exact, LiveAs
<1>2. CASE defs[j] # None
  BY <1>2, ResolvesByNamed DEF Exact, LiveAs
<1> QED BY <1>1, <1>2

----------------------------------------------------------------------------
(* Activation.                                                             *)

\* Activation makes the jobs it is given exact and leaves the others.
LEMMA ActivateExact ==
    ASSUME NEW js, NEW defs \in [Jobs -> JobRow], NEW s, NEW c,
           js \subseteq Defined(defs),
           TypeOK, SchedulesAreLive,
           \A j \in Jobs \ js : Exact(j, defs, s, c),
           \A j \in Jobs : live[j] # None => PassesFilter(j),
           Activate(js, defs, s, c)
    PROVE  /\ live' \in [Jobs -> Resolved \cup {None}]
           /\ invalid' \subseteq Jobs
           /\ schedule' \in [Jobs -> STRING \cup {None}]
           /\ \A j \in Jobs : /\ live'[j] = LiveAs(j, defs[j], s, c)
                              /\ j \in invalid' <=> defs[j] # None /\ ~Resolves(defs[j], s, c)
           /\ phase = "started" =>
                \A j \in Jobs : schedule'[j] = IF live'[j] = None THEN None
                                               ELSE live'[j].definition.times
<1>1. js \subseteq Jobs /\ \A j \in js : defs[j] # None /\ defs[j] \in Offered
  BY DEF Defined, JobRow
<1>2. /\ live' = [j \in Jobs |-> IF j \in js THEN LiveAs(j, defs[j], s, c) ELSE live[j]]
      /\ invalid' = (invalid \ js) \cup {j \in js : ~Resolves(defs[j], s, c)}
      /\ schedule' = [j \in Jobs |-> IF j \in js THEN Reschedule(j, defs[j], s, c) ELSE schedule[j]]
  BY DEF Activate
<1>3. ASSUME NEW j \in Jobs
      PROVE  /\ live'[j] = LiveAs(j, defs[j], s, c)
             /\ j \in invalid' <=> defs[j] # None /\ ~Resolves(defs[j], s, c)
  <2>1. CASE j \in js
    BY <1>1, <1>2, <2>1
  <2>2. CASE j \notin js
    BY <1>2, <2>2 DEF Exact
  <2> QED BY <2>1, <2>2
<1>4. ASSUME NEW j \in Jobs
      PROVE  schedule'[j] \in STRING \cup {None}
  <2>1. CASE j \in js
    BY <1>1, <1>2, <2>1, DefinitionFields DEF Reschedule, TypeOK
  <2>2. CASE j \notin js
    BY <1>2, <2>2 DEF TypeOK
  <2> QED BY <2>1, <2>2
<1>5. ASSUME phase = "started", NEW j \in Jobs
      PROVE  schedule'[j] = IF live'[j] = None THEN None ELSE live'[j].definition.times
  <2>1. CASE j \in js /\ Resolves(defs[j], s, c) /\ PassesFilter(j)
    BY <1>1, <1>2, <1>3, <1>5, <2>1, LiveAsType DEF Reschedule
  <2>2. CASE j \in js /\ Resolves(defs[j], s, c) /\ ~PassesFilter(j)
    <3>1. live'[j] = None
      BY <1>3, <2>2 DEF LiveAs
    <3>2. schedule'[j] = schedule[j]
      BY <1>2, <2>2 DEF Reschedule
    <3>3. schedule[j] = None
      BY <1>5, <2>2 DEF SchedulesAreLive
    <3> QED BY <3>1, <3>2, <3>3
  <2>3. CASE j \in js /\ ~Resolves(defs[j], s, c)
    BY <1>2, <1>3, <2>3 DEF Reschedule, LiveAs
  <2>4. CASE j \notin js
    BY <1>2, <1>5, <2>4 DEF SchedulesAreLive
  <2> QED BY <2>1, <2>2, <2>3, <2>4
<1>6. live' \in [Jobs -> Resolved \cup {None}]
  BY <1>2, <1>3, LiveAsType
<1>7. schedule' \in [Jobs -> STRING \cup {None}]
  BY <1>2, <1>4
<1>8. invalid' \subseteq Jobs
  BY <1>1, <1>2 DEF TypeOK
<1> QED BY <1>3, <1>5, <1>6, <1>7, <1>8

----------------------------------------------------------------------------
(* Single steps.                                                           *)

\* What is live passes the filter, and a job that is not invalid resolves.
LEMMA LivePasses ==
    ASSUME IInv, NEW j \in Jobs
    PROVE  /\ live[j] # None => /\ PassesFilter(j) /\ jobDefs[j] # None
                                /\ Resolves(jobDefs[j], serverDefs, commandDefs)
           /\ jobDefs[j] \in JobRow
BY DEF IInv, AllExact, Exact, LiveAs, TypeOK

\* The jobs of a set that holds all those the change of a server or a command
\* could concern are activated.
LEMMA ApplyExact ==
    ASSUME IInv, NEW js, NEW defs \in [Jobs -> JobRow],
           NEW s \in [Servers -> ServerRow], NEW c \in [Commands -> CommandRow],
           jobDefs' = defs, serverDefs' = s, commandDefs' = c, phase' # "down",
           phase' = "started" => phase = "started",
           js \subseteq Defined(defs),
           \A j \in Jobs \ js : Exact(j, defs, s, c),
           Activate(js, defs, s, c)
    PROVE  /\ live' \in [Jobs -> Resolved \cup {None}]
           /\ invalid' \subseteq Jobs
           /\ schedule' \in [Jobs -> STRING \cup {None}]
           /\ AllExact' /\ DownIsEmpty' /\ SchedulesAreLive'
<1>1. \A j \in Jobs : live[j] # None => PassesFilter(j)
  BY LivePasses
<1>2. TypeOK /\ SchedulesAreLive
  BY DEF IInv
<1>3. /\ live' \in [Jobs -> Resolved \cup {None}]
      /\ invalid' \subseteq Jobs
      /\ schedule' \in [Jobs -> STRING \cup {None}]
      /\ \A j \in Jobs : /\ live'[j] = LiveAs(j, defs[j], s, c)
                         /\ j \in invalid' <=> defs[j] # None /\ ~Resolves(defs[j], s, c)
      /\ phase = "started" =>
           \A j \in Jobs : schedule'[j] = IF live'[j] = None THEN None
                                          ELSE live'[j].definition.times
  BY <1>1, <1>2, ActivateExact
<1>4. AllExact'
  BY <1>3 DEF AllExact, Exact, LiveAs, Resolution, PassesFilter, Resolves, TargetResolves, ResolvesServer,
     HookResolves, SourceResolves, ResolvesCommand, ParsesJob, ChecksAsBackup, ChecksAsOnChange
<1>5. DownIsEmpty' /\ SchedulesAreLive'
  BY <1>3 DEF DownIsEmpty, SchedulesAreLive
<1> QED BY <1>3, <1>4, <1>5

\* The tables and definitions in memory are functions of their names.
LEMMA IInvTypes ==
    ASSUME IInv
    PROVE  /\ serverRows \in [Servers -> ServerRow] /\ serverDefs \in [Servers -> ServerRow]
           /\ commandRows \in [Commands -> CommandRow] /\ commandDefs \in [Commands -> CommandRow]
           /\ jobRows \in [Jobs -> JobRow] /\ jobDefs \in [Jobs -> JobRow]
           /\ live \in [Jobs -> Resolved \cup {None}]
           /\ invalid \subseteq Jobs /\ schedule \in [Jobs -> STRING \cup {None}]
           /\ phase \in {"down", "loaded", "started"}
           /\ lost \subseteq {"servers", "commands", "jobs"}
BY DEF IInv, TypeOK, Resolved

\* A start reads what it can and activates all of it.
LEMMA LoadKeeps == ASSUME IInv, Load PROVE IInv'
<1> DEFINE js == Defined(jobDefs')
<1>1. /\ phase = "down" /\ phase' = "loaded"
      /\ rows' = rows
      /\ lost' \in SUBSET {"servers", "commands", "jobs"}
      /\ Activate(js, jobDefs', serverDefs', commandDefs')
  BY DEF Load, readStored
<1>2. /\ serverRows' = serverRows /\ commandRows' = commandRows /\ jobRows' = jobRows
  BY <1>1 DEF rows
<1>3. /\ serverDefs' = IF "servers" \in lost' THEN [k \in Servers |-> None] ELSE serverRows
      /\ commandDefs' = IF "commands" \in lost' THEN [k \in Commands |-> None] ELSE commandRows
      /\ jobDefs' = IF "jobs" \in lost' THEN [k \in Jobs |-> None] ELSE jobRows
  BY IInvTypes DEF Load, readStored, listRows
<1>4. /\ serverDefs' \in [Servers -> ServerRow] /\ commandDefs' \in [Commands -> CommandRow]
      /\ jobDefs' \in [Jobs -> JobRow]
  BY <1>3, IInvTypes DEF ServerRow, CommandRow, JobRow
<1>5. \A j \in Jobs : live[j] = None /\ j \notin invalid
  BY <1>1 DEF IInv, DownIsEmpty, AllExact, Exact, LiveAs
<1>6. \A j \in Jobs \ js : Exact(j, jobDefs', serverDefs', commandDefs')
  BY <1>5 DEF Exact, LiveAs, Defined
<1>7. /\ live' \in [Jobs -> Resolved \cup {None}]
      /\ invalid' \subseteq Jobs
      /\ schedule' \in [Jobs -> STRING \cup {None}]
      /\ AllExact' /\ DownIsEmpty' /\ SchedulesAreLive'
  BY <1>1, <1>4, <1>6, ApplyExact
<1>8. TypeOK'
  BY <1>1, <1>2, <1>4, <1>7, IInvTypes DEF TypeOK, Resolved
<1>9. FromRows' /\ AllRead'
  BY <1>2, <1>3, IInvTypes DEF FromRows, AllRead
<1> QED BY <1>7, <1>8, <1>9 DEF IInv

\* The live jobs are scheduled.
LEMMA StartKeeps == ASSUME IInv, Start PROVE IInv'
<1>1. /\ phase = "loaded" /\ phase' = "started"
      /\ schedule' = [j \in Jobs |-> IF live[j] # None THEN live[j].definition.times ELSE None]
      /\ UNCHANGED <<rows, memory, live, invalid, lost>>
  BY DEF Start
<1>2. UNCHANGED <<serverRows, commandRows, jobRows, serverDefs, commandDefs, jobDefs, live, invalid, lost>>
  BY <1>1 DEF rows, memory
<1>3. \A j \in Jobs : live[j] # None => live[j].definition.times \in STRING
  <2> SUFFICES ASSUME NEW j \in Jobs, live[j] # None PROVE live[j].definition.times \in STRING
    OBVIOUS
  <2>1. live[j] \in Resolved
    BY IInvTypes
  <2>2. live[j].definition \in Offered
    BY <2>1 DEF Resolved
  <2> QED BY <2>2, DefinitionFields
<1>4. TypeOK'
  BY <1>1, <1>2, <1>3, IInvTypes DEF TypeOK, Resolved
<1>5. SchedulesAreLive'
  BY <1>1, <1>2 DEF SchedulesAreLive
<1>6. AllExact'
  BY <1>2 DEF IInv, AllExact, Exact, LiveAs, Resolution, PassesFilter, Resolves, TargetResolves, ResolvesServer,
     HookResolves, SourceResolves, ResolvesCommand, ParsesJob, ChecksAsBackup, ChecksAsOnChange
<1>7. FromRows' /\ AllRead' /\ DownIsEmpty'
  BY <1>1, <1>2 DEF IInv, FromRows, AllRead, DownIsEmpty
<1> QED BY <1>4, <1>5, <1>6, <1>7 DEF IInv

\* The end of the process leaves the tables alone.
LEMMA StopKeeps == ASSUME IInv, Stop PROVE IInv'
<1>1. /\ phase' = "down" /\ invalid' = {} /\ lost' = {}
      /\ serverDefs' = [s \in Servers |-> None]
      /\ commandDefs' = [c \in Commands |-> None]
      /\ jobDefs' = [j \in Jobs |-> None]
      /\ live' = [j \in Jobs |-> None]
      /\ schedule' = [j \in Jobs |-> None]
      /\ UNCHANGED <<serverRows, commandRows, jobRows>>
  BY DEF Stop, rows
<1>2. TypeOK'
  BY <1>1, IInvTypes DEF TypeOK, ServerRow, CommandRow, JobRow
<1>3. AllExact'
  BY <1>1 DEF AllExact, Exact, LiveAs
<1>4. FromRows' /\ AllRead' /\ DownIsEmpty' /\ SchedulesAreLive'
  BY <1>1 DEF FromRows, AllRead, DownIsEmpty, SchedulesAreLive
<1> QED BY <1>2, <1>3, <1>4 DEF IInv

\* A job stored, new or edited, is activated, the others stay.
LEMMA JobKeeps ==
    ASSUME IInv, NEW j \in Jobs, NEW d \in Offered, CreateJob(j, d) \/ UpdateJob(j, d)
    PROVE  IInv'
<1> DEFINE defs == [jobDefs EXCEPT ![j] = d]
<1>1. /\ phase # "down" /\ phase' = phase /\ lost' = lost
      /\ jobRows' = [jobRows EXCEPT ![j] = d]
      /\ jobDefs' = defs
      /\ UNCHANGED <<serverRows, commandRows, serverDefs, commandDefs>>
      /\ Activate({j}, defs, serverDefs, commandDefs)
  BY DEF CreateJob, UpdateJob, ApplyJob, Mutable, CreateJobConfig, UpdateJobConfig, createRow, updateRow
<1>2. d # None /\ d \in JobRow /\ defs[j] = d
  BY NoneApart, IInvTypes DEF JobRow
<1>3. defs \in [Jobs -> JobRow] /\ {j} \subseteq Defined(defs)
  BY <1>2, IInvTypes DEF Defined
<1>4. \A k \in Jobs \ {j} : Exact(k, defs, serverDefs, commandDefs)
  BY IInvTypes DEF IInv, AllExact, Exact
<1>5. phase' # "down" /\ serverDefs' = serverDefs /\ commandDefs' = commandDefs
  BY <1>1
<1>6. /\ live' \in [Jobs -> Resolved \cup {None}]
      /\ invalid' \subseteq Jobs
      /\ schedule' \in [Jobs -> STRING \cup {None}]
      /\ AllExact' /\ DownIsEmpty' /\ SchedulesAreLive'
  <2> HIDE DEF defs
  <2> QED BY <1>1, <1>3, <1>4, <1>5, IInvTypes, ApplyExact
<1>7. TypeOK'
  BY <1>1, <1>2, <1>3, <1>6, IInvTypes DEF TypeOK, Resolved
<1>8. FromRows' /\ AllRead'
  BY <1>1, <1>2, IInvTypes DEF IInv, FromRows, AllRead
<1> QED BY <1>6, <1>7, <1>8 DEF IInv

\* A deleted job is gone everywhere, the others stay.
LEMMA DeleteJobKeeps ==
    ASSUME IInv, NEW j \in Jobs, DeleteJob(j)
    PROVE  IInv'
<1>1. /\ phase # "down" /\ phase' = phase /\ lost' = lost
      /\ jobRows' = [jobRows EXCEPT ![j] = None]
      /\ jobDefs' = [jobDefs EXCEPT ![j] = None]
      /\ invalid' = invalid \ {j}
      /\ live' = [live EXCEPT ![j] = None]
      /\ schedule' = [schedule EXCEPT ![j] = None]
      /\ UNCHANGED <<serverRows, commandRows, serverDefs, commandDefs>>
  BY DEF DeleteJob, Mutable, Deactivate, DeleteJobConfig, deleteRow
<1>2. TypeOK'
  BY <1>1, IInvTypes DEF TypeOK, Resolved, JobRow
<1>3. AllExact'
  <2> SUFFICES ASSUME NEW k \in Jobs PROVE Exact(k, jobDefs, serverDefs, commandDefs)'
    BY DEF AllExact
  <2>1. CASE k = j
    BY <1>1, <2>1, IInvTypes DEF Exact, LiveAs
  <2>2. CASE k # j
    <3>1. live'[k] = live[k] /\ jobDefs'[k] = jobDefs[k]
      BY <1>1, <2>2, IInvTypes
    <3>2. k \in invalid' <=> k \in invalid
      BY <1>1, <2>2
    <3>3. serverDefs' = serverDefs /\ commandDefs' = commandDefs
      BY <1>1
    <3>4. Exact(k, jobDefs, serverDefs, commandDefs)
      BY DEF IInv, AllExact
    <3> QED BY <3>1, <3>2, <3>3, <3>4 DEF Exact, LiveAs, Resolution, PassesFilter, Resolves, TargetResolves, ResolvesServer,
     HookResolves, SourceResolves, ResolvesCommand, ParsesJob, ChecksAsBackup, ChecksAsOnChange
  <2> QED BY <2>1, <2>2
<1>4. FromRows' /\ AllRead' /\ DownIsEmpty'
  BY <1>1, IInvTypes DEF IInv, FromRows, AllRead, DownIsEmpty
<1>5. SchedulesAreLive'
  BY <1>1, IInvTypes DEF IInv, SchedulesAreLive
<1> QED BY <1>2, <1>3, <1>4, <1>5 DEF IInv

\* A server stored, new or edited: every job is resolved again.
LEMMA ServerKeeps ==
    ASSUME IInv, NEW s \in Servers, NEW d \in ServerKinds, CreateServer(s, d) \/ UpdateServer(s, d)
    PROVE  IInv'
<1> DEFINE defs == [serverDefs EXCEPT ![s] = d]
<1>1. /\ phase # "down" /\ phase' = phase /\ lost' = lost
      /\ serverRows' = [serverRows EXCEPT ![s] = d]
      /\ serverDefs' = defs
      /\ UNCHANGED <<commandRows, jobRows, commandDefs, jobDefs>>
      /\ Activate(Defined(jobDefs), jobDefs, defs, commandDefs)
  BY DEF CreateServer, UpdateServer, ApplyServer, RefreshJobs, Mutable, CreateServerConfig, UpdateServerConfig,
         createRow, updateRow
<1>2. defs \in [Servers -> ServerRow]
  BY IInvTypes DEF ServerRow, ServerDefinition
<1>3. \A k \in Jobs \ Defined(jobDefs) : Exact(k, jobDefs, defs, commandDefs)
  BY DEF IInv, AllExact, Exact, LiveAs, Defined
<1>4. phase' # "down" /\ jobDefs' = jobDefs /\ commandDefs' = commandDefs
  BY <1>1
<1>5. /\ live' \in [Jobs -> Resolved \cup {None}]
      /\ invalid' \subseteq Jobs
      /\ schedule' \in [Jobs -> STRING \cup {None}]
      /\ AllExact' /\ DownIsEmpty' /\ SchedulesAreLive'
  <2> HIDE DEF defs
  <2> QED BY <1>1, <1>2, <1>3, <1>4, IInvTypes, ApplyExact
<1>6. TypeOK'
  BY <1>1, <1>2, <1>5, IInvTypes DEF TypeOK, Resolved, ServerRow, ServerDefinition
<1>7. FromRows' /\ AllRead'
  BY <1>1, IInvTypes DEF IInv, FromRows, AllRead
<1> QED BY <1>5, <1>6, <1>7 DEF IInv

\* Likewise a command.
LEMMA CommandKeeps ==
    ASSUME IInv, NEW c \in Commands, NEW d \in CommandKinds, CreateCommand(c, d) \/ UpdateCommand(c, d)
    PROVE  IInv'
<1> DEFINE defs == [commandDefs EXCEPT ![c] = d]
<1>1. /\ phase # "down" /\ phase' = phase /\ lost' = lost
      /\ commandRows' = [commandRows EXCEPT ![c] = d]
      /\ commandDefs' = defs
      /\ UNCHANGED <<serverRows, jobRows, serverDefs, jobDefs>>
      /\ Activate(Defined(jobDefs), jobDefs, serverDefs, defs)
  BY DEF CreateCommand, UpdateCommand, ApplyCommand, RefreshJobs, Mutable, CreateCommandConfig, UpdateCommandConfig,
         createRow, updateRow
<1>2. defs \in [Commands -> CommandRow]
  BY IInvTypes DEF CommandRow, CommandDefinition
<1>3. \A k \in Jobs \ Defined(jobDefs) : Exact(k, jobDefs, serverDefs, defs)
  BY DEF IInv, AllExact, Exact, LiveAs, Defined
<1>4. phase' # "down" /\ jobDefs' = jobDefs /\ serverDefs' = serverDefs
  BY <1>1
<1>5. /\ live' \in [Jobs -> Resolved \cup {None}]
      /\ invalid' \subseteq Jobs
      /\ schedule' \in [Jobs -> STRING \cup {None}]
      /\ AllExact' /\ DownIsEmpty' /\ SchedulesAreLive'
  <2> HIDE DEF defs
  <2> QED BY <1>1, <1>2, <1>3, <1>4, IInvTypes, ApplyExact
<1>6. TypeOK'
  BY <1>1, <1>2, <1>5, IInvTypes DEF TypeOK, Resolved, CommandRow, CommandDefinition
<1>7. FromRows' /\ AllRead'
  BY <1>1, IInvTypes DEF IInv, FromRows, AllRead
<1> QED BY <1>5, <1>6, <1>7 DEF IInv

\* A server no job names is removed: no job resolves differently.
LEMMA DeleteServerKeeps ==
    ASSUME IInv, NEW s \in Servers, DeleteServer(s)
    PROVE  IInv' /\ live' = live
<1> DEFINE defs == [serverDefs EXCEPT ![s] = None]
<1>1. /\ phase # "down" /\ phase' = phase /\ lost' = lost
      /\ serverRows' = [serverRows EXCEPT ![s] = None]
      /\ serverDefs' = defs
      /\ \A j \in Jobs : jobDefs[j] # None => jobDefs[j].server # s
      /\ UNCHANGED <<commandRows, jobRows, commandDefs, jobDefs, live, invalid, schedule>>
  BY DEF DeleteServer, UsersOfServer, Defined, Mutable, DeleteServerConfig, deleteRow, active
<1>2. TypeOK'
  BY <1>1, IInvTypes DEF TypeOK, Resolved, ServerRow
<1>3. AllExact'
  <2> SUFFICES ASSUME NEW j \in Jobs PROVE Exact(j, jobDefs, serverDefs, commandDefs)'
    BY DEF AllExact
  <2>1. Exact(j, jobDefs, serverDefs, commandDefs)
    BY DEF IInv, AllExact
  <2>2. jobDefs[j] # None => serverDefs[jobDefs[j].server] = defs[jobDefs[j].server]
    BY <1>1, IInvTypes, DefinitionFields DEF JobRow
  <2>3. Exact(j, jobDefs, defs, commandDefs)
    BY <2>1, <2>2, ExactByNamed
  <2> QED BY <1>1, <2>3 DEF Exact, LiveAs, Resolution, PassesFilter, Resolves, TargetResolves, ResolvesServer,
     HookResolves, SourceResolves, ResolvesCommand, ParsesJob, ChecksAsBackup, ChecksAsOnChange
<1>4. FromRows' /\ AllRead' /\ DownIsEmpty' /\ SchedulesAreLive'
  BY <1>1, IInvTypes DEF IInv, FromRows, AllRead, DownIsEmpty, SchedulesAreLive
<1> QED BY <1>1, <1>2, <1>3, <1>4 DEF IInv

\* Likewise a command no job names.
LEMMA DeleteCommandKeeps ==
    ASSUME IInv, NEW c \in Commands, DeleteCommand(c)
    PROVE  IInv' /\ live' = live
<1> DEFINE defs == [commandDefs EXCEPT ![c] = None]
<1>1. /\ phase # "down" /\ phase' = phase /\ lost' = lost
      /\ commandRows' = [commandRows EXCEPT ![c] = None]
      /\ commandDefs' = defs
      /\ \A j \in Jobs : jobDefs[j] # None => jobDefs[j].file # c /\ jobDefs[j].hook # c
      /\ UNCHANGED <<serverRows, jobRows, serverDefs, jobDefs, live, invalid, schedule>>
  BY DEF DeleteCommand, UsersOfCommand, Defined, Mutable, DeleteCommandConfig, deleteRow, active
<1>2. TypeOK'
  BY <1>1, IInvTypes DEF TypeOK, Resolved, CommandRow
<1>3. AllExact'
  <2> SUFFICES ASSUME NEW j \in Jobs PROVE Exact(j, jobDefs, serverDefs, commandDefs)'
    BY DEF AllExact
  <2>1. Exact(j, jobDefs, serverDefs, commandDefs)
    BY DEF IInv, AllExact
  <2>2. jobDefs[j] # None =>
          /\ jobDefs[j].file # None => commandDefs[jobDefs[j].file] = defs[jobDefs[j].file]
          /\ jobDefs[j].hook # None => commandDefs[jobDefs[j].hook] = defs[jobDefs[j].hook]
    BY <1>1, IInvTypes, DefinitionFields DEF JobRow
  <2>3. Exact(j, jobDefs, serverDefs, defs)
    BY <2>1, <2>2, ExactByNamed
  <2> QED BY <1>1, <2>3 DEF Exact, LiveAs, Resolution, PassesFilter, Resolves, TargetResolves, ResolvesServer,
     HookResolves, SourceResolves, ResolvesCommand, ParsesJob, ChecksAsBackup, ChecksAsOnChange
<1>4. FromRows' /\ AllRead' /\ DownIsEmpty' /\ SchedulesAreLive'
  BY <1>1, IInvTypes DEF IInv, FromRows, AllRead, DownIsEmpty, SchedulesAreLive
<1> QED BY <1>1, <1>2, <1>3, <1>4 DEF IInv

----------------------------------------------------------------------------
(* Every step.                                                             *)

LEMMA InitIInv == Init => IInv
<1> SUFFICES ASSUME Init PROVE IInv
  OBVIOUS
<1>1. TypeOK
  BY DEF Init, TypeOK, ServerRow, CommandRow, JobRow
<1>2. AllExact
  BY DEF Init, AllExact, Exact, LiveAs
<1> QED BY <1>1, <1>2 DEF Init, IInv, FromRows, AllRead, DownIsEmpty, SchedulesAreLive

LEMMA StepIInv == IInv /\ [Next]_vars => IInv'
<1> SUFFICES ASSUME IInv, [Next]_vars PROVE IInv'
  OBVIOUS
<1>1. CASE Load
  BY <1>1, LoadKeeps
<1>2. CASE Start
  BY <1>2, StartKeeps
<1>3. CASE Stop
  BY <1>3, StopKeeps
<1>4. CASE \E j \in Jobs : DeleteJob(j) \/ \E d \in Offered : CreateJob(j, d) \/ UpdateJob(j, d)
  BY <1>4, DeleteJobKeeps, JobKeeps
<1>5. CASE \E s \in Servers : DeleteServer(s) \/ \E d \in ServerKinds : CreateServer(s, d) \/ UpdateServer(s, d)
  BY <1>5, DeleteServerKeeps, ServerKeeps
<1>6. CASE \E c \in Commands : DeleteCommand(c) \/ \E d \in CommandKinds : CreateCommand(c, d) \/ UpdateCommand(c, d)
  BY <1>6, DeleteCommandKeeps, CommandKeeps
<1>7. CASE UNCHANGED vars
  <2>1. UNCHANGED <<serverRows, commandRows, jobRows, serverDefs, commandDefs, jobDefs,
                    live, invalid, schedule, phase, lost>>
    BY <1>7 DEF vars, rows, memory, active
  <2>2. AllExact'
    BY <2>1 DEF IInv, AllExact, Exact, LiveAs, Resolution, PassesFilter, Resolves, TargetResolves, ResolvesServer,
       HookResolves, SourceResolves, ResolvesCommand, ParsesJob, ChecksAsBackup, ChecksAsOnChange
  <2> QED BY <2>1, <2>2 DEF IInv, TypeOK, FromRows, AllRead, DownIsEmpty, SchedulesAreLive
<1> QED BY <1>1, <1>2, <1>3, <1>4, <1>5, <1>6, <1>7 DEF Next

LEMMA IInvAlways == Spec => []IInv
<1> QED BY InitIInv, StepIInv, PTL DEF Spec

----------------------------------------------------------------------------
(* Active jobs stay.                                                       *)

\* A job made of its definition stays live if that still resolves.
LEMMA StaysIfResolves ==
    ASSUME IInv, NEW j \in Jobs, live[j] # None, NEW s, NEW c,
           Resolves(jobDefs[j], s, c),
           Activate(Defined(jobDefs), jobDefs, s, c)
    PROVE  live'[j] # None
<1>1. PassesFilter(j) /\ jobDefs[j] # None /\ jobDefs[j] \in JobRow
  BY LivePasses
<1>2. live'[j] = LiveAs(j, jobDefs[j], s, c)
  BY <1>1 DEF Activate, Defined
<1> QED BY <1>1, <1>2, LiveAsType

\* The server and the commands of a live job are in memory.
LEMMA LiveNames ==
    ASSUME IInv, NEW j \in Jobs, live[j] # None
    PROVE  /\ jobDefs[j] \in Offered /\ jobDefs[j] # None /\ j \notin invalid
           /\ Resolves(jobDefs[j], serverDefs, commandDefs)
           /\ serverDefs[jobDefs[j].server] # None
           /\ jobDefs[j].file # None => commandDefs[jobDefs[j].file] # None
           /\ jobDefs[j].hook # None => commandDefs[jobDefs[j].hook] # None
<1>1. jobDefs[j] \in Offered /\ jobDefs[j] # None /\ Resolves(jobDefs[j], serverDefs, commandDefs)
  BY LivePasses DEF JobRow
<1>2. j \notin invalid
  BY <1>1 DEF IInv, AllExact, Exact
<1>3. serverDefs[jobDefs[j].server] \in ServerKinds
  BY <1>1 DEF Resolves, TargetResolves, ResolvesServer
<1>4. jobDefs[j].file # None => commandDefs[jobDefs[j].file] \in CommandKinds
  BY <1>1 DEF Resolves, SourceResolves, ResolvesCommand
<1>5. jobDefs[j].hook # None => commandDefs[jobDefs[j].hook] \in CommandKinds
  BY <1>1 DEF Resolves, HookResolves, CommandKinds
<1> QED BY <1>1, <1>2, <1>3, <1>4, <1>5, NoneApart

\* Storing a job leaves every live job live.
LEMMA JobStays ==
    ASSUME IInv, NEW j \in Jobs, NEW d \in Offered, CreateJob(j, d) \/ UpdateJob(j, d),
           NEW k \in Jobs, live[k] # None
    PROVE  live'[k] # None
<1> DEFINE defs == [jobDefs EXCEPT ![j] = d]
<1>1. /\ Resolves(d, serverDefs, commandDefs)
      /\ Activate({j}, defs, serverDefs, commandDefs)
  BY DEF CreateJob, UpdateJob, ApplyJob, validateJob
<1>2. CASE k = j
  <2>1. defs[j] = d /\ PassesFilter(j) /\ d # None /\ d \in JobRow
    BY <1>2, LivePasses, IInvTypes, NoneApart DEF JobRow
  <2>2. live'[j] = LiveAs(j, d, serverDefs, commandDefs)
    BY <1>1, <2>1 DEF Activate
  <2> QED BY <1>1, <1>2, <2>1, <2>2, LiveAsType
<1>3. CASE k # j
  BY <1>1, <1>3 DEF Activate
<1> QED BY <1>2, <1>3

\* So does storing a server: an edit is checked against its users, and a new
\* server had none.
LEMMA ServerStays ==
    ASSUME IInv, NEW s \in Servers, NEW d \in ServerKinds, CreateServer(s, d) \/ UpdateServer(s, d),
           NEW k \in Jobs, live[k] # None
    PROVE  live'[k] # None
<1> DEFINE defs == [serverDefs EXCEPT ![s] = d]
           e == jobDefs[k]
<1>1. Activate(Defined(jobDefs), jobDefs, defs, commandDefs)
  BY DEF CreateServer, UpdateServer, ApplyServer, RefreshJobs
<1>2. /\ e \in Offered /\ e # None /\ k \notin invalid
      /\ Resolves(e, serverDefs, commandDefs)
      /\ serverDefs[e.server] # None /\ e.server \in Servers
  BY LiveNames, DefinitionFields
<1>3. Resolves(e, defs, commandDefs)
  <2>1. CASE e.server # s
    <3>1. defs[e.server] = serverDefs[e.server]
      BY <1>2, <2>1, IInvTypes
    <3> HIDE DEF defs, e
    <3> QED BY <1>2, <3>1, ResolvesByNamed
  <2>2. CASE e.server = s /\ UpdateServer(s, d)
    <3>1. k \in UsersOfServer(s) \ invalid
      BY <1>2, <2>2 DEF UsersOfServer, Defined
    <3> QED BY <2>2, <3>1 DEF UpdateServer, UsersResolve
  <2>3. CASE e.server = s /\ CreateServer(s, d)
    <3>1. serverRows[s] = None
      BY <2>3 DEF CreateServer, CreateServerConfig, createRow
    <3>2. serverDefs[s] = None
      BY <3>1 DEF IInv, FromRows
    <3> QED BY <1>2, <2>3, <3>2
  <2> QED BY <2>1, <2>2, <2>3
<1> HIDE DEF defs
<1> QED BY <1>1, <1>3, StaysIfResolves

\* A new command had no live job using it.
LEMMA CommandStays ==
    ASSUME IInv, NEW c \in Commands, NEW d \in CommandKinds, CreateCommand(c, d),
           NEW k \in Jobs, live[k] # None
    PROVE  live'[k] # None
<1> DEFINE defs == [commandDefs EXCEPT ![c] = d]
           e == jobDefs[k]
<1>1. /\ Activate(Defined(jobDefs), jobDefs, serverDefs, defs)
      /\ commandRows[c] = None
  BY DEF CreateCommand, ApplyCommand, RefreshJobs, CreateCommandConfig, createRow
<1>2. commandDefs[c] = None
  BY <1>1 DEF IInv, FromRows
<1>3. /\ Resolves(e, serverDefs, commandDefs)
      /\ e.file # None => commandDefs[e.file] # None /\ e.file \in Commands
      /\ e.hook # None => commandDefs[e.hook] # None /\ e.hook \in Commands
  BY LiveNames, DefinitionFields
<1>4. /\ e.file # None => commandDefs[e.file] = defs[e.file]
      /\ e.hook # None => commandDefs[e.hook] = defs[e.hook]
  BY <1>2, <1>3, IInvTypes
<1> HIDE DEF defs
<1>5. Resolves(e, serverDefs, defs)
  <2> HIDE DEF e
  <2> QED BY <1>3, <1>4, ResolvesByNamed
<1> QED BY <1>1, <1>5, StaysIfResolves

\* One step takes no live job off but by its deletion or by an edited command.
LEMMA StepStays ==
    ASSUME IInv, [Next]_vars, phase' # "down",
           ~(\E c \in Commands, d \in CommandKinds : UpdateCommand(c, d)),
           NEW k \in Jobs, live[k] # None
    PROVE  live'[k] # None \/ jobRows'[k] = None
<1>1. CASE Load
  <2>1. jobDefs[k] = None
    BY <1>1 DEF Load, IInv, DownIsEmpty
  <2> QED BY <2>1, LivePasses
<1>2. CASE Start
  BY <1>2 DEF Start
<1>3. CASE Stop
  BY <1>3 DEF Stop
<1>4. ASSUME NEW j \in Jobs, DeleteJob(j)
      PROVE  live'[k] # None \/ jobRows'[k] = None
  BY <1>4, IInvTypes DEF DeleteJob, Deactivate, DeleteJobConfig, deleteRow
<1>5. CASE \E j \in Jobs, d \in Offered : CreateJob(j, d) \/ UpdateJob(j, d)
  BY <1>5, JobStays
<1>6. CASE \E s \in Servers : DeleteServer(s)
  BY <1>6, DeleteServerKeeps
<1>7. CASE \E s \in Servers, d \in ServerKinds : CreateServer(s, d) \/ UpdateServer(s, d)
  BY <1>7, ServerStays
<1>8. CASE \E c \in Commands : DeleteCommand(c)
  BY <1>8, DeleteCommandKeeps
<1>9. CASE \E c \in Commands, d \in CommandKinds : CreateCommand(c, d)
  BY <1>9, CommandStays
<1>10. CASE UNCHANGED vars
  BY <1>10 DEF vars, active
<1> QED BY <1>1, <1>2, <1>3, <1>4, <1>5, <1>6, <1>7, <1>8, <1>9, <1>10 DEF Next

----------------------------------------------------------------------------
(* The theorems.                                                           *)

\* The definitions in memory, the live jobs and the schedules keep their types
\* (Manager's fields, jobs/manager.go).
THEOREM TypeCorrect == Spec => []TypeOK
<1>1. IInv => TypeOK
  BY DEF IInv
<1> QED BY <1>1, IInvAlways, PTL

\* A restart that can read the tables would change nothing: the live jobs are
\* what the stored definitions resolve to (activateJobLocked, refreshJobsLocked).
THEOREM MemoryAgrees == Spec => []LiveIsStored
<1>1. IInv => LiveIsStored
  <2> SUFFICES ASSUME IInv, phase # "down", lost = {}, NEW j \in Jobs
               PROVE  live[j] = LiveAs(j, jobRows[j], serverRows, commandRows)
    BY DEF LiveIsStored
  <2>1. serverDefs = serverRows /\ commandDefs = commandRows /\ jobDefs = jobRows
    BY DEF IInv, AllRead
  <2>2. live[j] = LiveAs(j, jobDefs[j], serverDefs, commandDefs)
    BY DEF IInv, AllExact, Exact
  <2> QED BY <2>1, <2>2 DEF LiveAs, Resolution, PassesFilter, Resolves, TargetResolves, ResolvesServer,
       HookResolves, SourceResolves, ResolvesCommand, ParsesJob, ChecksAsBackup, ChecksAsOnChange
<1> QED BY <1>1, IInvAlways, PTL

\* The jobs called invalid are those that do not resolve, over every edit of a
\* job, a server or a command (Manager.invalid).
THEOREM InvalidExact == Spec => []InvalidIsExact
<1>1. IInv => InvalidIsExact
  <2> SUFFICES ASSUME IInv
               PROVE  invalid = {j \in Defined(jobDefs) : ~Resolves(jobDefs[j], serverDefs, commandDefs)}
    BY DEF InvalidIsExact
  <2>1. \A j \in Jobs : j \in invalid <=> jobDefs[j] # None /\ ~Resolves(jobDefs[j], serverDefs, commandDefs)
    BY DEF IInv, AllExact, Exact
  <2> QED BY <2>1, IInvTypes DEF Defined
<1> QED BY <1>1, IInvAlways, PTL

\* Once started, the running schedules are those of the live jobs with the times
\* of their current definitions (scheduleLocked, deactivateJobLocked).
THEOREM SchedulesFollow == Spec => []SchedulesAreLive
<1>1. IInv => SchedulesAreLive
  BY DEF IInv
<1> QED BY <1>1, IInvAlways, PTL

\* No edit or deletion of a server, no deletion of a command and no edit of
\* another job takes an active job off (checkUsersResolveLocked, usersLocked).
THEOREM ActiveStays == Spec => StaysActive
<1>1. IInv /\ [Next]_vars =>
        [phase' # "down" /\ ~(\E c \in Commands, d \in CommandKinds : UpdateCommand(c, d)) =>
           \A j \in Jobs : live[j] # None => live'[j] # None \/ jobRows'[j] = None]_vars
  BY StepStays
<1> QED BY <1>1, IInvAlways, PTL DEF Spec, StaysActive
=============================================================================
