--------------------------- MODULE JobDefinitions ---------------------------
(***************************************************************************)
(* The jobs manager (internal/backup/jobs, internal/backup/config): the    *)
(* definitions of jobs, servers and commands, in the database and in       *)
(* memory, and the live jobs they resolve to.                              *)
(*                                                                         *)
(* Every mutation holds the manager's lock and is one step: it checks the  *)
(* definition, writes the row, then the memory, then resolves the jobs     *)
(* that may be affected.  A mutation refused or failing at the row changes *)
(* nothing and has no action.  A start reads the three tables, and reading *)
(* any of them may fail: the manager then goes on as if it was empty.      *)
(*                                                                         *)
(* A definition is reduced to what the resolution depends on.  "invalid"   *)
(* stands for one that does not resolve by itself: it cannot be stored     *)
(* now, but a row may be left of an earlier version.  Definitions are      *)
(* edited in the web UI (webui.job-editing), not in the config file.       *)
(***************************************************************************)
EXTENDS FiniteSets

CONSTANTS Jobs, Servers, Commands,
          None,
          Offered,   \* the job definitions a user may enter
          Filter     \* -job: the one job that is activated, or None

ServerKinds  == {"local", "remote"}
CommandKinds == {"shell", "tar"}

ServerDefinition  == ServerKinds \cup {"invalid"}
CommandDefinition == CommandKinds \cup {"invalid"}

\* file: the command whose output a backup job uploads; an on-change job has
\* none.  hook: the command of a target's on-error or on-recover.  retention:
\* the target overrides its server's.  times: the schedule.
JobDefinition ==
    [kind : {"backup", "on-change", "invalid"}, server : Servers, retention : BOOLEAN,
     file : Commands \cup {None}, hook : Commands \cup {None}, times : STRING]

\* What a row may hold, entered now or left by an earlier version.
ServerRow  == ServerDefinition \cup {None}
CommandRow == CommandDefinition \cup {None}
JobRow     == Offered \cup {None}

ASSUME JobDefinitionsAssumption ==
    /\ Offered \subseteq JobDefinition
    /\ Filter \in Jobs \cup {None}
    /\ None \notin ServerKinds \cup CommandKinds
    /\ None \notin Jobs \cup Servers \cup Commands \cup Offered \cup STRING
                   \cup [definition : Offered, server : ServerKinds, commands : SUBSET CommandKinds]

VARIABLES
    serverRows, commandRows, jobRows,   \* the tables
    serverDefs, commandDefs, jobDefs,   \* the definitions in memory
    live,       \* m.jobs: what each active job resolved to
    invalid,    \* m.invalid: the jobs that do not resolve
    schedule,   \* the times of each job's running schedule
    phase,      \* "down", "loaded" or, once the jobs are scheduled, "started"
    lost        \* the tables that could not be read at this start

rows   == <<serverRows, commandRows, jobRows>>
memory == <<serverDefs, commandDefs, jobDefs>>
active == <<live, invalid, schedule>>
vars   == <<rows, memory, active, phase, lost>>

----------------------------------------------------------------------------
(* Resolution.  s and c are the definitions of the servers and commands.   *)

ResolvesServer(d)  == d \in ServerKinds
ResolvesCommand(d) == d \in CommandKinds

\* A hook's output is discarded: it must be a shell command.
HookResolves(d, c) == d.hook # None => c[d.hook] = "shell"

TargetResolves(d, s) ==
    /\ ResolvesServer(s[d.server])
    /\ d.retention => s[d.server] = "local"

SourceResolves(d, c) == d.file # None => ResolvesCommand(c[d.file])

\* The fields that are parsed on their own: kind, source, durations, times.
ParsesJob(d) == d.kind # "invalid"

ChecksAsBackup(d)      == d.kind = "backup" /\ d.file # None
ChecksAsOnChange(d, s) == d.kind = "on-change" /\ d.file = None /\ s[d.server] = "remote"

Resolves(d, s, c) ==
    /\ ParsesJob(d)
    /\ TargetResolves(d, s) /\ HookResolves(d, c)
    /\ SourceResolves(d, c)
    /\ ChecksAsBackup(d) \/ ChecksAsOnChange(d, s)

\* The resolved job holds copies of what it names.
Resolution(d, s, c) ==
    [definition |-> d, server |-> s[d.server],
     commands |-> {c[k] : k \in {d.file, d.hook} \ {None}}]

PassesFilter(j) == Filter \in {None, j}

LiveAs(j, d, s, c) ==
    IF d # None /\ Resolves(d, s, c) /\ PassesFilter(j) THEN Resolution(d, s, c) ELSE None

----------------------------------------------------------------------------
(* Activation of the jobs in js, all of them defined in defs.              *)

Reschedule(j, d, s, c) ==
    IF ~Resolves(d, s, c) THEN None
    ELSE IF PassesFilter(j) /\ phase = "started" THEN d.times
    ELSE schedule[j]

\* Mutant: A job that resolves again is still called invalid.
ActivateStillInvalid(js, defs, s, c) ==
    /\ live' = [j \in Jobs |-> IF j \in js THEN LiveAs(j, defs[j], s, c) ELSE live[j]]
    /\ invalid' = invalid \cup {j \in js : ~Resolves(defs[j], s, c)}
    /\ schedule' = [j \in Jobs |-> IF j \in js THEN Reschedule(j, defs[j], s, c) ELSE schedule[j]]

Activate(js, defs, s, c) ==
    /\ live' = [j \in Jobs |-> IF j \in js THEN LiveAs(j, defs[j], s, c) ELSE live[j]]
    /\ invalid' = (invalid \ js) \cup {j \in js : ~Resolves(defs[j], s, c)}
    /\ schedule' = [j \in Jobs |-> IF j \in js THEN Reschedule(j, defs[j], s, c) ELSE schedule[j]]

Defined(defs) == {j \in Jobs : defs[j] # None}

RefreshJobs(s, c) == Activate(Defined(jobDefs), jobDefs, s, c)

----------------------------------------------------------------------------
(* The tables.  A name taken, or not there, is an error.                   *)

createRow(table, table2, k, d) == table[k] = None /\ table2 = [table EXCEPT ![k] = d]
updateRow(table, table2, k, d) == table[k] # None /\ table2 = [table EXCEPT ![k] = d]
deleteRow(table, table2, k)    == table[k] # None /\ table2 = [table EXCEPT ![k] = None]

CreateServerConfig(s, d)  == createRow(serverRows, serverRows', s, d)
UpdateServerConfig(s, d)  == updateRow(serverRows, serverRows', s, d)
DeleteServerConfig(s)     == deleteRow(serverRows, serverRows', s)
CreateCommandConfig(c, d) == createRow(commandRows, commandRows', c, d)
UpdateCommandConfig(c, d) == updateRow(commandRows, commandRows', c, d)
DeleteCommandConfig(c)    == deleteRow(commandRows, commandRows', c)
CreateJobConfig(j, d)     == createRow(jobRows, jobRows', j, d)
UpdateJobConfig(j, d)     == updateRow(jobRows, jobRows', j, d)
DeleteJobConfig(j)        == deleteRow(jobRows, jobRows', j)

----------------------------------------------------------------------------
(* Start and end of the process.                                           *)

listRows(table, name) == IF name \in lost' THEN [k \in DOMAIN table |-> None] ELSE table

readStored ==
    /\ lost' \in SUBSET {"servers", "commands", "jobs"}
    /\ serverDefs' = listRows(serverRows, "servers")
    /\ commandDefs' = listRows(commandRows, "commands")
    /\ jobDefs' = listRows(jobRows, "jobs")

Load ==
    /\ phase = "down"
    /\ readStored
    /\ Filter # None => jobDefs'[Filter] # None
    /\ Activate(Defined(jobDefs'), jobDefs', serverDefs', commandDefs')
    /\ phase' = "loaded"
    /\ UNCHANGED rows

Start ==
    /\ phase = "loaded"
    /\ phase' = "started"
    /\ schedule' = [j \in Jobs |-> IF live[j] # None THEN live[j].definition.times ELSE None]
    /\ UNCHANGED <<rows, memory, live, invalid, lost>>

Stop ==
    /\ phase # "down"
    /\ phase' = "down"
    /\ serverDefs' = [s \in Servers |-> None]
    /\ commandDefs' = [c \in Commands |-> None]
    /\ jobDefs' = [j \in Jobs |-> None]
    /\ live' = [j \in Jobs |-> None]
    /\ invalid' = {}
    /\ schedule' = [j \in Jobs |-> None]
    /\ lost' = {}
    /\ UNCHANGED rows

----------------------------------------------------------------------------
(* Jobs.                                                                   *)

Mutable == phase # "down"

\* The manager checks against what is active, not against the tables.
validateJob(d) == Resolves(d, serverDefs, commandDefs)

ApplyJob(j, d) ==
    /\ jobDefs' = [jobDefs EXCEPT ![j] = d]
    /\ Activate({j}, jobDefs', serverDefs, commandDefs)
    /\ UNCHANGED <<serverRows, commandRows, serverDefs, commandDefs, phase, lost>>

CreateJob(j, d) == Mutable /\ validateJob(d) /\ CreateJobConfig(j, d) /\ ApplyJob(j, d)
UpdateJob(j, d) == Mutable /\ validateJob(d) /\ UpdateJobConfig(j, d) /\ ApplyJob(j, d)

Deactivate(j) ==
    /\ live' = [live EXCEPT ![j] = None]
    /\ schedule' = [schedule EXCEPT ![j] = None]

DeleteJob(j) ==
    /\ Mutable
    /\ DeleteJobConfig(j)
    /\ jobDefs' = [jobDefs EXCEPT ![j] = None]
    /\ invalid' = invalid \ {j}
    /\ Deactivate(j)
    /\ UNCHANGED <<serverRows, commandRows, serverDefs, commandDefs, phase, lost>>

----------------------------------------------------------------------------
(* Servers and commands.                                                   *)

UsersOfServer(s)  == {j \in Defined(jobDefs) : jobDefs[j].server = s}
UsersOfCommand(c) == {j \in Defined(jobDefs) : c \in {jobDefs[j].file, jobDefs[j].hook}}

\* Mutant: The check of an edited server looks at the servers as they were.
usersResolveAsBefore(users, s, c) == \A j \in users \ invalid : Resolves(jobDefs[j], serverDefs, c)

\* What resolves today must still resolve.
UsersResolve(users, s, c) == \A j \in users \ invalid : Resolves(jobDefs[j], s, c)

\* Mutant: The stored definition is applied to no job.
applyServerOnly(s, d) ==
    /\ serverDefs' = [serverDefs EXCEPT ![s] = d]
    /\ UNCHANGED <<commandRows, jobRows, commandDefs, jobDefs, active, phase, lost>>

ApplyServer(s, d) ==
    /\ serverDefs' = [serverDefs EXCEPT ![s] = d]
    /\ RefreshJobs(serverDefs', commandDefs)
    /\ UNCHANGED <<commandRows, jobRows, commandDefs, jobDefs, phase, lost>>

CreateServer(s, d) ==
    Mutable /\ ResolvesServer(d) /\ CreateServerConfig(s, d) /\ ApplyServer(s, d)

UpdateServer(s, d) ==
    /\ Mutable /\ ResolvesServer(d)
    /\ UsersResolve(UsersOfServer(s), [serverDefs EXCEPT ![s] = d], commandDefs)
    /\ UpdateServerConfig(s, d)
    /\ ApplyServer(s, d)

DeleteServer(s) ==
    /\ Mutable
    /\ UsersOfServer(s) = {}
    /\ DeleteServerConfig(s)
    /\ serverDefs' = [serverDefs EXCEPT ![s] = None]
    /\ UNCHANGED <<commandRows, jobRows, commandDefs, jobDefs, active, phase, lost>>

ApplyCommand(c, d) ==
    /\ commandDefs' = [commandDefs EXCEPT ![c] = d]
    /\ RefreshJobs(serverDefs, commandDefs')
    /\ UNCHANGED <<serverRows, jobRows, serverDefs, jobDefs, phase, lost>>

CreateCommand(c, d) ==
    Mutable /\ ResolvesCommand(d) /\ CreateCommandConfig(c, d) /\ ApplyCommand(c, d)

UpdateCommand(c, d) ==
    Mutable /\ ResolvesCommand(d) /\ UpdateCommandConfig(c, d) /\ ApplyCommand(c, d)

DeleteCommand(c) ==
    /\ Mutable
    /\ UsersOfCommand(c) = {}
    /\ DeleteCommandConfig(c)
    /\ commandDefs' = [commandDefs EXCEPT ![c] = None]
    /\ UNCHANGED <<serverRows, jobRows, serverDefs, jobDefs, active, phase, lost>>

----------------------------------------------------------------------------
Init ==
    /\ serverRows \in [Servers -> ServerRow]
    /\ commandRows \in [Commands -> CommandRow]
    /\ jobRows \in [Jobs -> JobRow]
    /\ serverDefs = [s \in Servers |-> None]
    /\ commandDefs = [c \in Commands |-> None]
    /\ jobDefs = [j \in Jobs |-> None]
    /\ live = [j \in Jobs |-> None]
    /\ invalid = {}
    /\ schedule = [j \in Jobs |-> None]
    /\ phase = "down"
    /\ lost = {}

Next ==
    \/ Load \/ Start \/ Stop
    \/ \E j \in Jobs : DeleteJob(j) \/ \E d \in Offered : CreateJob(j, d) \/ UpdateJob(j, d)
    \/ \E s \in Servers : DeleteServer(s) \/ \E d \in ServerKinds : CreateServer(s, d) \/ UpdateServer(s, d)
    \/ \E c \in Commands : DeleteCommand(c) \/ \E d \in CommandKinds : CreateCommand(c, d) \/ UpdateCommand(c, d)

Spec == Init /\ [][Next]_vars

----------------------------------------------------------------------------
(* Properties.                                                             *)

\* Every variable has its type.
TypeOK ==
    /\ serverRows \in [Servers -> ServerRow]
    /\ serverDefs \in [Servers -> ServerRow]
    /\ commandRows \in [Commands -> CommandRow]
    /\ commandDefs \in [Commands -> CommandRow]
    /\ jobRows \in [Jobs -> JobRow]
    /\ jobDefs \in [Jobs -> JobRow]
    /\ live \in [Jobs -> [definition : Offered, server : ServerKinds, commands : SUBSET CommandKinds] \cup {None}]
    /\ invalid \subseteq Jobs
    /\ schedule \in [Jobs -> STRING \cup {None}]
    /\ phase \in {"down", "loaded", "started"}
    /\ lost \subseteq {"servers", "commands", "jobs"}

\* A restart would change nothing: unless a table could not be read, the live
\* jobs are what the stored definitions, as they are now, resolve to.
LiveIsStored ==
    phase # "down" /\ lost = {} =>
        \A j \in Jobs : live[j] = LiveAs(j, jobRows[j], serverRows, commandRows)

\* Even after a table could not be read, what is called invalid is exactly what
\* does not resolve: the check of a server's edit skips the jobs called invalid.
InvalidIsExact ==
    phase # "down" =>
        invalid = {j \in Defined(jobDefs) : ~Resolves(jobDefs[j], serverDefs, commandDefs)}

\* Once the jobs are started, the running schedules are those of the live jobs,
\* with the times of their current definitions.
SchedulesAreLive ==
    phase = "started" =>
        \A j \in Jobs : schedule[j] = IF live[j] = None THEN None ELSE live[j].definition.times

\* Only its own deletion or an edit of a command takes an active job off while
\* the process runs: no edit or deletion of a server does, no deletion of a
\* command, and no other job's edit.
StaysActive ==
    [][phase' # "down" /\ ~(\E c \in Commands, d \in CommandKinds : UpdateCommand(c, d)) =>
         \A j \in Jobs : live[j] # None => live'[j] # None \/ jobRows'[j] = None]_vars

\* An edit of a command reaches every job using it: "every target using it runs
\* the new one from its next firing on" (jobs/resources.go:211).
CommandEditReachesUsers ==
    [][\A c \in Commands, d \in CommandKinds :
         UpdateCommand(c, d) => \A j \in UsersOfCommand(c) : live[j] # None => live'[j] # None]_vars
=============================================================================
