# Formal model of go-backup-tool

TLA+ modules that model the backup tool's processes and what they keep, TLC
configurations that check them on small instances, and TLAPS proofs for all
instances. Source paths below are relative to `internal/backup/`.

## 1. Inventory of the system

One process runs *jobs* (a backup command piped through gpg, or a watched
directory) against *targets* (a bucket directory on this host, or a receiver
of another instance), serves a web UI, and may itself be a receiver. It keeps
its state in one SQLite database and in directories of files.

| Component | State | Operations | Interacts with |
|---|---|---|---|
| backup runs (`pipeline/runner.go`, `pipeline.go`) | which jobs are claimed; staging files; one goroutine per target | `RunNow`, scheduled runs, `RetryFailedTargets`, `runPipeline` | status store, database, targets, target commands |
| outstanding uploads (`runner.go:719-843`, `store/jobs.go`) | database rows: job, server, staging file, retry time | one loop, every minute: list the due rows, attempt each | shares staging files, rows and status with the runs, without a common lock |
| job status (`status/status.go`) | one snapshot per job, one mutex | a method per event | written by runs, retry loop, jobs manager, startup; read by the web UI |
| jobs manager (`jobs/manager.go`) | stored definitions, resolved jobs, one scheduler goroutine per job | create, update, delete, scheduling hand-over | runs (through lookup), status, database |
| on-change jobs (`pipeline/onchange.go`, `watch.go`) | per file: size, time, hash, targets that have it; pending change batch | scan, upload, watcher events, debounce | database, targets, claim of the job |
| object store (`objectstore/`) | object and version files; retention rows | write, list versions, sweep | targets, receivers |
| receiver (`receiver/`) | received objects, limits, last-seen times, stale flags | upload, download, stale monitor, retention | object store, remote authentication |
| remote authentication (`remoteauth/`) | used request ids with their expiry | sign, verify, replay check | receiver, peer status |
| notifications (`notify/`) | queue of mails that failed | send, queue, retry | reports, receiver, runs |
| reports (`reporter/`, `report/`) | settings in effect; end of the last window | wait for time or change, build, send | logs of runs and events, mail queue |
| logs of runs and events (`store/jobs.go`, `events.go`, `log_retention.go`) | rows | record, query a window, prune by age and number | runs, receiver, reports, start |
| peer status (`peerstatus/`) | next and last push; pushed statuses in memory and in a table | push on change and on time; record, forget | status stores, settings, remote authentication, dashboards |
| settings, trust, identity, configuration | rows and resolved objects under one lock each | create, update, delete, parse | everything |
| web UI (`webui/`) | logouts, tickets, streams, the shared live message, rate limits | HTTP handlers, live streams | everything |
| target commands and failure notices | none | a command or a mail after a run | runs |
| gpg, docker, tar, telemetry, permission; frontend | none | wrappers, rendering | |

What is hard here: a run, the retry loop and an edit of the job interleave
freely on the same rows, files and status entries; a process may be killed
between any two of their steps; uploads may arrive although they failed.
`PROJECT.json` lists each such hazard at its line.

Behaviours that are hard in the other components: a schedule replaced while
its predecessor is in a run; a file written while it is hashed, encrypted and
uploaded, and uploads of it that arrive late; a retention sweep beside
uploads to the same paths, and a crash between a file and its row.

What makes the core correct: nothing owed to a target is forgotten before the
target has it; no staging file outlives its last user or disappears before;
what the status shows is what happened, on the right target; no job stays
shown as running. Of a job's schedules one is at work, no two runs of a job
overlap, and a repeating job goes on for as long as it exists. What is
recorded of a target's file is what its newest version contains, and no
change is skipped. Retention removes what is expired and nothing else, an
immutable object is never replaced, and a sender that stops is noticed.

Around the core: what is live is what is stored, and nothing that is named is
deleted; a session that was ended is rejected, and none that was not; a status
change reaches the central instance and the dashboards in time; every run and
request is reported once, and no mail is lost.

## 2. Modules

| Module | Models | State in the code |
|---|---|---|
| `JobStatus` | methods of `status.Store` as operators on one job's snapshot; each holds the store's mutex, so each is one step of its caller | `JobSnapshot` |
| `BackupRuns` | one job's runs, its retries of failed targets, the loop of outstanding uploads, edits, crashes | run goroutine (`phase`, `runJob`, `staged`, `left`), target goroutines (`up`), loop (`loop`, `due`, `cur`), rows, staging directory, status |
| `Delivery` | the promise: an upload once owed stays owed until the target has the file, or something lets the job off | |
| `BackupRunsDelivery` | `BackupRuns` implements `Delivery`: owed is what goroutines still have to upload, and the rows | |
| `JobScheduler` | one job's schedules: the manager's edits, hand-over from one scheduler goroutine to the next, watchers, "run now" | `Manager.schedules`, `ScheduleLive` and `watchOnChange` goroutines, the claim of `Runner`, `NextRun` |
| `JobDefinitions` | definitions of jobs, servers and commands, and the live jobs they resolve to | three tables; the manager's definitions, jobs, invalid jobs and schedules |
| `References` | what names what: receivers, trusted servers, notifications, the report, a job | three managers' tables and live registries; requests in flight |
| `FileVersions` | versions a directory receiver keeps of a file, as operators | the `.gbtv` folder |
| `OnChange` (uses `FileVersions`) | an on-change job's scans, its watcher's batches, workers, rows, and the receivers' version folders | `onChangeRun`, `sourceWatcher`, `onchange_files` |
| `BackupReceiver` | one receiver's uploads, retention monitor, stale monitor, restarts | the object directory, `objects` rows, requests in flight, `staleReceiverMonitor` |
| `WebSessions` | single sign-on's logouts, tokens, live tickets and streams | the logouts in memory and their table, live tickets, a stream's two goroutines |
| `StatusPusher` | the loop that pushes the status to the central instance | the pusher's variables, change channels, settings |
| `PeerHub` | the central instance's reception of pushes, and the live dashboards | the hub's memory and table, the used tokens, the shared message, a stream's loop |
| `RunLog` | rows of runs and of received requests, queries, pruning | the tables of job runs and receiver events |
| `MailQueue` | mails that failed | `notify.Queue` |
| `Reports` (composes `RunLog`, `MailQueue`) | the report's loop | the variables of `Reporter.Run`, `report.Live` |
| `MC...` | instances for TLC | |
| `..._proofs` | theorems | |

Database statements, file system calls and methods under a mutex are one
action each, so the models interleave where the code may: between deleting a
row, counting the file's other rows and unlinking; between listing expired
paths and removing each; between hashing, encrypting and uploading a file;
between recording a push in memory and in its table; between taking a change
channel and reading what it guards.
Operators whose name or comment says *mutant* are plausible mistakes in the
operator after them; the properties were tested against them.

`BackupRuns`. A run forks a goroutine per target; the loop ticks on its own.
Simplifications: one job; a source is a number; the staging file's random name
is the pair of run and source; times are absent, so a tick may list any set
of rows (each may have been rescheduled or added within the last minute) and
take them in any order; a row remembers the target it was recorded for, of
which the code, and so every action, sees the server only. A graceful
shutdown is not modelled; a crash is. Every schedule goes through the claim,
so `RunNow` stands for a scheduled run too. One retry request is pending at a
time. The commands run for a target after a run are the phase `hooks`.
`Earlier` is what runs of an earlier process may have left in the database
and the staging directory. `DbErrors` names the statements that may fail:
those on outstanding uploads, those that save and read outcomes.

Where the code does not keep a promise to the letter, history variables, which
no action reads, say exactly where, so that the properties hold everywhere
else. `excused` holds single uploads that the code stops to care for, each by
one of five `Causes`: `restart` (only goroutines knew of it), `unrecorded` (its
row was not written), `unlisted` (the job, or its target on that server, is
gone), `bucket` (the loop sent it to another bucket of the server),
`overlooked` (the loop counted the rows of its file while a goroutine had yet
to send it). `displaced` holds the targets to which an edit gave another place
in the list while a run, or the request for one, was on; `leaked` the staging
files whose removal a crash or a failed statement prevented; `summed` says
whether the state was computed since the last edit or restart.

`JobScheduler`. Every schedule ever started has a number and stays in the
model until its goroutine has ended. What a run does is one step (`run`).
Time is left out: a wait may end at any moment.

`JobDefinitions`. Every mutation holds the manager's lock and is one step. A
definition is reduced to what resolution depends on: its kind, the server and
the commands it names, whether it overrides the retention, and its times.
`"invalid"` is a row of an earlier version that does not resolve by itself. A
start reads three tables, of which any may be unreadable; the manager then
goes on as if it were empty (`lost`).

`References`. The three managers have a lock each; a check of one against
another's registry is made outside its own lock, so a request is a process of
several steps (`request`). `overlapped` records whose definition was stored
while what it names was being deleted; the properties excuse those and no
others. What an entry needs outside the rows is one bit, the smtp server of
the configuration file. Each of the tables may be unreadable at a start.

`OnChange`. The size and modification time of a file are one stamp that each
change advances. A file is opened twice (to hash it, to encrypt it), and the
code checks the stamp between; users write in between. An upload may fail,
succeed, succeed without a row, or go unanswered and arrive at any later
time. The watcher's queue may overflow, which makes the next run a scan.

`BackupReceiver`. Each upload is a request in thirteen places (`pc`); the
retention monitor is one process, with the list it read and the path it is
at. A backup is the time it was created. A clock ticks, at most once between
two checks of the stale monitor; its unit is long enough for that, and
durations are rounded down to it. History variables (`raced`, `untracked`,
`crowded`, `arrived`, `alerted`) record what properties have to excuse and
guide no action.

`WebSessions`. A token is who it is for, when it was issued and the session
it names, if any; signatures, claims and permissions are left out. The
provider's sessions and the logouts it sends are the environment; a logout may
arrive late, or never, and may not be stored. `known` is
the history of the logouts in effect, against which the condensed record is
compared.

`StatusPusher`. Time is counted in ticks from now; the loop takes no time but
for its request. A store's channel is closed by the first change after it was
taken.

`PeerHub`. A push is its number; who signed a request is taken from the
signature. Every handler is a process of several steps. Of the stores a
dashboard watches only the pushed statuses are modelled. Trust is
withdrawn and returned without closing a channel, as in the code.

`RunLog`, `MailQueue`, `Reports`. An entry has a kind, a time and a place
(in memory until stored); a job has one run at a time that is not stored, as
it holds the claim, requests have any number. A cron schedule is due at fixed
times, `@every` that long from now. Windows are half-open. A query may fail, and an
entry may be stored after the window it belongs to was counted: `excused`. An
error in sending a mail does not say whether it arrived (QUIT is answered
last), so what is `owed` is what is not known delivered.

## 3. Runs

| Run | Instance | Shows |
|---|---|---|
| `runs_deleted` | 1 file, 2 targets that are buckets of one server, 1 run, deletion and re-creation of the job, 1 crash, failing statements on outstanding uploads | staging files are owned (`NoStagingLeak`), an outstanding upload has its file unless it was overlooked (`RowHasFile`), a success in the database was one (`OkWasEarned`), no upload is forgotten but for a named cause (`OwedUntilDelivered`, the refinement of `Delivery`) |
| `runs_edited` | 1 file, 2 targets on 2 servers, a failed run before and its outstanding upload, 1 run in full or for the failed target, edits that remove the second target and add it again between any two steps, the retry loop | nothing that kept its place stays running (`NoStuckRunning`), a retry touches the targets asked for (`RetryTouchesOnlyAsked`), the state shown adds up (`JobStateSumsUp`) |
| `runs_live` | 2 files, 1 target, lost answers, outcomes that cannot be saved, fairness | `EventuallyDelivered` |
| `sched_live` | 3 schedules over five definitions (one-shot, repeating on a grid, on-change watched or not, another source), 1 request to run now, fairness | one scheduler at a time (`OneScheduler`), no overlapping runs (`RunsExclusive`), a schedule that waits shows a next run (`NextRunShown`; whose slot it is, is not kept), a job that repeats keeps running (`KeepsRunning`), a deleted job's goroutines end (`DeletedJobEnds`) |
| `definitions` | 2 jobs, 2 servers, 2 commands, 4 definitions, any rows at a start, unreadable tables | what is live is what is stored (`LiveIsStored`), what is called invalid is what does not resolve (`InvalidIsExact`), only its own deletion or a command's edit takes an active job off (`StaysActive`) |
| `references` | 2 notifications, 1 trusted server, 1 receiver, 2 requests at a time, restarts with and without smtp | what is named is not deleted (`NothingDangles`), what is active comes back (`ActiveSurvivesRestart`) |
| `onchange` | 1 file with 2 contents and none, 1 target, 2 changes, 1 unanswered upload, 1 restart or edit, a queue of one path, fairness | a scan skips nothing that changed (`SkipIsSound`), what is recorded is the newest version (`ConfirmedIsNewest`), no event is dropped (`OwedIsKnown`), `EventuallyRecorded` |
| `receiver` | 2 files of one backup, 2 uploads, 3 points in time, 1 failure or restart, with a quota of one or immutable, fairness | `TrackedAsCreated`, `WithinQuota`, `NeverOverwritten`, `SweptOnlyExpiredAlone`, `EventuallySwept`, `EventuallyAlerted` |
| `sessions` | 2 sessions of a user, 1 token at a time, 1 stream, 4 points in time, restarts, fairness | the condensed record rejects what a logout covers and nothing else (`EndedIsExact`), the stream of an ended session is closed (`EndedStreamCloses`) |
| `pusher` | 2 stores, intervals of 3 and 7 ticks, a delay of 1, a gap of 2, a timeout of 5: the order of 10 s and more, 2 s, 5 s and 30 s | no change waits longer than a request and the longer of delay and gap (`PushedSoon`), no interval and request go by without a push (`HeartbeatKept`) |
| `hub` | 1 instance, 2 dashboards, 1 push that is repeated, late or lost, 1 change of trust, 1 restart, fairness | a push is accepted once (`AcceptedOnce`), memory and table agree (`RowsFollow`), no change falls between a snapshot and the wait (`NothingMissed`), what no channel tells of is shown in the end (`LiveCatchesUp`) |
| `reports` | 2 entries, 4 points in time, a cron and an `@every` schedule, pruning by age and by number, mails that fail | every entry is reported once (`ReportedOnce`), no mail is lost (`MailNotLost`), pruning keeps what a restart reads (`LastRunKept`) |

Disagreements met. In these places the code does not do what a comment or
document says. None of them is in a run; each property stands in its module,
and TLC finds the counterexample when it is the only property of the named
configuration, with the change given.

| Property, and how to see it fail | What happens |
|---|---|
| `SentRowWasDelivered`: `runs_deleted` | two buckets of one server are "distinct targets" (`pipeline/runner.go:64`), but a row names the server and its retry takes the first of them (`runner.go:780`): a failed upload to the second is retried into the first, and forgotten (cause `bucket`) |
| `RowKeepsFile`: `runs_deleted` | a staging file stays while "a still-outstanding target upload" needs it (`pipeline/pipeline.go:51`) and "one target's failure never affects" another (`:89`), but the count sees rows only (`:58`): the retry of one target's upload succeeds and removes the file before a slower target has opened it (cause `overlooked`) |
| `OutcomeOnOwnTarget`: `runs_edited`, `JobLists <- FirstRemoved` | outcomes are "index-aligned with the job's targets" (`status/status.go:335`), but a run reports by index into the definition it began with (`pipeline/runner.go:424`) while `Upsert` may replace the list |
| `CreatedJobRuns`: `sched_live`, `Definitions <- OneShot`, `MaxSchedules = 2` | a new job "without a start-time ... runs right away" (`jobs/manager.go:571`); created while a run of its predecessor holds the claim it skips its only slot (`runner.go:237`) and never runs |
| `SkippedIsHeld`: `onchange`, `SPECIFICATION Spec`, `MaxLost = 0`, `MaxRestarts = 0` | a row that could not be written "only costs a re-upload next time" (`pipeline/onchange.go:438`); when the file is reverted the next scan finds the old row and sends nothing, and the target keeps the other content |
| `SweptOnlyExpired`: `receiver`, `SPECIFICATION Spec`, `Paths = {p1}`, `Folders = {}`, `FolderOf <- FlatObject`, `Receivers <- Mutable`, `MaxFailures = 0` | the sweep deletes files "past its retention window" (`objectstore/retention.go:84`, also `README.md:17`), by a list read before (`:152`): a backup just uploaded to a listed path goes too, with its row |
| `NeverOlder`: the same | a key without `{time}` leaves "only the most recent backup" (`runner.go:857`); the retried upload of an earlier run replaces that of a later one (`objectstore/localobject.go:135`) |
| `CommandEditReachesUsers`: `definitions` | "every target using it runs the new one" (`jobs/resources.go:211`); a job that does not resolve with the new command is taken off, as only an edit of a server checks its users |
| `AllowedIsStored`: `references` | a trusted server's deletion is refused "while a stored receiver still allows it" (`trust/manager.go:194`); a receiver checked before the deletion (`receiver/config.go:166`) is stored after it |

One more has no property: a target may stay shown as failed although the loop
delivered its file, when the loop reports before the run does
(`runner.go:827`).

Bounds. Two targets are needed for a staging file with two users, and for a
bucket that is not the first of its server; a run and what an earlier one left
are a stale row against a new run; three schedules for a hand-over whose
predecessor itself waits for one. Two changes of a file are one between two
reads and one back to the old content. Two uploads make a race with each
other, one of them with the sweep; the second may replace the first. With
`MaxTime = 2` and `Retention = 1` a backup lives through a tick and expires
at the next; with `StaleAfter = 0` the alert is due before. A failure and a
restart share one budget, so every run contains any one of them at any place.

`definitions` and `references` count nothing: two of each kind are one that is
edited or deleted and one that stays, and the four definitions use every rule
of resolution (retention on a local server only, a source command, a hook, an
on-change job). Two requests make the overlap of a check and a deletion. In
`sessions` the points in time let a logout fall before, in and after the life
of a token and be pruned. In `pusher` one interval lies between gap and
timeout and one above both, and time is not bounded, as it is counted from now. One push and
its repetition, with a restart, are what the used tokens are remembered for;
two clients are one that builds the message and one that shares it. Two
entries are one in each of two windows, or a run and the older one pruned
beside it; the two schedules have windows of their own and an edit from one to the other
between them.

Fairness.

* `runs_live`: weak fairness of the run and of the loop, as Go schedules
  every goroutine that can run; strong fairness, per row, of a tick that lists
  it (the ticker fires every minute and a row is due after one) and of a retry
  that succeeds (the promise is "until it succeeds", so it needs a target that
  does not refuse for ever). Nothing is assumed of users, edits or crashes.
* `sched_live`: every goroutine takes its next step: a wait ends, a run ends,
  a stopped watcher leaves, a request that is under way ends. Nothing makes a
  watcher see a change. `CHECK_DEADLOCK FALSE`, since a one-shot job's
  schedule, or a deleted job's, really ends.
* `onchange`: scans begin again and again (the job has an interval: strong
  fairness, as the job may be busy in between), runs end, and reading a file,
  gpg, the receiver and the database do not fail for ever. Nothing is assumed
  of the watcher.
* `receiver`: the clock goes on, the two monitors' timers fire, a request
  once begun takes its next step. Nothing makes a sender upload.
* `sessions`: the goroutine beside a stream takes its next step. Nothing makes
  a logout arrive. `CHECK_DEADLOCK FALSE`, as the clock is bounded and users
  need not do anything.
* `hub`: time passes, each client's loop takes its next step, and nobody waits
  for the lock of the message for good (strong fairness: another client may
  hold it again and again).

## 4. Proofs

All from the modules' named assumptions on their constants. Each theorem
module states an inductive invariant, checks it against `Init`, against each
action in turn, and derives the property. The type invariants of `BackupRuns`,
`JobScheduler`, `BackupReceiver`, `JobDefinitions` and `StatusPusher` are
proved, and with them `GroupedByMarker`, `SchedulesAreLive`,
`AtWorkWhileActive`, `NoWakeUpIsLost`, `RejectedStaysRejected` and
`ListsWhatExpired`; no run checks these eleven again, though TLC finds them to hold on the runs' instances.

* `BackupRuns_proofs`. No theorem assumes anything of users, crashes, the
  database or the servers of the targets; where the code does not keep its
  promise, a history variable in the property says so. The module begins with
  the operators of `JobStatus`: each maps snapshots to snapshots.
  * `TypeCorrect`: `Spec => []TypeOK`. The inductive invariant adds
    `ControlOK`, which ties each process's program counter to its data (a
    goroutine has files left exactly while it sends; the loop has a row, a
    target of that row's server, and a job, exactly while it works on one).
  * `NothingLeaks`: `Spec => []NoStagingLeak`, for any number of targets,
    including two of one server; inductive relative to the first invariant.
    The interesting step is the loop's, which removes a row first and looks
    at the file after.
  * `RowsKeepFiles`: `Spec => []RowHasFile`. `RowInv` adds that what the
    goroutines have yet to send is on disk or overlooked, that a file a run has
    not finished with is there, and that the loop, at its removal, holds a file
    that nobody needs but those it overlooked.
  * `RunsComeToRest` (`NoStuckRunning`) and `RetriesAreNarrow`
    (`RetryTouchesOnlyAsked`). The invariant `Aligned` says that the snapshot is
    of the job's definition and that a target that is not displaced has one
    place, the same in the definition of the run; `Quiet` that what is shown
    running is displaced or has a goroutine that has not reported (`Pending`).
  * `StateSumsUp` (`JobStateSumsUp`), inductive relative to the first
    invariant. An edit exchanges targets below a state that stays, and a
    restart seeds the state from the last run and the targets from rows of
    their own; both end what the property claims, until a run or a recovery
    computes the state again.
  * `OkIsEarned` (`OkWasEarned`): a goroutine without a failure has sent each
    file it is done with (`AllEarned`), and it saves under the server of the
    list the run began with, whatever place the target has by then.
  * `RunsDeliver`: `OwedUntilDelivered`, the refinement of `Delivery`.
    `DeliveryInv` says that what the loop drops it has sent, or it is excused,
    and `RowInv` that a row whose file is gone was overlooked. A send is
    `Deliver`, or `Divert` if it goes to another bucket; a restart, a row that
    is not written, a row the job no longer lists and a count that overlooks a
    goroutine are `Excuse`; the deletion of a row is `Settle`, everything else
    but `BeginUploads` (`Owe`) is a stutter.
* `JobScheduler_proofs`, for any number of schedules and requests:
  `SchedulesHandOver` (`OneScheduler`), `RunsNeverOverlap` (`RunsExclusive`)
  and `WaitingIsShown` (`NextRunShown`). The invariant says that every
  schedule but the newest is stopped, and that a schedule past its hand-over
  means all before it have ended, watcher and all. `ActiveIsScheduled`
  (`AtWorkWhileActive`): an active job has exactly one schedule that was not
  stopped, the newest, for its present definition, and if that repeats it is
  not over; a job that was deleted has none.
* `JobDefinitions_proofs`, for any jobs, servers, commands and definitions.
  The invariant: each live or invalid job is exactly what its definition
  resolves to by the servers and commands in memory (`Exact`); memory is a
  part of the tables (`FromRows`), all of it if all were read (`AllRead`).
  The core lemmas say that a definition resolves by the entries it names
  alone, and that activating the users of an entry makes all jobs exact.
  * `TypeCorrect`, `MemoryAgrees` (`LiveIsStored`), `InvalidExact`
    (`InvalidIsExact`), `SchedulesFollow` (`SchedulesAreLive`).
  * `ActiveStays` (`StaysActive`): the check of an edit against its users is
    made of the same jobs that are activated afterwards.
* `References_proofs`, for any number of requests at a time: `NamedIsKept`
  (`NothingDangles`) and `ActiveComesBack` (`ActiveSurvivesRestart`). The
  invariant speaks of each deletion under way: what it has found unused is
  named by no entry that was not stored meanwhile (`NotDeleted`); what is
  active is stored, with what it resolves by (`Registered`,
  `ActiveIsStored`).
* `OnChange_proofs`, for any files, targets and contents, any capacity of the
  watcher's queue, any number of changes, lost answers and restarts:
  * `SkippingIsSound` (`SkipIsSound`): where a stamp is the file's, in a row or
    in work under way, so is the content read under it (`Stamped`).
  * `RecordedIsNewest` (`ConfirmedIsNewest`): versions are numbered upwards
    and the sweep keeps the newest (`Numbered`), an upload still on its way
    belongs to a pair given up as unsure (`GivenUp`), and so it is with what a
    run read from the rows at its start (`KnownIsNewest`), even if the rows
    were deleted since.
  * `ChangesAreKept` (`OwedIsKnown`): a file that changed after a run listed
    it is in the watcher's queue or batch (`Overtaken`), and what a run passes
    over is not owed, by the first theorem.
* `BackupReceiver_proofs`, for any number of files, folders and uploads, any
  clock, any budget of failures, with or without a quota, immutable or not:
  * `TypeCorrect`: `Spec => []TypeOK`, which is inductive by itself: the
    folders of objects and of temporary files exist because `os.Remove` keeps
    a folder that is not empty.
  * `ObjectsStay`: `NeverOverwritten`; `os.Link` decides, not the look before
    the body.
  * `ObjectsTracked` and `OnlyExpiredSwept`, from the invariant `Tracking`:
    beside `TrackedAsCreated`, an upload that has placed its file and not
    recorded it is the only one on its path and no sweep is at that path
    (`PlacedAlone`), the file the sweep is at is gone before its row is
    (`SweptGone`), and what is listed stays expired (`ListedOld`). Each speaks
    of the paths outside `raced`, where steps of two actors did overlap.
    `SweepListsExpired` (`ListsWhatExpired`): the rows' list is that of the
    expired objects, none left out and none added.
  * `FilesGrouped`: `GroupedByMarker`, from `Grouping`: an occupied folder has
    its marker, and the sweep is at a marker only in an unoccupied folder.
  * `QuotaHolds`: `WithinQuota`, from `Room`: unless two uploads measured side
    by side, at most one has measured, and what is stored has room for its
    object.
* `LiveStatus_proofs`, the way of a status from an instance to a browser. It
  extends three modules that share no variable, with an invariant for each:
  * `StatusPusher`, for any stores, intervals and delays: `PusherTypeCorrect`,
    `ChangesPushedSoon` (`PushedSoon`) and `HeartbeatNeverLate`
    (`HeartbeatKept`). The invariant adds the time that is left to the time
    that has gone by (`ChangeInTime`, `PushInTime`): a tick takes from one what
    it gives the other, and no new change puts a planned push off.
  * `PeerHub`, for any instances, pushes, clients and restarts:
    `TokensAreUsedOnce` (`AcceptedOnce`), since what was accepted is among the
    used tokens until it has expired (`Remembered`); `MemoryIsStored`
    (`RowsFollow`), since of an instance that is not disturbed one handler at
    a time is between memory and row, and it will write what memory holds
    (`OneHandler`); `ClientsMissNothing` (`NothingMissed`), since every
    message, shared or a client's own, agrees with the stores while the
    channels taken before it are open (`Current`).
  * `WebSessions`, for any users, sessions, lifetimes and restarts:
    `LogoutsAreHonoured` (`EndedIsExact`). A logout comes after every token
    that names its session (`LogoutsAreLast`), so its `Retention` outlasts all
    tokens it covers (`Life <= Retention`, which `webui/backchannel.go:44`
    demands of the provider); each logout in effect is then outlasted or part of what is condensed, and
    each time remembered is that of a logout in effect (`SessionsRemember`,
    `SubjectsRemember`). An action property follows, `SignedOutForGood`: while
    the process runs, a rejected token stays rejected. `NoStreamOversleeps` is
    the safety part of `EndedStreamCloses`: a stream that waits and was not
    woken is of a session that has not ended.
* `Reports_proofs`, for any number of entries, any schedules and edits:
  * `ReportsOnce` (`ReportedOnce`): windows follow one another (`InOrder`), an
    entry reported lies before the end of the last one (`OnceOnly`), each
    entry of a past window that was stored in time is reported
    (`AllReported`), and the sections counted so far hold all that is stored of
    the window (`CountedSoFar`).
  * `LastRunStays` (`LastRunKept`): neither limit removes the newest run or
    the newest success.
  * `MailWaits` (`MailNotLost`): the parts of the queue and of a retry in
    progress hold each mail once (`Parts`).

Every invariant and every action property without fairness that a run checks
is proved. Only model-checked: liveness, since fairness and `ENABLED` are out
of the prover's reach; of `KeepsRunning`, `DeletedJobEnds`, `EndedStreamCloses`, `EventuallySwept`,
`EventuallyRecorded` and `EventuallyDelivered` the safety parts named above are
proved (`ActiveIsScheduled`, `NoStreamOversleeps`, `SweepListsExpired`,
`ChangesAreKept`, `RunsDeliver`), of `EventuallyAlerted` and `LiveCatchesUp`
there is none. Where a module's type invariant is not a theorem of its own, the
proofs restate it as far as they need it.

## 5. Not modelled, and why

* Commands run for failed targets and failure notices (`pipeline/onerror.go`,
  `failure_notify.go`): they follow a run and keep no state of their own.
* The process chain that fills a staging file (`pipeline/pipeline.go:237-500`,
  `tarball`, `dockerexec`, gpg): one step that succeeds or fails.
* Several watched files and targets are proved about, but one of each is
  checked; directories moved into or out of the watched tree are left out.
* Jobs defined in the configuration file, and the conversion between forms and
  definitions: of the configuration only what resolves and what does not is
  modelled, not the parsing of fields.
* Local targets sweep after each of their own writes; the race with uploads
  is the receiver's, with several sweepers (`BackupReceiver` has one).
* Restores, downloads, their tickets and notices; listings.
* Web UI beyond logouts, tokens, tickets and streams: the single sign-on
  dance, API tokens, rate limits, the audit log, pages.
* The layout of a report and its PDF, its history; webhooks and the texts of
  messages.
* Settings of single sign-on and of the log file, the import and export of a
  settings file; key material and its parsing. A signature is taken to say who
  signed.
* Telemetry, permission, HTTP plumbing, frontend: wrappers of external
  programs, I/O or rendering without state of their own. `app` is wiring; its
  start, stop and daily pruning are actions of the modules.

Hazards of `PROJECT.json` that no run's property covers: a one-shot job
created during its predecessor's run (`CreatedJobRuns`), a retried upload that
replaces a newer one (`NeverOlder`) and a command's edit that takes a job off
(`CommandEditReachesUsers`) are stated and fail, as section 3 shows; a file
that loses its marker to a sweep (`GroupedByMarker`) is proved.
Three more are covered but for an exception that the code makes and the
property names: a server with two buckets (`pipeline/runner.go:780`), a file
whose rows are counted too early (`pipeline/pipeline.go:66`), an edit during a
run (`pipeline/runner.go:424`).

A few risks of the code have no property, since nothing in it claims the
contrary, and are excused where they occur: a temporary file that a crash
leaves (`objectstore/localobject.go:93`), a failed upload that could not be
recorded (`pipeline/pipeline.go:701`; `DbErrors`), a watched file whose upload
failed in a job without an interval (`pipeline/runner_onchange.go:70`;
`excused`), the first report window after a restart (`reporter/reporter.go:108`),
and a start that cannot read a table (`jobs/manager.go:303`; `lost`).

## 6. What is left

1. Commands run for failed targets: streaks, and at most one notice per
   streak.
2. The staging pipeline: which end of the chain fails first, and what is left
   of the file then.
3. Rate limits, download tickets and restores.
4. The arithmetic of schedules on a grid (next slot after a time, over
   restarts), against a reference definition.
5. A local target's own sweep beside the uploads of the same job.
