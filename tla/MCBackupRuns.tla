---------------------------- MODULE MCBackupRuns ----------------------------
(***************************************************************************)
(* Instances of BackupRuns for TLC.                                        *)
(***************************************************************************)
EXTENDS BackupRunsDelivery

CONSTANTS s1, s2, t1, t2

\* One server for each target.
OwnServers == [t \in Targets |-> IF t = t1 THEN s1 ELSE s2]

\* Both targets are buckets of one server.
SharedServer == [t \in Targets |-> s1]

OneTarget == {<<t1>>}

\* The second target is removed from the job and added again, which leaves the
\* first in its place; or the first, which does not leave the second in its.
OneOrTwoTargets == {<<t1, t2>>, <<t1>>}
FirstRemoved == {<<t1, t2>>, <<t2>>}

\* The job is deleted and created again.
TwoTargetsOrNone == {<<t1, t2>>, NoJob}

\* An empty database.
Fresh == {[runs |-> 0, saved |-> [s \in Servers |-> "none"], lastRun |-> "none", rows |-> {}]}

\* One run went before, whose upload to t1 failed.
OneFailed == {[runs |-> 1, saved |-> [s \in Servers |-> IF s = ServerOf[t1] THEN "failed" ELSE "ok"],
               lastRun |-> "failed", rows |-> {[origin |-> t1, file |-> [run |-> 1, file |-> 1]]}]}

=============================================================================
