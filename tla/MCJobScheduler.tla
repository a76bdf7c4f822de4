--------------------------- MODULE MCJobScheduler ---------------------------
(***************************************************************************)
(* Instances of JobScheduler for TLC.                                      *)
(***************************************************************************)
EXTENDS JobScheduler

Backup(interval, grid) == [interval |-> interval, grid |-> grid, source |-> "", watch |-> FALSE]
OnChange(interval, source, watch) ==
    [interval |-> interval, grid |-> FALSE, source |-> source, watch |-> watch]

\* A backup job, one-shot or on a start-time, made an on-change job, watched
\* or not, whose source moves.
AnyJob == {Backup(0, FALSE), Backup(1, TRUE), OnChange(1, "a", TRUE), OnChange(1, "a", FALSE), OnChange(0, "b", TRUE)}

OneShot == {Backup(0, FALSE)}

=============================================================================
