----------------------------- MODULE MCReports ------------------------------
(* Reports with a schedule of each kind, one of them once a day.           *)
EXTENDS Reports

CronAndEvery == {[every |-> 3, kind |-> "cron"], [every |-> 2, kind |-> "@every"]}

\* By number, by age, and not at all.
Limits == {[days |-> 0, rows |-> 1], [days |-> 1, rows |-> 0]}
=============================================================================
