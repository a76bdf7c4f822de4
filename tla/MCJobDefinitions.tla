-------------------------- MODULE MCJobDefinitions --------------------------
(* JobDefinitions with two jobs, two servers and two commands, and         *)
(* definitions that use each rule of the resolution.                       *)
EXTENDS JobDefinitions, TLC

CONSTANTS j1, j2, s1, s2, c1, c2

MCOffered ==
    {[kind |-> "backup", server |-> s1, retention |-> TRUE, file |-> c1, hook |-> None, times |-> "hourly"],
     [kind |-> "backup", server |-> s1, retention |-> FALSE, file |-> c1, hook |-> c2, times |-> "daily"],
     [kind |-> "on-change", server |-> s2, retention |-> FALSE, file |-> None, hook |-> c1, times |-> "hourly"],
     [kind |-> "invalid", server |-> s2, retention |-> FALSE, file |-> c1, hook |-> None, times |-> "hourly"]}
=============================================================================
