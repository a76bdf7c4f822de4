---------------------------- MODULE MCReferences ----------------------------
(* References with two notifications, a trusted server, a receiver and two *)
(* requests of the web UI at the same time.                                *)
EXTENDS References, TLC

CONSTANTS n1, n2, p1

MCReceiverDefs == {[peers |-> {p1}, notes |-> {}], [peers |-> {p1}, notes |-> {n1}]}

MCReportDefs == {[enabled |-> TRUE, notes |-> {n1, n2}], [enabled |-> FALSE, notes |-> {n2}]}

MCJobRefs == {{}, {n1}}
=============================================================================
