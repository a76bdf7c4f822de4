SPECIFICATION Spec
CONSTANTS
    n1 = n1
    n2 = n2
    p1 = p1
    None = None
    Notes = {n1, n2}
    Peers = {p1}
    Receivers = {r1}
    Requests = {q1, q2}
    ReceiverDefs <- MCReceiverDefs
    ReportDefs <- MCReportDefs
    JobRefs <- MCJobRefs
INVARIANTS
    
    ActiveSurvivesRestart
