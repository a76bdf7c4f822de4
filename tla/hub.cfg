SPECIFICATION FairHubSpec
CONSTANTS
    Peers = {p}
    Clients = {c1, c2}
    MaxPushes = 1
    MaxTrust = 1
    MaxRestarts = 1
INVARIANTS
    AcceptedOnce
    NothingMissed
    RowsFollow
PROPERTIES
    LiveCatchesUp
