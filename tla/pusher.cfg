SPECIFICATION Spec
CONSTANTS
    None = None
    Stores = {jobs, receivers}
    Intervals = {3, 7}
    Coalesce = 1
    MinGap = 2
    PushTimeout = 5
INVARIANTS
    PushedSoon
    HeartbeatKept
