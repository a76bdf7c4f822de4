SPECIFICATION Spec
CONSTANTS
    MaxTime = 3
    MaxEntries = 2
    Retentions <- Limits
    EventRetention = 1
    Schedules <- CronAndEvery
    Day = 3
INVARIANTS
    ReportedOnce
    MailNotLost
PROPERTIES
    LastRunKept
