SPECIFICATION FairSpec
CONSTANTS
    Ids = {i1, i2}
    Processes = {p1, p2}
    Requests = {r1}
    Codes = {"success", "rate_limited", "ssh_timeout"}
    Settings <- ShortAndLong
    Defaults <- LongAudit
    SessionLength = 1
    Hours = 2
    MaxTime = 2
    CommitLag = 1
    MaxUpdates = 1
    MaxFailures = 1
    Nothing = Nothing
INVARIANTS
    OneCleaner
    SeriesCountsOnce
PROPERTIES
    NoEarlyDeletion
    ExpiredRemoved
