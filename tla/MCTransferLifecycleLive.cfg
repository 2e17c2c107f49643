\* Liveness: one visitor, one sender and one cron worker.
CONSTANTS
    Files = {f1, f2}
    Released = {f1, f2}
    Requests = {q1}
    Owners = {o1}
    Runs = {r1}
    None = None
    ExpiresAt = 1
    PurgeDelay = 2
    UrlTTL = 1
    RequestLimit = 1
    Horizon = 2
    MaxFaults = 1
SPECIFICATION FairSpec
PROPERTY ExpiredIsPurged
CHECK_DEADLOCK FALSE
