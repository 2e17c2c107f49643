\* The manual feed racing the other two.
CONSTANTS
    Files = {f1, f2}
    Released = {f1, f2}
    Requests = {q1}
    Owners = {o1}
    Runs = {r1}
    None = None
    ExpiresAt = 1
    PurgeDelay = 2
    UrlTTL = 1
    RequestLimit = 1
    Horizon = 3
    MaxFaults = 1
SPECIFICATION Spec
INVARIANT ManualEventOnlyIfApplied
CHECK_DEADLOCK FALSE
