\* Two racing downloads, two sender requests, two overlapping cron runs.
CONSTANTS
    Files = {f1, f2}
    Released = {f1, f2}
    Requests = {q1, q2}
    Owners = {o1}
    Runs = {r1, r2}
    None = None
    ExpiresAt = 1
    PurgeDelay = 2
    UrlTTL = 1
    RequestLimit = 1
    Horizon = 2
    MaxFaults = 1
SPECIFICATION Spec
SYMMETRY Symmetry
INVARIANTS
    TypeOK
    NoStrandedBytes
    OpenLinkHasBytes
    LiveUrlHasBytes
    OneShotCloses
    AuditMatchesReason
PROPERTIES
    OneWay
    OnlyOwnerSkipsGrace
    ImplementsContract
CHECK_DEADLOCK FALSE
