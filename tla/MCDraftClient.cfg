CONSTANTS
    Locals = {a, b}
    Drives = {d}
    MaxAdds = 2
    MaxDrops = 1
    MaxSends = 1
    MaxFaults = 1
    None = None
SPECIFICATION FairSpec
INVARIANTS
    TypeOK
    SentUnderOneKey
    SentAsListed
    DoneIsLanded
    QuietIsAgreed
PROPERTIES
    RegistrationSettles
    SendConcludes
CHECK_DEADLOCK FALSE
