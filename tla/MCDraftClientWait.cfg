CONSTANTS
    Locals = {a}
    Drives = {d}
    MaxAdds = 2
    MaxDrops = 0
    MaxSends = 2
    MaxFaults = 0
    None = None
SPECIFICATION FairSpec
PROPERTIES
    WaitIsBounded
CHECK_DEADLOCK FALSE
