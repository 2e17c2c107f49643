CONSTANTS
    Browser = {a}
    Drive = {d}
    Runs = {r1, r2}
    MaxFaults = 1
    None = None
SPECIFICATION FairSpec
INVARIANTS
    TypeOK
    LandedIsStored
PROPERTIES
    SweepSparesOwned
    NothingLingers
CHECK_DEADLOCK FALSE
