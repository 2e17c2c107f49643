\* Two racing polls or rescans, the reaper and the scanner on one file, next to
\* a file too large to be scanned.
CONSTANTS
    Files = {f1, f2}
    Large = {f2}
    Keys = {k1, k2}
    Requests = {q1, q2}
    Runs = {r1}
    None = None
    Stamps = {1, 2, 3, 4, 5, 6, 7}
    MaxQueue = 1
    MaxFaults = 0
SPECIFICATION Spec
SYMMETRY Symmetry
INVARIANTS
    TypeOK
    SharedIsSettled
    SharedUnderOneKey
PROPERTIES
    ArmedOnlyWhenLost
    ImplementsGate
CHECK_DEADLOCK FALSE
