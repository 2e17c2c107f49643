\* Two scanned files: partial snapshots, claims and sends, without the reaper.
CONSTANTS
    Files = {f1, f2}
    Large = {}
    Keys = {k1}
    Requests = {q1}
    Runs = {}
    None = None
    Stamps = {1, 2, 3, 4}
    MaxQueue = 1
    MaxFaults = 0
SPECIFICATION Spec
SYMMETRY Symmetry
INVARIANTS
    SharedIsSettled
PROPERTIES
    ArmedOnlyWhenLost
CHECK_DEADLOCK FALSE
