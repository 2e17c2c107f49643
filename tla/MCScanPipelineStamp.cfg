\* A rescan before the first finalize.
CONSTANTS
    Files = {f1}
    Large = {}
    Keys = {k1}
    Requests = {q1}
    Runs = {r1}
    None = None
    Stamps = {1, 2, 3, 4}
    MaxQueue = 1
    MaxFaults = 0
SPECIFICATION Spec
INVARIANTS
    SubmittedHasKey
CHECK_DEADLOCK FALSE
