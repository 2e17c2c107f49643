\* One file, one sender, the reaper, two faults.
CONSTANTS
    Files = {f1}
    Large = {}
    Keys = {k1}
    Requests = {q1}
    Runs = {r1}
    None = None
    Stamps = {1, 2, 3, 4}
    MaxQueue = 1
    MaxFaults = 2
SPECIFICATION FairSpec
PROPERTIES
    SubmittedIsAnswered
    ArmedOnlyWhenLost
CHECK_DEADLOCK FALSE
