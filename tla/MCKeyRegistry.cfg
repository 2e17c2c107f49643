CONSTANTS
    tab1 = tab1
    tab2 = tab2
    Pages = {tab1, tab2}
    MaxCalls = 3
    Uses <- MCUses
    MaxFaults = 2
    None = None
SPECIFICATION FairSpec
INVARIANTS
    TypeOK
    ReadyIsHeld
    ClickFindsKey
    LeftIsReleased
    ResumeIsCarried
PROPERTIES
    ViewsSettle
CHECK_DEADLOCK FALSE
