\* Two connections, the loop and the command line; one submission at two sizes is queued, refused and taken.
SPECIFICATION FairSpec
CONSTANTS
    Submissions = {s1}
    Sizes = {full, smoke}
    None = None
    Conns = {c1, c2}
    MaxSlots = 2
    MaxRequests = 2
    MaxFaults = 2
INVARIANTS
    IntakeTypeOK
    SlotsHeld
    ShowsOwnChanges
    NothingForgotten
PROPERTIES
    NeverOlder
    RequestsEnd
CHECK_DEADLOCK FALSE
