\* A container's policy and three calls of any kind: one to be late, one to be answered by it, one after.
SPECIFICATION FairSpec
CONSTANTS
    Runtime = "docker"
    Ops = {"hello", "call", "close", "junk"}
    MaxCalls = 3
INVARIANTS
    SessionTypeOK
    ChargedFairly
PROPERTIES
    ImplementsCalls
    LeavesNobodyWaiting
    CallsEnd
    ServerEnds
CHECK_DEADLOCK FALSE
