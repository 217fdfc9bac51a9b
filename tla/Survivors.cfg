\* Three pids for a policy, a benchmark and what they or a stranger start; two programs, one or two pid namespaces.
SPECIFICATION Spec
CONSTANTS
    Pids = {p1, p2, p3}
    MaxBorn = 2
    MaxAttempts = 2
    MaxAccidents = 2
    Actors = {duel, check}
    Checks = {check}
    Spaces = {n1, n2}
    PidsOf = {q1, q2}
    MaxStarts = 2
    MaxContainers = 3
    MaxMishaps = 2
SYMMETRY Symmetry
INVARIANTS
    SurvivorsTypeOK
    OneAttemptAtATime
    ReadsOwnResult
    OrphansGone
    MountsBounded
PROPERTIES
    StrangersLeft
    ServedStay
CHECK_DEADLOCK FALSE
