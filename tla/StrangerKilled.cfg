\* Three pids, one attempt and one kill; what concerns containers is cut to nothing.
SPECIFICATION Spec
CONSTANTS
    Pids = {p1, p2, p3}
    MaxBorn = 2
    MaxAttempts = 1
    MaxAccidents = 1
    Actors = {duel}
    Checks = {}
    Spaces = {n1}
    PidsOf = {q1}
    MaxStarts = 1
    MaxContainers = 1
    MaxMishaps = 0
SYMMETRY Symmetry
PROPERTY
    OnlyRecordedReaped
CHECK_DEADLOCK FALSE
