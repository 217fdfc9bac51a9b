SPECIFICATION Spec
CONSTANTS
    Submissions = {s1, s2}
    Sizes = {full}
    None = None
    Writers = {"daemon", "cli"}
    Cuts = {"signature"}
    Baseline = None
    ByHand = {}
    IoErrors = FALSE
    MaxBlock = 2
    MaxFaults = 1
INVARIANT
    PublishedIsRecorded
