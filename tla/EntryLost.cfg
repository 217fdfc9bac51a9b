SPECIFICATION Spec
CONSTANTS
    Submissions = {s1, s2}
    Sizes = {full}
    None = None
    Writers = {"daemon", "cli"}
    Cuts = {}
    Baseline = None
    ByHand = {s2}
    IoErrors = FALSE
    MaxBlock = 3
    MaxFaults = 2
PROPERTY
    EntryNotLost
