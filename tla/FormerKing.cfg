SPECIFICATION Spec
CONSTANTS
    Submissions = {s1, s2}
    Sizes = {full}
    None = None
    Writers = {"daemon", "cli"}
    Cuts = {"body", "signature", "newline"}
    Baseline = None
    ByHand = {s1, s2}
    IoErrors = FALSE
    MaxBlock = 3
    MaxFaults = 1
INVARIANT
    NeverAgainstFormerKing
