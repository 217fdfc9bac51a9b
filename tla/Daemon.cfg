SPECIFICATION Spec
CONSTANTS
    Submissions = {s1, s2}
    Sizes = {full}
    None = None
    Writers = {"daemon", "cli"}
    Cuts = {"body", "signature", "newline"}
    Baseline = None
    ByHand = {}
    IoErrors = FALSE
    MaxBlock = 3
    MaxFaults = 2
SYMMETRY Symmetry
INVARIANT
    HeadCurrentAtRest
PROPERTY
    ImplementsLineage
