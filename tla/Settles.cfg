SPECIFICATION FairSpec
CONSTANTS
    Submissions = {s1, s2}
    Sizes = {full, smoke}
    None = None
    Writers = {"daemon", "cli"}
    Cuts = {"newline"}
    Baseline = s1
    ByHand = {s2}
    IoErrors = FALSE
    MaxBlock = 3
    MaxFaults = 1
INVARIANTS
    BaselineFirst
    RunHoldsRequest
PROPERTIES
    DuelSettles
    OutcomesKept
