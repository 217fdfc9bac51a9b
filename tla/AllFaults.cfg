SPECIFICATION Spec
CONSTANTS
    Submissions = {s1, s2}
    Sizes = {full}
    None = None
    Writers = {"daemon", "cli"}
    Cuts = {"body", "signature", "newline"}
    Baseline = None
    ByHand = {s1, s2}
    IoErrors = TRUE
    MaxBlock = 2
    MaxFaults = 2
SYMMETRY Symmetry
INVARIANTS
    UniqueKeys
    SeqContiguous
    HeadBacked
    EventsMatch
    OneRecordPerEvent
    VerifiesAtRest
PROPERTIES
    NoOvertaking
    SignedLinesKept
    AgainstHolderIfCurrent
    RecordedDuelNotDropped
