\* Two units, both sides; kills anywhere, torn result lines, a prompt written over.
SPECIFICATION FairSpec
CONSTANTS
    N = 2
    Sides <- MCSides
    MaxVoid = 1
    TornIn = {"results"}
    Changes = TRUE
    MaxFaults = 2
    Skills = {1, 2}
    SkillMaps <- MCSkillMaps
    Margins = {1, 75}
INVARIANTS
    TypeOK
    CountsForBoth
    SamePrompt
    CrownByPairs
PROPERTY
    DuelDecided
CHECK_DEADLOCK FALSE
