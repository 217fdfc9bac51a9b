\* One unit, both sides; a manifest line is cut by a kill.
SPECIFICATION Spec
CONSTANTS
    N = 1
    Sides <- MCSides
    MaxVoid = 1
    TornIn = {"manifest"}
    Changes = FALSE
    MaxFaults = 2
    Skills = {1}
    SkillMaps <- MCSkillMaps
    Margins = {1, 75}
INVARIANT
    SamePrompt
CHECK_DEADLOCK FALSE
