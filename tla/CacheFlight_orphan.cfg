SPECIFICATION Spec
CONSTANTS
    None = None
    Slots = {s1, s2}
    MaxLookups = 2
    Gates = {g1, g2, g3}
    Modes = {TRUE}
    Outcomes = {"answer", "failed"}
PROPERTIES
    LookupEnds
CHECK_DEADLOCK FALSE
