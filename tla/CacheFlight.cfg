SPECIFICATION Spec
CONSTANTS
    None = None
    Slots = {s1, s2, s3}
    MaxLookups = 3
    Gates = {g1, g2, g3, g4}
    Modes = {TRUE, FALSE}
    Outcomes = {"answer", "uncacheable", "timeout", "failed"}
INVARIANTS
    NoStaleWake
PROPERTIES
    SyncLookupEnds
CHECK_DEADLOCK FALSE
