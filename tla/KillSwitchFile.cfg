SPECIFICATION SwitchSpec
CONSTANTS
    Callers = {c1, c2, c3}
    Inodes = {i1, i2, i3, i4, i5}
    None = None
    InitialFile = {"ACTIVE", "INACTIVE", "empty", None}
    WriteFaults = TRUE
    MaxCalls = 4
SYMMETRY Symmetry
INVARIANT ActivationSticks
PROPERTY CleanOnlyDeactivateOpens
CHECK_DEADLOCK FALSE
