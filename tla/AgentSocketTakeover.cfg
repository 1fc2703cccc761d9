SPECIFICATION Spec
CONSTANTS
    old = old
    new = new
    Procs = {old, new}
    MaxInodes = 3
    Overlap = TRUE
    Tampering = FALSE
PROPERTY
    RemovesOnlyItsOwn
CHECK_DEADLOCK FALSE
