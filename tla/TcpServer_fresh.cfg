\* Two connections, so that one preempts the other.
CONSTANTS
    Conns = {1, 2}
    MaxMsgs = 2
    Overlap = TRUE
SPECIFICATION Spec
PROPERTY SilentOnlyCut
CHECK_DEADLOCK FALSE
