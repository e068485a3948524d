\* Two connections, so that one preempts the other; a message on each.
CONSTANTS
    Conns = {1, 2}
    MaxMsgs = 1
    Overlap = TRUE
SPECIFICATION FairSpec
INVARIANT OneConnection
PROPERTIES NewestKept SilentEnds ShutdownEnds
CHECK_DEADLOCK FALSE
