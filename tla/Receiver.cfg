\* Two connections, one after the other; a handshake and two frames on each;
\* one buffer, so that frames wait for it.
CONSTANTS
    Conns = {1, 2}
    MaxMsgs = 3
    Overlap = FALSE
    Indices = {i1}
    MaxBacklog = 2
    Prompt = TRUE
SPECIFICATION Spec
INVARIANTS NoBufferLost IdleIsClean
CHECK_DEADLOCK FALSE
