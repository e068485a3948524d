\* Two connections that may overlap; a handshake and a frame on each.
CONSTANTS
    Conns = {1, 2}
    MaxMsgs = 2
    Overlap = TRUE
    Indices = {i1}
    MaxBacklog = 2
    Prompt = TRUE
SPECIFICATION Spec
INVARIANT NoBufferLost
CHECK_DEADLOCK FALSE
