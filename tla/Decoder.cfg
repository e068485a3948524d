\* One session thread, two connections, the real backlog bound, two buffers.
CONSTANTS
    Threads = {s1}
    Indices = {i1, i2}
    MaxBacklog = 2
    Prompt = TRUE
    MaxConns = 2
    MaxFrames = 5
SPECIFICATION FairSpec
INVARIANTS NoIdleBuffer NoBufferLost
PROPERTIES ReferenceIntegrity BacklogDrains
CHECK_DEADLOCK FALSE
