\* The real queue bound; a backoff that doubles before it is capped (1, 2, 3)
\* and a sequence number that wraps within a connection.
CONSTANTS
    MaxQueue = 2
    MinBackoff = 1
    MaxBackoff = 3
    Slice = 2
    SeqMod = 3
    MaxFrames = 3
    MaxFlips = 2
SPECIFICATION Spec
PROPERTY OldestNonIdrGoes
CHECK_DEADLOCK FALSE
