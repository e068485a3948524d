\* The queue bound of the code; a backoff that doubles up to its cap; a
\* sequence number that wraps within a connection; three frames fill the
\* queue and trim it.
CONSTANTS
    MaxQueue = 2
    MinBackoff = 1
    MaxBackoff = 2
    Slice = 1
    SeqMod = 2
    MaxFrames = 3
    MaxFlips = 1
SPECIFICATION FairSpec
INVARIANTS QueueBound IdrOnlyAtFront Accounted InOrder FreshAfterConnect
INVARIANTS StopIsPrompt BackoffHolds
PROPERTIES WireSpec StopReturns HeartbeatSent Reconnects
CHECK_DEADLOCK FALSE
