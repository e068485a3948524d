\* Two threads, so that two Invokes overlap; two open requests; a map bound
\* that is reached; up to two transforms per enumeration.
CONSTANTS
    Workers = {w1, w2}
    Credits = 2
    MapBound = 2
    MaxFrames = 3
    MaxMfts = 2
SPECIFICATION StartupFairSpec
INVARIANTS NoIdleRequest Accounted Unwound Alive Usable
PROPERTIES InOrder AllComesOut
CHECK_DEADLOCK FALSE
