\* A frame time of two ticks and a poll of one, so that polls, a frame late
\* by less than a frame time and one late by more than two all occur; three
\* versions of the desktop; a run without --duration, too.
CONSTANTS
    T = 2
    Poll = 1
    None = None
    Durations = {None, 3}
    MaxScreen = 3
SPECIFICATION FairSpec
INVARIANTS FrameReturned RealPicture
PROPERTIES NoBurst EventuallyShown StaticStillSent LoopEnds
