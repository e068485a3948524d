\* The encoder by itself; one Invoke between its check of callback_ and its call is
\* enough for the violation.
CONSTANTS
    Workers = {w1, w2}
    Credits = 2
    MapBound = 3
    MaxFrames = 4
SPECIFICATION Spec
INVARIANT NoEmptyCall
CHECK_DEADLOCK FALSE
