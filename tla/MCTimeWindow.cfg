\* Resolution 8 (timer period 2), two columns; events up to 6 units old,
\* the most (Columns - 5/4) * Resolution allows; an on-time timer.
CONSTANTS
    Resolution = 8
    Columns = 2
    MaxEventAge = 6
    Lateness = 0
    MaxTime = 20
    MaxCount = 1
SPECIFICATION TwSpec
INVARIANT WindowCoversRecent
\* The clock stops at MaxTime, the end of the bounded run.
CHECK_DEADLOCK FALSE
