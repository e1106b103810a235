\* The timer task may run up to one unit (an eighth of a column) late.
CONSTANTS
    Resolution = 8
    Columns = 2
    MaxEventAge = 6
    Lateness = 1
    MaxTime = 20
    MaxCount = 1
SPECIFICATION TwSpec
INVARIANT WindowCoversRecent
\* The clock stops at MaxTime, the end of the bounded run.
CHECK_DEADLOCK FALSE
