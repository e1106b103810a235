\* Two overlapping pull() calls (the periodic pull and another caller), the
\* remote receiving two commits meanwhile, fetch and merge never failing.
CONSTANTS
    c1 = c1
    c2 = c2
    Callers <- MCCallers
    MaxCommit = 3
    MaxPulls = 1
    Faults = FALSE
SPECIFICATION GitSpec
PROPERTY LastCommitNeverBack
\* Once every pull has been made and the remote has its last commit,
\* nothing is left to do.
CHECK_DEADLOCK FALSE
