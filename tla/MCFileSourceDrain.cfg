\* All three files present at start, no failures, one source with
\* post = delete and one with post = move.
CONSTANTS
    s1 = s1
    s2 = s2
    f1 = f1
    f2 = f2
    f3 = f3
    n1 = n1
    o1 = o1
    NoService = NoService
    NoFile = NoFile
    MaxTicks = 1
    MaxModules = 0
    ModuleClasses = {}
    Sources <- MCSources
    Files <- MCFiles3
    ServiceNames <- MCServiceNames
    ServiceObjects <- MCServiceObjects
    InitialFiles = {f1, f2, f3}
    PostConfig <- MCPostDeleteMove
    Faults = FALSE
SPECIFICATION FsSpec
INVARIANT ReadAtMostOnce
PROPERTY DirectoryDrained
\* After "closed" the process has exited; no other state is terminal.
CHECK_DEADLOCK FALSE
