\* No failures, post = move; stop() may come at any time.
CONSTANTS
    s1 = s1
    s2 = s2
    f1 = f1
    f2 = f2
    f3 = f3
    n1 = n1
    o1 = o1
    NoService = NoService
    NoFile = NoFile
    MaxTicks = 1
    MaxModules = 0
    ModuleClasses = {}
    Sources <- MCSources
    Files <- MCFiles
    ServiceNames <- MCServiceNames
    ServiceObjects <- MCServiceObjects
    InitialFiles = {f1, f2}
    PostConfig <- MCPostMove
    Faults = FALSE
SPECIFICATION FsSpec
INVARIANT NoLockedFileAfterExit
CHECK_DEADLOCK FALSE
