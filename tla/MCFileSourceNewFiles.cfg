\* A file may arrive after the sources went idle; no failures, post = move.
CONSTANTS
    s1 = s1
    s2 = s2
    f1 = f1
    f2 = f2
    f3 = f3
    n1 = n1
    o1 = o1
    NoService = NoService
    NoFile = NoFile
    MaxTicks = 2
    MaxModules = 0
    ModuleClasses = {}
    Sources <- MCSources
    Files <- MCFiles
    ServiceNames <- MCServiceNames
    ServiceObjects <- MCServiceObjects
    InitialFiles = {}
    PostConfig <- MCPostMove
    Faults = FALSE
SPECIFICATION FsSpec
PROPERTY NewFilesEventuallyRead
CHECK_DEADLOCK FALSE
